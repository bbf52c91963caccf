---------------------------- MODULE FinancialProofs ----------------------------
(***************************************************************************)
(* What every financial operation relies on, its idempotency record and    *)
(* its row of the outbox, both written by its transaction.                 *)
(*                                                                         *)
(* The records keep their promise for every number of calls, keys and      *)
(* requests.  For every number of publishers and rows, every limit and     *)
(* every number of attempts: what is published was emitted once more than  *)
(* it was lost, every round has its attempts, and a published row is never *)
(* touched.                                                                *)
(***************************************************************************)
EXTENDS IdempotentCommand, FinancialOutbox, TLAPS

-----------------------------------------------------------------------------
(* The idempotency records.                                                *)

Open == {"run", "record", "commit"}

\* An uncommitted insertion belongs to the one attempt that is executing the
\* command of a key that has no record.
HolderInv ==
  /\ \A k \in Keys : holder[k] # None =>
       att[holder[k]].key = k /\ att[holder[k]].pc \in Open /\ rec[k].status = "NONE"
  /\ \A a \in Attempts : att[a].pc \in Open => holder[att[a].key] = a
  /\ \A a \in Attempts : att[a].pc = "commit" => att[a].status = "COMPLETED"

\* A record that is visible is completed and describes the one execution.
RecordInv ==
  \A k \in Keys :
    IF rec[k].status = "NONE"
    THEN rec[k].req = None /\ rec[k].by = None /\ effects[k] = {}
    ELSE /\ rec[k].status = "COMPLETED" /\ rec[k].by \in Attempts /\ effects[k] = {rec[k].by}
         /\ att[rec[k].by].key = k /\ att[rec[k].by].req = rec[k].req

\* Answers follow from the record, which never changes once it is there.
AnswerInv ==
  \A a \in Attempts :
    /\ answer[a] = None <=> att[a].pc # "done"
    /\ att[a].pc = "prior" => rec[att[a].key].status # "NONE"
    /\ att[a].pc = "reply" => rec[att[a].key].by = a
    /\ answer[a] \in Attempts => rec[att[a].key].by = answer[a] /\ rec[att[a].key].req = att[a].req
    /\ answer[a] = "REUSED" => rec[att[a].key].status # "NONE" /\ rec[att[a].key].req # att[a].req
    /\ answer[a] # "IN_PROGRESS"

CommandInv == TypeOK /\ HolderInv /\ RecordInv /\ AnswerInv

AttType == [pc : PCs, key : Keys \cup {None}, req : Requests \cup {None}, status : RowStatuses]

\* Moving an attempt on changes neither its key, nor its request, nor its row.
LEMMA GoesKeeps ==
  ASSUME TypeOK, NEW a \in Attempts, NEW pc \in PCs, Goes(a, pc)
  PROVE  /\ att' \in [Attempts -> AttType]
         /\ \A b \in Attempts : /\ att'[b].key = att[b].key /\ att'[b].req = att[b].req
                                /\ att'[b].status = att[b].status
                                /\ att'[b].pc = IF b = a THEN pc ELSE att[b].pc
  BY DEF TypeOK, Goes, AttType

\* None is no attempt, key, request or outcome, and no attempt is an outcome.
LEMMA Names ==
  /\ None \notin Attempts /\ None \notin Keys /\ None \notin Requests /\ None \notin Outcomes
  /\ \A x \in Attempts : x \notin Outcomes
  BY CommandAssumption DEF Outcomes

\* Before any call the invariant of the commands holds.
LEMMA InitEstablishes == Init => CommandInv
<1> SUFFICES ASSUME Init PROVE CommandInv
  OBVIOUS
<1>1. TypeOK
  BY DEF Init, TypeOK, Idle, NoRow, PCs, RowStatuses
<1>2. HolderInv
  BY DEF Init, HolderInv, Idle, Open
<1>3. RecordInv
  BY DEF Init, RecordInv, NoRow
<1>4. AnswerInv
  BY Names DEF Init, AnswerInv, Idle, Outcomes
<1> QED BY <1>1, <1>2, <1>3, <1>4 DEF CommandInv

-----------------------------------------------------------------------------
(* Every step that ends a call ends it with an answer the record allows.   *)

Allowed(a, x) ==
  /\ x \in Attempts \cup {"REUSED", "ERROR", "LOST"}
  /\ x \in Attempts => rec[att[a].key].by = x /\ rec[att[a].key].req = att[a].req
  /\ x = "REUSED" => rec[att[a].key].status # "NONE" /\ rec[att[a].key].req # att[a].req

\* A call that is answered, or dies, leaves its key to the others and every record as it is.
LEMMA EndsPreserves ==
  ASSUME CommandInv, NEW a \in Attempts, att[a].pc \notin {"idle", "done"},
         NEW x, Allowed(a, x), Ends(a, x)
  PROVE  CommandInv'
<1>0. TypeOK /\ HolderInv /\ RecordInv /\ AnswerInv
  BY DEF CommandInv
<1>1. /\ att' \in [Attempts -> AttType]
      /\ \A b \in Attempts : /\ att'[b].key = att[b].key /\ att'[b].req = att[b].req
                             /\ att'[b].status = att[b].status
                             /\ att'[b].pc = IF b = a THEN "done" ELSE att[b].pc
  <2>1. Goes(a, "done") /\ "done" \in PCs
    BY DEF Ends, PCs
  <2> QED BY <1>0, <2>1, GoesKeeps
<1>2. /\ answer' = [answer EXCEPT ![a] = x] /\ UNCHANGED <<rec, active, effects>>
      /\ holder' = [k \in Keys |-> IF holder[k] = a THEN None ELSE holder[k]]
      /\ order' = IF order = a THEN None ELSE order
  BY DEF Ends, Unlocks
<1>3. TypeOK'
  <2>1. \A b \in Attempts : (att'[b].pc = "idle" <=> att'[b].key = None)
                            /\ (att'[b].key = None <=> att'[b].req = None)
    BY <1>0, <1>1 DEF TypeOK
  <2>2. holder' \in [Keys -> Attempts \cup {None}] /\ order' \in Attempts \cup {None}
    BY <1>0, <1>2 DEF TypeOK
  <2>3. answer' \in [Attempts -> Attempts \cup Outcomes \cup {None}]
    BY <1>0, <1>2 DEF TypeOK, Allowed, Outcomes
  <2> QED BY <1>0, <1>1, <1>2, <2>1, <2>2, <2>3 DEF TypeOK, AttType
<1>4. HolderInv'
  <2>1. ASSUME NEW k \in Keys, holder'[k] # None
        PROVE  att'[holder'[k]].key = k /\ att'[holder'[k]].pc \in Open /\ rec'[k].status = "NONE"
    <3>1. holder[k] # a /\ holder'[k] = holder[k] /\ holder[k] \in Attempts
      BY <1>0, <1>2, <2>1 DEF TypeOK
    <3> QED BY <1>0, <1>1, <1>2, <2>1, <3>1 DEF HolderInv
  <2>2. ASSUME NEW b \in Attempts, att'[b].pc \in Open PROVE holder'[att'[b].key] = b
    <3>1. b # a /\ att[b].pc \in Open
      BY <1>1, <2>2 DEF Open
    <3>2. att[b].key \in Keys /\ holder[att[b].key] = b
      BY <1>0, <3>1 DEF HolderInv, TypeOK, Open
    <3> QED BY <1>1, <1>2, <3>1, <3>2
  <2>3. \A b \in Attempts : att'[b].pc = "commit" => att'[b].status = "COMPLETED"
    BY <1>0, <1>1 DEF HolderInv
  <2> QED BY <2>1, <2>2, <2>3 DEF HolderInv
<1>5. RecordInv'
  BY <1>0, <1>1, <1>2 DEF RecordInv
<1>6. AnswerInv'
  <2>1. ASSUME NEW b \in Attempts, b # a
        PROVE  /\ answer'[b] = answer[b] /\ att'[b].pc = att[b].pc
               /\ att'[b].key = att[b].key /\ att'[b].req = att[b].req /\ rec' = rec
    BY <1>0, <1>1, <1>2, <2>1 DEF TypeOK
  <2>2. answer'[a] = x /\ att'[a].pc = "done" /\ att'[a].key = att[a].key /\ att'[a].req = att[a].req
    BY <1>0, <1>1, <1>2 DEF TypeOK
  <2>3. x # None /\ x # "IN_PROGRESS"
    BY Names DEF Allowed, Outcomes
  <2> QED BY <1>0, <1>2, <2>1, <2>2, <2>3 DEF AnswerInv, Allowed
<1> QED BY <1>3, <1>4, <1>5, <1>6 DEF CommandInv

-----------------------------------------------------------------------------
(* Steps within a transaction.                                             *)

\* A step that moves an attempt between places where it has nothing open.
LEMMA MovePreserves ==
  ASSUME CommandInv, NEW a \in Attempts, NEW pc \in PCs \ {"idle", "done", "reply"}, Goes(a, pc),
         att[a].pc \notin {"idle", "done"},
         pc \in Open <=> att[a].pc \in Open, pc # "commit",
         pc = "prior" => rec[att[a].key].status # "NONE",
         order' \in Attempts \cup {None}, UNCHANGED <<rec, holder, active, effects, answer>>
  PROVE  CommandInv'
<1>0. TypeOK /\ HolderInv /\ RecordInv /\ AnswerInv
  BY DEF CommandInv
<1>1. /\ att' \in [Attempts -> AttType]
      /\ \A b \in Attempts : /\ att'[b].key = att[b].key /\ att'[b].req = att[b].req
                             /\ att'[b].status = att[b].status
                             /\ att'[b].pc = IF b = a THEN pc ELSE att[b].pc
  BY <1>0, GoesKeeps
<1>2. TypeOK'
  BY <1>0, <1>1 DEF TypeOK, AttType
<1>3. HolderInv'
  <2>1. \A b \in Attempts : (att'[b].pc \in Open <=> att[b].pc \in Open)
                            /\ (att'[b].pc = "commit" => att[b].pc = "commit")
    BY <1>1
  <2>2. \A k \in Keys : holder[k] \in Attempts \cup {None}
    BY <1>0 DEF TypeOK
  <2>3. \A k \in Keys : holder[k] # None =>
          att'[holder[k]].key = k /\ att'[holder[k]].pc \in Open /\ rec[k].status = "NONE"
    BY <1>0, <1>1, <2>1, <2>2 DEF HolderInv
  <2>4. \A b \in Attempts : att'[b].pc \in Open => holder[att'[b].key] = b
    BY <1>0, <1>1, <2>1 DEF HolderInv
  <2>5. \A b \in Attempts : att'[b].pc = "commit" => att'[b].status = "COMPLETED"
    BY <1>0, <1>1, <2>1 DEF HolderInv
  <2> QED BY <2>3, <2>4, <2>5 DEF HolderInv
<1>4. RecordInv'
  BY <1>0, <1>1 DEF RecordInv
<1>5. AnswerInv'
  BY <1>0, <1>1 DEF AnswerInv
<1> QED BY <1>2, <1>3, <1>4, <1>5 DEF CommandInv

\* A client's call for a key changes no record and no holder.
LEMMA SendPreserves ==
  ASSUME CommandInv, NEW a \in Attempts, NEW k \in Keys, NEW q \in Requests, Send(a, k, q)
  PROVE  CommandInv'
<1>0. TypeOK /\ HolderInv /\ RecordInv /\ AnswerInv
  BY DEF CommandInv
<1>1. att[a].pc = "idle" /\ att[a].key = None
  BY DEF Send, Idle
<1>2. PICK pc \in {"lock", "insert"} :
        att' = [att EXCEPT ![a] = [pc |-> pc, key |-> k, req |-> q, status |-> "NONE"]]
  BY DEF Send
<1>3. UNCHANGED <<rec, holder, order, active, effects, answer>>
  BY DEF Send
<1>4. /\ att' \in [Attempts -> AttType]
      /\ att'[a].pc = pc /\ att'[a].key = k /\ att'[a].req = q
      /\ \A b \in Attempts : b # a => att'[b] = att[b]
  BY <1>0, <1>2 DEF TypeOK, AttType, PCs, RowStatuses
<1>5. TypeOK'
  BY <1>0, <1>3, <1>4, Names DEF TypeOK, AttType
<1>6. HolderInv'
  <2>1. \A x \in Keys : holder[x] # None => holder[x] \in Attempts /\ holder[x] # a
    BY <1>0, <1>1 DEF HolderInv, TypeOK, Open
  <2>2. \A x \in Keys : holder[x] # None =>
          att'[holder[x]].key = x /\ att'[holder[x]].pc \in Open /\ rec[x].status = "NONE"
    BY <1>0, <1>4, <2>1 DEF HolderInv
  <2>3. \A b \in Attempts : (att'[b].pc \in Open => holder[att'[b].key] = b)
                            /\ (att'[b].pc = "commit" => att'[b].status = "COMPLETED")
    BY <1>0, <1>4 DEF HolderInv, Open
  <2> QED BY <1>3, <2>2, <2>3 DEF HolderInv
<1>7. RecordInv'
  BY <1>0, <1>1, <1>3, <1>4, Names DEF RecordInv
<1>8. AnswerInv'
  <2>1. answer[a] = None
    BY <1>0, <1>1 DEF AnswerInv
  <2> QED BY <1>0, <1>3, <1>4, <2>1, Names DEF AnswerInv, Outcomes
<1> QED BY <1>5, <1>6, <1>7, <1>8 DEF CommandInv

\* The row is inserted only when nobody else's insertion of the key is open.
LEMMA InsertPreserves ==
  ASSUME CommandInv, NEW a \in Attempts, Insert(a)
  PROVE  CommandInv'
<1> DEFINE k == att[a].key
<1>0. TypeOK /\ HolderInv /\ RecordInv /\ AnswerInv /\ att[a].pc = "insert" /\ k \in Keys
  BY DEF CommandInv, TypeOK, Insert
<1>1. CASE rec[k].status # "NONE"
  <2>1. Goes(a, "prior") /\ UNCHANGED <<rec, holder, order, active, effects, answer>>
    BY <1>1 DEF Insert
  <2>2. "prior" \in PCs \ {"idle", "done", "reply"} /\ order \in Attempts \cup {None}
    BY <1>0 DEF PCs, TypeOK
  <2> QED BY <1>0, <1>1, <2>1, <2>2, MovePreserves DEF Open
<1>2. CASE rec[k].status = "NONE"
  <2>1. /\ holder' = [holder EXCEPT ![k] = a] /\ holder[k] = None
        /\ att' = [att EXCEPT ![a] = [@ EXCEPT !.pc = "run", !.status = "IN_PROGRESS"]]
        /\ UNCHANGED <<rec, order, active, effects, answer>>
    BY <1>2 DEF Insert
  <2>2. /\ att' \in [Attempts -> AttType]
        /\ att'[a].pc = "run" /\ att'[a].key = k /\ att'[a].req = att[a].req
        /\ \A b \in Attempts : b # a => att'[b] = att[b]
    <3>1. att[a] \in AttType /\ "run" \in PCs /\ "IN_PROGRESS" \in RowStatuses
      BY <1>0 DEF TypeOK, AttType, PCs, RowStatuses
    <3> DEFINE y == [att[a] EXCEPT !.pc = "run", !.status = "IN_PROGRESS"]
    <3>2. y \in AttType /\ y.pc = "run" /\ y.key = att[a].key /\ y.req = att[a].req
      BY <3>1 DEF AttType
    <3>3. att' = [att EXCEPT ![a] = y]
      BY <2>1
    <3> HIDE DEF y
    <3> QED BY <1>0, <3>2, <3>3 DEF TypeOK, AttType
  <2>3. TypeOK'
    BY <1>0, <2>1, <2>2 DEF TypeOK, AttType
  <2>4. HolderInv'
    <3>1. \A x \in Keys : holder[x] # None => holder[x] \in Attempts /\ holder[x] # a
      BY <1>0 DEF HolderInv, TypeOK, Open
    <3>2. \A x \in Keys : x # k => holder'[x] = holder[x]
      BY <1>0, <2>1 DEF TypeOK
    <3>3. holder'[k] = a
      BY <1>0, <2>1 DEF TypeOK
    <3>4. \A x \in Keys : holder'[x] # None =>
            att'[holder'[x]].key = x /\ att'[holder'[x]].pc \in Open /\ rec[x].status = "NONE"
      <4> TAKE x \in Keys
      <4>1. CASE x = k
        BY <1>2, <2>2, <3>3, <4>1 DEF Open
      <4>2. CASE x # k /\ holder[x] # None
        <5>1. holder'[x] = holder[x] /\ att'[holder[x]] = att[holder[x]]
          BY <2>2, <3>1, <3>2, <4>2
        <5> QED BY <1>0, <4>2, <5>1 DEF HolderInv
      <4> QED BY <3>2, <4>1, <4>2
    <3>5. ASSUME NEW b \in Attempts, att'[b].pc \in Open PROVE holder'[att'[b].key] = b
      <4>1. CASE b = a
        BY <2>2, <3>3, <4>1
      <4>2. CASE b # a
        <5>1. att'[b] = att[b] /\ att[b].key \in Keys /\ holder[att[b].key] = b
          BY <1>0, <2>2, <3>5, <4>2 DEF HolderInv, TypeOK, Open
        <5>2. att[b].key # k
          BY <2>1, <5>1, Names
        <5> QED BY <3>2, <5>1, <5>2
      <4> QED BY <4>1, <4>2
    <3>6. \A b \in Attempts : att'[b].pc = "commit" => att'[b].status = "COMPLETED"
      BY <1>0, <2>2 DEF HolderInv
    <3> QED BY <2>1, <3>4, <3>5, <3>6 DEF HolderInv
  <2>5. RecordInv'
    BY <1>0, <1>2, <2>1, <2>2 DEF RecordInv
  <2>6. AnswerInv'
    BY <1>0, <2>1, <2>2 DEF AnswerInv
  <2> QED BY <2>3, <2>4, <2>5, <2>6 DEF CommandInv
<1> QED BY <1>1, <1>2

\* The executing call completes its own row only.
LEMMA RecordPreserves ==
  ASSUME CommandInv, NEW a \in Attempts, Record(a)
  PROVE  CommandInv'
<1>0. TypeOK /\ HolderInv /\ RecordInv /\ AnswerInv /\ att[a].pc = "record"
  BY DEF CommandInv, Record
<1>1. /\ att' = [att EXCEPT ![a] = [@ EXCEPT !.pc = "commit", !.status = "COMPLETED"]]
      /\ UNCHANGED <<rec, holder, order, active, effects, answer>>
  BY DEF Record
<1>2. /\ att' \in [Attempts -> AttType]
      /\ att'[a].pc = "commit" /\ att'[a].key = att[a].key /\ att'[a].req = att[a].req
      /\ att'[a].status = "COMPLETED"
      /\ \A b \in Attempts : b # a => att'[b] = att[b]
  <2>1. att[a] \in AttType /\ "commit" \in PCs /\ "COMPLETED" \in RowStatuses
    BY <1>0 DEF TypeOK, AttType, PCs, RowStatuses
  <2> DEFINE y == [att[a] EXCEPT !.pc = "commit", !.status = "COMPLETED"]
  <2>2. y \in AttType /\ y.pc = "commit" /\ y.key = att[a].key /\ y.req = att[a].req
        /\ y.status = "COMPLETED"
    BY <2>1 DEF AttType
  <2>3. att' = [att EXCEPT ![a] = y]
    BY <1>1
  <2> HIDE DEF y
  <2> QED BY <1>0, <2>2, <2>3 DEF TypeOK, AttType
<1>3. TypeOK'
  BY <1>0, <1>1, <1>2 DEF TypeOK, AttType
<1>4. HolderInv'
  BY <1>0, <1>1, <1>2 DEF HolderInv, TypeOK, Open
<1>5. RecordInv'
  BY <1>0, <1>1, <1>2 DEF RecordInv
<1>6. AnswerInv'
  BY <1>0, <1>1, <1>2 DEF AnswerInv
<1> QED BY <1>3, <1>4, <1>5, <1>6 DEF CommandInv

\* The commit turns the open insertion into the one record of the key.
LEMMA CommitPreserves ==
  ASSUME CommandInv, NEW a \in Attempts, Commit(a)
  PROVE  /\ CommandInv'
         /\ att[a].key \in Keys /\ rec[att[a].key].by = None
         /\ rec' = [rec EXCEPT ![att[a].key] = [status |-> "COMPLETED", req |-> att[a].req, by |-> a]]
<1> DEFINE k == att[a].key
<1>0. TypeOK /\ HolderInv /\ RecordInv /\ AnswerInv /\ att[a].pc = "commit" /\ k \in Keys
  BY DEF CommandInv, TypeOK, Commit
<1>1. /\ holder[k] = a /\ rec[k].status = "NONE" /\ att[a].status = "COMPLETED"
      /\ rec[k].by = None /\ effects[k] = {} /\ att[a].req \in Requests
  BY <1>0, Names DEF HolderInv, RecordInv, Open, TypeOK
<1>2. /\ Goes(a, "reply") /\ "reply" \in PCs
      /\ rec' = [rec EXCEPT ![k] = [status |-> "COMPLETED", req |-> att[a].req, by |-> a]]
      /\ effects' = [effects EXCEPT ![k] = @ \cup {a}]
      /\ active' \in BOOLEAN /\ UNCHANGED answer
      /\ holder' = [x \in Keys |-> IF holder[x] = a THEN None ELSE holder[x]]
      /\ order' = IF order = a THEN None ELSE order
  BY <1>0, <1>1 DEF Commit, Unlocks, TypeOK, PCs
<1>3. /\ att' \in [Attempts -> AttType]
      /\ \A b \in Attempts : /\ att'[b].key = att[b].key /\ att'[b].req = att[b].req
                             /\ att'[b].status = att[b].status
                             /\ att'[b].pc = IF b = a THEN "reply" ELSE att[b].pc
  BY <1>0, <1>2, GoesKeeps
<1>4. /\ rec'[k].status = "COMPLETED" /\ rec'[k].req = att[a].req /\ rec'[k].by = a
      /\ effects'[k] = {a}
      /\ \A x \in Keys : x # k => rec'[x] = rec[x] /\ effects'[x] = effects[x]
  BY <1>0, <1>1, <1>2 DEF TypeOK
<1>5. TypeOK'
  <2>1. \A b \in Attempts : (att'[b].pc = "idle" <=> att'[b].key = None)
                            /\ (att'[b].key = None <=> att'[b].req = None)
    BY <1>0, <1>3 DEF TypeOK
  <2>2. holder' \in [Keys -> Attempts \cup {None}] /\ order' \in Attempts \cup {None}
    BY <1>0, <1>2 DEF TypeOK
  <2>3. rec' \in [Keys -> [status : RowStatuses, req : Requests \cup {None}, by : Attempts \cup {None}]]
    BY <1>0, <1>1, <1>2 DEF TypeOK, RowStatuses
  <2>4. effects' \in [Keys -> SUBSET Attempts]
    BY <1>0, <1>2 DEF TypeOK
  <2> QED BY <1>0, <1>2, <1>3, <2>1, <2>2, <2>3, <2>4 DEF TypeOK, AttType
<1>6. HolderInv'
  <2>1. ASSUME NEW x \in Keys, holder'[x] # None
        PROVE  att'[holder'[x]].key = x /\ att'[holder'[x]].pc \in Open /\ rec'[x].status = "NONE"
    <3>1. holder[x] # a /\ holder'[x] = holder[x] /\ holder[x] \in Attempts /\ x # k
      BY <1>0, <1>1, <1>2, <2>1 DEF TypeOK
    <3> QED BY <1>0, <1>3, <1>4, <2>1, <3>1 DEF HolderInv
  <2>2. ASSUME NEW b \in Attempts, att'[b].pc \in Open PROVE holder'[att'[b].key] = b
    <3>1. b # a /\ att[b].pc \in Open
      BY <1>3, <2>2 DEF Open
    <3>2. att[b].key \in Keys /\ holder[att[b].key] = b
      BY <1>0, <3>1 DEF HolderInv, TypeOK, Open
    <3> QED BY <1>2, <1>3, <3>1, <3>2
  <2>3. \A b \in Attempts : att'[b].pc = "commit" => att'[b].status = "COMPLETED"
    BY <1>0, <1>3 DEF HolderInv
  <2> QED BY <2>1, <2>2, <2>3 DEF HolderInv
<1>7. RecordInv'
  BY <1>0, <1>3, <1>4 DEF RecordInv
<1>8. AnswerInv'
  <2> SUFFICES ASSUME NEW b \in Attempts
               PROVE  /\ answer[b] = None <=> att'[b].pc # "done"
                      /\ att'[b].pc = "prior" => rec'[att[b].key].status # "NONE"
                      /\ att'[b].pc = "reply" => rec'[att[b].key].by = b
                      /\ answer[b] \in Attempts =>
                           rec'[att[b].key].by = answer[b] /\ rec'[att[b].key].req = att[b].req
                      /\ answer[b] = "REUSED" =>
                           rec'[att[b].key].status # "NONE" /\ rec'[att[b].key].req # att[b].req
                      /\ answer[b] # "IN_PROGRESS"
    BY <1>2, <1>3 DEF AnswerInv
  <2>1. CASE b = a
    <3>1. answer[a] = None
      BY <1>0 DEF AnswerInv
    <3> QED BY <1>3, <1>4, <2>1, <3>1, Names DEF Outcomes
  <2>2. CASE b # a
    <3>1. att'[b].pc = att[b].pc
      BY <1>3, <2>2
    <3>2. att[b].key \in Keys \cup {None}
      BY <1>0 DEF TypeOK
    <3>3. CASE att[b].key = k
      <4>1. answer[b] \notin Attempts /\ answer[b] # "REUSED" /\ att[b].pc \notin {"prior", "reply"}
        BY <1>0, <1>1, <3>3, Names DEF AnswerInv
      <4> QED BY <1>0, <3>1, <4>1 DEF AnswerInv
    <3>4. CASE att[b].key # k /\ att[b].key \in Keys
      <4>1. rec'[att[b].key] = rec[att[b].key]
        BY <1>4, <3>4
      <4> QED BY <1>0, <3>1, <4>1 DEF AnswerInv
    <3>5. CASE att[b].key = None
      <4>1. att[b].pc = "idle" /\ answer[b] = None
        BY <1>0, <3>5 DEF TypeOK, AnswerInv
      <4> QED BY <3>1, <4>1, Names DEF Outcomes
    <3> QED BY <3>2, <3>3, <3>4, <3>5
  <2> QED BY <2>1, <2>2
<1>9. rec[att[a].key].by = None
  BY <1>1
<1> QED BY <1>0, <1>2, <1>5, <1>6, <1>7, <1>8, <1>9 DEF CommandInv

-----------------------------------------------------------------------------
(* The theorems.                                                           *)

\* Locking the order, acting and not finding a record change no record and no answer.
LEMMA MoveInside ==
  ASSUME CommandInv, NEW a \in Attempts,
         \/ LockOrder(a)
         \/ Act(a)
         \/ /\ att[a].pc = "find" /\ Goes(a, "insert")
            /\ UNCHANGED <<rec, holder, order, active, effects, answer>>
  PROVE  CommandInv' /\ UNCHANGED <<rec, answer>>
<1>1. order \in Attempts \cup {None}
  BY DEF CommandInv, TypeOK
<1>2. CASE LockOrder(a)
  <2>1. PICK pc \in {"insert", "find"} : Goes(a, pc)
    BY <1>2 DEF LockOrder
  <2> QED BY <1>2, <2>1, MovePreserves DEF LockOrder, PCs, Open
<1>3. CASE Act(a)
  BY <1>1, <1>3, MovePreserves DEF Act, PCs, Open
<1>4. CASE att[a].pc = "find" /\ Goes(a, "insert")
           /\ UNCHANGED <<rec, holder, order, active, effects, answer>>
  BY <1>1, <1>4, MovePreserves DEF PCs, Open
<1> QED BY <1>2, <1>3, <1>4

\* An ended call is elsewhere than one that goes on to the insertion.
LEMMA NotBoth ==
  ASSUME CommandInv, NEW a \in Attempts, NEW x, Goes(a, "insert") PROVE ~Ends(a, x)
<1>1. att'[a].pc = "insert"
  BY DEF CommandInv, TypeOK, Goes
<1> QED BY <1>1 DEF CommandInv, TypeOK, Ends, Goes

\* A step that answers a call gives an answer that the record allows, and an
\* error only when there is no record.
LEMMA EndingStep ==
  ASSUME CommandInv, NEW a \in Attempts,
         \/ FindPrior(a) /\ ~Goes(a, "insert")
         \/ ReadPrior(a) \/ Throw(a) \/ Reply(a) \/ Lose(a)
  PROVE  \E x : /\ Allowed(a, x) /\ Ends(a, x) /\ att[a].pc \notin {"idle", "done"}
                /\ x = "ERROR" => rec[att[a].key].by = None
<1>0. TypeOK /\ HolderInv /\ RecordInv /\ AnswerInv /\ (att[a].pc # "idle" => att[a].key \in Keys)
  BY DEF CommandInv, TypeOK
<1>1. ASSUME att[a].pc \in {"find", "prior"}, rec[att[a].key].status # "NONE", AnswersFrom(a)
      PROVE  \E x : Allowed(a, x) /\ Ends(a, x) /\ x # "ERROR"
  <2> DEFINE row == rec[att[a].key]
  <2>1. row.status = "COMPLETED" /\ row.by \in Attempts
    BY <1>0, <1>1 DEF RecordInv
  <2>2. Ends(a, IF row.req # att[a].req THEN "REUSED" ELSE row.by)
    BY <1>1, <2>1 DEF AnswersFrom
  <2>3. Allowed(a, IF row.req # att[a].req THEN "REUSED" ELSE row.by)
    BY <1>1, <2>1, Names DEF Allowed, Outcomes
  <2>4. (IF row.req # att[a].req THEN "REUSED" ELSE row.by) # "ERROR"
    BY <2>1, Names DEF Outcomes
  <2> QED BY <2>2, <2>3, <2>4
<1>2. ASSUME att[a].pc # "idle", rec[att[a].key].status = "NONE" PROVE rec[att[a].key].by = None
  BY <1>0, <1>2 DEF RecordInv
<1>3. Allowed(a, "ERROR") /\ Allowed(a, "LOST")
  BY Names DEF Allowed, Outcomes
<1>4. CASE FindPrior(a) /\ ~Goes(a, "insert")
  BY <1>1, <1>2, <1>3, <1>4 DEF FindPrior
<1>5. CASE ReadPrior(a)
  <2>1. rec[att[a].key].status # "NONE"
    BY <1>0, <1>5 DEF ReadPrior, AnswerInv
  <2> QED BY <1>1, <1>5, <2>1 DEF ReadPrior
<1>6. CASE Throw(a)
  <2>1. rec[att[a].key].status = "NONE"
    <3>1. att[a].key \in Keys /\ holder[att[a].key] = a
      BY <1>0, <1>6 DEF Throw, HolderInv, Open
    <3> QED BY <1>0, <3>1, Names DEF HolderInv
  <2> QED BY <1>2, <1>3, <1>6, <2>1 DEF Throw
<1>7. CASE Reply(a)
  <2>1. att[a].key \in Keys /\ rec[att[a].key].by = a
    BY <1>0, <1>7 DEF Reply, AnswerInv
  <2>2. rec[att[a].key].req = att[a].req
    BY <1>0, <2>1, Names DEF RecordInv
  <2>3. Allowed(a, a) /\ a # "ERROR"
    BY <2>1, <2>2, Names DEF Allowed, Outcomes
  <2> QED BY <1>7, <2>3 DEF Reply
<1>8. CASE Lose(a)
  BY <1>3, <1>8 DEF Lose
<1> QED BY <1>4, <1>5, <1>6, <1>7, <1>8

\* Every step of a call keeps the invariant of the commands.
LEMMA StepPreserves == CommandInv /\ [Next]_vars => CommandInv'
<1> SUFFICES ASSUME CommandInv, [Next]_vars PROVE CommandInv'
  OBVIOUS
<1>1. CASE UNCHANGED vars
  BY <1>1 DEF vars, CommandInv, TypeOK, HolderInv, RecordInv, AnswerInv
<1>2. CASE PaymentsChange
  BY <1>2 DEF PaymentsChange, CommandInv, TypeOK, HolderInv, RecordInv, AnswerInv
<1>3. ASSUME NEW a \in Attempts, NEW k \in Keys, NEW q \in Requests, Send(a, k, q) PROVE CommandInv'
  BY <1>3, SendPreserves
<1>4. ASSUME NEW a \in Attempts, \/ FindPrior(a) /\ ~Goes(a, "insert")
                                \/ ReadPrior(a) \/ Throw(a) \/ Reply(a) \/ Lose(a)
      PROVE  CommandInv'
  BY <1>4, EndingStep, EndsPreserves
<1>5. ASSUME NEW a \in Attempts, FindPrior(a) /\ Goes(a, "insert") PROVE CommandInv'
  <2>1. att[a].pc = "find" /\ UNCHANGED <<rec, holder, order, active, effects, answer>>
    BY <1>5, NotBoth DEF FindPrior, AnswersFrom
  <2> QED BY <1>5, <2>1, MoveInside
<1>6. ASSUME NEW a \in Attempts, Works(a) \/ Lose(a) PROVE CommandInv'
  BY <1>4, <1>5, <1>6, MoveInside, InsertPreserves, RecordPreserves, CommitPreserves DEF Works
<1> QED BY <1>1, <1>2, <1>3, <1>6 DEF Next

\* The records, the open insertions and the answers stay consistent.
THEOREM CommandInvariant == Spec => []CommandInv
  BY InitEstablishes, StepPreserves, PTL DEF Spec

\* The variables of the idempotent commands keep their types.
THEOREM CommandTypes == Spec => []TypeOK
<1>1. CommandInv => TypeOK
  BY DEF CommandInv
<1> QED BY <1>1, CommandInvariant, PTL

\* A command takes effect at most once for a key, for any number of calls.
THEOREM OnceForAKey == Spec => []AtMostOnce
<1>1. CommandInv => AtMostOnce
  BY DEF CommandInv, RecordInv, AtMostOnce
<1> QED BY <1>1, CommandInvariant, PTL

\* A result is the one of the execution under the key, for the same request.
THEOREM OneResult == Spec => []AnswersAgree
<1>1. ASSUME CommandInv, NEW a \in Attempts, answer[a] \in Attempts
      PROVE  answer[a] \in effects[att[a].key] /\ att[answer[a]].req = att[a].req
  <2>1. att[a].key \in Keys
    <3>1. att[a].pc = "done"
      BY <1>1, Names DEF CommandInv, AnswerInv
    <3> QED BY <1>1, <3>1 DEF CommandInv, TypeOK
  <2>2. rec[att[a].key].by = answer[a] /\ rec[att[a].key].req = att[a].req
    BY <1>1 DEF CommandInv, AnswerInv
  <2> QED BY <1>1, <2>1, <2>2, Names DEF CommandInv, RecordInv
<1>2. CommandInv => AnswersAgree
  BY <1>1 DEF AnswersAgree
<1> QED BY <1>2, CommandInvariant, PTL

\* A retry of the same request is never refused as another one.
THEOREM RetriesWelcome == Spec => []NoFalseRefusal
<1>1. CommandInv => NoFalseRefusal
  BY DEF CommandInv, AnswerInv, NoFalseRefusal
<1> QED BY <1>1, CommandInvariant, PTL

-----------------------------------------------------------------------------
(* Refinement: every step is a step of OnceOnly, or none of its steps.     *)

Asked == [a \in Attempts |-> [key |-> att[a].key, req |-> att[a].req]]
Done == [k \in Keys |-> [req |-> rec[k].req, by |-> rec[k].by]]

\* A call that moves on is for the same request as before.
LEMMA SameAsked ==
  ASSUME TypeOK, NEW a \in Attempts, NEW pc \in PCs, Goes(a, pc) PROVE Asked' = Asked
  BY GoesKeeps DEF Asked

\* Nothing executed and nothing asked is where OnceOnly starts.
LEMMA PromiseInit == Init => Promise!Init
  BY DEF Init, Promise!Init, Promise!Nothing, Idle, NoRow

\* An answer that the record allows is one that the promise allows.
LEMMA EndsTells ==
  ASSUME CommandInv, NEW a \in Attempts, NEW x, Allowed(a, x), Ends(a, x),
         att[a].pc \notin {"idle", "done"}, x = "ERROR" => rec[att[a].key].by = None
  PROVE  Promise!Next
<1>0. TypeOK /\ RecordInv /\ AnswerInv /\ att[a].key \in Keys /\ answer[a] = None
  BY DEF CommandInv, TypeOK, AnswerInv
<1>1. Goes(a, "done") /\ "done" \in PCs /\ answer' = [answer EXCEPT ![a] = x] /\ UNCHANGED rec
  BY DEF Ends, PCs
<1>2. Asked' = Asked
  BY <1>0, <1>1, SameAsked
<1>3. Done' = Done
  BY <1>1 DEF Done
<1>4. Promise!Told(a, x)
  BY <1>1, <1>2, <1>3 DEF Promise!Told, Asked, Done
<1>5. Promise!Waits(a)
  BY <1>0, Names DEF Promise!Waits
<1>6. Asked[a].key = att[a].key /\ Asked[a].req = att[a].req
      /\ Done[att[a].key].by = rec[att[a].key].by /\ Done[att[a].key].req = rec[att[a].key].req
  BY <1>0 DEF Asked, Done
<1>7. CASE x \in Attempts
  <2>1. Promise!Tell(a)
    BY <1>4, <1>5, <1>6, <1>7, Names DEF Promise!Tell, Asked, Done, Allowed
  <2> QED BY <2>1 DEF Promise!Next
<1>8. CASE x = "REUSED"
  <2>1. rec[att[a].key].by # None /\ rec[att[a].key].req # att[a].req
    BY <1>0, <1>8, Names DEF Allowed, RecordInv
  <2>2. Promise!RefuseReuse(a)
    BY <1>4, <1>5, <1>6, <1>8, <2>1 DEF Promise!RefuseReuse, Asked, Done
  <2> QED BY <2>2 DEF Promise!Next
<1>9. CASE x = "ERROR"
  <2>1. Promise!Fail(a)
    BY <1>4, <1>5, <1>6, <1>9 DEF Promise!Fail, Asked, Done
  <2> QED BY <2>1 DEF Promise!Next
<1>10. CASE x = "LOST"
  <2>1. Promise!Lose(a)
    BY <1>4, <1>5, <1>10 DEF Promise!Lose
  <2> QED BY <2>1 DEF Promise!Next
<1> QED BY <1>7, <1>8, <1>9, <1>10 DEF Allowed

\* Sending a request is asking in OnceOnly.
LEMMA SendAsks ==
  ASSUME CommandInv, NEW a \in Attempts, NEW k \in Keys, NEW q \in Requests, Send(a, k, q)
  PROVE  Promise!Next
<1>1. PICK pc : att' = [att EXCEPT ![a] = [pc |-> pc, key |-> k, req |-> q, status |-> "NONE"]]
  BY DEF Send
<1>2. att[a].key = None /\ att[a].req = None /\ UNCHANGED <<rec, answer>> /\ att \in [Attempts -> AttType]
  BY DEF Send, Idle, CommandInv, TypeOK, AttType
<1>3. Asked' = [Asked EXCEPT ![a] = [key |-> k, req |-> q]]
  BY <1>1, <1>2 DEF Asked
<1>4. Asked[a] = [key |-> None, req |-> None]
  BY <1>2 DEF Asked
<1>5. Done' = Done
  BY <1>2 DEF Done
<1>6. Promise!Ask(a, k, q)
  BY <1>2, <1>3, <1>4, <1>5 DEF Promise!Ask, Promise!Nothing, Asked, Done
<1> QED BY <1>6 DEF Promise!Next

\* The commit is the one execution of its key in OnceOnly.
LEMMA CommitExecutes ==
  ASSUME CommandInv, NEW a \in Attempts, Commit(a)
  PROVE  Promise!Next
<1>0. TypeOK /\ att[a].pc = "commit" /\ answer[a] = None /\ att[a].key \in Keys
      /\ rec[att[a].key].by = None
      /\ rec' = [rec EXCEPT ![att[a].key] = [status |-> "COMPLETED", req |-> att[a].req, by |-> a]]
  BY CommitPreserves DEF CommandInv, AnswerInv, Commit
<1>1. Goes(a, "reply") /\ "reply" \in PCs /\ UNCHANGED answer
  BY DEF Commit, PCs
<1>2. Asked' = Asked
  BY <1>0, <1>1, SameAsked
<1>3. Done' = [Done EXCEPT ![att[a].key] = [req |-> att[a].req, by |-> a]]
  BY <1>0 DEF Done, TypeOK
<1>4. Asked[a].key = att[a].key /\ Asked[a].req = att[a].req /\ Done[att[a].key].by = None
  BY <1>0 DEF Asked, Done
<1>5. Promise!Execute(a)
  BY <1>0, <1>1, <1>2, <1>3, <1>4, Names DEF Promise!Execute, Promise!Waits, Asked, Done
<1> QED BY <1>5 DEF Promise!Next

\* Steps inside a transaction are invisible.
LEMMA InsideIsQuiet ==
  ASSUME CommandInv, NEW a \in Attempts,
         \/ LockOrder(a) \/ Insert(a) \/ Act(a) \/ Record(a)
         \/ FindPrior(a) /\ Goes(a, "insert")
  PROVE  UNCHANGED Promise!vars
<1>0. TypeOK
  BY DEF CommandInv
<1>1. UNCHANGED <<rec, answer>>
  BY NotBoth DEF LockOrder, Insert, Act, Record, FindPrior, AnswersFrom
<1>2. Asked' = Asked
  <2>1. CASE \E pc \in PCs : Goes(a, pc)
    BY <1>0, <2>1, SameAsked
  <2>2. CASE \E pc \in PCs, s \in RowStatuses :
               att' = [att EXCEPT ![a] = [@ EXCEPT !.pc = pc, !.status = s]]
    <3>1. PICK pc \in PCs, s \in RowStatuses :
               att' = [att EXCEPT ![a] = [@ EXCEPT !.pc = pc, !.status = s]]
      BY <2>2
    <3>2. att[a] \in AttType
      BY <1>0 DEF TypeOK, AttType
    <3> DEFINE y == [att[a] EXCEPT !.pc = pc, !.status = s]
    <3>3. y.key = att[a].key /\ y.req = att[a].req
      BY <3>2 DEF AttType
    <3>4. att' = [att EXCEPT ![a] = y]
      BY <3>1
    <3> HIDE DEF y
    <3> QED BY <1>0, <3>3, <3>4 DEF Asked, TypeOK
  <2>3. "insert" \in PCs /\ "find" \in PCs /\ "prior" \in PCs /\ "record" \in PCs
        /\ "run" \in PCs /\ "commit" \in PCs
        /\ "IN_PROGRESS" \in RowStatuses /\ "COMPLETED" \in RowStatuses
    BY DEF PCs, RowStatuses
  <2> QED BY <2>1, <2>2, <2>3 DEF LockOrder, Insert, Act, Record
<1>3. Done' = Done
  BY <1>1 DEF Done
<1> QED BY <1>1, <1>2, <1>3 DEF Promise!vars, Asked, Done

\* The database steps of runIdempotent and of the cancellation's two ways to its
\* record implement OnceOnly, for any number of overlapping calls.
THEOREM KeptPromise == Spec => KeepsPromise
<1>1. CommandInv /\ [Next]_vars => [Promise!Next]_(Promise!vars)
  <2> SUFFICES ASSUME CommandInv, [Next]_vars PROVE Promise!Next \/ UNCHANGED Promise!vars
    OBVIOUS
  <2>1. CASE UNCHANGED vars
    BY <2>1 DEF vars, Promise!vars
  <2>2. CASE PaymentsChange
    BY <2>2 DEF PaymentsChange, Promise!vars
  <2>3. ASSUME NEW a \in Attempts, NEW k \in Keys, NEW q \in Requests, Send(a, k, q) PROVE Promise!Next
    BY <2>3, SendAsks
  <2>4. ASSUME NEW a \in Attempts, Works(a) \/ Lose(a) PROVE Promise!Next \/ UNCHANGED Promise!vars
    <3>1. CASE \/ FindPrior(a) /\ ~Goes(a, "insert")
               \/ ReadPrior(a) \/ Throw(a) \/ Reply(a) \/ Lose(a)
      BY <3>1, EndingStep, EndsTells
    <3>2. CASE \/ LockOrder(a) \/ Insert(a) \/ Act(a) \/ Record(a)
               \/ FindPrior(a) /\ Goes(a, "insert")
      BY <3>2, InsideIsQuiet
    <3>3. CASE Commit(a)
      BY <3>3, CommitExecutes
    <3> QED BY <2>4, <3>1, <3>2, <3>3 DEF Works
  <2> QED BY <2>1, <2>2, <2>3, <2>4 DEF Next
<1> QED BY <1>1, PromiseInit, CommandInvariant, PTL DEF Spec, KeepsPromise, Promise!Spec

-----------------------------------------------------------------------------
(* The outbox.  Its invariants are not inductive alone.  They rest on the  *)
(* locks: a row is held by one publisher at most, in one of the three      *)
(* stages, and while it is held it stays unpublished and alive, so what a  *)
(* commit writes follows from what the select saw.                         *)

\* A row that a publisher holds is still to be published.
HeldArePending ==
  \A p \in Publishers : LockedBy(p) \cap (published \cup dead) = {}

\* Publishers hold different rows, each row in one stage, and only while they run.
HeldApart ==
  \A p \in Publishers :
    /\ p \notin running => LockedBy(p) = {}
    /\ \A q \in Publishers \ {p} : LockedBy(p) \cap LockedBy(q) = {}
    /\ todo[p] \cap done[p] = {} /\ todo[p] \cap failed[p] = {} /\ done[p] \cap failed[p] = {}

EmittedNow(e) == \E p \in Publishers : e \in done[p]

\* Emissions are those undone and the one that is noted, or about to be.
EmissionsCounted ==
  \A e \in Events :
    /\ e \in published \/ EmittedNow(e) => sent[e] = undone[e] + 1
    /\ e \notin published /\ ~EmittedNow(e) => sent[e] = undone[e]

OutboxInv ==
  OutboxTypeOK /\ HeldArePending /\ HeldApart /\ EmissionsCounted /\ RoundsComplete

\* The product that bounds a round.
LEMMA RoundArithmetic ==
  ASSUME NEW m \in Nat
  PROVE  /\ MAX_ATTEMPTS * m \in Nat
         /\ MAX_ATTEMPTS * (m + 1) = MAX_ATTEMPTS * m + MAX_ATTEMPTS
BY OutboxAssumption, SMT

\* Nothing is written, held or sent at first.
LEMMA InitInv == OutboxInit => OutboxInv
<1> SUFFICES ASSUME OutboxInit PROVE OutboxInv  OBVIOUS
<1>1. OutboxTypeOK  BY OutboxAssumption, SMT DEF OutboxInit, OutboxTypeOK
<1>2. HeldArePending /\ HeldApart  BY DEF OutboxInit, HeldArePending, HeldApart, LockedBy
<1>3. EmissionsCounted  BY DEF OutboxInit, EmissionsCounted, EmittedNow
<1>4. RoundsComplete  BY OutboxAssumption, SMT DEF OutboxInit, RoundsComplete
<1> QED  BY <1>1, <1>2, <1>3, <1>4 DEF OutboxInv

\* A row is written or comes due.
LEMMA DueKeeps ==
  ASSUME OutboxInv, NEW e \in Events, Write(e) \/ Elapse(e)
  PROVE  OutboxInv'
<1> USE DEF Write, Elapse, held
<1>1. OutboxTypeOK'  BY SMT DEF OutboxInv, OutboxTypeOK
<1>2. UNCHANGED <<published, dead, attempts, manual_retry_count, todo, done, failed, running, sent, undone>>
  OBVIOUS
<1> QED  BY <1>1, <1>2 DEF OutboxInv, HeldArePending, HeldApart, LockedBy, EmissionsCounted,
                           EmittedNow, RoundsComplete

\* A dead letter is queued again, with a new round.
LEMMA RetryKeeps ==
  ASSUME OutboxInv, NEW e \in Events, RetryDeadLetter(e)
  PROVE  OutboxInv'
<1> USE DEF RetryDeadLetter, Retried, held
<1>0. OutboxTypeOK  BY DEF OutboxInv
<1>1. OutboxTypeOK'  BY <1>0, OutboxAssumption, SMT DEF OutboxTypeOK
<1>2. HeldArePending' /\ HeldApart' /\ EmissionsCounted'
  BY DEF OutboxInv, HeldArePending, HeldApart, LockedBy, EmissionsCounted, EmittedNow
<1>3. RoundsComplete'
  <2> SUFFICES ASSUME NEW d \in Events
               PROVE  LET n == MAX_ATTEMPTS * manual_retry_count'[d] IN
                 /\ d \in dead' <=> d \notin published /\ attempts[d] = n + MAX_ATTEMPTS
                 /\ attempts[d] \in n .. (n + MAX_ATTEMPTS)
    BY DEF RoundsComplete
  <2> DEFINE m == manual_retry_count[d]
  <2>1. attempts[d] \in Nat /\ m \in Nat  BY <1>0, OutboxAssumption, SMT DEF OutboxTypeOK
  <2>2. /\ MAX_ATTEMPTS * m \in Nat
        /\ MAX_ATTEMPTS * (m + 1) = MAX_ATTEMPTS * m + MAX_ATTEMPTS
    BY <2>1, RoundArithmetic
  <2>3. /\ d \in dead <=> d \notin published /\ attempts[d] = MAX_ATTEMPTS * m + MAX_ATTEMPTS
        /\ attempts[d] \in MAX_ATTEMPTS * m .. (MAX_ATTEMPTS * m + MAX_ATTEMPTS)
    BY DEF OutboxInv, RoundsComplete
  <2>4. CASE d = e
    <3>1. manual_retry_count'[d] = m + 1 /\ d \in dead /\ d \notin dead'
      BY <2>4, <1>0, SMT DEF OutboxTypeOK
    <3>2. attempts[d] = MAX_ATTEMPTS * (m + 1)  BY <2>2, <2>3, <3>1
    <3>3. MAX_ATTEMPTS \in Nat \ {0}  BY OutboxAssumption
    <3> HIDE DEF m
    <3> QED  BY <3>1, <3>2, <3>3, <2>1, <2>2, SMT
  <2>5. CASE d # e
    <3>1. manual_retry_count'[d] = m /\ (d \in dead' <=> d \in dead)
      BY <2>5, <1>0, SMT DEF OutboxTypeOK
    <3> QED  BY <3>1, <2>3
  <2> QED  BY <2>4, <2>5
<1> QED  BY <1>1, <1>2, <1>3 DEF OutboxInv

\* A publisher starts with rows nobody holds.
LEMMA StartKeeps ==
  ASSUME OutboxInv, NEW p \in Publishers, NEW b \in SUBSET Events, Start(p, b)
  PROVE  OutboxInv'
<1> USE DEF Start, table
<1>0. OutboxTypeOK /\ HeldApart  BY DEF OutboxInv
<1>1. OutboxTypeOK'  BY <1>0, SMT DEF OutboxTypeOK
<1>2. todo'[p] = b /\ \A q \in Publishers \ {p} : todo'[q] = todo[q]
  BY <1>0, SMT DEF OutboxTypeOK
<1>3. done[p] = {} /\ failed[p] = {} /\ todo[p] = {}  BY <1>0 DEF HeldApart, LockedBy
<1>4. LockedBy(p)' = b /\ \A q \in Publishers \ {p} : LockedBy(q)' = LockedBy(q)
  BY <1>2, <1>3 DEF LockedBy
<1>5. b \cap (published \cup dead) = {} /\ \A q \in Publishers : b \cap LockedBy(q) = {}
  BY DEF Selected, Ready, Locked
<1>6. HeldArePending'  BY <1>4, <1>5 DEF OutboxInv, HeldArePending
<1>7. HeldApart'  BY <1>0, <1>2, <1>3, <1>4, <1>5 DEF HeldApart
<1>8. EmissionsCounted' /\ RoundsComplete'
  BY DEF OutboxInv, EmissionsCounted, EmittedNow, RoundsComplete
<1> QED  BY <1>1, <1>6, <1>7, <1>8 DEF OutboxInv

\* Serving a row moves it from one stage of its publisher to another.
LEMMA ServeKeeps ==
  ASSUME OutboxInv, NEW p \in Publishers, Serve(p)
  PROVE  OutboxInv'
<1>0. OutboxTypeOK /\ HeldApart  BY DEF OutboxInv
<1>1. PICK e \in NextOf(p) :
        /\ todo' = [todo EXCEPT ![p] = @ \ {e}]
        /\ Emits(p, e) \/ Throws(p, e)
        /\ UNCHANGED <<table, running, undone, losses>>
  BY DEF Serve
<1>2. e \in todo[p] /\ e \in Events  BY <1>0, SMT DEF NextOf, OutboxTypeOK
<1>3. OutboxTypeOK'  BY <1>0, <1>1, <1>2, SMT DEF OutboxTypeOK, Emits, Throws, table
<1>4. /\ todo'[p] = todo[p] \ {e}
      /\ Emits(p, e) => done'[p] = done[p] \cup {e} /\ failed'[p] = failed[p]
      /\ Throws(p, e) => done'[p] = done[p] /\ failed'[p] = failed[p] \cup {e}
      /\ \A q \in Publishers \ {p} :
           todo'[q] = todo[q] /\ done'[q] = done[q] /\ failed'[q] = failed[q]
  BY <1>0, <1>1, SMT DEF OutboxTypeOK, Emits, Throws
<1>5. \A q \in Publishers : LockedBy(q)' = LockedBy(q)
  BY <1>1, <1>2, <1>4 DEF LockedBy
<1>6. HeldArePending'  BY <1>1, <1>5 DEF OutboxInv, HeldArePending, table
<1>7. HeldApart'
  <2>1. todo[p] \cap done[p] = {} /\ todo[p] \cap failed[p] = {} /\ done[p] \cap failed[p] = {}
    BY <1>0 DEF HeldApart
  <2>2. /\ todo'[p] \cap done'[p] = {} /\ todo'[p] \cap failed'[p] = {}
        /\ done'[p] \cap failed'[p] = {}
    BY <1>1, <1>2, <1>4, <2>1
  <2> QED  BY <1>0, <1>1, <1>4, <1>5, <2>2 DEF HeldApart
<1>8. EmissionsCounted'
  <2>1. e \notin published  BY <1>2 DEF OutboxInv, HeldArePending, LockedBy
  <2>2. ~EmittedNow(e)  BY <1>0, <1>2 DEF HeldApart, EmittedNow, LockedBy
  <2>3. sent[e] = undone[e]  BY <1>2, <2>1, <2>2 DEF OutboxInv, EmissionsCounted
  <2>4. \A d \in Events \ {e} : EmittedNow(d)' <=> EmittedNow(d)
    BY <1>1, <1>4 DEF EmittedNow
  <2>5. UNCHANGED <<published, undone>>  BY <1>1 DEF table
  <2>6. CASE Emits(p, e)
    <3>1. EmittedNow(e)'  BY <1>4, <2>6 DEF EmittedNow
    <3>2. sent'[e] = undone[e] + 1 /\ \A d \in Events \ {e} : sent'[d] = sent[d]
      BY <1>0, <1>2, <2>3, <2>6, SMT DEF Emits, OutboxTypeOK
    <3> QED  BY <2>4, <2>5, <3>1, <3>2 DEF OutboxInv, EmissionsCounted
  <2>7. CASE Throws(p, e)
    <3>1. ~EmittedNow(e)'  BY <1>4, <2>2, <2>7 DEF EmittedNow
    <3>2. sent' = sent  BY <2>7 DEF Throws
    <3> QED  BY <2>1, <2>3, <2>4, <2>5, <3>1, <3>2 DEF OutboxInv, EmissionsCounted
  <2> QED  BY <1>1, <2>6, <2>7
<1>9. RoundsComplete'  BY <1>1 DEF OutboxInv, RoundsComplete, table
<1> QED  BY <1>3, <1>6, <1>7, <1>8, <1>9 DEF OutboxInv

\* The publisher that stops lets its rows go; the others hold what they held.
LEMMA StopsHolding ==
  ASSUME OutboxTypeOK, HeldApart, NEW p \in Publishers, Stops(p)
  PROVE  /\ LockedBy(p)' = {} /\ done'[p] = {}
         /\ \A q \in Publishers \ {p} : done'[q] = done[q] /\ LockedBy(q)' = LockedBy(q)
         /\ HeldApart'
<1>1. /\ todo'[p] = {} /\ done'[p] = {} /\ failed'[p] = {}
      /\ \A q \in Publishers \ {p} :
           todo'[q] = todo[q] /\ done'[q] = done[q] /\ failed'[q] = failed[q]
      /\ \A q \in Publishers \ {p} : q \in running' <=> q \in running
  BY SMT DEF OutboxTypeOK, Stops
<1>2. LockedBy(p)' = {}  BY <1>1 DEF LockedBy
<1>3. \A q \in Publishers \ {p} : LockedBy(q)' = LockedBy(q)  BY <1>1 DEF LockedBy
<1>4. HeldApart'  BY <1>1, <1>2, <1>3 DEF HeldApart
<1> QED  BY <1>1, <1>2, <1>3, <1>4

\* A commit notes what the publisher did to the rows it holds, and to no other.
LEMMA CommitKeeps ==
  ASSUME OutboxInv, NEW p \in Publishers, CommitBatch(p)
  PROVE  OutboxInv'
<1> USE DEF CommitBatch
<1>0. OutboxTypeOK /\ HeldApart  BY DEF OutboxInv
<1>1. OutboxTypeOK'  BY <1>0, SMT DEF OutboxTypeOK, Stops, AttemptsAfter
<1>2. /\ LockedBy(p)' = {} /\ done'[p] = {}
      /\ \A q \in Publishers \ {p} : done'[q] = done[q] /\ LockedBy(q)' = LockedBy(q)
      /\ HeldApart'
  BY <1>0, StopsHolding
<1>3. done[p] \cap failed[p] = {} /\ \A e \in done[p] \cup failed[p] : e \notin published /\ e \notin dead
  BY DEF OutboxInv, HeldApart, HeldArePending, LockedBy
<1>4. HeldArePending'
  <2> SUFFICES ASSUME NEW q \in Publishers, NEW e \in LockedBy(q)'
               PROVE  e \notin published' /\ e \notin dead'
    BY DEF HeldArePending
  <2>1. q # p /\ e \in LockedBy(q)  BY <1>2
  <2>2. e \notin LockedBy(p)  BY <1>0, <2>1 DEF HeldApart
  <2>3. e \notin published /\ e \notin dead  BY <2>1 DEF OutboxInv, HeldArePending
  <2> QED  BY <2>2, <2>3 DEF LockedBy
<1>5. EmissionsCounted'
  <2>1. \A e \in Events : e \in done[p] => e \in published' /\ EmittedNow(e)
    BY DEF EmittedNow
  <2>2. \A e \in Events : e \notin done[p] =>
          (e \in published' <=> e \in published) /\ (EmittedNow(e)' <=> EmittedNow(e))
    BY <1>2 DEF EmittedNow
  <2> QED  BY <2>1, <2>2 DEF OutboxInv, EmissionsCounted
<1>6. RoundsComplete'
  <2> SUFFICES ASSUME NEW e \in Events
               PROVE  LET n == MAX_ATTEMPTS * manual_retry_count[e] IN
                 /\ e \in dead' <=> e \notin published' /\ attempts'[e] = n + MAX_ATTEMPTS
                 /\ attempts'[e] \in n .. (n + MAX_ATTEMPTS)
    BY DEF RoundsComplete
  <2> DEFINE m == manual_retry_count[e]
             a == attempts[e]
  <2>1. a \in Nat /\ m \in Nat /\ MAX_ATTEMPTS \in Nat \ {0}
    BY <1>0, OutboxAssumption, SMT DEF OutboxTypeOK
  <2>2. /\ MAX_ATTEMPTS * m \in Nat
        /\ MAX_ATTEMPTS * (m + 1) = MAX_ATTEMPTS * m + MAX_ATTEMPTS
    BY <2>1, RoundArithmetic
  <2>3. /\ e \in dead <=> e \notin published /\ a = MAX_ATTEMPTS * m + MAX_ATTEMPTS
        /\ a \in MAX_ATTEMPTS * m .. (MAX_ATTEMPTS * m + MAX_ATTEMPTS)
    BY DEF OutboxInv, RoundsComplete
  <2>4. CASE e \in done[p]
    <3>1. attempts'[e] = a + 1 /\ e \in published' /\ e \notin dead'
      BY <1>3, <2>4 DEF AttemptsAfter
    <3>2. e \notin published /\ e \notin dead  BY <1>3, <2>4
    <3>3. manual_retry_count[e] = m  OBVIOUS
    <3> HIDE DEF m, a
    <3> QED  BY <2>1, <2>2, <2>3, <3>1, <3>2, <3>3, SMT
  <2>5. CASE e \in failed[p]
    <3>1. attempts'[e] = a + 1  BY <2>5 DEF AttemptsAfter
    <3>2. /\ e \notin published' /\ e \notin published /\ e \notin dead
          /\ e \in dead' <=> a + 1 >= MAX_ATTEMPTS * (m + 1)
      BY <1>3, <2>5 DEF LastAttempt
    <3>3. manual_retry_count[e] = m  OBVIOUS
    <3> HIDE DEF m, a
    <3> QED  BY <2>1, <2>2, <2>3, <3>1, <3>2, <3>3, SMT
  <2>6. CASE e \notin done[p] /\ e \notin failed[p]
    <3>1. attempts'[e] = a  BY <2>1, <2>6 DEF AttemptsAfter
    <3>2. (e \in published' <=> e \in published) /\ (e \in dead' <=> e \in dead)
      BY <2>6
    <3> QED  BY <2>3, <3>1, <3>2
  <2> QED  BY <2>4, <2>5, <2>6
<1> QED  BY <1>1, <1>2, <1>4, <1>5, <1>6 DEF OutboxInv

\* A lost transaction leaves the rows; what it had emitted is out.
LEMMA LoseKeeps ==
  ASSUME OutboxInv, NEW p \in Publishers, LoseBatch(p)
  PROVE  OutboxInv'
<1> USE DEF LoseBatch, table
<1>0. OutboxTypeOK /\ HeldApart  BY DEF OutboxInv
<1>1. OutboxTypeOK'  BY <1>0, OutboxAssumption, SMT DEF OutboxTypeOK, Stops
<1>2. /\ LockedBy(p)' = {} /\ done'[p] = {}
      /\ \A q \in Publishers \ {p} : done'[q] = done[q] /\ LockedBy(q)' = LockedBy(q)
      /\ HeldApart'
  BY <1>0, StopsHolding
<1>3. HeldArePending'  BY <1>2 DEF OutboxInv, HeldArePending
<1>4. EmissionsCounted'
  <2> SUFFICES ASSUME NEW e \in Events
               PROVE  /\ e \in published \/ EmittedNow(e)' => sent[e] = undone'[e] + 1
                      /\ e \notin published /\ ~EmittedNow(e)' => sent[e] = undone'[e]
    BY DEF EmissionsCounted
  <2>1. CASE e \in done[p]
    <3>1. EmittedNow(e) /\ e \notin published
      BY <2>1 DEF EmittedNow, OutboxInv, HeldArePending, LockedBy
    <3>2. ~EmittedNow(e)'
      BY <1>0, <1>2, <2>1 DEF EmittedNow, HeldApart, LockedBy
    <3>3. undone'[e] = undone[e] + 1  BY <2>1
    <3> QED  BY <3>1, <3>2, <3>3 DEF OutboxInv, EmissionsCounted
  <2>2. CASE e \notin done[p]
    <3>1. EmittedNow(e)' <=> EmittedNow(e)  BY <1>2, <2>2 DEF EmittedNow
    <3>2. undone'[e] = undone[e]  BY <1>0, <2>2, SMT DEF OutboxTypeOK
    <3> QED  BY <3>1, <3>2 DEF OutboxInv, EmissionsCounted
  <2> QED  BY <2>1, <2>2
<1>5. RoundsComplete'  BY DEF OutboxInv, RoundsComplete
<1> QED  BY <1>1, <1>2, <1>3, <1>4, <1>5 DEF OutboxInv

\* The outbox keeps its invariant.
THEOREM OutboxInvariant == OutboxSpec => []OutboxInv
<1>1. OutboxInv /\ [OutboxNext]_outboxVars => OutboxInv'
  <2> SUFFICES ASSUME OutboxInv, [OutboxNext]_outboxVars PROVE OutboxInv'  OBVIOUS
  <2>1. CASE UNCHANGED outboxVars
    BY <2>1 DEF outboxVars, table, held, OutboxInv, OutboxTypeOK, HeldArePending, HeldApart, LockedBy,
                EmissionsCounted, EmittedNow, RoundsComplete
  <2>2. CASE \E e \in Events : Write(e) \/ Elapse(e) \/ RetryDeadLetter(e)
    BY <2>2, DueKeeps, RetryKeeps
  <2>3. CASE \E p \in Publishers : Publishes(p) \/ LoseBatch(p)
    BY <2>3, StartKeeps, ServeKeeps, CommitKeeps, LoseKeeps DEF Publishes
  <2> QED  BY <2>1, <2>2, <2>3 DEF OutboxNext
<1> QED  BY <1>1, InitInv, PTL DEF OutboxSpec

\* The type invariant of the outbox.
THEOREM OutboxTypes == OutboxSpec => []OutboxTypeOK
<1>1. OutboxInv => OutboxTypeOK  BY DEF OutboxInv
<1> QED  BY <1>1, OutboxInvariant, PTL

\* Several publishers emit a row once, unless a transaction that emitted it is lost.
THEOREM SentOnce == OutboxSpec => []SentOnceUnlessLost
<1>1. OutboxInv => SentOnceUnlessLost
  BY SMT DEF OutboxInv, EmissionsCounted, SentOnceUnlessLost, OutboxTypeOK
<1> QED  BY <1>1, OutboxInvariant, PTL

\* Dead letters used up exactly the attempts of their rounds.
THEOREM RoundsAreComplete == OutboxSpec => []RoundsComplete
<1>1. OutboxInv => RoundsComplete  BY DEF OutboxInv
<1> QED  BY <1>1, OutboxInvariant, PTL

\* No step changes a row that is published.
THEOREM PublishedStays == OutboxSpec => PublishedForGood
<1> DEFINE Kept == \A e \in published :
             /\ e \in published' /\ e \notin dead' /\ attempts'[e] = attempts[e]
             /\ manual_retry_count'[e] = manual_retry_count[e]
<1>1. OutboxInv /\ [OutboxNext]_outboxVars => [Kept]_outboxVars
  <2> SUFFICES ASSUME OutboxInv, OutboxNext, NEW e \in published
               PROVE  /\ e \in published' /\ e \notin dead' /\ attempts'[e] = attempts[e]
                      /\ manual_retry_count'[e] = manual_retry_count[e]
    OBVIOUS
  <2>0. /\ OutboxTypeOK /\ HeldArePending /\ e \in Events
        /\ e \notin dead
    BY DEF OutboxInv, OutboxTypeOK, RoundsComplete
  <2>1. CASE \E d \in Events : Write(d) \/ Elapse(d) \/ RetryDeadLetter(d)
    BY <2>0, <2>1, SMT DEF Write, Elapse, RetryDeadLetter, Retried, OutboxTypeOK
  <2>2. ASSUME NEW p \in Publishers, CommitBatch(p)
        PROVE  /\ e \in published' /\ e \notin dead' /\ attempts'[e] = attempts[e]
               /\ manual_retry_count'[e] = manual_retry_count[e]
    <3>1. e \notin done[p] /\ e \notin failed[p]  BY <2>0 DEF HeldArePending, LockedBy
    <3>2. attempts'[e] = attempts[e]
      BY <2>0, <2>2, <3>1, SMT DEF CommitBatch, AttemptsAfter, OutboxTypeOK
    <3> QED  BY <2>0, <2>2, <3>1, <3>2 DEF CommitBatch
  <2>3. CASE \E p \in Publishers : Publishes(p) \/ LoseBatch(p)
    BY <2>0, <2>2, <2>3 DEF Publishes, LoseBatch, Start, Serve, table
  <2> QED  BY <2>1, <2>3 DEF OutboxNext
<1> QED  BY <1>1, OutboxInvariant, PTL DEF OutboxSpec, PublishedForGood
===============================================================================
