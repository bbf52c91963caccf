---------------------------- MODULE EvidenceUpload ----------------------------
(***************************************************************************)
(* The upload of a payment's evidence under one idempotency key: calls of  *)
(* the API that stage, promote and record a file, the worker that finishes *)
(* what they left, and the recovery of a file from quarantine.  Every file *)
(* operation and query is a step (exists and the read after it are one); a *)
(* process may die between any two.                                        *)
(*                                                                         *)
(* A file is named by the call that first saved it ("op" for the one saved *)
(* from quarantine) and lies in an area.  What it holds is the image of a  *)
(* call, or is damaged; preparing an image is a function of the image.     *)
(* The lease does not say who holds it.  lease_until and updated_at grow   *)
(* old together, when five minutes pass.                                   *)
(***************************************************************************)
EXTENDS Naturals

CONSTANTS
  Uploads,          \* calls with one payment, user and key
  Images,           \* contents of the files they send
  RecoveryAttempts, \* the worker leaves an operation with as many attempts alone
  MaxCrashes,       \* bound: processes that die
  MaxDamage,        \* bound: writes that leave a damaged file
  Nothing

ASSUME EvidenceAssumption ==
  /\ RecoveryAttempts \in Nat /\ MaxCrashes \in Nat /\ MaxDamage \in Nat
  /\ "op" \notin Uploads
  /\ Nothing \notin Uploads \cup Images \cup {"OK"} \cup [image : Images, file : Uploads \cup {"op"}]

VARIABLES
  op,       \* the row of payment_evidence_upload_operations
  att,      \* the row of sale_order_attachments with the key
  disk,     \* content of each file
  me,       \* each call: where it is, its image, its copy of the operation, the file it saved
  worker,   \* the recovery worker, likewise
  keeper,   \* the recovery from quarantine in progress: the key it read
  eligible, \* the payment is pending
  answer,   \* what each call was answered
  late,     \* history: a lease expired while a process was at work
  crashes, damage

evidenceVars == <<op, att, disk, me, worker, keeper, eligible, answer, late, crashes, damage>>

Names == Uploads \cup {"op"}
Areas == {"staging", "private", "quarantine"}
NoKeys == [a \in Areas |-> Nothing]
NoRow == [status |-> "NONE", image |-> Nothing, keys |-> NoKeys,
          lease |-> "none", recent |-> FALSE, attempts |-> 0]

\* staging_key and promoted_key are set; quarantine_key stays.
KeysWith(k, n, m) == [k EXCEPT !["staging"] = n, !["private"] = m]
Forgotten(k) == KeysWith(k, Nothing, Nothing)
NoFiles(k) == k = Forgotten(k)
Resting == [pc |-> "idle", image |-> Nothing, keys |-> NoKeys, file |-> Nothing]

EvidenceInit ==
  /\ op = NoRow /\ att = Nothing
  /\ disk = [a \in Areas |-> [n \in Names |-> Nothing]]
  /\ me = [u \in Uploads |-> Resting] /\ worker = Resting /\ keeper = Nothing
  /\ eligible = TRUE
  /\ answer = [u \in Uploads |-> Nothing]
  /\ late = FALSE /\ crashes = 0 /\ damage = 0

-----------------------------------------------------------------------------
(* Queries on the operation and files.                                     *)

\* updateEvidenceUploadOperation: whoever calls it, and whatever the lease.
Touch(status, keys, lease) ==
  op' = [op EXCEPT !.status = status, !.keys = keys, !.lease = lease, !.recent = TRUE]

Unleased ==
  IF op.status = "COMPLETED" THEN op
  ELSE [op EXCEPT !.lease = "none", !.recent = TRUE, !.attempts = @ + 1]

Put(area, n, x) == disk' = [disk EXCEPT ![area][n] = x]

\* rename(2): replaces what the target names.
Rename(from, to, n, m) ==
  disk' = [disk EXCEPT ![to][m] = disk[from][n], ![from][n] = Nothing]

Exists(area, n) == n # Nothing /\ disk[area][n] # Nothing

\* A write stores the image, or a damaged one.
Writes(area, n, image) ==
  \/ Put(area, n, image) /\ UNCHANGED damage
  \/ damage < MaxDamage /\ damage' = damage + 1 /\ Put(area, n, "DAMAGED")

\* Fault: a claim does not look at the lease.
LeaseFreeAlways == TRUE

LeaseFree == op.lease # "held"

-----------------------------------------------------------------------------
(* A call: execute, acquireEvidenceUploadOperation, stageAndPromoteEvidence.*)

At(u, pc) == me[u].pc = pc
Goes(u, pc) == me' = [me EXCEPT ![u].pc = pc]
OnlyCalls == UNCHANGED <<worker, keeper, eligible, late, crashes>>

Answers(u, x) == Goes(u, "done") /\ answer' = [answer EXCEPT ![u] = x]

\* The income must be pending when the request arrives.
Call(u, c) ==
  /\ At(u, "idle") /\ eligible
  /\ me' = [me EXCEPT ![u] = [Resting EXCEPT !.pc = "find", !.image = c]]
  /\ OnlyCalls /\ UNCHANGED <<op, att, disk, answer, damage>>

\* Fault: the evidence of the key answers, whatever it holds.
AnswersPriorAnyway(u) == Answers(u, "OK")

\* The evidence that the key already has decides the answer.
AnswersPrior(u) == Answers(u, IF att.image = me[u].image THEN "OK" ELSE "REUSED")

FindPrior(u) ==
  /\ At(u, "find")
  /\ \/ att # Nothing /\ AnswersPrior(u)
     \/ att = Nothing /\ Goes(u, "acquire") /\ UNCHANGED answer
  /\ OnlyCalls /\ UNCHANGED <<op, att, disk, damage>>

\* INSERT ... ON CONFLICT DO NOTHING; else the row is read, and may be refused.
Acquire(u) ==
  /\ At(u, "acquire")
  /\ \/ /\ op.status = "NONE" /\ Goes(u, "stage") /\ UNCHANGED answer
        /\ op' = [NoRow EXCEPT !.status = "PREPARING", !.image = me[u].image,
                               !.lease = "held", !.recent = TRUE]
     \/ /\ op.status # "NONE" /\ UNCHANGED op
        /\ \/ op.image # me[u].image /\ Answers(u, "REUSED")
           \/ /\ op.image = me[u].image
              /\ \/ op.status = "COMPLETED" /\ Goes(u, "completed") /\ UNCHANGED answer
                 \/ op.status = "QUARANTINED" /\ Answers(u, "ERROR")
                 \/ /\ op.status \notin {"COMPLETED", "QUARANTINED"}
                    /\ \/ LeaseFree /\ Goes(u, "claim") /\ UNCHANGED answer
                       \/ ~LeaseFree /\ Answers(u, "IN_PROGRESS")
  /\ OnlyCalls /\ UNCHANGED <<att, disk, damage>>

\* UPDATE ... WHERE lease_until IS NULL OR lease_until <= now().
ClaimCall(u) ==
  /\ At(u, "claim")
  /\ \/ /\ LeaseFree
        /\ op' = [op EXCEPT !.lease = "held", !.recent = TRUE, !.attempts = @ + 1]
        /\ \/ op.status = "QUARANTINED" /\ Answers(u, "ERROR")
           \/ /\ op.status # "QUARANTINED" /\ UNCHANGED answer
              /\ me' = [me EXCEPT ![u].keys = op.keys,
                                  ![u].pc = IF op.status = "COMPLETED" THEN "completed" ELSE "stage"]
     \/ ~LeaseFree /\ Answers(u, "IN_PROGRESS") /\ UNCHANGED op
  /\ OnlyCalls /\ UNCHANGED <<att, disk, damage>>

Completed(u) ==
  /\ At(u, "completed")
  /\ \/ att # Nothing /\ AnswersPrior(u)
     \/ att = Nothing /\ Answers(u, "ERROR")
  /\ OnlyCalls /\ UNCHANGED <<op, att, disk, damage>>

\* Which file is there to continue with.
Stage(u) ==
  LET k == me[u].keys IN
  /\ At(u, "stage")
  /\ \/ /\ Exists("private", k["private"])
        /\ me' = [me EXCEPT ![u].file = k["private"],
             ![u].pc = IF disk["private"][k["private"]] = me[u].image THEN "resume" ELSE "isolate private"]
     \/ /\ ~Exists("private", k["private"])
        /\ Goes(u, IF Exists("staging", k["staging"]) THEN "check" ELSE IF NoFiles(k) THEN "save" ELSE "reset")
  /\ OnlyCalls /\ UNCHANGED <<op, att, disk, answer, damage>>

\* Updates of the operation between file operations.
Resume(u) ==
  /\ At(u, "resume") /\ Touch("PROMOTED", me[u].keys, "held") /\ Goes(u, "persist")
  /\ OnlyCalls /\ UNCHANGED <<att, disk, answer, damage>>

Reset(u) ==
  /\ At(u, "reset") /\ Touch("PREPARING", Forgotten(me[u].keys), "held")
  /\ me' = [me EXCEPT ![u].pc = "save", ![u].keys = Forgotten(@)]
  /\ OnlyCalls /\ UNCHANGED <<att, disk, answer, damage>>

Save(u) ==
  /\ At(u, "save") /\ Writes("staging", u, me[u].image)
  /\ me' = [me EXCEPT ![u].pc = "staged", ![u].keys = KeysWith(@, u, u)]
  /\ OnlyCalls /\ UNCHANGED <<op, att, answer>>

Staged(u) ==
  /\ At(u, "staged") /\ Touch("STAGED", me[u].keys, "held") /\ Goes(u, "check")
  /\ OnlyCalls /\ UNCHANGED <<att, disk, answer, damage>>

\* Reading a file that is gone throws.
Check(u) ==
  LET x == disk["staging"][me[u].keys["staging"]] IN
  /\ At(u, "check")
  /\ Goes(u, IF x = Nothing THEN "release" ELSE IF x = me[u].image THEN "target" ELSE "isolate staging")
  /\ OnlyCalls /\ UNCHANGED <<op, att, disk, answer, damage>>

\* A damaged file in the place of the target is isolated first.
Target(u) ==
  LET t == me[u].keys["private"]
      x == disk["private"][t] IN
  /\ At(u, "target")
  /\ me' = [me EXCEPT ![u].file = t,
       ![u].pc = IF x = Nothing THEN "move" ELSE IF x = me[u].image THEN "verify" ELSE "isolate target"]
  /\ OnlyCalls /\ UNCHANGED <<op, att, disk, answer, damage>>

\* move, or save when the staged file is gone; save refuses a file that exists.
Promote(n, t, image) ==
  \/ Exists("staging", n) /\ Rename("staging", "private", n, t) /\ UNCHANGED damage
  \/ ~Exists("staging", n) /\ ~Exists("private", t) /\ Writes("private", t, image)

Move(u) ==
  LET n == me[u].keys["staging"]  t == me[u].file IN
  /\ At(u, "move")
  /\ \/ Promote(n, t, me[u].image) /\ Goes(u, "verify")
     \/ /\ ~Exists("staging", n) /\ Exists("private", t)
        /\ Goes(u, "release") /\ UNCHANGED <<disk, damage>>
  /\ OnlyCalls /\ UNCHANGED <<op, att, answer>>

Verify(u) ==
  LET x == disk["private"][me[u].file] IN
  /\ At(u, "verify")
  /\ Goes(u, IF x = Nothing THEN "release" ELSE IF x = me[u].image THEN "promoted" ELSE "isolate private")
  /\ OnlyCalls /\ UNCHANGED <<op, att, disk, answer, damage>>

Promoted(u) ==
  /\ At(u, "promoted") /\ Touch("PROMOTED", KeysWith(me[u].keys, Nothing, me[u].file), "held")
  /\ Goes(u, "clean")
  /\ OnlyCalls /\ UNCHANGED <<att, disk, answer, damage>>

Clean(u) ==
  /\ At(u, "clean") /\ Put("staging", me[u].keys["staging"], Nothing) /\ Goes(u, "persist")
  /\ OnlyCalls /\ UNCHANGED <<op, att, answer, damage>>

IsolateAt == [staging |-> "isolate staging", private |-> "isolate private", target |-> "isolate target"]

\* quarantineEvidenceOperationFile: the file is moved, then the row tells.
Isolate(u, a) ==
  LET area == IF a = "staging" THEN "staging" ELSE "private"
      n == IF a = "staging" THEN me[u].keys["staging"] ELSE me[u].file IN
  /\ At(u, IsolateAt[a])
  /\ \/ /\ Exists(area, n) /\ Rename(area, "quarantine", n, n)
        /\ me' = [me EXCEPT ![u].pc = IF a = "target" THEN "isolated, move" ELSE "isolated", ![u].file = n]
     \/ ~Exists(area, n) /\ Goes(u, "release") /\ UNCHANGED disk
  /\ OnlyCalls /\ UNCHANGED <<op, att, answer, damage>>

Isolated(u) ==
  /\ me[u].pc \in {"isolated", "isolated, move"}
  /\ op' = [op EXCEPT !.status = "QUARANTINED", !.lease = "none", !.recent = TRUE, !.attempts = @ + 1,
                      !.keys = [Forgotten(@) EXCEPT !["quarantine"] = me[u].file]]
  /\ me' = [me EXCEPT ![u].keys["quarantine"] = me[u].file,
                      ![u].pc = IF @ = "isolated" THEN "release" ELSE "move"]
  /\ OnlyCalls /\ UNCHANGED <<att, disk, answer, damage>>

Row(u) == [image |-> me[u].image, file |-> me[u].file]

\* One transaction: the evidence and the operation.  It may throw, and throws
\* when the key has its evidence already.
Persist(u) ==
  /\ At(u, "persist")
  /\ \/ /\ att = Nothing /\ att' = Row(u) /\ Touch("COMPLETED", op.keys, "none") /\ Answers(u, "OK")
     \/ Goes(u, "release") /\ UNCHANGED <<op, att, answer>>
     \/ att # Nothing /\ Goes(u, "duplicate") /\ UNCHANGED <<op, att, answer>>
  /\ OnlyCalls /\ UNCHANGED <<disk, damage>>

Release(u) ==
  /\ At(u, "release") /\ op' = Unleased /\ Answers(u, "ERROR")
  /\ OnlyCalls /\ UNCHANGED <<att, disk, damage>>

Duplicate(u) ==
  /\ At(u, "duplicate") /\ op' = Unleased /\ Goes(u, "drop")
  /\ OnlyCalls /\ UNCHANGED <<att, disk, answer, damage>>

\* The file it saved is deleted: the evidence is another call's.
Drop(u) ==
  /\ At(u, "drop") /\ Put("private", me[u].file, Nothing)
  /\ \/ att.image = me[u].image /\ Goes(u, "settle") /\ UNCHANGED answer
     \/ att.image # me[u].image /\ Answers(u, "REUSED")
  /\ OnlyCalls /\ UNCHANGED <<op, att, damage>>

Settle(u) ==
  /\ At(u, "settle") /\ Touch("COMPLETED", Forgotten(op.keys), "none") /\ Answers(u, "OK")
  /\ OnlyCalls /\ UNCHANGED <<att, disk, damage>>

CallWorks(u) ==
  \/ FindPrior(u) \/ Acquire(u) \/ ClaimCall(u) \/ Completed(u) \/ Stage(u) \/ Resume(u) \/ Reset(u)
  \/ Save(u) \/ Staged(u) \/ Check(u) \/ Target(u) \/ Move(u) \/ Verify(u) \/ Promoted(u)
  \/ Clean(u) \/ (\E a \in DOMAIN IsolateAt : Isolate(u, a)) \/ Isolated(u) \/ Persist(u) \/ Release(u) \/ Duplicate(u)
  \/ Drop(u) \/ Settle(u)

-----------------------------------------------------------------------------
(* The worker: claimRecoverableOperations, preparePromotedFile,            *)
(* persistRecoveredEvidence, releaseClaim.  One runs at a time.            *)

WorkerAt(pc) == worker.pc = pc
WorkerGoes(pc) == worker' = [worker EXCEPT !.pc = pc]
OnlyWorker == UNCHANGED <<me, keeper, eligible, answer, late, crashes>>

\* Fault: an operation whose file was promoted is not looked at.
RecoverableStaged ==
  /\ op.status = "STAGED" /\ ~NoFiles(op.keys)
  /\ op.attempts < RecoveryAttempts /\ ~op.recent /\ LeaseFree

Recoverable ==
  /\ op.status \in {"STAGED", "PROMOTED"} /\ ~NoFiles(op.keys)
  /\ op.attempts < RecoveryAttempts /\ ~op.recent /\ LeaseFree

Claim ==
  /\ WorkerAt("idle") /\ Recoverable
  /\ op' = [op EXCEPT !.lease = "held", !.recent = TRUE, !.attempts = @ + 1]
  /\ worker' = [pc |-> "look", image |-> op.image, keys |-> op.keys,
                file |-> IF op.keys["private"] # Nothing THEN op.keys["private"] ELSE op.keys["staging"]]
  /\ OnlyWorker /\ UNCHANGED <<att, disk, damage>>

Look ==
  LET p == disk["private"][worker.file]
      n == worker.keys["staging"] IN
  /\ WorkerAt("look")
  /\ WorkerGoes(IF p # Nothing THEN IF p = worker.image THEN "persist" ELSE "release"
                ELSE IF ~Exists("staging", n) THEN "release"
                ELSE IF disk["staging"][n] = worker.image THEN "move" ELSE "release")
  /\ OnlyWorker /\ UNCHANGED <<op, att, disk, damage>>

WorkerMove ==
  LET n == worker.keys["staging"]  t == worker.file IN
  /\ WorkerAt("move")
  /\ \/ Promote(n, t, worker.image) /\ WorkerGoes("verify")
     \/ /\ ~Exists("staging", n) /\ Exists("private", t)
        /\ WorkerGoes("release") /\ UNCHANGED <<disk, damage>>
  /\ OnlyWorker /\ UNCHANGED <<op, att>>

WorkerVerify ==
  /\ WorkerAt("verify")
  /\ WorkerGoes(IF disk["private"][worker.file] = worker.image THEN "checkpoint" ELSE "release")
  /\ OnlyWorker /\ UNCHANGED <<op, att, disk, damage>>

\* UPDATE ... WHERE lease_until > now(): the worker notices that it was late.
Checkpoint ==
  /\ WorkerAt("checkpoint")
  /\ \/ /\ op.lease = "held" /\ WorkerGoes("persist")
        /\ Touch("PROMOTED", KeysWith(op.keys, Nothing, worker.file), "held")
     \/ op.lease # "held" /\ WorkerGoes("release") /\ UNCHANGED op
  /\ OnlyWorker /\ UNCHANGED <<att, disk, damage>>

\* The payment must still be pending; evidence that exists must be this file.
WorkerPersist ==
  /\ WorkerAt("persist")
  /\ \/ /\ eligible /\ (att = Nothing \/ att = [image |-> worker.image, file |-> worker.file])
        /\ att' = [image |-> worker.image, file |-> worker.file]
        /\ Touch("COMPLETED", Forgotten(op.keys), "none") /\ worker' = Resting
     \/ /\ ~eligible \/ (att # Nothing /\ att # [image |-> worker.image, file |-> worker.file])
        /\ WorkerGoes("release") /\ UNCHANGED <<op, att>>
  /\ OnlyWorker /\ UNCHANGED <<disk, damage>>

WorkerRelease ==
  /\ WorkerAt("release") /\ worker' = Resting
  /\ op' = IF op.status = "COMPLETED" THEN op ELSE [op EXCEPT !.lease = "none", !.recent = TRUE]
  /\ OnlyWorker /\ UNCHANGED <<att, disk, damage>>

WorkerWorks ==
  Claim \/ Look \/ WorkerMove \/ WorkerVerify \/ Checkpoint \/ WorkerPersist \/ WorkerRelease

-----------------------------------------------------------------------------
(* Recovery from quarantine, by hand: the file must pass the check again.  *)

\* The copy, under the operation's name: there already, or saved and checked.
KeeperSave ==
  LET q == op.keys["quarantine"] IN
  /\ keeper = Nothing /\ op.status = "QUARANTINED" /\ eligible
  /\ disk["quarantine"][q] = op.image
  /\ \/ disk["private"]["op"] = op.image /\ keeper' = q /\ UNCHANGED <<disk, damage>>
     \/ /\ disk["private"]["op"] = Nothing /\ Writes("private", "op", op.image)
        /\ keeper' = IF disk'["private"]["op"] = op.image THEN q ELSE Nothing
  /\ UNCHANGED <<op, att, me, worker, eligible, answer, late, crashes>>

KeeperPersist ==
  LET row == [image |-> op.image, file |-> "op"] IN
  /\ keeper # Nothing /\ keeper' = Nothing
  /\ \/ /\ op.status = "QUARANTINED" /\ op.keys["quarantine"] = keeper /\ eligible /\ att \in {Nothing, row}
        /\ att' = row /\ Touch("COMPLETED", Forgotten(op.keys), "none")
     \/ /\ ~(op.status = "QUARANTINED" /\ op.keys["quarantine"] = keeper /\ eligible /\ att \in {Nothing, row})
        /\ UNCHANGED <<op, att>>
  /\ UNCHANGED <<disk, me, worker, eligible, answer, late, crashes, damage>>

-----------------------------------------------------------------------------
(* The environment.                                                        *)

Busy == worker # Resting \/ \E u \in Uploads : me[u].pc \notin {"idle", "done"}

\* Five minutes pass without an update: a lease expires while its holder is
\* dead, or while it is still at work.
Wait ==
  /\ op.recent \/ op.lease = "held"
  /\ late' = (late \/ Busy)
  /\ op' = [op EXCEPT !.recent = FALSE, !.lease = IF @ = "held" THEN "expired" ELSE @]
  /\ UNCHANGED <<att, disk, me, worker, keeper, eligible, answer, crashes, damage>>

Crash ==
  /\ crashes < MaxCrashes /\ crashes' = crashes + 1
  /\ \/ \E u \in Uploads :
          /\ me[u].pc \notin {"idle", "done"} /\ Answers(u, "LOST") /\ UNCHANGED <<worker, keeper>>
     \/ worker # Resting /\ worker' = Resting /\ UNCHANGED <<me, answer, keeper>>
     \/ keeper # Nothing /\ keeper' = Nothing /\ UNCHANGED <<me, answer, worker>>
  /\ UNCHANGED <<op, att, disk, eligible, late, damage>>

\* The income is posted, or cancelled.
Post ==
  /\ eligible /\ eligible' = FALSE
  /\ UNCHANGED <<op, att, disk, me, worker, keeper, answer, late, crashes, damage>>

\* Somebody puts the undamaged image in the place of a quarantined file.
Restore ==
  /\ \E n \in Names : disk["quarantine"][n] = "DAMAGED" /\ Put("quarantine", n, op.image)
  /\ UNCHANGED <<op, att, me, worker, keeper, eligible, answer, late, crashes, damage>>

EvidenceNext ==
  \/ \E u \in Uploads : CallWorks(u) \/ \E c \in Images : Call(u, c)
  \/ WorkerWorks \/ KeeperSave \/ KeeperPersist
  \/ Wait \/ Crash \/ Post \/ Restore

EvidenceSpec == EvidenceInit /\ [][EvidenceNext]_evidenceVars

\* Requests run on, the worker has its timer, and time passes.
FairEvidenceSpec ==
  /\ EvidenceSpec
  /\ \A u \in Uploads : WF_evidenceVars(CallWorks(u))
  /\ WF_evidenceVars(WorkerWorks) /\ WF_evidenceVars(Wait)

-----------------------------------------------------------------------------
(* Properties.                                                             *)

\* The evidence of a payment names a file with the image that was sent, also
\* when the call that saved it, its retries and the worker overlap, die or fail.
EvidenceKept == ~late /\ att # Nothing => disk["private"][att.file] = att.image

\* Whoever is told that its evidence is stored has the image it sent stored.
StoredWhatWasSent == \A u \in Uploads : answer[u] = "OK" => att # Nothing /\ att.image = me[u].image

HasFile ==
  /\ op.status \in {"STAGED", "PROMOTED"}
  /\ \E a \in {"staging", "private"} : op.keys[a] # Nothing /\ disk[a][op.keys[a]] = op.image

\* An upload whose file is stored does not stay half done when its call dies:
\* it becomes evidence unless the file is isolated, the income is posted
\* meanwhile or the attempts are used up.
RecoveredOrGivenUp ==
  HasFile ~> \/ op.status \in {"COMPLETED", "QUARANTINED"}
             \/ ~eligible \/ op.attempts >= RecoveryAttempts

===============================================================================
