--------------------------- MODULE RecurringPurchase ---------------------------
(***************************************************************************)
(* A recurring purchase: its template, the payable of each period, the     *)
(* payments registered through the template, and the daily job that        *)
(* generates what is due and sends reminders.                              *)
(*                                                                         *)
(* Templates are read without a lock and saved whole, so an operation is   *)
(* the reading, then the saving of the row as it was read and changed.     *)
(* Time is counted in days; a period is Len days, and its due day is the   *)
(* first of them.  Nobody lacks a permission, and reminders have somebody  *)
(* to go to.                                                               *)
(***************************************************************************)
EXTENDS Integers, FiniteSets

CONSTANTS
  Requests,
  Job,          \* the run of the daily job
  Len,          \* days of a period
  Windows,      \* days before the due day on which it is reminded of
  MaxDay,       \* bound: days
  MaxCalls,     \* bound: calls of the users, in all
  MaxPayables,  \* bound: payables of one period, payments of one period
  MaxFaults     \* bound: generations that fail and restarts of the process, in all

ASSUME RecurringAssumption ==
  /\ Len \in Nat \ {0} /\ Windows \subseteq 0 .. Len - 1 /\ Job \notin Requests
  /\ MaxDay \in Nat /\ MaxCalls \in Nat /\ MaxPayables \in Nat /\ MaxFaults \in Nat

VARIABLES
  tpl,        \* recurring_purchase_templates: status, next due date, last generated period
  today,
  ran,        \* the job of today ended
  count,      \* payables of each period
  paid,       \* payments registered for each period
  delivered,  \* recurring_purchase_reminder_deliveries
  notices,    \* notifications sent for each reminder
  req,        \* requests in progress, the job among them
  edits,      \* history: what users changed of the template, its state or its due date
  calls, faults

rowVars == <<tpl, count, paid>>
reminderVars == <<delivered, notices>>
tallies == <<edits, calls, faults>>
vars == <<rowVars, today, ran, reminderVars, req, tallies>>

Actors == Requests \cup {Job}
Days == 0 .. MaxDay
Period(d) == d \div Len
Periods == 0 .. Period(MaxDay) + 1
Keys == [due : 0 .. Len * (Period(MaxDay) + 1), before : Windows]
FirstRow == [status |-> "ACTIVE", due |-> Len, last |-> -1]
Idle == [op |-> "idle", row |-> FirstRow, now |-> 0, by |-> "none"]

Init ==
  /\ tpl = FirstRow
  /\ today = 0 /\ ran = FALSE
  /\ count = [p \in Periods |-> 0] /\ paid = [p \in Periods |-> 0]
  /\ delivered = {} /\ notices = [k \in Keys |-> 0]
  /\ req = [r \in Actors |-> Idle]
  /\ edits = {} /\ calls = 0 /\ faults = 0

-----------------------------------------------------------------------------
Goes(r, new) == req' = [req EXCEPT ![r] = new]
Ends(r) == Goes(r, Idle)
\* The job ends for today; a request ends.
Over(r) == Ends(r) /\ ran' = (ran \/ r = Job)

(* Changes of the template by a user. *)

\* pause and resume refuse a cancelled recurrence.
Changeable(row) == row.status # "CANCELLED"

Called(r) == req[r] = Idle /\ calls < MaxCalls /\ calls' = calls + 1

Read(r, what, row) ==
  /\ Called(r) /\ edits' = edits \cup {what}
  /\ Goes(r, [Idle EXCEPT !.op = "save", !.row = row])
  /\ UNCHANGED <<rowVars, today, ran, reminderVars, faults>>

ReadState(r, s) ==
  /\ s = "CANCELLED" \/ Changeable(tpl)
  /\ Read(r, "state", [tpl EXCEPT !.status = s])

\* The next due date may be any; what was generated is kept.
ReadUpdate(r, d) == Read(r, "due", [tpl EXCEPT !.due = d])

Save(r) ==
  /\ req[r].op = "save" /\ Ends(r)
  /\ tpl' = req[r].row
  /\ UNCHANGED <<count, paid, today, ran, reminderVars, tallies>>

-----------------------------------------------------------------------------
(* Generation of the payable of the current period. *)

\* Fault: due on its day only.
IsDueThatDay(row, now) == row.status = "ACTIVE" /\ row.due = now

IsDue(row, now) == row.status = "ACTIVE" /\ row.due <= now

\* Fault: the next due date is reckoned from today.
MarkGeneratedToday(row) ==
  [row EXCEPT !.due = Len * (Period(today) + 1), !.last = Period(row.due)]

MarkGenerated(row) == [row EXCEPT !.due = Len * (Period(row.due) + 1), !.last = Period(row.due)]

Generate(r) ==
  /\ Called(r)
  /\ Goes(r, [Idle EXCEPT !.op = "open", !.now = today, !.by = "user"])
  /\ UNCHANGED <<rowVars, today, ran, reminderVars, edits, faults>>

NeedsGeneration(row) == row.last # Period(row.due)

\* A payment through the template: for the payable of the current period, which is generated if need be.
Register(r) ==
  /\ Called(r) /\ tpl.due <= MaxDay
  /\ Goes(r, IF NeedsGeneration(tpl)
               THEN [Idle EXCEPT !.op = "open", !.now = tpl.due, !.by = "register"]
               ELSE [Idle EXCEPT !.op = "pay", !.row = tpl, !.by = "register"])
  /\ UNCHANGED <<rowVars, today, ran, reminderVars, edits, faults>>

\* The transaction reads the template.
Opens(row, now) == IsDue(row, now) /\ NeedsGeneration(row)

Open(r) ==
  /\ req[r].op = "open" /\ Opens(tpl, req[r].now)
  /\ count[Period(tpl.due)] < MaxPayables
  /\ Goes(r, [req[r] EXCEPT !.op = "commit", !.row = tpl])
  /\ UNCHANGED <<rowVars, today, ran, reminderVars, tallies>>

\* Not due, or generated already: the job goes on, a registration throws.
OpenNot(r) ==
  /\ req[r].op = "open" /\ ~Opens(tpl, req[r].now)
  /\ Goes(r, IF r = Job THEN [Idle EXCEPT !.op = "remind"] ELSE Idle)
  /\ UNCHANGED <<rowVars, today, ran, reminderVars, tallies>>

\* Purchase, payable and template are written.
Commit(r) ==
  LET row == req[r].row IN
  /\ req[r].op = "commit"
  /\ count' = [count EXCEPT ![Period(row.due)] = @ + 1]
  /\ tpl' = MarkGenerated(row)
  /\ Goes(r, CASE req[r].by = "user" -> Idle
               [] req[r].by = "job" -> [Idle EXCEPT !.op = "remind"]
               [] req[r].by = "register" -> [req[r] EXCEPT !.op = "pay", !.row = MarkGenerated(row)])
  /\ UNCHANGED <<paid, today, ran, reminderVars, tallies>>

\* The generation fails and is rolled back; so ends the run of the job.
Fail(r) ==
  /\ req[r].op \in {"open", "commit"} /\ Over(r)
  /\ faults < MaxFaults /\ faults' = faults + 1
  /\ UNCHANGED <<rowVars, today, reminderVars, edits, calls>>

\* The payment of the payable that was generated last.
Pay(r) ==
  /\ req[r].op = "pay" /\ Ends(r) /\ paid[req[r].row.last] < MaxPayables
  /\ paid' = [paid EXCEPT ![req[r].row.last] = @ + 1]
  /\ UNCHANGED <<tpl, count, today, ran, reminderVars, tallies>>

-----------------------------------------------------------------------------
(* The daily job: one run at a time. *)

Run ==
  /\ ~ran /\ req[Job] = Idle
  /\ Goes(Job, IF IsDue(tpl, today) THEN [Idle EXCEPT !.op = "open", !.now = today, !.by = "job"]
                                    ELSE [Idle EXCEPT !.op = "remind"])
  /\ UNCHANGED <<rowVars, today, ran, reminderVars, tallies>>

Key(row) == [due |-> row.due, before |-> row.due - today]

\* Fault: what was delivered is not looked up.
RemindsAgain(row) == row.status = "ACTIVE" /\ row.due - today \in Windows /\ NeedsGeneration(row)

Reminds(row) ==
  /\ row.status = "ACTIVE" /\ row.due - today \in Windows /\ NeedsGeneration(row)
  /\ Key(row) \notin delivered

Remind ==
  /\ req[Job].op = "remind" /\ Reminds(tpl)
  /\ Goes(Job, [Idle EXCEPT !.op = "notify", !.row = tpl])
  /\ UNCHANGED <<rowVars, today, ran, reminderVars, tallies>>

RemindNot ==
  /\ req[Job].op = "remind" /\ ~Reminds(tpl) /\ Over(Job)
  /\ UNCHANGED <<rowVars, today, reminderVars, tallies>>

Notify ==
  /\ req[Job].op = "notify" /\ Goes(Job, [req[Job] EXCEPT !.op = "record"])
  /\ notices' = [notices EXCEPT ![Key(req[Job].row)] = @ + 1]
  /\ UNCHANGED <<rowVars, today, ran, delivered, tallies>>

Record ==
  /\ req[Job].op = "record" /\ Over(Job)
  /\ delivered' = delivered \cup {Key(req[Job].row)}
  /\ UNCHANGED <<rowVars, today, notices, tallies>>

\* Every day has its run; the last day repeats.
Tick ==
  /\ ran /\ ran' = FALSE
  /\ today' = IF today < MaxDay THEN today + 1 ELSE today
  /\ UNCHANGED <<rowVars, reminderVars, req, tallies>>

\* What runs is gone; the job runs when the process starts.
Restart ==
  /\ faults < MaxFaults /\ faults' = faults + 1
  /\ req' = [r \in Actors |-> Idle] /\ ran' = FALSE
  /\ UNCHANGED <<rowVars, today, reminderVars, edits, calls>>

Begins(r) ==
  \/ \E s \in {"ACTIVE", "PAUSED", "CANCELLED"} : ReadState(r, s)
  \/ \E d \in Days : ReadUpdate(r, d)
  \/ Generate(r) \/ Register(r)
Proceeds(r) == Save(r) \/ Open(r) \/ OpenNot(r) \/ Commit(r) \/ Pay(r)
Reminding == Remind \/ RemindNot \/ Notify \/ Record

Next ==
  \/ \E r \in Requests : Begins(r)
  \/ \E r \in Actors : Proceeds(r) \/ Fail(r)
  \/ Run \/ Reminding \/ Tick \/ Restart

Spec == Init /\ [][Next]_vars

(* The timer of the job goes off, every day, and what runs goes on. *)
Fairness ==
  /\ \A r \in Actors : WF_vars(Proceeds(r))
  /\ WF_vars(Tick) /\ WF_vars(Run) /\ WF_vars(Reminding)
FairSpec == Spec /\ Fairness

-----------------------------------------------------------------------------
(* The due date never passes over a period: every period before the one    *)
(* that is due next has its payable, whatever overwrites the template.     *)
(* Holds until somebody edits the due date.                                *)
NoPeriodSkipped == "due" \notin edits => \A p \in 1 .. Period(tpl.due) - 1 : count[p] > 0

(* A reminder that was recorded is not sent again, after a restart too.    *)
RecordedNotResent == [][\A k \in delivered : notices'[k] = notices[k]]_vars

(* What is due is generated in the end, whatever fails or restarts, unless *)
(* the recurrence is paused or cancelled, or a user saves the template.    *)
DueIsGenerated ==
  \A d \in Days :
    (tpl.status = "ACTIVE" /\ tpl.due = d /\ today >= d) ~> (count[Period(d)] > 0 \/ edits # {})
===============================================================================
