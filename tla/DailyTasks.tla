------------------------------ MODULE DailyTasks ------------------------------
(***************************************************************************)
(* The two daily tasks of billing/tasks.py for one recipient.              *)
(* sweep_due_invoices bills the cycle after the latest invoice;            *)
(* send_overdue_reminders mails the recipient of an overdue invoice once.  *)
(* Between any two of their statements invoices are issued, backdated,     *)
(* paid, refunded and deleted, the recipient cancels or resumes, and an    *)
(* admin changes the profile of the department.  A task reads the date     *)
(* once and is stopped after CELERY_TASK_TIME_LIMIT, so no midnight falls  *)
(* into it, and its retries follow one another.                            *)
(***************************************************************************)
EXTENDS Integers

CONSTANTS
    Invoice,              \* the ids of the invoices that may ever be issued
    Cycle,                \* BILLING_CYCLE_DAYS
    Ahead,                \* GENERATE_DAYS_BEFORE_DUE
    DueIn,                \* the due_in_days of other invoices, negative when backdated
    ReminderChoices,      \* the reminder_days_after_due an admin picks, 0 for none
    MaxDay,               \* bound: the last day of the run
    MaxFails              \* bound: how often each task, or a mail, fails

ASSUME DailyTasksAssumption ==
    /\ Invoice \subseteq Nat /\ DueIn \subseteq Int /\ ReminderChoices \subseteq Nat
    /\ Cycle \in Nat \ {0} /\ Ahead \in Nat /\ MaxDay \in Nat /\ MaxFails \in Nat

VARIABLES
    status,               \* Invoice.status
    due,                  \* Invoice.due_date
    reminded,             \* the invoices whose reminder_sent_at is set
    skipped,              \* the sweep passes over: cancelled, auto_generate_invoices off, or no price
    reminderDays,         \* DepartmentBillingProfile.reminder_days_after_due
    today,                \* timezone.localdate()
    sweep,                \* where the sweep is, and its next_due
    reruns,               \* history: the failures of the sweep so far
    swept,                \* history: the invoices that the sweep has issued
    task,                 \* where the reminders are: the candidates left, the one mailed
    fails,                \* history: the failures of the reminders so far
    sent                  \* history: how often each invoice was reminded of

INSTANCE InvoiceLedger

columns == <<status, due, reminded>>
profile == <<skipped, reminderDays>>
sweeping == <<sweep, reruns, swept>>
reminding == <<task, fails, sent>>
vars == <<columns, profile, today, sweeping, reminding>>

Asleep == [pc |-> "idle", next |-> 0]
Idle == [pc |-> "idle", left |-> {}, inv |-> {}]

TypeOK ==
    /\ LedgerTypeOK
    /\ due \in [Invoice -> Int]
    /\ reminded \in SUBSET Invoice
    /\ skipped \in BOOLEAN /\ reminderDays \in ReminderChoices
    /\ today \in 0 .. MaxDay
    /\ sweep \in [pc : {"idle", "check", "create"}, next : Int]
    /\ reruns \in 0 .. MaxFails /\ swept \in SUBSET Invoice
    /\ task \in [pc : {"idle", "loop", "save"}, left : SUBSET Invoice, inv : SUBSET Invoice]
    /\ fails \in 0 .. MaxFails /\ sent \in [Invoice -> Nat]

Init ==
    /\ LedgerInit
    /\ due = [i \in Invoice |-> 0]
    /\ reminded = {} /\ skipped = FALSE /\ reminderDays \in ReminderChoices
    /\ today = 0
    /\ sweep = Asleep /\ reruns = 0 /\ swept = {}
    /\ task = Idle /\ fails = 0 /\ sent = [i \in Invoice |-> 0]

Live == {i \in Invoice : status[i] \in Exists}

\* Inserts the row with the next id.
Insert(i, date) ==
    /\ \A j \in Invoice : j < i => status[j] # "none"
    /\ Move(i, {"none"}, "unpaid")
    /\ due' = [due EXCEPT ![i] = date]

-------------------------------------------------------------------------------
\* The welcome invoice, a checkout, or one an admin generates, backdated or not.
IssueOther(i, d) ==
    /\ Insert(i, today + d)
    /\ UNCHANGED <<reminded, profile, today, sweeping, reminding>>

\* Payment, refund and deletion, as the ledger allows them.
OtherMove(i) ==
    /\ Submit(i) \/ Confirm(i) \/ Reopen(i) \/ Refund(i) \/ Remove(i)
    /\ UNCHANGED <<due, reminded, profile, today, sweeping, reminding>>

\* The recipient cancels or resumes, or an admin changes the profile or a price.
ChangeSkipped ==
    /\ skipped' = ~skipped
    /\ UNCHANGED <<columns, reminderDays, today, sweeping, reminding>>

ChangeReminders(n) ==
    /\ n # reminderDays
    /\ reminderDays' = n
    /\ UNCHANGED <<columns, skipped, today, sweeping, reminding>>

Tick ==
    /\ today < MaxDay /\ sweep = Asleep /\ task = Idle
    /\ today' = today + 1
    /\ UNCHANGED <<columns, profile, sweeping, reminding>>

-------------------------------------------------------------------------------
\* sweep_due_invoices

\* The first of S by order_by("-issue_date", "-id"): ids follow the issue dates.
Latest(i, S) == i \in S /\ \A j \in S : j <= i
NextDue(i) == due[i] + Cycle

\* Mutants: one day too far ahead, one day too late.
InWindowEarly(n) == n <= today + Ahead + 1
InWindowLate(n) == n < today + Ahead

InWindow(n) == n <= today + Ahead

\* A recipient without invoices is skipped entirely.
SweepLatest(i) ==
    /\ sweep = Asleep
    /\ Latest(i, Live) /\ InWindow(NextDue(i))
    /\ sweep' = [pc |-> "check", next |-> NextDue(i)]
    /\ UNCHANGED <<columns, profile, today, reruns, swept, reminding>>

\* Mutant: nobody asks whether this cycle was generated already.
SweepCheckSkippedOnly ==
    /\ sweep.pc = "check"
    /\ sweep' = IF skipped THEN Asleep ELSE [sweep EXCEPT !.pc = "create"]
    /\ UNCHANGED <<columns, profile, today, reruns, swept, reminding>>

SweepCheck ==
    /\ sweep.pc = "check"
    /\ sweep' = IF skipped \/ \E i \in Live : due[i] = sweep.next
                  THEN Asleep ELSE [sweep EXCEPT !.pc = "create"]
    /\ UNCHANGED <<columns, profile, today, reruns, swept, reminding>>

SweepCreate(i) ==
    /\ sweep.pc = "create"
    /\ Insert(i, sweep.next)
    /\ swept' = swept \cup {i}
    /\ sweep' = Asleep
    /\ UNCHANGED <<reminded, profile, today, reruns, reminding>>

\* An unexpected error or a lost worker: the task runs again, now or tomorrow.
SweepFails ==
    /\ sweep # Asleep /\ reruns < MaxFails
    /\ reruns' = reruns + 1
    /\ sweep' = Asleep
    /\ UNCHANGED <<columns, profile, today, swept, reminding>>

SweepStep == SweepCheck \/ \E i \in Invoice : SweepLatest(i) \/ SweepCreate(i)

-------------------------------------------------------------------------------
\* send_overdue_reminders

\* An invoice that asks for money past its due date.
Overdue(i) == i \in Live /\ due[i] < today /\ status[i] # "paid"

\* Mutant: reminder_sent_at is not looked at.
CandidatesAgain == {i \in Invoice : Overdue(i)}

\* The rows the task reads once ...
Candidates == {i \in Invoice : Overdue(i) /\ i \notin reminded}

\* Mutant: only on the very day.
ThresholdIsToday(i) == reminderDays # 0 /\ today = due[i] + reminderDays

PastThreshold(i) == reminderDays # 0 /\ today >= due[i] + reminderDays

Start ==
    /\ task = Idle
    /\ \E i \in Candidates : PastThreshold(i)
    /\ task' = [Idle EXCEPT !.pc = "loop", !.left = Candidates]
    /\ UNCHANGED <<columns, profile, today, sweeping, fails, sent>>

\* Takes the latest of the candidates left; its row may have changed since.
TakeCandidate(i) ==
    /\ task.pc = "loop"
    /\ Latest(i, task.left)

\* ... it is passed over, or the mail server refuses its mail ...
PassOver(i) ==
    /\ TakeCandidate(i)
    /\ task' = [task EXCEPT !.left = @ \ {i}]
    /\ \/ ~PastThreshold(i) /\ UNCHANGED fails
       \/ PastThreshold(i) /\ fails < MaxFails /\ fails' = fails + 1
    /\ UNCHANGED <<columns, profile, today, sweeping, sent>>

\* Mutant: the invoice stays in the loop.
SendReminderKeeps(i) ==
    /\ TakeCandidate(i)
    /\ PastThreshold(i)
    /\ sent' = [sent EXCEPT ![i] = @ + 1]
    /\ task' = [task EXCEPT !.pc = "save", !.inv = {i}]
    /\ UNCHANGED <<columns, profile, today, sweeping, fails>>

\* ... or the mail is sent ...
SendReminder(i) ==
    /\ TakeCandidate(i)
    /\ PastThreshold(i)
    /\ sent' = [sent EXCEPT ![i] = @ + 1]
    /\ task' = [task EXCEPT !.pc = "save", !.left = @ \ {i}, !.inv = {i}]
    /\ UNCHANGED <<columns, profile, today, sweeping, fails>>

\* ... and reminder_sent_at saved; when the row is gone the save raises, and the
\* task is retried.
SaveReminder ==
    /\ task.pc = "save"
    /\ IF task.inv \subseteq Live
         THEN /\ reminded' = reminded \cup task.inv
              /\ task' = [task EXCEPT !.pc = "loop", !.inv = {}]
         ELSE task' = Idle /\ UNCHANGED reminded
    /\ UNCHANGED <<status, due, profile, today, sweeping, fails, sent>>

Done ==
    /\ task.pc = "loop" /\ task.left = {}
    /\ task' = Idle
    /\ UNCHANGED <<columns, profile, today, sweeping, fails, sent>>

\* An unexpected error or a lost worker: the task runs again, now or tomorrow.
TaskFails ==
    /\ task # Idle /\ fails < MaxFails
    /\ fails' = fails + 1
    /\ task' = Idle
    /\ UNCHANGED <<columns, profile, today, sweeping, sent>>

TaskStep ==
    Start \/ SaveReminder \/ Done \/ \E i \in Invoice : PassOver(i) \/ SendReminder(i)

-------------------------------------------------------------------------------
Next ==
    \/ \E i \in Invoice : OtherMove(i) \/ \E d \in DueIn : IssueOther(i, d)
    \/ ChangeSkipped \/ \E n \in ReminderChoices : ChangeReminders(n)
    \/ Tick
    \/ SweepStep \/ SweepFails
    \/ TaskStep \/ TaskFails

Spec == Init /\ [][Next]_vars

\* The beat process dispatches both tasks again and again.
FairSpec == Spec /\ WF_vars(SweepStep) /\ WF_vars(TaskStep)
-------------------------------------------------------------------------------
\* "already generated this cycle - avoids double-generation on a late/rerun sweep":
\* however the sweep is rerun, and whatever is issued, backdated or deleted in
\* between, no two invoices of the sweep are due on the same day.
CycleBilledOnce == \A i, j \in swept \cap Live : due[i] = due[j] => i = j

\* "a few days before it's due": nobody is billed for a cycle further ahead.
NeverEarly == \A i \in swept : due[i] <= today + Ahead

\* "exactly once each": a second mail about one invoice has a failure behind it,
\* between the sending and the saving.
RemindersExplained == \A i \in Invoice : sent[i] <= 1 + fails

\* Neither task does too much, however late, failing or rerun it is.
TasksSafe == TypeOK /\ NeverEarly /\ RemindersExplained

\* "generate each billable user's NEXT invoice a few days before it's due": when
\* the next cycle is that close, its invoice is there some time, unless another
\* invoice came or the recipient is not billed.
NextInvoiceArrives(i) ==
    (Latest(i, Live) /\ due[i] + Cycle - today <= Ahead) ~>
        \/ ~Latest(i, Live) \/ skipped
        \/ \E j \in Live : due[j] = due[i] + Cycle
        \/ \A j \in Invoice : status[j] # "none"

\* "a late or rerun sweep still catches every invoice that crossed its reminder
\* threshold": an invoice that is overdue by the threshold is reminded of, unless
\* it is paid or deleted or the reminders are turned off first.
ReminderArrives(i) ==
    (status[i] \in Open /\ reminderDays # 0 /\ today - due[i] >= reminderDays) ~>
        i \in reminded \/ status[i] \notin Open \/ reminderDays = 0 \/ today - due[i] < reminderDays
===============================================================================
