--------------------------- MODULE BackgroundProofs ---------------------------
(***************************************************************************)
(* What the background work keeps, for any number of rows, workers and     *)
(* days: the two daily tasks of billing, the maintenance windows with the  *)
(* state that requests cache of them and the notices of them, the choices  *)
(* of which there is one, the catalogues of the providers, the notices of  *)
(* a trial and of what is used, and the e-mail of a notification.          *)
(* Each component has its own constants and variables; two components that *)
(* use one word for two things are told apart by a prefix.                 *)
(***************************************************************************)
EXTENDS DailyTasks, Sequences, FiniteSetTheorems, TLAPS

CONSTANTS
    Worker,                                  \* the workers, or requests, of each component
    Window, Visitor, Times, Ttl, MaxTime, NoWindow,
    Choice, MaxTx,
    Model, MaxChanges, MaxActs,
    NoticeDays, Term, WarningGap, LastDay, MaxWarnings, MaxFaults,
    MaxRetries, MaxClicks

VARIABLES
    window, wNow, cache, visit, queue, wJob, notified, wFails, wSent, changedAt,
    table, committed, tx, begun, phantom,
    offered, key, approval, known, retired, enabled, pJob, changes, acts, kept,
    nNow, trial, notes, nSweep, chat, faults, warned, told, deleted, muddled,
    note, mTask, log, clicks, logged, accepted, broken

Windows == INSTANCE Maintenance WITH now <- wNow, job <- wJob, fails <- wFails, sent <- wSent
Choices == INSTANCE SingleChoice
Providers == INSTANCE ProviderSync WITH job <- pJob
Telling == INSTANCE Notices WITH
    now <- nNow, sweep <- nSweep, Window <- WarningGap, MaxTime <- LastDay
Mailing == INSTANCE Mails WITH task <- mTask

ASSUME MaintenanceAssumption == Windows!MaintenanceConstants
ASSUME ChoiceAssumption == Choices!SingleChoiceConstants
ASSUME SyncAssumption == Providers!ProviderSyncConstants
ASSUME NoticesAssumption == Telling!NoticesConstants
ASSUME MailsAssumption == Mailing!MailsConstants

-------------------------------------------------------------------------------
\* A cached state misleads no longer than its lifetime, and blocks nobody after the end.
StateSafe == Windows!TypeOK /\ Windows!MisledWithinTtl /\ Windows!NotBlockedAfterEnd

\* However the notice tasks are retried, lost and overtaken, nobody is told twice, and
\* nobody is told of a withdrawal without having been told of the window.
NoticesSafe == Windows!TypeOK /\ Windows!NoticeAtMostOnce /\ Windows!WithdrawnMeansTold

\* One default plan and one active prompt, whoever chooses at once; a retired model is off.
CatalogueSafe ==
    /\ Choices!TypeOK /\ Choices!OneChosen
    /\ Providers!TypeOK /\ Providers!RetiredIsOff

\* What a person decides stays, when a job that began before ends after: a provider is not
\* connected again by a sync, a notification not marked unread again by its mail.
LateJobsUndoNothing == Providers!StaysDisconnected /\ Mailing!ReadIsTheUsers

\* Nobody is told twice, and what counts as sent was sent.
NotificationsSafe ==
    /\ Telling!TypeOK /\ Telling!WarnedSparingly /\ Telling!ToldOnce
    /\ Mailing!TypeOK /\ Mailing!SentMeansAccepted

-------------------------------------------------------------------------------
(* The two daily tasks.                                                    *)

\* The sweep: what has been issued is a row or was one, the answer of the
\* already-generated check still holds of the sweep's own invoices when the task
\* inserts the next one, and the date that was looked at is still today's.
Known == \A i \in swept : status[i] # "none"

CheckHolds ==
    sweep.pc = "create" => \A i \in swept \cap Live : due[i] # sweep.next

NextIsNear == sweep.pc # "idle" => sweep.next <= today + Ahead

\* The reminders: a mail that is neither recorded nor about to be recorded had a
\* failure of its own, and nobody is mailed before there is an invoice.
SaveOnly ==
    /\ task.pc # "save" => task.inv = {}
    /\ \A i, j \in task.inv : i = j
    /\ \A i \in task.left : status[i] # "none"

Unrecorded(i) == status[i] # "deleted" /\ i \notin reminded \cup task.inv

MailsCounted == \A i \in Invoice :
    /\ status[i] = "none" => sent[i] = 0
    /\ i \in task.left \/ Unrecorded(i) => sent[i] <= fails

DailyInv ==
    /\ TasksSafe
    /\ Known /\ CheckHolds /\ NextIsNear /\ CycleBilledOnce
    /\ SaveOnly /\ MailsCounted

-------------------------------------------------------------------------------
LEMMA Statuses ==
    ASSUME LedgerTypeOK, NEW i \in Invoice
    PROVE  (i \in Live <=> status[i] \notin {"none", "deleted"})
BY DEF LedgerTypeOK, Status, Exists, Open, Live

LEMMA DailyInit == Init => DailyInv
<1> SUFFICES ASSUME Init PROVE DailyInv
  OBVIOUS
<1> USE DEF Init, LedgerInit
<1>1. TypeOK
  <2>1. LedgerTypeOK
    BY DEF LedgerTypeOK, Status, Exists, Open
  <2>2. 0 \in 0 .. MaxDay /\ 0 \in 0 .. MaxFails
    BY DailyTasksAssumption
  <2>3. due \in [Invoice -> Int] /\ sent \in [Invoice -> Nat]
    OBVIOUS
  <2>4. sweep \in [pc : {"idle", "check", "create"}, next : Int]
    BY DEF Asleep
  <2>5. task \in [pc : {"idle", "loop", "save"}, left : SUBSET Invoice, inv : SUBSET Invoice]
    BY DEF Idle
  <2>6. QED
    BY <2>1, <2>2, <2>3, <2>4, <2>5 DEF TypeOK
<1>2. NeverEarly /\ RemindersExplained
  BY DEF NeverEarly, RemindersExplained
<1>3. Known /\ CheckHolds /\ NextIsNear /\ CycleBilledOnce
  BY DEF Known, CheckHolds, NextIsNear, CycleBilledOnce, Asleep
<1>4. SaveOnly /\ MailsCounted
  BY DEF SaveOnly, MailsCounted, Idle
<1>5. QED
  BY <1>1, <1>2, <1>3, <1>4 DEF DailyInv, TasksSafe

-------------------------------------------------------------------------------
\* The two tasks know nothing of each other: what one keeps, the steps of the other keep.
SweepFacts == NeverEarly /\ Known /\ CheckHolds /\ NextIsNear /\ CycleBilledOnce
MailFacts == RemindersExplained /\ SaveOnly /\ MailsCounted

LEMMA Parts ==
    DailyInv <=> TypeOK /\ SweepFacts /\ MailFacts
BY DEF DailyInv, TasksSafe, SweepFacts, MailFacts

\* Where no row is inserted or brought back, nothing of the sweep is disturbed.
LEMMA SweepUndisturbed ==
    ASSUME TypeOK, SweepFacts, UNCHANGED <<due, today, sweeping>>, Live' \subseteq Live,
           \A i \in Invoice : status[i] # "none" => status'[i] # "none"
    PROVE  SweepFacts'
<1>1. UNCHANGED <<sweep, swept>> /\ swept \subseteq Invoice
  BY DEF sweeping, TypeOK
<1>2. QED
  BY <1>1 DEF SweepFacts, NeverEarly, Known, CheckHolds, NextIsNear, CycleBilledOnce

\* Nor anything of the reminders where no row is brought back.
LEMMA MailUndisturbed ==
    ASSUME TypeOK, MailFacts, UNCHANGED <<reminded, reminding>>,
           \A i \in Invoice : (status'[i] = "none" => status[i] = "none")
                           /\ (status[i] = "deleted" => status'[i] = "deleted")
    PROVE  MailFacts'
<1>1. UNCHANGED <<task, fails, sent>> /\ task.left \subseteq Invoice
  BY DEF reminding, TypeOK
<1>2. QED
  BY <1>1 DEF MailFacts, RemindersExplained, SaveOnly, MailsCounted, Unrecorded

LEMMA RowsKept ==
    ASSUME UNCHANGED status
    PROVE  /\ Live' = Live
           /\ \A i \in Invoice : status'[i] = status[i]
BY DEF Live

-------------------------------------------------------------------------------
\* A new row is no invoice of the sweep, and nobody was mailed about it.
LEMMA InsertKeeps ==
    ASSUME NEW i \in Invoice, NEW date \in Int, TypeOK, Known, Insert(i, date)
    PROVE  /\ LedgerTypeOK' /\ due' \in [Invoice -> Int]
           /\ i \notin swept /\ status[i] = "none" /\ status'[i] = "unpaid" /\ due'[i] = date
           /\ \A j \in Invoice \ {i} : status'[j] = status[j] /\ due'[j] = due[j]
           /\ swept \cap Live' = swept \cap Live
<1>1. status[i] = "none" /\ status' = [status EXCEPT ![i] = "unpaid"] /\ due' = [due EXCEPT ![i] = date]
  BY DEF Insert, Move
<1>2. status \in [Invoice -> Status] /\ due \in [Invoice -> Int] /\ swept \subseteq Invoice
  BY DEF TypeOK, LedgerTypeOK
<1>3. status' \in [Invoice -> Status] /\ due' \in [Invoice -> Int]
  BY <1>1, <1>2 DEF Status, Exists, Open
<1>4. i \notin swept
  BY <1>1 DEF Known
<1>5. status'[i] = "unpaid" /\ due'[i] = date /\ \A j \in Invoice \ {i} : status'[j] = status[j] /\ due'[j] = due[j]
  BY <1>1, <1>2
<1>6. swept \cap Live' = swept \cap Live
  BY <1>2, <1>4, <1>5 DEF Live
<1>7. QED
  BY <1>1, <1>3, <1>4, <1>5, <1>6 DEF LedgerTypeOK

\* A row that was inserted is unpaid and not yet mailed about.
LEMMA InsertKeepsMail ==
    ASSUME NEW i \in Invoice, NEW date \in Int, TypeOK, Known, MailFacts, Insert(i, date), UNCHANGED <<reminded, reminding>>
    PROVE  MailFacts'
<1>1. \A j \in Invoice : (status'[j] = "none" => status[j] = "none") /\ (status[j] = "deleted" => status'[j] = "deleted")
  BY InsertKeeps
<1>2. QED
  BY <1>1, MailUndisturbed

LEMMA IssueOtherKeeps ==
    ASSUME NEW i \in Invoice, NEW d \in DueIn, DailyInv, IssueOther(i, d)
    PROVE  DailyInv'
<1>1. TypeOK /\ SweepFacts /\ MailFacts /\ Known
  BY Parts DEF SweepFacts
<1>2. today + d \in Int
  BY <1>1, DailyTasksAssumption DEF TypeOK
<1>3. Insert(i, today + d) /\ UNCHANGED <<reminded, profile, today, sweeping, reminding>>
  BY DEF IssueOther
<1>4. UNCHANGED <<reminded, skipped, reminderDays, today, sweep, reruns, swept, task, fails, sent>> /\ swept \subseteq Invoice
  BY <1>1, <1>3 DEF profile, sweeping, reminding, TypeOK
<1>5. LedgerTypeOK' /\ due' \in [Invoice -> Int] /\ i \notin swept /\ status'[i] = "unpaid"
        /\ (\A j \in Invoice \ {i} : status'[j] = status[j] /\ due'[j] = due[j]) /\ swept \cap Live' = swept \cap Live
  BY <1>1, <1>2, <1>3, InsertKeeps
<1>6. TypeOK'
  BY <1>1, <1>4, <1>5 DEF TypeOK
<1>7. SweepFacts'
  <2>1. \A j \in swept : j # i /\ j \in Invoice /\ due'[j] = due[j] /\ status'[j] = status[j]
    BY <1>4, <1>5
  <2>2. NeverEarly' /\ Known' /\ NextIsNear'
    BY <1>1, <1>4, <2>1 DEF SweepFacts, NeverEarly, Known, NextIsNear
  <2>3. \A j \in swept' \cap Live' : j \in swept \cap Live /\ due'[j] = due[j]
    BY <1>4, <1>5, <2>1
  <2>4. CheckHolds'
    BY <1>1, <1>4, <2>3 DEF SweepFacts, CheckHolds
  <2>5. CycleBilledOnce'
    BY <1>1, <2>3 DEF SweepFacts, CycleBilledOnce
  <2>6. QED
    BY <2>2, <2>4, <2>5 DEF SweepFacts
<1>8. MailFacts'
  BY <1>1, <1>2, <1>3, InsertKeepsMail
<1>9. QED
  BY <1>6, <1>7, <1>8 DEF DailyInv, TasksSafe, SweepFacts, MailFacts

\* Payments, refunds and deletions bring no row back.
LEMMA MoveKeeps ==
    ASSUME NEW i \in Invoice, DailyInv, OtherMove(i)
    PROVE  DailyInv'
<1>1. TypeOK /\ SweepFacts /\ MailFacts
  BY Parts
<1>2. /\ \E from \in SUBSET Exists, to \in {"pending", "paid", "unpaid", "refunded", "deleted"} : Move(i, from, to)
      /\ UNCHANGED <<due, reminded, profile, today, sweeping, reminding>>
  BY DEF OtherMove, Submit, Confirm, Reopen, Refund, Remove, Exists, Open
<1>3. LedgerTypeOK' /\ Live' \subseteq Live
        /\ (\A j \in Invoice : status[j] # "none" => status'[j] # "none")
        /\ (\A j \in Invoice : (status'[j] = "none" => status[j] = "none")
                             /\ (status[j] = "deleted" => status'[j] = "deleted"))
  <2>1. PICK from \in SUBSET Exists, to \in {"pending", "paid", "unpaid", "refunded", "deleted"} : Move(i, from, to)
    BY <1>2
  <2>2. status \in [Invoice -> Status] /\ status[i] \in Exists /\ status' = [status EXCEPT ![i] = to]
    BY <1>1, <2>1 DEF Move, TypeOK, LedgerTypeOK
  <2>3. to # "none" /\ to \in Status /\ "none" \notin Exists /\ "deleted" \notin Exists
    BY DEF Status, Exists, Open
  <2>4. \A j \in Invoice : j # i => status'[j] = status[j]
    BY <2>2
  <2>5. status'[i] = to /\ status' \in [Invoice -> Status]
    BY <2>2, <2>3
  <2>6. QED
    BY <2>2, <2>3, <2>4, <2>5 DEF Live, LedgerTypeOK
<1>4. TypeOK'
  BY <1>1, <1>2, <1>3 DEF TypeOK, profile, sweeping, reminding
<1>5. SweepFacts' /\ MailFacts'
  BY <1>1, <1>2, <1>3, SweepUndisturbed, MailUndisturbed
<1>6. QED
  BY <1>4, <1>5 DEF DailyInv, TasksSafe, SweepFacts, MailFacts

\* A click on a setting touches no row and neither task; midnight finds both asleep.
LEMMA SettingsKeep ==
    ASSUME DailyInv, ChangeSkipped \/ (\E n \in ReminderChoices : ChangeReminders(n)) \/ Tick \/ UNCHANGED vars
    PROVE  DailyInv'
<1>1. TypeOK /\ SweepFacts /\ MailFacts
  BY Parts
<1>2. UNCHANGED <<status, due, reminded, sweep, reruns, swept, task, fails, sent>>
  BY DEF ChangeSkipped, ChangeReminders, Tick, vars, columns, sweeping, reminding
<1>3. skipped' \in BOOLEAN /\ reminderDays' \in ReminderChoices
  BY <1>1 DEF ChangeSkipped, ChangeReminders, Tick, vars, profile, TypeOK
<1>4. today' \in 0 .. MaxDay /\ today <= today' /\ (today' = today \/ sweep = Asleep)
  BY <1>1, DailyTasksAssumption DEF ChangeSkipped, ChangeReminders, Tick, vars, TypeOK
<1>5. Live' = Live /\ LedgerTypeOK'
  BY <1>1, <1>2 DEF Live, TypeOK, LedgerTypeOK
<1>6. TypeOK'
  BY <1>1, <1>2, <1>3, <1>4, <1>5 DEF TypeOK
<1>7. NeverEarly' /\ NextIsNear'
  <2>1. \A i \in swept : due[i] <= today + Ahead => due[i] <= today' + Ahead
    BY <1>1, <1>4, DailyTasksAssumption DEF TypeOK
  <2>2. sweep = Asleep => sweep.pc = "idle"
    BY DEF Asleep
  <2>3. QED
    BY <1>1, <1>2, <1>4, <2>1, <2>2 DEF SweepFacts, NeverEarly, NextIsNear
<1>8. Known' /\ CheckHolds' /\ CycleBilledOnce'
  BY <1>1, <1>2, <1>5 DEF SweepFacts, Known, CheckHolds, CycleBilledOnce
<1>9. MailFacts'
  BY <1>1, <1>2, MailUndisturbed DEF reminding
<1>10. QED
  BY <1>6, <1>7, <1>8, <1>9 DEF DailyInv, TasksSafe, SweepFacts, MailFacts

-------------------------------------------------------------------------------
\* The sweep decides: it touches no row, and remembers what it saw.
LEMMA SweepDecides ==
    ASSUME DailyInv, (\E i \in Invoice : SweepLatest(i)) \/ SweepCheck \/ SweepFails
    PROVE  DailyInv'
<1>1. TypeOK /\ SweepFacts /\ MailFacts
  BY Parts
<1>2. UNCHANGED <<status, due, reminded, skipped, reminderDays, today, swept, task, fails, sent>> /\ reruns' \in 0 .. MaxFails
  <2>1. UNCHANGED <<columns, profile, today, swept, reminding>>
    BY DEF SweepLatest, SweepCheck, SweepFails
  <2>2. reruns' = reruns \/ (reruns < MaxFails /\ reruns' = reruns + 1)
    BY DEF SweepLatest, SweepCheck, SweepFails
  <2>3. QED
    BY <1>1, <2>1, <2>2, DailyTasksAssumption DEF columns, profile, reminding, TypeOK
<1>3. Live' = Live /\ LedgerTypeOK'
  BY <1>1, <1>2 DEF Live, TypeOK, LedgerTypeOK
<1>4. sweep' \in [pc : {"idle", "check", "create"}, next : Int] /\ NextIsNear' /\ CheckHolds'
  <2>1. CASE sweep' = Asleep
    BY <2>1 DEF Asleep, NextIsNear, CheckHolds
  <2>2. CASE \E i \in Invoice : SweepLatest(i)
    <3>1. PICK i \in Invoice : sweep' = [pc |-> "check", next |-> NextDue(i)] /\ NextDue(i) <= today + Ahead
      BY <2>2 DEF SweepLatest, InWindow
    <3>2. NextDue(i) \in Int
      BY <1>1, DailyTasksAssumption DEF NextDue, TypeOK
    <3>3. QED
      BY <1>2, <3>1, <3>2 DEF NextIsNear, CheckHolds
  <2>3. CASE SweepCheck /\ sweep' # Asleep
    <3>1. sweep' = [sweep EXCEPT !.pc = "create"] /\ sweep.pc = "check" /\ \A i \in Live : due[i] # sweep.next
      BY <2>3 DEF SweepCheck
    <3>2. sweep'.pc = "create" /\ sweep'.next = sweep.next /\ sweep' \in [pc : {"idle", "check", "create"}, next : Int]
      BY <1>1, <3>1 DEF TypeOK
    <3>3. QED
      BY <1>1, <1>2, <1>3, <3>1, <3>2 DEF SweepFacts, NextIsNear, CheckHolds
  <2>4. QED
    BY <2>1, <2>2, <2>3 DEF SweepFails
<1>5. TypeOK'
  BY <1>1, <1>2, <1>3, <1>4 DEF TypeOK
<1>6. NeverEarly' /\ Known' /\ CycleBilledOnce'
  BY <1>1, <1>2, <1>3 DEF SweepFacts, NeverEarly, Known, CycleBilledOnce
<1>7. MailFacts'
  BY <1>1, <1>2, MailUndisturbed DEF reminding
<1>8. QED
  BY <1>4, <1>5, <1>6, <1>7 DEF DailyInv, TasksSafe, SweepFacts, MailFacts

\* ... and bills a cycle for which, since the check, it has issued nothing.
LEMMA SweepCreateKeeps ==
    ASSUME NEW i \in Invoice, DailyInv, SweepCreate(i)
    PROVE  DailyInv'
<1>1. TypeOK /\ SweepFacts /\ MailFacts /\ Known /\ sweep.next \in Int
  BY Parts DEF SweepFacts, TypeOK
<1>2. /\ sweep.pc = "create" /\ Insert(i, sweep.next) /\ swept' = swept \cup {i} /\ sweep' = Asleep
      /\ UNCHANGED <<reminded, skipped, reminderDays, today, reruns, task, fails, sent>>
  BY DEF SweepCreate, profile, reminding
<1>3. LedgerTypeOK' /\ due' \in [Invoice -> Int] /\ i \notin swept /\ status'[i] = "unpaid" /\ due'[i] = sweep.next
        /\ (\A j \in Invoice \ {i} : status'[j] = status[j] /\ due'[j] = due[j]) /\ swept \cap Live' = swept \cap Live
  BY <1>1, <1>2, InsertKeeps
<1>4. swept \subseteq Invoice /\ \A j \in swept : j # i /\ due'[j] = due[j] /\ status'[j] = status[j]
  BY <1>1, <1>3 DEF TypeOK
<1>5. TypeOK'
  BY <1>1, <1>2, <1>3, <1>4 DEF TypeOK, Asleep
<1>6. Known' /\ CheckHolds' /\ NextIsNear'
  BY <1>1, <1>2, <1>3, <1>4 DEF Known, CheckHolds, NextIsNear, Asleep
<1>7. NeverEarly'
  BY <1>1, <1>2, <1>3, <1>4 DEF SweepFacts, NeverEarly, NextIsNear
<1>8. CycleBilledOnce'
  <2>1. \A j \in swept' \cap Live' : j = i \/ (j \in swept \cap Live /\ due'[j] = due[j] /\ due[j] # sweep.next)
    BY <1>1, <1>2, <1>3, <1>4 DEF SweepFacts, CheckHolds
  <2>2. QED
    BY <1>1, <1>3, <2>1 DEF SweepFacts, CycleBilledOnce
<1>9. MailFacts'
  BY <1>1, <1>2, InsertKeepsMail DEF reminding
<1>10. QED
  BY <1>5, <1>6, <1>7, <1>8, <1>9 DEF DailyInv, TasksSafe, SweepFacts, MailFacts

-------------------------------------------------------------------------------
\* A step of the reminders touches no row but for the mark of one it has mailed about.
LEMMA TaskStepKeeps ==
    ASSUME DailyInv, TaskStep \/ TaskFails
    PROVE  DailyInv'
<1>1. TypeOK /\ SweepFacts /\ MailFacts
  BY Parts
<1>2. UNCHANGED <<status, due, profile, today, sweeping>>
  BY DEF TaskStep, TaskFails, Start, SaveReminder, Done, PassOver, SendReminder, columns
<1>3. Live' = Live /\ LedgerTypeOK' /\ SweepFacts'
  BY <1>1, <1>2, SweepUndisturbed DEF Live, TypeOK, LedgerTypeOK
<1>4. /\ task \in [pc : {"idle", "loop", "save"}, left : SUBSET Invoice, inv : SUBSET Invoice]
      /\ reminded \in SUBSET Invoice /\ fails \in 0 .. MaxFails /\ sent \in [Invoice -> Nat] /\ MaxFails \in Nat
  BY <1>1, DailyTasksAssumption DEF TypeOK
<1> DEFINE TaskTyped ==
      /\ task \in [pc : {"idle", "loop", "save"}, left : SUBSET Invoice, inv : SUBSET Invoice]
      /\ reminded \in SUBSET Invoice /\ fails \in 0 .. MaxFails /\ sent \in [Invoice -> Nat]
<1>5. TaskTyped' /\ MailFacts'
  <2> USE DEF MailFacts, RemindersExplained, SaveOnly, MailsCounted, Unrecorded, Idle
  <2>1. CASE Start
    <3>1. task' = [pc |-> "loop", left |-> Candidates, inv |-> {}] /\ task = Idle /\ UNCHANGED <<status, reminded, fails, sent>>
      BY <2>1 DEF Start, columns
    <3>2. Candidates \subseteq Invoice /\ \A i \in Candidates : Unrecorded(i) /\ status[i] # "none"
      BY <1>1, <3>1, Statuses DEF Candidates, Overdue, TypeOK
    <3>3. \A i \in Candidates : sent[i] <= fails
      BY <1>1, <3>2
    <3>4. TaskTyped' /\ task'.left = Candidates /\ task'.inv = {} /\ task.inv = {}
      BY <1>4, <3>1, <3>2
    <3>5. QED
      BY <1>1, <3>1, <3>2, <3>3, <3>4
  <2>2. CASE \E i \in Invoice : PassOver(i)
    <3>1. PICK i \in Invoice : PassOver(i)
      BY <2>2
    <3>2. task' = [task EXCEPT !.left = @ \ {i}] /\ UNCHANGED <<status, reminded, sent>>
            /\ fails' \in 0 .. MaxFails /\ fails <= fails'
      BY <1>4, <3>1 DEF PassOver, columns
    <3>3. task'.pc = task.pc /\ task'.inv = task.inv /\ task'.left \subseteq task.left
      BY <1>4, <3>2
    <3>4. TaskTyped'
      BY <1>4, <3>2
    <3>5. \A j \in Invoice : sent[j] \in Nat /\ (sent[j] <= fails => sent[j] <= fails') /\ (sent[j] <= 1 + fails => sent[j] <= 1 + fails')
      BY <1>4, <3>2
    <3>6. QED
      BY <1>1, <3>2, <3>3, <3>4, <3>5
  <2>3. CASE \E i \in Invoice : SendReminder(i)
    <3>1. PICK i \in Invoice : SendReminder(i)
      BY <2>3
    <3>2. /\ task.pc = "loop" /\ i \in task.left /\ UNCHANGED <<status, reminded, fails>>
          /\ sent' = [sent EXCEPT ![i] = @ + 1] /\ task' = [task EXCEPT !.pc = "save", !.left = @ \ {i}, !.inv = {i}]
      BY <3>1 DEF SendReminder, TakeCandidate, Latest, columns
    <3>3. task'.pc = "save" /\ task'.left = task.left \ {i} /\ task'.inv = {i} /\ task.inv = {}
      BY <1>1, <1>4, <3>2
    <3>4. sent' \in [Invoice -> Nat] /\ sent'[i] = sent[i] + 1 /\ \A j \in Invoice \ {i} : sent'[j] = sent[j]
      <4>1. sent \in [Invoice -> Nat] /\ sent' = [sent EXCEPT ![i] = @ + 1]
        BY <1>4, <3>2
      <4>2. QED
        BY <4>1
    <3>5. TaskTyped'
      BY <1>4, <3>2, <3>4
    <3>6. sent[i] <= fails /\ sent'[i] <= 1 + fails
      BY <1>1, <1>4, <3>2, <3>4
    <3>7. status[i] # "none"
      BY <1>1, <3>2
    <3>8. QED
      BY <1>1, <3>2, <3>3, <3>4, <3>5, <3>6, <3>7
  <2>4. CASE SaveReminder
    <3>1. task.pc = "save" /\ UNCHANGED <<status, fails, sent>>
      BY <2>4 DEF SaveReminder
    <3>2. CASE task.inv \subseteq Live
      <4>1. reminded' = reminded \cup task.inv /\ task' = [task EXCEPT !.pc = "loop", !.inv = {}]
        BY <2>4, <3>2 DEF SaveReminder
      <4>2. task'.pc = "loop" /\ task'.left = task.left /\ task'.inv = {} /\ TaskTyped'
        BY <1>4, <3>1, <4>1
      <4>3. QED
        BY <1>1, <3>1, <4>1, <4>2
    <3>3. CASE ~(task.inv \subseteq Live)
      <4>1. reminded' = reminded /\ task' = Idle
        BY <2>4, <3>3 DEF SaveReminder
      <4>2. \A i \in task.inv : i \in Invoice /\ i \notin Live
        BY <1>1, <1>4, <3>3
      <4>3. \A i \in task.inv : status[i] = "none" \/ status[i] = "deleted"
        BY <1>1, <4>2, Statuses DEF TypeOK
      <4>4. \A i \in Invoice : status[i] # "deleted" /\ i \notin reminded => sent[i] <= fails
        BY <1>1, <1>4, <4>3
      <4>5. task'.inv = {} /\ task'.left = {} /\ task'.pc = "idle" /\ TaskTyped'
        BY <1>4, <3>1, <4>1
      <4>6. QED
        BY <1>1, <3>1, <4>1, <4>4, <4>5
    <3>4. QED
      BY <3>2, <3>3
  <2>5. CASE Done
    BY <1>1, <1>4, <2>5 DEF Done, columns
  <2>6. CASE TaskFails
    BY <1>1, <1>4, <2>6 DEF TaskFails, columns
  <2>7. QED
    BY <2>1, <2>2, <2>3, <2>4, <2>5, <2>6 DEF TaskStep
<1>6. TypeOK'
  BY <1>1, <1>2, <1>3, <1>5 DEF TypeOK, profile, sweeping
<1>7. QED
  BY <1>3, <1>5, <1>6 DEF DailyInv, TasksSafe, SweepFacts, MailFacts

-------------------------------------------------------------------------------
LEMMA DailyInvariant == Spec => []DailyInv
<1>1. DailyInv /\ [Next]_vars => DailyInv'
  BY IssueOtherKeeps, MoveKeeps, SettingsKeep, SweepDecides, SweepCreateKeeps, TaskStepKeeps DEF Next, SweepStep
<1>2. QED
  BY <1>1, DailyInit, PTL DEF Spec

\* However often the sweep fails and is rerun, and whatever is issued, backdated or
\* deleted between any two of its statements, it bills no cycle twice.
THEOREM SweepBillsOnce == Spec => []CycleBilledOnce
<1>1. DailyInv => CycleBilledOnce
  BY DEF DailyInv
<1>2. QED
  BY <1>1, DailyInvariant, PTL

\* ... nor any too early; and a second reminder of one invoice has a failure of its task
\* behind it, whatever is paid, refunded or deleted while it runs.
THEOREM TasksAreSafe == Spec => []TasksSafe
<1>1. DailyInv => TasksSafe
  BY DEF DailyInv
<1>2. QED
  BY <1>1, DailyInvariant, PTL

-------------------------------------------------------------------------------
(* The maintenance windows: notices and cached states.                     *)

\* Whoever is past the claim of a notice has claimed it, alone; and a withdrawal is
\* only worked on where the announcement was claimed before.
NoticeOf(k) == <<wJob[k].of, wJob[k].kind>>
ClaimedBy(k) == wJob[k].pc \in {"send", "sending"}

JobsNamed == \A k \in Worker : wJob[k].pc # "idle" => NoticeOf(k) \in Window \X Windows!Kinds
ClaimedOnce ==
    /\ \A n \in Window \X Windows!Kinds : wSent[n] <= 1 /\ (wSent[n] > 0 => n \in notified)
    /\ \A k \in Worker : /\ ClaimedBy(k) => NoticeOf(k) \in notified
                         /\ wJob[k].pc = "send" => wSent[NoticeOf(k)] = 0
    /\ \A j, k \in Worker : ClaimedBy(j) /\ ClaimedBy(k) /\ NoticeOf(j) = NoticeOf(k) => j = k
WithdrawalsFounded ==
    /\ \A w \in Window : wSent[<<w, "cancelled">>] > 0 => <<w, "scheduled">> \in notified
    /\ \A k \in Worker : wJob[k].pc # "idle" /\ wJob[k].kind = "cancelled" => <<wJob[k].of, "scheduled">> \in notified

NoticeInv == JobsNamed /\ ClaimedOnce /\ WithdrawalsFounded

\* What a state says of the table: which window is active, and when that ends.
Tells(s) == IF s.active = NoWindow THEN Windows!ActiveWindows = {} ELSE Windows!ActiveWindows = {s.active}
Planned(s) == s.active # NoWindow => window[s.active].status # "none" /\ s.next = window[s.active].end

\* A state that no longer tells the truth was stored no later than the change that made it
\* wrong: requests take no time, so one that crossed a change stores in the same instant.
CacheTells ==
    /\ cache.there => cache.expires <= wNow + Ttl /\ (Tells(cache) \/ cache.expires - Ttl <= changedAt)
    /\ Planned(cache)
VisitsTell == \A r \in Visitor : visit[r].pc = "store" =>
    visit[r].state.there /\ (Tells(visit[r].state) \/ changedAt = wNow) /\ Planned(visit[r].state)

StateInv == changedAt <= wNow /\ CacheTells /\ VisitsTell
WindowInv == Windows!TypeOK /\ NoticeInv /\ StateInv

-------------------------------------------------------------------------------
\* What a commit does to the cached state, and that the table may be what it writes.
Lawful(rows) ==
    /\ rows \in [Window -> Windows!Row]
    /\ \A v, w \in Window : rows[v].status \in {"scheduled", "active"} /\ rows[w].status \in {"scheduled", "active"} => v = w
    /\ \A w \in Window : window[w].status # "none" => rows[w].status # "none" /\ rows[w].end = window[w].end

LEMMA WindowConsts ==
    /\ NoWindow \notin Window /\ MaxTime \in Nat /\ Times \subseteq 1 .. MaxTime /\ Ttl \in Nat /\ Ttl > 0 /\ MaxFails \in Nat
    /\ Times \subseteq Windows!Moments /\ Windows!Null \in Windows!Moments
BY MaintenanceAssumption DEF Windows!MaintenanceConstants, Windows!Moments, Windows!Null

LEMMA NoStateTyped == Windows!NoState \in Windows!State /\ Windows!NoRow \in Windows!Row
BY WindowConsts DEF Windows!NoState, Windows!NoRow, Windows!State, Windows!Row, Windows!Moments,
   Windows!Null

LEMMA AdvancedLawful ==
    ASSUME Windows!TypeOK
    PROVE  /\ Lawful(Windows!Advanced)
           /\ \A w \in Window : Windows!Advanced[w].status = "none" <=> window[w].status = "none"
<1>1. window \in [Window -> Windows!Row] /\ \A v, w \in Window : Windows!Open(v) /\ Windows!Open(w) => v = w
  BY DEF Windows!TypeOK
<1>2. ASSUME NEW w \in Window
      PROVE  /\ Windows!Advanced[w] \in Windows!Row /\ Windows!Advanced[w].end = window[w].end
             /\ (Windows!Advanced[w].status = "none" <=> window[w].status = "none")
             /\ (Windows!Advanced[w].status \in {"scheduled", "active"} => Windows!Open(w))
  <2>1. Windows!Advanced[w] = IF Windows!Due(w) THEN [window[w] EXCEPT !.status = Windows!After(w)] ELSE window[w]
    BY DEF Windows!Advanced
  <2>2. CASE Windows!Due(w)
    <3>1. window[w].status \in {"scheduled", "active"} /\ Windows!After(w) \in {"completed", "cancelled", "active"}
      BY <2>2 DEF Windows!Due, Windows!After
    <3>2. Windows!Advanced[w] \in Windows!Row /\ Windows!Advanced[w].end = window[w].end /\ Windows!Advanced[w].status = Windows!After(w)
      BY <1>1, <2>1, <2>2, <3>1 DEF Windows!Row
    <3>3. QED
      BY <3>1, <3>2 DEF Windows!Open
  <2>3. CASE ~Windows!Due(w)
    BY <1>1, <2>1, <2>3 DEF Windows!Open
  <2>4. QED
    BY <2>2, <2>3
<1>3. Windows!Advanced \in [Window -> Windows!Row]
  BY <1>2 DEF Windows!Advanced
<1>4. QED
  BY <1>1, <1>2, <1>3 DEF Lawful

LEMMA WindowCommitKeeps ==
    ASSUME WindowInv, NEW rows, Lawful(rows), Windows!Commit(rows), UNCHANGED <<wNow, Windows!notices>>,
           visit' \in [Visitor -> [pc : {"idle", "advance", "read", "store"}, state : Windows!State]],
           \A r \in Visitor : visit'[r].pc = "store" => visit[r] = visit'[r]
    PROVE  WindowInv'
<1> DEFINE Changed == {w \in Window : rows[w].status # window[w].status}
<1>1. Windows!TypeOK /\ NoticeInv /\ StateInv
  BY DEF WindowInv
<1>2. window' = rows /\ wNow' = wNow /\ wJob' = wJob /\ notified' = notified /\ wSent' = wSent
  BY DEF Windows!Commit, Windows!notices
<1>3. /\ Changed = {} => UNCHANGED <<cache, queue, wFails, changedAt>>
      /\ Changed # {} =>
           /\ changedAt' = wNow /\ cache' \in {Windows!NoState, cache}
           /\ queue' \in {queue, queue \cup {<<w, Windows!Kind(rows[w].status)>> : w \in Changed}}
           /\ wFails' = wFails \/ (wFails < MaxFails /\ wFails' = wFails + 1)
  BY DEF Windows!Commit
<1>4. wNow \in 0 .. MaxTime /\ changedAt \in 0 .. MaxTime /\ cache \in Windows!State
  BY <1>1 DEF Windows!TypeOK
<1>5. Windows!TypeOK'
  <2>1. window' \in [Window -> Windows!Row] /\ (\A v, w \in Window : Windows!Open(v) /\ Windows!Open(w) => v = w)'
    BY <1>2 DEF Lawful, Windows!Open
  <2>2. cache' \in Windows!State /\ changedAt' \in 0 .. MaxTime
    BY <1>3, <1>4, NoStateTyped
  <2>3. wFails' \in 0 .. MaxFails
    BY <1>1, <1>3, WindowConsts DEF Windows!TypeOK
  <2>4. {<<w, Windows!Kind(rows[w].status)>> : w \in Changed} \subseteq Window \X Windows!Kinds
    <3> SUFFICES ASSUME NEW w \in Changed PROVE Windows!Kind(rows[w].status) \in Windows!Kinds
      OBVIOUS
    <3>1. rows[w] \in Windows!Row /\ rows[w].status # "none"
      BY <1>1 DEF Lawful, Windows!TypeOK, Windows!Row
    <3>2. rows[w].status \in {"scheduled", "active", "completed", "cancelled"}
      BY <3>1 DEF Windows!Row
    <3>3. QED
      BY <3>2 DEF Windows!Kind, Windows!Kinds
  <2>5. queue' \in SUBSET (Window \X Windows!Kinds)
    <3>1. queue \in SUBSET (Window \X Windows!Kinds)
      BY <1>1 DEF Windows!TypeOK
    <3>2. QED
      BY <1>3, <2>4, <3>1
  <2>6. QED
    BY <1>1, <1>2, <2>1, <2>2, <2>3, <2>5 DEF Windows!TypeOK
<1>6. NoticeInv'
  BY <1>1, <1>2 DEF NoticeInv, JobsNamed, ClaimedOnce, WithdrawalsFounded, NoticeOf, ClaimedBy
<1>7. StateInv'
  <2>1. changedAt' <= wNow'
    BY <1>1, <1>2, <1>3, <1>4 DEF StateInv
  <2>2. ASSUME NEW s \in Windows!State, Planned(s) PROVE Planned(s)'
    <3>1. s.active # NoWindow => s.active \in Window
      BY DEF Windows!State
    <3>2. QED
      BY <1>2, <2>2, <3>1 DEF Planned, Lawful
  <2>3. Changed = {} => Windows!ActiveWindows' = Windows!ActiveWindows
    BY <1>2 DEF Windows!ActiveWindows
  <2>4. ASSUME NEW s, Changed = {}, Tells(s) PROVE Tells(s)'
    BY <2>3, <2>4 DEF Tells
  <2>5. CacheTells'
    <3>1. CASE Changed = {}
      BY <1>1, <1>2, <1>3, <1>4, <2>2, <2>4, <3>1 DEF StateInv, CacheTells
    <3>2. CASE Changed # {}
      <4>1. changedAt' = wNow /\ cache' \in {Windows!NoState, cache}
        BY <1>3, <3>2
      <4>2. CASE cache' = Windows!NoState
        BY <4>2 DEF CacheTells, Windows!NoState, Planned
      <4>3. CASE cache' = cache
        <5>1. cache.there => cache.expires <= wNow + Ttl /\ cache.expires \in Int
          BY <1>1, <1>4, WindowConsts DEF StateInv, CacheTells, Windows!State, Windows!Moments,
             Windows!Null
        <5>2. cache.there => cache.expires - Ttl <= wNow
          BY <5>1, <1>4, WindowConsts
        <5>3. Planned(cache)'
          BY <1>1, <1>4, <2>2, <4>3 DEF StateInv, CacheTells, Planned
        <5>4. QED
          BY <1>2, <4>1, <4>3, <5>1, <5>2, <5>3 DEF CacheTells, Planned
      <4>4. QED
        BY <4>1, <4>2, <4>3
    <3>3. QED
      BY <3>1, <3>2
  <2>6. VisitsTell'
    <3> SUFFICES ASSUME NEW r \in Visitor, visit'[r].pc = "store"
                 PROVE  (visit[r].state.there /\ (Tells(visit[r].state) \/ changedAt = wNow) /\ Planned(visit[r].state))'
      BY DEF VisitsTell
    <3>1. visit[r] = visit'[r] /\ visit[r].state \in Windows!State
      BY <1>1 DEF Windows!TypeOK
    <3>2. visit[r].state.there /\ (Tells(visit[r].state) \/ changedAt = wNow) /\ Planned(visit[r].state)
      BY <1>1, <3>1 DEF StateInv, VisitsTell
    <3>3. Planned(visit[r].state)'
      <4>1. Planned(visit'[r].state)
        BY <3>1, <3>2
      <4>2. visit[r].state.active # NoWindow => visit[r].state.active \in Window
        BY <3>1 DEF Windows!State
      <4>3. QED
        BY <1>2, <3>1, <3>2, <4>2 DEF Planned, Lawful
    <3>4. Tells(visit[r].state)' \/ changedAt' = wNow'
      BY <1>2, <1>3, <2>3, <3>1, <3>2 DEF Tells
    <3>5. QED
      BY <3>1, <3>2, <3>3, <3>4
  <2>7. QED
    BY <2>1, <2>5, <2>6 DEF StateInv
<1>8. QED
  BY <1>5, <1>6, <1>7 DEF WindowInv

\* A new window is the only open one, for the clock has been applied first.
LEMMA WindowCreateKeeps ==
    ASSUME WindowInv, NEW w \in Window, NEW row \in Windows!Row, row.status \in {"scheduled", "active"}, Windows!Create(w, row)
    PROVE  WindowInv'
<1>1. Windows!TypeOK
  BY DEF WindowInv
<1> DEFINE T == [Windows!Advanced EXCEPT ![w] = row]
<1>2. window[w].status = "none" /\ (\A v \in Window : Windows!Advanced[v].status \notin {"scheduled", "active"})
      /\ Windows!Commit(T) /\ UNCHANGED <<wNow, visit, Windows!notices>>
  BY DEF Windows!Create
<1>3. Lawful(T)
  <2>1. Lawful(Windows!Advanced)
    BY <1>1, AdvancedLawful
  <2>2. T \in [Window -> Windows!Row] /\ T[w] = row /\ \A v \in Window \ {w} : T[v] = Windows!Advanced[v]
    BY <2>1 DEF Lawful
  <2>3. QED
    BY <1>2, <2>1, <2>2 DEF Lawful
<1>4. visit' = visit /\ visit \in [Visitor -> [pc : {"idle", "advance", "read", "store"}, state : Windows!State]]
  BY <1>1, <1>2 DEF Windows!TypeOK
<1>5. QED
  BY <1>2, <1>3, <1>4, WindowCommitKeeps

LEMMA WindowAdminKeeps ==
    ASSUME WindowInv, NEW w \in Window,
           \/ \E end \in Times \cup {Windows!Null}, mail \in BOOLEAN :
                Windows!EnableNow(w, end, mail) \/ \E start \in Times : Windows!Schedule(w, start, end, mail)
           \/ Windows!Cancel(w) \/ Windows!End(w)
    PROVE  WindowInv'
<1>1. CASE \E end \in Times \cup {Windows!Null}, mail \in BOOLEAN : Windows!EnableNow(w, end, mail)
  <2>1. PICK end \in Times \cup {Windows!Null}, mail \in BOOLEAN : Windows!EnableNow(w, end, mail)
    BY <1>1
  <2>2. [status |-> "active", start |-> Windows!Null, end |-> end, notifyUsers |-> mail] \in Windows!Row
    BY WindowConsts DEF Windows!Row
  <2>3. QED
    BY <2>1, <2>2, WindowCreateKeeps DEF Windows!EnableNow
<1>2. CASE \E end \in Times \cup {Windows!Null}, mail \in BOOLEAN, start \in Times : Windows!Schedule(w, start, end, mail)
  <2>1. PICK end \in Times \cup {Windows!Null}, mail \in BOOLEAN, start \in Times : Windows!Schedule(w, start, end, mail)
    BY <1>2
  <2>2. [status |-> "scheduled", start |-> start, end |-> end, notifyUsers |-> mail] \in Windows!Row
    BY WindowConsts DEF Windows!Row
  <2>3. QED
    BY <2>1, <2>2, WindowCreateKeeps DEF Windows!Schedule
<1>3. ASSUME NEW from \in {"scheduled", "active"}, NEW to \in {"cancelled", "completed"}, Windows!Close(w, from, to)
      PROVE  WindowInv'
  <2>1. Windows!TypeOK /\ window \in [Window -> Windows!Row] /\ \A u, v \in Window : Windows!Open(u) /\ Windows!Open(v) => u = v
    BY DEF WindowInv, Windows!TypeOK
  <2>2. Lawful([window EXCEPT ![w].status = to])
    <3> DEFINE T == [window EXCEPT ![w].status = to]
    <3>1. T \in [Window -> Windows!Row] /\ T[w].status = to /\ T[w].end = window[w].end /\ \A v \in Window \ {w} : T[v] = window[v]
      BY <2>1 DEF Windows!Row
    <3>2. QED
      BY <2>1, <3>1 DEF Lawful, Windows!Open
  <2>3. visit' = visit /\ visit \in [Visitor -> [pc : {"idle", "advance", "read", "store"}, state : Windows!State]]
    BY <1>3, <2>1 DEF Windows!Close, Windows!TypeOK
  <2>4. QED
    BY <1>3, <2>2, <2>3, WindowCommitKeeps DEF Windows!Close
<1>4. QED
  BY <1>1, <1>2, <1>3 DEF Windows!Cancel, Windows!End

\* Where the table and the clock are as they were, a state tells what it told.
LEMMA TellsKept ==
    ASSUME UNCHANGED window, NEW s
    PROVE  (Tells(s) => Tells(s)') /\ (Planned(s) => Planned(s)')
BY DEF Tells, Planned, Windows!ActiveWindows

LEMMA BeatKeeps ==
    ASSUME WindowInv, Windows!AdvanceMaintenance
    PROVE  WindowInv'
<1>1. Windows!TypeOK /\ NoticeInv /\ StateInv
  BY DEF WindowInv
<1>2. visit' = visit /\ visit \in [Visitor -> [pc : {"idle", "advance", "read", "store"}, state : Windows!State]]
  BY <1>1 DEF Windows!AdvanceMaintenance, Windows!TypeOK
<1>3. CASE \E w \in Window : Windows!Due(w)
  <2>1. Lawful(Windows!Advanced)
    BY <1>1, AdvancedLawful
  <2>2. Windows!Commit(Windows!Advanced) /\ UNCHANGED <<wNow, Windows!notices>>
    BY <1>3 DEF Windows!AdvanceMaintenance
  <2>3. QED
    BY <1>2, <2>1, <2>2, WindowCommitKeeps
<1>4. CASE ~ \E w \in Window : Windows!Due(w)
  <2>1. cache' = Windows!NoState /\ UNCHANGED <<window, queue, wFails, changedAt, wNow, visit, wJob, notified, wSent>>
    BY <1>4 DEF Windows!AdvanceMaintenance, Windows!notices
  <2>2. Windows!TypeOK'
    BY <1>1, <2>1, NoStateTyped DEF Windows!TypeOK, Windows!Open
  <2>3. NoticeInv'
    BY <1>1, <2>1 DEF NoticeInv, JobsNamed, ClaimedOnce, WithdrawalsFounded, NoticeOf, ClaimedBy
  <2>4. CacheTells'
    BY <2>1 DEF CacheTells, Windows!NoState, Planned
  <2>5. changedAt' <= wNow' /\ VisitsTell'
    BY <1>1, <2>1 DEF StateInv, VisitsTell, Tells, Planned, Windows!ActiveWindows
  <2>6. QED
    BY <2>2, <2>3, <2>4, <2>5 DEF WindowInv, StateInv
<1>5. QED
  BY <1>3, <1>4

-------------------------------------------------------------------------------
\* A snapshot tells the truth at the moment it is taken: there is one open window at most.
LEMMA SnapshotTells ==
    ASSUME Windows!TypeOK
    PROVE  Windows!Snapshot \in Windows!State /\ Windows!Snapshot.there /\ Tells(Windows!Snapshot) /\ Planned(Windows!Snapshot)
<1>1. window \in [Window -> Windows!Row] /\ \A u, v \in Window : Windows!Open(u) /\ Windows!Open(v) => u = v
  BY DEF Windows!TypeOK
<1>2. CASE ~\E v \in Window : Windows!Open(v)
  <2>1. Windows!Snapshot = [Windows!NoState EXCEPT !.there = TRUE]
    BY <1>2 DEF Windows!Snapshot
  <2>2. Windows!ActiveWindows = {}
    BY <1>2 DEF Windows!ActiveWindows, Windows!Open
  <2>3. QED
    BY <2>1, <2>2, NoStateTyped DEF Windows!State, Windows!NoState, Tells, Planned
<1>3. CASE \E v \in Window : Windows!Open(v)
  <2> DEFINE w == CHOOSE v \in Window : Windows!Open(v)
  <2>1. w \in Window /\ Windows!Open(w)
    BY <1>3
  <2>2. Windows!ActiveWindows = IF window[w].status = "active" THEN {w} ELSE {}
    BY <1>1, <2>1 DEF Windows!ActiveWindows, Windows!Open
  <2>3. Windows!Snapshot = IF window[w].status = "active" THEN [Windows!NoState EXCEPT !.there = TRUE, !.active = w, !.next = window[w].end]
                   ELSE [Windows!NoState EXCEPT !.there = TRUE, !.next = window[w].start]
    BY <1>3 DEF Windows!Snapshot
  <2>4. window[w].start \in Windows!Moments /\ window[w].end \in Windows!Moments /\ window[w].status # "none"
    BY <1>1, <2>1 DEF Windows!Row, Windows!Open
  <2>5. w # NoWindow
    BY <2>1, WindowConsts
  <2> HIDE DEF w
  <2>6. CASE window[w].status = "active"
    BY <2>1, <2>2, <2>3, <2>4, <2>5, <2>6, NoStateTyped DEF Windows!State, Windows!NoState, Tells,
       Planned
  <2>7. CASE window[w].status # "active"
    BY <2>1, <2>2, <2>3, <2>4, <2>7, NoStateTyped DEF Windows!State, Windows!NoState, Tells, Planned
  <2>8. QED
    BY <2>6, <2>7
<1>4. QED
  BY <1>2, <1>3

LEMMA VisitKeeps ==
    ASSUME WindowInv, NEW r \in Visitor, Windows!Visit(r) \/ Windows!VisitStep(r)
    PROVE  WindowInv'
<1>1. Windows!TypeOK /\ NoticeInv /\ StateInv
  BY DEF WindowInv
<1>2. visit \in [Visitor -> [pc : {"idle", "advance", "read", "store"}, state : Windows!State]] /\ cache \in Windows!State
      /\ wNow \in 0 .. MaxTime /\ wNow \in Int
  BY <1>1, WindowConsts DEF Windows!TypeOK
<1>3. ASSUME NEW v \in [pc : {"idle", "advance", "read", "store"}, state : Windows!State], visit' = [visit EXCEPT ![r] = v],
             UNCHANGED <<window, wNow, queue, Windows!notices, wFails, changedAt>>,
             cache' \in Windows!State, CacheTells',
             v.pc = "store" => v.state.there /\ Tells(v.state) /\ Planned(v.state)
      PROVE  WindowInv'
  <2>1. Windows!TypeOK'
    <3>1. visit' \in [Visitor -> [pc : {"idle", "advance", "read", "store"}, state : Windows!State]]
      BY <1>2, <1>3
    <3>2. QED
      BY <1>1, <1>3, <3>1 DEF Windows!TypeOK, Windows!Open, Windows!notices
  <2>2. NoticeInv'
    BY <1>1, <1>3 DEF NoticeInv, JobsNamed, ClaimedOnce, WithdrawalsFounded, NoticeOf, ClaimedBy,
       Windows!notices
  <2>3. ASSUME NEW q \in Visitor, visit'[q].pc = "store"
        PROVE  (visit[q].state.there /\ (Tells(visit[q].state) \/ changedAt = wNow) /\ Planned(visit[q].state))'
    <3>1. CASE q = r
      BY <1>2, <1>3, <2>3, <3>1 DEF Tells, Planned, Windows!ActiveWindows
    <3>2. CASE q # r
      <4>1. visit'[q] = visit[q]
        BY <1>2, <1>3, <3>2
      <4>2. visit[q].state.there /\ (Tells(visit[q].state) \/ changedAt = wNow) /\ Planned(visit[q].state)
        BY <1>1, <2>3, <4>1 DEF StateInv, VisitsTell
      <4>3. QED
        BY <1>3, <4>1, <4>2 DEF Tells, Planned, Windows!ActiveWindows
    <3>3. QED
      BY <3>1, <3>2
  <2>4. VisitsTell' /\ changedAt' <= wNow'
    BY <1>1, <1>3, <2>3 DEF VisitsTell, StateInv
  <2>5. QED
    BY <1>3, <2>1, <2>2, <2>4 DEF WindowInv, StateInv
<1>4. ASSUME UNCHANGED <<cache, window, wNow, changedAt>> PROVE cache' \in Windows!State /\ CacheTells'
  BY <1>1, <1>2, <1>4 DEF StateInv, CacheTells, Tells, Planned, Windows!ActiveWindows
<1>5. CASE Windows!Visit(r)
  <2> DEFINE v == IF Windows!Usable THEN [visit[r] EXCEPT !.state = cache] ELSE [pc |-> "advance", state |-> Windows!NoState]
  <2>1. v \in [pc : {"idle", "advance", "read", "store"}, state : Windows!State] /\ v.pc # "store"
    BY <1>2, <1>5, NoStateTyped DEF Windows!Visit
  <2>2. visit' = [visit EXCEPT ![r] = v] /\ UNCHANGED <<window, wNow, cache, queue, Windows!notices, wFails, changedAt>>
    BY <1>5 DEF Windows!Visit
  <2> HIDE DEF v
  <2>3. QED
    BY <1>3, <1>4, <2>1, <2>2
<1>6. CASE Windows!VisitAdvance(r)
  <2>1. Lawful(Windows!Advanced)
    BY <1>1, AdvancedLawful
  <2>2. Windows!Commit(Windows!Advanced) /\ UNCHANGED <<wNow, Windows!notices>> /\ visit' = [visit EXCEPT ![r].pc = "read"]
    BY <1>6 DEF Windows!VisitAdvance
  <2>3. visit' \in [Visitor -> [pc : {"idle", "advance", "read", "store"}, state : Windows!State]]
        /\ \A q \in Visitor : visit'[q].pc = "store" => visit[q] = visit'[q]
    BY <1>2, <2>2
  <2>4. QED
    BY <2>1, <2>2, <2>3, WindowCommitKeeps
<1>7. CASE Windows!VisitRead(r)
  <2> DEFINE v == [pc |-> "store", state |-> Windows!Snapshot]
  <2>1. v \in [pc : {"idle", "advance", "read", "store"}, state : Windows!State] /\ v.state.there /\ Tells(v.state) /\ Planned(v.state)
    BY <1>1, SnapshotTells
  <2>2. visit' = [visit EXCEPT ![r] = v] /\ UNCHANGED <<window, wNow, cache, queue, Windows!notices, wFails, changedAt>>
    BY <1>7 DEF Windows!VisitRead
  <2> HIDE DEF v
  <2>3. QED
    BY <1>3, <1>4, <2>1, <2>2
<1>8. CASE Windows!VisitStore(r)
  <2> DEFINE v == [visit[r] EXCEPT !.pc = "idle"]
             s == visit[r].state
  <2>1. v \in [pc : {"idle", "advance", "read", "store"}, state : Windows!State] /\ v.pc = "idle" /\ s \in Windows!State
    BY <1>2
  <2>2. visit' = [visit EXCEPT ![r] = v] /\ cache' = [s EXCEPT !.expires = wNow + Ttl]
        /\ UNCHANGED <<window, wNow, queue, Windows!notices, wFails, changedAt>>
    BY <1>8 DEF Windows!VisitStore
  <2>3. s.there /\ (Tells(s) \/ changedAt = wNow) /\ Planned(s)
    BY <1>1, <1>8 DEF Windows!VisitStore, StateInv, VisitsTell
  <2>4. cache' \in Windows!State /\ cache'.expires = wNow + Ttl /\ cache'.there = s.there /\ cache'.active = s.active /\ cache'.next = s.next
    <3>1. wNow + Ttl \in Windows!Moments
      BY <1>2, WindowConsts DEF Windows!Moments
    <3>2. QED
      BY <2>1, <2>2, <3>1 DEF Windows!State
  <2>5. CacheTells'
    <3>1. Planned(cache)'
      BY <2>2, <2>3, <2>4 DEF Planned
    <3>2. Tells(s) => Tells(cache)'
      BY <2>2, <2>4 DEF Tells, Windows!ActiveWindows
    <3>3. cache'.expires <= wNow' + Ttl /\ cache'.expires - Ttl = wNow
      BY <1>2, <2>2, <2>4, WindowConsts
    <3>4. changedAt \in Int
      BY <1>1 DEF Windows!TypeOK
    <3>5. QED
      BY <1>2, <2>2, <2>3, <3>1, <3>2, <3>3, <3>4 DEF CacheTells
  <2> HIDE DEF v
  <2>6. QED
    BY <1>3, <2>1, <2>2, <2>4, <2>5
<1>9. QED
  BY <1>5, <1>6, <1>7, <1>8 DEF Windows!VisitStep

-------------------------------------------------------------------------------
\* The workers leave the table and the cached state alone.
LEMMA WorkKeeps ==
    ASSUME WindowInv, NEW k \in Worker, NEW j, wJob' = [wJob EXCEPT ![k] = j],
           UNCHANGED <<window, wNow, cache, visit, changedAt>>,
           j \in [pc : {"idle", "claim", "send", "sending"}, of : Window \cup {NoWindow}, kind : Windows!Kinds \cup {"none"}],
           queue' \in SUBSET (Window \X Windows!Kinds), notified' \in SUBSET (Window \X Windows!Kinds), wFails' \in 0 .. MaxFails,
           wSent' \in [Window \X Windows!Kinds -> Nat],
           NoticeInv'
    PROVE  WindowInv'
<1>1. Windows!TypeOK /\ StateInv
  BY DEF WindowInv
<1>2. Windows!TypeOK'
  <2>1. wJob' \in [Worker -> [pc : {"idle", "claim", "send", "sending"}, of : Window \cup {NoWindow}, kind : Windows!Kinds \cup {"none"}]]
    BY <1>1 DEF Windows!TypeOK
  <2>2. QED
    BY <1>1, <2>1 DEF Windows!TypeOK, Windows!Open
<1>3. StateInv'
  BY <1>1 DEF StateInv, CacheTells, VisitsTell, Tells, Planned, Windows!ActiveWindows
<1>4. QED
  BY <1>2, <1>3 DEF WindowInv

LEMMA JobTyped ==
    ASSUME WindowInv, NEW k \in Worker, wJob[k].pc # "idle"
    PROVE  /\ wJob[k].of \in Window /\ wJob[k].kind \in Windows!Kinds /\ NoticeOf(k) \in Window \X Windows!Kinds
           /\ wJob[k] \in [pc : {"idle", "claim", "send", "sending"}, of : Window \cup {NoWindow}, kind : Windows!Kinds \cup {"none"}]
BY DEF WindowInv, Windows!TypeOK, NoticeInv, JobsNamed, NoticeOf

LEMMA FreeTyped == Windows!Free \in [pc : {"idle", "claim", "send", "sending"}, of : Window \cup {NoWindow}, kind : Windows!Kinds \cup {"none"}]
BY DEF Windows!Free

\* A worker that puts its task down leaves the others as they were.
LEMMA FreedKeeps ==
    ASSUME WindowInv, NEW k \in Worker, wJob' = [wJob EXCEPT ![k] = Windows!Free], wSent' = wSent, notified \subseteq notified'
    PROVE  NoticeInv'
<1>1. NoticeInv /\ wJob \in [Worker -> [pc : {"idle", "claim", "send", "sending"}, of : Window \cup {NoWindow}, kind : Windows!Kinds \cup {"none"}]]
  BY DEF WindowInv, Windows!TypeOK
<1>2. wJob'[k].pc = "idle" /\ \A j \in Worker \ {k} : wJob'[j] = wJob[j]
  BY <1>1 DEF Windows!Free
<1>3. \A j \in Worker : wJob'[j].pc # "idle" => j # k /\ wJob'[j] = wJob[j]
  BY <1>2
<1>4. JobsNamed'
  BY <1>1, <1>3 DEF NoticeInv, JobsNamed, NoticeOf
<1>5. ClaimedOnce'
  BY <1>1, <1>3 DEF NoticeInv, ClaimedOnce, ClaimedBy, NoticeOf
<1>6. WithdrawalsFounded'
  BY <1>1, <1>3 DEF NoticeInv, WithdrawalsFounded
<1>7. QED
  BY <1>4, <1>5, <1>6 DEF NoticeInv

LEMMA TaskKeeps ==
    ASSUME WindowInv, NEW k \in Worker,
           \/ \E w \in Window, kind \in Windows!Kinds : Windows!TakeTask(k, w, kind)
           \/ Windows!ClaimNotice(k) \/ Windows!SendNotice(k) \/ Windows!FinishTask(k) \/ Windows!RetryTask(k)
    PROVE  WindowInv'
<1>1. Windows!TypeOK /\ NoticeInv
  BY DEF WindowInv
<1>2. /\ wJob \in [Worker -> [pc : {"idle", "claim", "send", "sending"}, of : Window \cup {NoWindow}, kind : Windows!Kinds \cup {"none"}]]
      /\ queue \in SUBSET (Window \X Windows!Kinds) /\ notified \in SUBSET (Window \X Windows!Kinds) /\ wFails \in 0 .. MaxFails
      /\ wSent \in [Window \X Windows!Kinds -> Nat]
  BY <1>1 DEF Windows!TypeOK
<1>3. ASSUME NEW w \in Window, NEW kind \in Windows!Kinds, Windows!TakeTask(k, w, kind) PROVE WindowInv'
  <2>1. CASE Windows!Silent(w, kind)
    <3>1. wJob' = [wJob EXCEPT ![k] = Windows!Free] /\ queue' = queue \ {<<w, kind>>}
          /\ UNCHANGED <<window, wNow, cache, visit, notified, wFails, wSent, changedAt>>
      BY <1>3, <2>1 DEF Windows!TakeTask
    <3>2. NoticeInv'
      BY <3>1, FreedKeeps
    <3>3. QED
      BY <1>2, <3>1, <3>2, FreeTyped, WorkKeeps
  <2>2. CASE ~Windows!Silent(w, kind)
    <3> DEFINE j == [pc |-> "claim", of |-> w, kind |-> kind]
    <3>1. wJob' = [wJob EXCEPT ![k] = j] /\ queue' = queue \ {<<w, kind>>}
          /\ UNCHANGED <<window, wNow, cache, visit, notified, wFails, wSent, changedAt>>
      BY <1>3, <2>2 DEF Windows!TakeTask
    <3>2. j \in [pc : {"idle", "claim", "send", "sending"}, of : Window \cup {NoWindow}, kind : Windows!Kinds \cup {"none"}]
          /\ j.pc = "claim" /\ j.of = w /\ j.kind = kind
      OBVIOUS
    <3> HIDE DEF j
    <3>3. wJob'[k] = j /\ \A i \in Worker \ {k} : wJob'[i] = wJob[i]
      BY <1>2, <3>1
    <3>4. kind = "cancelled" => <<w, "scheduled">> \in notified
      BY <2>2 DEF Windows!Silent
    <3>5. JobsNamed'
      BY <1>1, <3>2, <3>3 DEF NoticeInv, JobsNamed, NoticeOf
    <3>6. \A i \in Worker : ClaimedBy(i)' => i # k /\ ClaimedBy(i)
      BY <3>2, <3>3 DEF ClaimedBy
    <3>7. ClaimedOnce'
      <4>1. \A i \in Worker : ClaimedBy(i)' => i # k /\ ClaimedBy(i) /\ NoticeOf(i)' = NoticeOf(i) /\ wJob'[i] = wJob[i]
        BY <3>3, <3>6 DEF NoticeOf
      <4>2. \A i \in Worker : ClaimedBy(i)' => NoticeOf(i)' \in notified' /\ (wJob'[i].pc = "send" => wSent'[NoticeOf(i)'] = 0)
        BY <1>1, <3>1, <4>1 DEF NoticeInv, ClaimedOnce
      <4>3. \A i \in Worker : wJob'[i].pc = "send" => ClaimedBy(i)'
        BY DEF ClaimedBy
      <4>4. \A h, i \in Worker : ClaimedBy(h)' /\ ClaimedBy(i)' /\ NoticeOf(h)' = NoticeOf(i)' => h = i
        BY <1>1, <4>1 DEF NoticeInv, ClaimedOnce
      <4>5. \A n \in Window \X Windows!Kinds : wSent'[n] <= 1 /\ (wSent'[n] > 0 => n \in notified')
        BY <1>1, <3>1 DEF NoticeInv, ClaimedOnce
      <4>6. QED
        BY <4>2, <4>3, <4>4, <4>5 DEF ClaimedOnce
    <3>8. WithdrawalsFounded'
      BY <1>1, <3>1, <3>2, <3>3, <3>4 DEF NoticeInv, WithdrawalsFounded
    <3>9. NoticeInv'
      BY <3>5, <3>7, <3>8 DEF NoticeInv
    <3>10. QED
      BY <1>2, <3>1, <3>2, <3>9, WorkKeeps
  <2>3. QED
    BY <2>1, <2>2
<1>4. CASE Windows!ClaimNotice(k)
  <2>1. wJob[k].pc = "claim" /\ notified' = notified \cup {NoticeOf(k)}
        /\ UNCHANGED <<window, wNow, cache, visit, queue, wFails, wSent, changedAt>>
    BY <1>4 DEF Windows!ClaimNotice, NoticeOf
  <2>2. NoticeOf(k) \in Window \X Windows!Kinds /\ wJob[k].of \in Window /\ wJob[k].kind \in Windows!Kinds
    BY <2>1, JobTyped
  <2>3. notified' \in SUBSET (Window \X Windows!Kinds)
    BY <1>2, <2>1, <2>2
  <2>4. CASE NoticeOf(k) \in notified
    <3>1. wJob' = [wJob EXCEPT ![k] = Windows!Free]
      BY <1>4, <2>4 DEF Windows!ClaimNotice, NoticeOf
    <3>2. NoticeInv'
      BY <2>1, <3>1, FreedKeeps
    <3>3. QED
      BY <1>2, <2>1, <2>3, <3>1, <3>2, FreeTyped, WorkKeeps
  <2>5. CASE NoticeOf(k) \notin notified
    <3> DEFINE j == [wJob[k] EXCEPT !.pc = "send"]
    <3>1. wJob' = [wJob EXCEPT ![k] = j]
      BY <1>4, <2>5 DEF Windows!ClaimNotice, NoticeOf
    <3>2. j \in [pc : {"idle", "claim", "send", "sending"}, of : Window \cup {NoWindow}, kind : Windows!Kinds \cup {"none"}]
          /\ j.pc = "send" /\ j.of = wJob[k].of /\ j.kind = wJob[k].kind
      BY <2>1, JobTyped
    <3> HIDE DEF j
    <3>3. wJob'[k] = j /\ \A i \in Worker \ {k} : wJob'[i] = wJob[i]
      BY <1>2, <3>1
    <3>4. \A i \in Worker : NoticeOf(i)' = NoticeOf(i) /\ (i # k => wJob'[i] = wJob[i])
      BY <3>2, <3>3 DEF NoticeOf
    <3>5. JobsNamed'
      BY <1>1, <2>2, <3>3, <3>4 DEF NoticeInv, JobsNamed
    <3>6. wSent[NoticeOf(k)] = 0
      <4>1. wSent[NoticeOf(k)] \in Nat /\ ~(wSent[NoticeOf(k)] > 0)
        BY <1>1, <1>2, <2>2, <2>5 DEF NoticeInv, ClaimedOnce
      <4>2. QED
        BY <4>1
    <3>7. \A i \in Worker : ClaimedBy(i)' => i = k \/ ClaimedBy(i)
      BY <3>3 DEF ClaimedBy
    <3>8. \A i \in Worker : ClaimedBy(i) => NoticeOf(i) \in notified
      BY <1>1 DEF NoticeInv, ClaimedOnce
    <3>9. ClaimedOnce'
      <4>1. \A i \in Worker : ClaimedBy(i)' => NoticeOf(i)' \in notified'
        BY <2>1, <3>4, <3>7, <3>8
      <4>2. \A i \in Worker : wJob'[i].pc = "send" => wSent'[NoticeOf(i)'] = 0
        BY <1>1, <2>1, <3>4, <3>6 DEF NoticeInv, ClaimedOnce
      <4>3. \A h, i \in Worker : ClaimedBy(h)' /\ ClaimedBy(i)' /\ NoticeOf(h)' = NoticeOf(i)' => h = i
        BY <1>1, <2>5, <3>4, <3>7, <3>8 DEF NoticeInv, ClaimedOnce
      <4>4. \A n \in Window \X Windows!Kinds : wSent'[n] <= 1 /\ (wSent'[n] > 0 => n \in notified')
        BY <1>1, <2>1 DEF NoticeInv, ClaimedOnce
      <4>5. QED
        BY <4>1, <4>2, <4>3, <4>4 DEF ClaimedOnce
    <3>10. WithdrawalsFounded'
      <4>1. \A i \in Worker : wJob'[i].pc # "idle" => wJob[i].pc # "idle" /\ wJob'[i].kind = wJob[i].kind /\ wJob'[i].of = wJob[i].of
        BY <2>1, <3>2, <3>3
      <4>2. QED
        BY <1>1, <2>1, <4>1 DEF NoticeInv, WithdrawalsFounded
    <3>11. NoticeInv'
      BY <3>5, <3>9, <3>10 DEF NoticeInv
    <3>12. QED
      BY <1>2, <2>1, <2>3, <3>1, <3>2, <3>11, WorkKeeps
  <2>6. QED
    BY <2>4, <2>5
<1>5. CASE Windows!SendNotice(k)
  <2> DEFINE j == [wJob[k] EXCEPT !.pc = "sending"]
  <2>1. wJob[k].pc = "send" /\ wSent' = [wSent EXCEPT ![NoticeOf(k)] = @ + 1] /\ wJob' = [wJob EXCEPT ![k] = j]
        /\ UNCHANGED <<window, wNow, cache, visit, queue, notified, wFails, changedAt>>
    BY <1>5 DEF Windows!SendNotice, NoticeOf
  <2>2. NoticeOf(k) \in Window \X Windows!Kinds /\ NoticeOf(k) \in notified /\ wSent[NoticeOf(k)] = 0 /\ ClaimedBy(k)
    BY <1>1, <2>1, JobTyped DEF NoticeInv, ClaimedOnce, ClaimedBy
  <2>3. wSent' \in [Window \X Windows!Kinds -> Nat] /\ wSent'[NoticeOf(k)] = 1 /\ \A n \in (Window \X Windows!Kinds) \ {NoticeOf(k)} : wSent'[n] = wSent[n]
    BY <1>2, <2>1, <2>2
  <2>4. j \in [pc : {"idle", "claim", "send", "sending"}, of : Window \cup {NoWindow}, kind : Windows!Kinds \cup {"none"}]
        /\ j.pc = "sending" /\ j.of = wJob[k].of /\ j.kind = wJob[k].kind
    BY <2>1, JobTyped
  <2> HIDE DEF j
  <2>5. wJob'[k] = j /\ \A i \in Worker \ {k} : wJob'[i] = wJob[i]
    BY <1>2, <2>1
  <2>6. \A i \in Worker : NoticeOf(i)' = NoticeOf(i) /\ ClaimedBy(i)' = ClaimedBy(i) /\ (wJob'[i].pc # "idle" => wJob[i].pc # "idle")
                          /\ wJob'[i].kind = wJob[i].kind /\ wJob'[i].of = wJob[i].of
    BY <2>1, <2>2, <2>4, <2>5 DEF NoticeOf, ClaimedBy
  <2>7. JobsNamed'
    BY <1>1, <2>6 DEF NoticeInv, JobsNamed
  <2>8. ClaimedOnce'
    <3>1. \A n \in Window \X Windows!Kinds : wSent'[n] <= 1 /\ (wSent'[n] > 0 => n \in notified')
      BY <1>1, <2>1, <2>2, <2>3 DEF NoticeInv, ClaimedOnce
    <3>2. \A i \in Worker : wJob'[i].pc = "send" => wSent'[NoticeOf(i)'] = 0
      <4> SUFFICES ASSUME NEW i \in Worker, wJob'[i].pc = "send" PROVE wSent'[NoticeOf(i)'] = 0
        OBVIOUS
      <4>1. i # k /\ wJob[i].pc = "send" /\ ClaimedBy(i)
        BY <2>4, <2>5 DEF ClaimedBy
      <4>2. NoticeOf(i) # NoticeOf(k) /\ wSent[NoticeOf(i)] = 0 /\ NoticeOf(i) \in Window \X Windows!Kinds
        BY <1>1, <2>2, <4>1, JobTyped DEF NoticeInv, ClaimedOnce
      <4>3. QED
        BY <2>3, <2>6, <4>2
    <3>3. QED
      BY <1>1, <2>1, <2>6, <3>1, <3>2 DEF NoticeInv, ClaimedOnce
  <2>9. WithdrawalsFounded'
    <3>1. \A w \in Window : wSent'[<<w, "cancelled">>] > 0 => <<w, "scheduled">> \in notified'
      <4> SUFFICES ASSUME NEW w \in Window, wSent'[<<w, "cancelled">>] > 0 PROVE <<w, "scheduled">> \in notified
        BY <2>1
      <4>1. CASE <<w, "cancelled">> = NoticeOf(k)
        <5>1. wJob[k].of = w /\ wJob[k].kind = "cancelled" /\ wJob[k].pc # "idle"
          BY <2>1, <4>1 DEF NoticeOf
        <5>2. QED
          BY <1>1, <5>1 DEF NoticeInv, WithdrawalsFounded
      <4>2. CASE <<w, "cancelled">> # NoticeOf(k)
        <5>1. <<w, "cancelled">> \in Window \X Windows!Kinds
          BY DEF Windows!Kinds
        <5>2. QED
          BY <1>1, <2>3, <4>2, <5>1 DEF NoticeInv, WithdrawalsFounded
      <4>3. QED
        BY <4>1, <4>2
    <3>2. QED
      BY <1>1, <2>1, <2>6, <3>1 DEF NoticeInv, WithdrawalsFounded
  <2>10. NoticeInv'
    BY <2>7, <2>8, <2>9 DEF NoticeInv
  <2>11. QED
    BY <1>2, <2>1, <2>3, <2>4, <2>10, WorkKeeps
<1>6. CASE Windows!FinishTask(k)
  <2>1. wJob' = [wJob EXCEPT ![k] = Windows!Free] /\ UNCHANGED <<window, wNow, cache, visit, queue, notified, wFails, wSent, changedAt>>
    BY <1>6 DEF Windows!FinishTask
  <2>2. NoticeInv'
    BY <2>1, FreedKeeps
  <2>3. QED
    BY <1>2, <2>1, <2>2, FreeTyped, WorkKeeps
<1>7. CASE Windows!RetryTask(k)
  <2>1. wJob' = [wJob EXCEPT ![k] = Windows!Free] /\ queue' = queue \cup {NoticeOf(k)} /\ wFails < MaxFails /\ wFails' = wFails + 1
        /\ NoticeOf(k) \in Window \X Windows!Kinds /\ UNCHANGED <<window, wNow, cache, visit, notified, wSent, changedAt>>
    BY <1>7, JobTyped DEF Windows!RetryTask, NoticeOf
  <2>2. NoticeInv'
    BY <2>1, FreedKeeps
  <2>3. queue' \in SUBSET (Window \X Windows!Kinds)
    BY <1>2, <2>1
  <2>4. wFails' \in 0 .. MaxFails
    BY <1>2, <2>1, WindowConsts
  <2>5. QED
    BY <1>2, <2>1, <2>2, <2>3, <2>4, FreeTyped, WorkKeeps
<1>8. QED
  BY <1>3, <1>4, <1>5, <1>6, <1>7

LEMMA TickKeeps ==
    ASSUME WindowInv, Windows!Tick
    PROVE  WindowInv'
<1>1. Windows!TypeOK /\ NoticeInv /\ StateInv
  BY DEF WindowInv
<1>2. wNow < MaxTime /\ wNow' = wNow + 1 /\ (\A r \in Visitor : visit[r].pc = "idle")
      /\ UNCHANGED <<window, cache, visit, queue, wJob, notified, wSent, wFails, changedAt>>
  BY DEF Windows!Tick, Windows!notices
<1>3. wNow \in 0 .. MaxTime /\ changedAt \in 0 .. MaxTime /\ cache \in Windows!State
  BY <1>1 DEF Windows!TypeOK
<1>4. Windows!TypeOK'
  <2>1. wNow' \in 0 .. MaxTime
    BY <1>2, <1>3, WindowConsts
  <2>2. QED
    BY <1>1, <1>2, <2>1 DEF Windows!TypeOK, Windows!Open
<1>5. NoticeInv'
  BY <1>1, <1>2 DEF NoticeInv, JobsNamed, ClaimedOnce, WithdrawalsFounded, NoticeOf, ClaimedBy
<1>6. CacheTells'
  <2>1. CacheTells /\ (Tells(cache) => Tells(cache)') /\ (Planned(cache) => Planned(cache)')
    BY <1>1, <1>2 DEF StateInv, Tells, Planned, Windows!ActiveWindows
  <2>2. cache.expires \in Int
    BY <1>3, WindowConsts DEF Windows!State, Windows!Moments, Windows!Null
  <2>3. cache.expires <= wNow + Ttl => cache.expires <= wNow' + Ttl
    BY <1>2, <1>3, <2>2, WindowConsts
  <2>4. QED
    BY <1>2, <2>1, <2>3 DEF CacheTells
<1>7. VisitsTell' /\ changedAt' <= wNow'
  BY <1>1, <1>2, <1>3, WindowConsts DEF VisitsTell, StateInv
<1>8. QED
  BY <1>4, <1>5, <1>6, <1>7 DEF WindowInv, StateInv

LEMMA WindowsBegin ==
    ASSUME Windows!Init
    PROVE  WindowInv
<1>1. window = [w \in Window |-> Windows!NoRow] /\ wNow = 0 /\ changedAt = 0 /\ wFails = 0 /\ cache = Windows!NoState
      /\ visit = [r \in Visitor |-> [pc |-> "idle", state |-> Windows!NoState]] /\ queue = {} /\ notified = {}
      /\ wJob = [k \in Worker |-> Windows!Free] /\ wSent = [n \in Window \X Windows!Kinds |-> 0]
  BY DEF Windows!Init
<1>2. Windows!TypeOK
  <2>1. window \in [Window -> Windows!Row] /\ \A w \in Window : ~Windows!Open(w)
    BY <1>1, NoStateTyped DEF Windows!Open, Windows!NoRow
  <2>2. wNow \in 0 .. MaxTime /\ changedAt \in 0 .. MaxTime /\ wFails \in 0 .. MaxFails
    BY <1>1, WindowConsts
  <2>3. wJob \in [Worker -> [pc : {"idle", "claim", "send", "sending"}, of : Window \cup {NoWindow}, kind : Windows!Kinds \cup {"none"}]]
    BY <1>1, FreeTyped
  <2>4. visit \in [Visitor -> [pc : {"idle", "advance", "read", "store"}, state : Windows!State]] /\ cache \in Windows!State
    BY <1>1, NoStateTyped
  <2>5. queue \in SUBSET (Window \X Windows!Kinds) /\ notified \in SUBSET (Window \X Windows!Kinds) /\ wSent \in [Window \X Windows!Kinds -> Nat]
    BY <1>1
  <2>6. QED
    BY <2>1, <2>2, <2>3, <2>4, <2>5 DEF Windows!TypeOK
<1>3. NoticeInv
  <2>1. \A k \in Worker : wJob[k].pc = "idle"
    BY <1>1 DEF Windows!Free
  <2>2. \A n \in Window \X Windows!Kinds : wSent[n] = 0
    BY <1>1
  <2>3. \A w \in Window : wSent[<<w, "cancelled">>] = 0
    BY <2>2 DEF Windows!Kinds
  <2>4. QED
    BY <2>1, <2>2, <2>3 DEF NoticeInv, JobsNamed, ClaimedOnce, WithdrawalsFounded, NoticeOf, ClaimedBy
<1>4. StateInv
  BY <1>1 DEF StateInv, CacheTells, VisitsTell, Windows!NoState, Planned
<1>5. QED
  BY <1>2, <1>3, <1>4 DEF WindowInv

LEMMA WindowInvStep ==
    ASSUME WindowInv, [Windows!Next]_Windows!vars
    PROVE  WindowInv'
<1>1. CASE Windows!Next
  BY <1>1, WindowAdminKeeps, BeatKeeps, VisitKeeps, TaskKeeps, TickKeeps DEF Windows!Next
<1>2. CASE UNCHANGED Windows!vars
  <2>1. Windows!TypeOK'
    BY <1>2 DEF Windows!vars, Windows!notices, WindowInv, Windows!TypeOK, Windows!Open
  <2>2. NoticeInv'
    BY <1>2 DEF Windows!vars, Windows!notices, WindowInv, NoticeInv, JobsNamed, ClaimedOnce,
       WithdrawalsFounded, NoticeOf, ClaimedBy
  <2>3. StateInv'
    BY <1>2 DEF Windows!vars, WindowInv, StateInv, CacheTells, VisitsTell, Tells, Planned,
       Windows!ActiveWindows
  <2>4. QED
    BY <2>1, <2>2, <2>3 DEF WindowInv
<1>3. QED
  BY <1>1, <1>2

\* What the two properties of the state, and the two of the notices, follow from.
LEMMA WindowInvSafe ==
    ASSUME WindowInv
    PROVE  Windows!MisledWithinTtl /\ Windows!NotBlockedAfterEnd /\ Windows!NoticeAtMostOnce /\ Windows!WithdrawnMeansTold
<1>1. Windows!TypeOK /\ NoticeInv /\ StateInv
  BY DEF WindowInv
<1>2. cache \in Windows!State /\ wNow \in Int /\ changedAt \in Int
  BY <1>1, WindowConsts DEF Windows!TypeOK
<1>3. Windows!MisledWithinTtl
  <2> SUFFICES ASSUME Windows!Usable, ~Tells(cache) PROVE wNow - changedAt < Ttl
    BY DEF Windows!MisledWithinTtl, Windows!RightToTheSecond, Tells
  <2>1. wNow < cache.expires /\ cache.expires - Ttl <= changedAt /\ cache.expires \in Int
    BY <1>1, <1>2, WindowConsts DEF StateInv, CacheTells, Windows!Usable, Windows!Fresh, Windows!State,
       Windows!Moments, Windows!Null
  <2>2. QED
    BY <1>2, <2>1, WindowConsts
<1>4. Windows!NotBlockedAfterEnd
  BY <1>1 DEF Windows!NotBlockedAfterEnd, Windows!Usable, StateInv, CacheTells, Planned
<1>5. Windows!NoticeAtMostOnce /\ Windows!WithdrawnMeansTold
  BY <1>1 DEF NoticeInv, ClaimedOnce, WithdrawalsFounded, Windows!NoticeAtMostOnce,
     Windows!WithdrawnMeansTold
<1>6. QED
  BY <1>3, <1>4, <1>5

-------------------------------------------------------------------------------
(* The one choice: which rows a transaction may still leave on.            *)

TxRecord == [pc : {"idle", "save", "unmark", "clear", "clearing", "mark", "commit"}, kind : {"form", "access", "prompt"},
       row : Choice, want : BOOLEAN, seen : {"none", "on", "off"}, todo : SUBSET Choice,
       wrote : [Choice -> {"same", "on", "off"}]]

RowThere(c) == committed[c] # "none"

\* A transaction that clears has on its list, or turned off already, whatever is there
\* besides its own row: a prompt looks at the active ones only, and adds none that was there.
Clears(t) ==
    t.want /\ t.pc \in {"clearing", "mark", "commit"} /\ ~phantom =>
        \A c \in Choice \ {t.row} :
            (IF t.kind = "prompt" THEN committed[c] = "on" ELSE RowThere(c)) => c \in t.todo \/ t.wrote[c] = "off"

\* It turns on its own row only, and that for good only when it wants it, or it was on.
Founded(t) ==
    /\ t \in TxRecord
    /\ t.pc # "idle" => (t.kind = "prompt" <=> table = "prompts")
    /\ t.pc # "idle" /\ t.kind = "prompt" => t.want /\ ~RowThere(t.row)
    /\ t.pc # "idle" /\ t.kind = "access" => RowThere(t.row)
    /\ t.pc \in {"clear", "clearing", "mark"} => t.want
    /\ t.pc = "unmark" => ~t.want
    /\ t.pc = "save" => t.kind # "prompt"
    /\ t.pc # "clearing" => t.todo = {}
    /\ \A c \in t.todo : RowThere(c) /\ c # t.row
    /\ t.pc \in {"idle", "save"} => t.wrote = Choices!Same
    /\ t.pc = "commit" /\ t.want => t.wrote[t.row] = "on"
    /\ \A c \in Choice : /\ t.wrote[c] = "on" => c = t.row /\ (t.want \/ t.pc = "unmark" \/ committed[c] = "on")
                         /\ t.wrote[c] # "same" => c = t.row \/ RowThere(c)
    /\ Clears(t)

\* Two transactions hold no lock of each other, and make no row together.
Apart(s, t) ==
    /\ \A c \in Choice : s.wrote[c] = "same" \/ t.wrote[c] = "same"
    /\ s.pc # "idle" /\ t.pc # "idle" /\ s.row = t.row => RowThere(t.row)

OneOn == ~phantom => \A c, d \in Choice : committed[c] = "on" /\ committed[d] = "on" => c = d

ChoiceInv ==
    /\ Choice # {}
    /\ table \in {"plans", "prompts"} /\ committed \in [Choice -> {"none", "on", "off"}]
    /\ begun \in 0 .. MaxTx /\ phantom \in BOOLEAN
    /\ tx \in [Worker -> TxRecord]
    /\ \A w \in Worker : Founded(tx[w])
    /\ \A v, w \in Worker : v # w => Apart(tx[v], tx[w])
    /\ OneOn

\* The instance has its own copies of the operators on finite sets: they are the same.
LEMMA ChoiceSets ==
    /\ \A S : Choices!IsFiniteSet(S) <=> IsFiniteSet(S)
    /\ \A S : Choices!Cardinality(S) = Cardinality(S)
<1>1. ASSUME NEW S PROVE Choices!IsFiniteSet(S) <=> IsFiniteSet(S)
  BY DEF Choices!IsFiniteSet, IsFiniteSet
<1>2. ASSUME NEW S PROVE Choices!Cardinality(S) = Cardinality(S)
  BY DEF Choices!Cardinality, Cardinality
<1>3. QED
  BY <1>1, <1>2

LEMMA AtMostOne ==
    ASSUME NEW S, \A x, y \in S : x = y
    PROVE  Cardinality(S) <= 1
<1>1. CASE S = {}
  BY <1>1, FS_EmptySet
<1>2. CASE S # {}
  <2>1. PICK x \in S : TRUE
    BY <1>2
  <2>2. S = {x}
    BY <2>1
  <2>3. QED
    BY <2>2, FS_Singleton
<1>3. QED
  BY <1>1, <1>2

LEMMA NoTxTyped ==
    ASSUME Choice # {}
    PROVE  Choices!NoTx \in TxRecord /\ Choices!NoTx.pc = "idle" /\ Choices!NoTx.todo = {} /\ Choices!NoTx.wrote = Choices!Same
<1>1. (CHOOSE c \in Choice : TRUE) \in Choice
  OBVIOUS
<1>2. QED
  BY <1>1 DEF Choices!NoTx, TxRecord, Choices!Same

LEMMA NoTxFounded ==
    ASSUME Choice # {}
    PROVE  Founded(Choices!NoTx) /\ \A s : Apart(s, Choices!NoTx) /\ Apart(Choices!NoTx, s)
BY NoTxTyped DEF Founded, Clears, Apart, Choices!Same

LEMMA ChoiceBegins ==
    ASSUME Choices!Init
    PROVE  ChoiceInv
<1>1. Cardinality({c \in Choice : committed[c] = "on"}) = 1 /\ tx = [w \in Worker |-> Choices!NoTx] /\ begun = 0 /\ phantom = FALSE
      /\ table \in {"plans", "prompts"} /\ committed \in [Choice -> {"none", "on", "off"}]
  BY ChoiceSets DEF Choices!Init
<1>2. PICK c : {d \in Choice : committed[d] = "on"} = {c}
  <2>1. IsFiniteSet({d \in Choice : committed[d] = "on"})
    BY ChoiceAssumption, ChoiceSets, FS_Subset DEF Choices!SingleChoiceConstants
  <2>2. QED
    BY <1>1, <2>1, FS_Singleton
<1>3. Choice # {} /\ OneOn
  BY <1>2 DEF OneOn
<1>4. begun \in 0 .. MaxTx
  BY <1>1, ChoiceAssumption DEF Choices!SingleChoiceConstants
<1>5. QED
  BY <1>1, <1>3, <1>4, NoTxTyped, NoTxFounded DEF ChoiceInv

\* A step of one transaction before its commit: what the others rest on stays.
LEMMA TxKeeps ==
    ASSUME ChoiceInv, NEW w \in Worker, NEW t, tx' = [tx EXCEPT ![w] = t], UNCHANGED <<table, committed, phantom>>,
           begun' \in 0 .. MaxTx, Founded(t), \A v \in Worker \ {w} : Apart(tx[v], t) /\ Apart(t, tx[v])
    PROVE  ChoiceInv'
<1>1. tx'[w] = t /\ (\A v \in Worker \ {w} : tx'[v] = tx[v]) /\ tx' \in [Worker -> TxRecord]
  BY DEF ChoiceInv, Founded
<1>2. ASSUME NEW s, Founded(s) PROVE Founded(s)'
  BY <1>2 DEF Founded, Clears, RowThere
<1>3. ASSUME NEW r, NEW s, Apart(r, s) PROVE Apart(r, s)'
  BY <1>3 DEF Apart, RowThere
<1>4. \A v \in Worker : Founded(tx[v])'
  <2> TAKE v \in Worker
  <2>1. Founded(tx'[v])
    BY <1>1 DEF ChoiceInv
  <2>2. QED
    BY <2>1 DEF Founded, Clears, RowThere
<1>5. \A u, v \in Worker : u # v => Apart(tx[u], tx[v])'
  <2> SUFFICES ASSUME NEW u \in Worker, NEW v \in Worker, u # v PROVE Apart(tx[u], tx[v])'
    OBVIOUS
  <2>1. Apart(tx'[u], tx'[v])
    BY <1>1 DEF ChoiceInv
  <2>2. QED
    BY <2>1 DEF Apart, RowThere
<1>6. QED
  BY <1>1, <1>4, <1>5 DEF ChoiceInv, OneOn

LEMMA BeginKeeps ==
    ASSUME ChoiceInv, NEW w \in Worker, NEW kind \in {"form", "access", "prompt"}, NEW c \in Choice, NEW want \in BOOLEAN,
           Choices!Begin(w, kind, c, want)
    PROVE  ChoiceInv'
<1> DEFINE t == [Choices!NoTx EXCEPT !.pc = IF kind = "prompt" THEN "clear" ELSE "save",
                             !.kind = kind, !.row = c, !.want = want, !.seen = committed[c]]
<1>1. tx' = [tx EXCEPT ![w] = t] /\ UNCHANGED <<table, committed, phantom>> /\ begun' = begun + 1 /\ begun < MaxTx
      /\ \A v \in Worker : tx[v].pc # "idle" => tx[v].row # c \/ RowThere(c)
  BY DEF Choices!Begin, RowThere
<1>2. /\ kind = "form" => table = "plans"
      /\ kind = "access" => table = "plans" /\ RowThere(c)
      /\ kind = "prompt" => table = "prompts" /\ ~RowThere(c) /\ want
  BY DEF Choices!Begin, RowThere
<1>3. begun' \in 0 .. MaxTx
  BY <1>1, ChoiceAssumption DEF ChoiceInv, Choices!SingleChoiceConstants
<1>4. t \in TxRecord /\ t.pc = (IF kind = "prompt" THEN "clear" ELSE "save") /\ t.kind = kind /\ t.row = c /\ t.want = want
      /\ t.todo = {} /\ t.wrote = Choices!Same
  <2>1. Choices!NoTx \in TxRecord /\ Choices!NoTx.todo = {} /\ Choices!NoTx.wrote = Choices!Same /\ committed[c] \in {"none", "on", "off"}
    BY NoTxTyped DEF ChoiceInv
  <2>2. QED
    BY <2>1 DEF TxRecord
<1> HIDE DEF t
<1>5. Founded(t)
  BY <1>2, <1>4 DEF Founded, Clears, Choices!Same
<1>6. \A v \in Worker \ {w} : Apart(tx[v], t) /\ Apart(t, tx[v])
  BY <1>1, <1>4 DEF Apart, Choices!Same
<1>7. QED
  BY <1>1, <1>3, <1>5, <1>6, TxKeeps

\* A statement on one row takes its lock.
LEMMA WriteKeeps ==
    ASSUME ChoiceInv, NEW w \in Worker, NEW v \in {"on", "off"}, NEW next \in {"unmark", "clear", "commit"},
           Choices!Write(w, tx[w].row, v, next), tx[w].pc # "idle", tx[w].todo = {},
           \A c \in Choice : tx[w].wrote[c] = "on" => c = tx[w].row,
           v = "on" => tx[w].want \/ next = "unmark" \/ committed[tx[w].row] = "on",
           next = "clear" => tx[w].want, next = "unmark" => ~tx[w].want,
           next = "commit" /\ tx[w].want => v = "on" /\ tx[w].pc = "mark"
    PROVE  ChoiceInv'
<1> DEFINE t == [tx[w] EXCEPT !.wrote = [@ EXCEPT ![tx[w].row] = v], !.pc = next]
<1>1. tx \in [Worker -> TxRecord] /\ tx[w] \in TxRecord /\ Founded(tx[w])
  BY DEF ChoiceInv
<1>2. tx' = [tx EXCEPT ![w] = t] /\ UNCHANGED <<table, committed, begun, phantom>> /\ Choices!Free(w, tx[w].row)
  BY <1>1 DEF Choices!Write, TxRecord
<1>3. t \in TxRecord /\ t.pc = next /\ t.kind = tx[w].kind /\ t.row = tx[w].row /\ t.want = tx[w].want /\ t.todo = {}
      /\ t.wrote[t.row] = v /\ \A c \in Choice \ {t.row} : t.wrote[c] = tx[w].wrote[c]
  BY <1>1 DEF TxRecord
<1> HIDE DEF t
<1>4. Clears(t)
  BY <1>1, <1>3 DEF Founded, Clears
<1>5. Founded(t)
  BY <1>1, <1>3, <1>4 DEF Founded
<1>6. \A u \in Worker \ {w} : Apart(tx[u], t) /\ Apart(t, tx[u])
  <2> TAKE u \in Worker \ {w}
  <2>1. Apart(tx[u], tx[w]) /\ Apart(tx[w], tx[u]) /\ tx[u].wrote[t.row] = "same" /\ t.row \in Choice
    BY <1>2, <1>3 DEF ChoiceInv, Choices!Free, TxRecord
  <2>2. QED
    BY <1>3, <2>1 DEF Apart
<1>7. begun' \in 0 .. MaxTx
  BY <1>2 DEF ChoiceInv
<1>8. QED
  BY <1>2, <1>5, <1>6, <1>7, TxKeeps

LEMMA OwnRowKeeps ==
    ASSUME ChoiceInv, NEW w \in Worker, Choices!Save(w) \/ Choices!Unmark(w) \/ Choices!Mark(w)
    PROVE  ChoiceInv'
<1>1. tx[w] \in TxRecord /\ Founded(tx[w]) /\ committed[tx[w].row] \in {"none", "on", "off"}
  BY DEF ChoiceInv, TxRecord
<1>2. CASE Choices!Save(w)
  <2> DEFINE v == IF tx[w].seen = "none" THEN "off" ELSE IF tx[w].kind = "form" THEN tx[w].seen ELSE committed[tx[w].row]
             next == IF tx[w].want THEN "clear" ELSE IF tx[w].seen = "on" THEN "unmark" ELSE "commit"
  <2>1. tx[w].pc = "save" /\ Choices!Write(w, tx[w].row, v, next) /\ tx[w].wrote = Choices!Same
    BY <1>1, <1>2 DEF Choices!Save, Founded
  <2>2. v \in {"on", "off"}
    <3>1. tx[w].kind \in {"form", "access"} /\ (tx[w].kind = "access" => RowThere(tx[w].row)) /\ tx[w].seen \in {"none", "on", "off"}
      BY <1>1, <2>1 DEF Founded, TxRecord
    <3>2. QED
      BY <1>1, <3>1 DEF RowThere
  <2>3. next \in {"unmark", "clear", "commit"} /\ (next = "clear" => tx[w].want) /\ (next = "unmark" => ~tx[w].want)
        /\ (next = "commit" => ~tx[w].want /\ tx[w].seen # "on")
    OBVIOUS
  <2>4. v = "on" => tx[w].want \/ next = "unmark" \/ committed[tx[w].row] = "on"
    OBVIOUS
  <2>5. tx[w].todo = {} /\ \A c \in Choice : tx[w].wrote[c] = "on" => c = tx[w].row
    BY <1>1, <2>1 DEF Founded
  <2> HIDE DEF v, next
  <2>6. QED
    BY <2>1, <2>2, <2>3, <2>4, <2>5, WriteKeeps
<1>3. CASE Choices!Unmark(w)
  <2>1. tx[w].pc = "unmark" /\ Choices!Write(w, tx[w].row, "off", "commit") /\ ~tx[w].want
    BY <1>1, <1>3 DEF Choices!Unmark, Founded
  <2>2. tx[w].todo = {} /\ \A c \in Choice : tx[w].wrote[c] = "on" => c = tx[w].row
    BY <1>1, <2>1 DEF Founded
  <2>3. QED
    BY <2>1, <2>2, WriteKeeps
<1>4. CASE Choices!Mark(w)
  <2>1. tx[w].pc = "mark" /\ Choices!Write(w, tx[w].row, "on", "commit") /\ tx[w].want
    BY <1>1, <1>4 DEF Choices!Mark, Founded
  <2>2. tx[w].todo = {} /\ \A c \in Choice : tx[w].wrote[c] = "on" => c = tx[w].row
    BY <1>1, <2>1 DEF Founded
  <2>3. QED
    BY <2>1, <2>2, WriteKeeps
<1>5. QED
  BY <1>2, <1>3, <1>4

LEMMA ClearKeeps ==
    ASSUME ChoiceInv, NEW w \in Worker, Choices!StartClear(w) \/ Choices!Clear(w)
    PROVE  ChoiceInv'
<1>1. tx \in [Worker -> TxRecord] /\ tx[w] \in TxRecord /\ Founded(tx[w]) /\ committed \in [Choice -> {"none", "on", "off"}]
      /\ \A u \in Worker \ {w} : Apart(tx[u], tx[w]) /\ Apart(tx[w], tx[u])
  BY DEF ChoiceInv
<1>2. begun' \in 0 .. MaxTx /\ UNCHANGED <<table, committed, phantom>>
  BY DEF Choices!StartClear, Choices!Clear, ChoiceInv
<1>3. CASE Choices!StartClear(w)
  <2> DEFINE list == {c \in Choice : committed[c] # "none" /\ (tx[w].kind = "prompt" => committed[c] = "on")} \ {tx[w].row}
             t == [tx[w] EXCEPT !.pc = "clearing", !.todo = list]
  <2>1. tx' = [tx EXCEPT ![w] = t] /\ tx[w].pc = "clear" /\ tx[w].want
    BY <1>1, <1>3 DEF Choices!StartClear, Founded
  <2>2. t \in TxRecord /\ t.pc = "clearing" /\ t.kind = tx[w].kind /\ t.row = tx[w].row /\ t.want = tx[w].want /\ t.todo = list
        /\ t.wrote = tx[w].wrote
    BY <1>1 DEF TxRecord
  <2>3. \A c \in Choice \ {t.row} : (IF t.kind = "prompt" THEN committed[c] = "on" ELSE RowThere(c)) => c \in list
    BY <2>2 DEF RowThere
  <2>4. \A c \in list : RowThere(c) /\ c # t.row
    BY <2>2 DEF RowThere
  <2> HIDE DEF t, list
  <2>5. Founded(t)
    BY <1>1, <2>1, <2>2, <2>3, <2>4 DEF Founded, Clears
  <2>6. \A u \in Worker \ {w} : Apart(tx[u], t) /\ Apart(t, tx[u])
    BY <1>1, <2>1, <2>2 DEF Apart
  <2>7. QED
    BY <1>2, <2>1, <2>5, <2>6, TxKeeps
<1>4. ASSUME NEW c \in tx[w].todo, tx[w].pc = "clearing", Choices!Free(w, c), tx' = [tx EXCEPT ![w].todo = @ \ {c}, ![w].wrote[c] = "off"]
      PROVE  ChoiceInv'
  <2> DEFINE t == [tx[w] EXCEPT !.todo = @ \ {c}, !.wrote = [@ EXCEPT ![c] = "off"]]
  <2>1. tx' = [tx EXCEPT ![w] = t]
    BY <1>1, <1>4 DEF TxRecord
  <2>2. c \in Choice /\ RowThere(c) /\ c # tx[w].row
    BY <1>1, <1>4 DEF Founded, TxRecord
  <2>3. t \in TxRecord /\ t.pc = "clearing" /\ t.kind = tx[w].kind /\ t.row = tx[w].row /\ t.want = tx[w].want /\ t.todo = tx[w].todo \ {c}
        /\ t.wrote[c] = "off" /\ \A d \in Choice \ {c} : t.wrote[d] = tx[w].wrote[d]
    BY <1>1, <1>4, <2>2 DEF TxRecord
  <2> HIDE DEF t
  <2>4. Clears(t)
    BY <1>1, <1>4, <2>2, <2>3 DEF Founded, Clears
  <2>5. Founded(t)
    BY <1>1, <1>4, <2>2, <2>3, <2>4 DEF Founded
  <2>6. \A u \in Worker \ {w} : Apart(tx[u], t) /\ Apart(t, tx[u])
    BY <1>1, <1>4, <2>2, <2>3 DEF Apart, Choices!Free
  <2>7. QED
    BY <1>2, <2>1, <2>5, <2>6, TxKeeps
<1>5. ASSUME tx[w].pc = "clearing", tx[w].todo = {}, tx' = [tx EXCEPT ![w].pc = "mark"]
      PROVE  ChoiceInv'
  <2> DEFINE t == [tx[w] EXCEPT !.pc = "mark"]
  <2>1. tx' = [tx EXCEPT ![w] = t]
    BY <1>1, <1>5
  <2>2. t \in TxRecord /\ t.pc = "mark" /\ t.kind = tx[w].kind /\ t.row = tx[w].row /\ t.want = tx[w].want /\ t.todo = {}
        /\ t.wrote = tx[w].wrote
    BY <1>1, <1>5 DEF TxRecord
  <2> HIDE DEF t
  <2>3. Founded(t)
    BY <1>1, <1>5, <2>2 DEF Founded, Clears
  <2>4. \A u \in Worker \ {w} : Apart(tx[u], t) /\ Apart(t, tx[u])
    BY <1>1, <1>5, <2>2 DEF Apart
  <2>5. QED
    BY <1>2, <2>1, <2>3, <2>4, TxKeeps
<1>6. QED
  BY <1>3, <1>4, <1>5 DEF Choices!Clear

LEMMA AbortKeeps ==
    ASSUME ChoiceInv, NEW w \in Worker, Choices!Abort(w)
    PROVE  ChoiceInv'
<1>1. Founded(Choices!NoTx) /\ \A s : Apart(s, Choices!NoTx) /\ Apart(Choices!NoTx, s)
  BY NoTxFounded DEF ChoiceInv
<1>2. QED
  BY <1>1, TxKeeps DEF Choices!Abort, ChoiceInv

LEMMA ChoiceCommitKeeps ==
    ASSUME ChoiceInv, NEW w \in Worker, Choices!Commit(w)
    PROVE  ChoiceInv'
<1> PICK t : t = tx[w]
  OBVIOUS
<1>1. tx \in [Worker -> TxRecord] /\ t \in TxRecord /\ Founded(t) /\ committed \in [Choice -> {"none", "on", "off"}] /\ Choice # {}
      /\ table \in {"plans", "prompts"} /\ begun \in 0 .. MaxTx /\ phantom \in BOOLEAN /\ OneOn
      /\ (\A v \in Worker : Founded(tx[v]))
      /\ \A u, v \in Worker : u # v => Apart(tx[u], tx[v])
  BY DEF ChoiceInv
<1>2. t.pc = "commit" /\ committed' = [c \in Choice |-> IF t.wrote[c] = "same" THEN committed[c] ELSE t.wrote[c]]
      /\ tx' = [tx EXCEPT ![w] = Choices!NoTx] /\ UNCHANGED <<table, begun>>
      /\ phantom' = (phantom \/ (~RowThere(t.row) /\ \E v \in Worker \ {w} : tx[v].pc \in {"clearing", "mark", "commit"}))
  BY DEF Choices!Commit, RowThere
<1>3. committed' \in [Choice -> {"none", "on", "off"}] /\ phantom' \in BOOLEAN
      /\ \A c \in Choice : committed'[c] = IF t.wrote[c] = "same" THEN committed[c] ELSE t.wrote[c]
  BY <1>1, <1>2 DEF TxRecord
<1>4. tx' \in [Worker -> TxRecord] /\ tx'[w] = Choices!NoTx /\ \A v \in Worker \ {w} : tx'[v] = tx[v]
  BY <1>1, <1>2, NoTxTyped
\* Only a row that was not there comes to be there: its own.
<1>5. \A c \in Choice : /\ RowThere(c) => RowThere(c)'
                        /\ ~RowThere(c) /\ RowThere(c)' => c = t.row
                        /\ committed'[c] = "on" => committed[c] = "on" \/ (t.wrote[c] = "on" /\ c = t.row)
  BY <1>1, <1>3 DEF Founded, RowThere, TxRecord
<1>6. OneOn'
  <2> SUFFICES ASSUME ~phantom', NEW c \in Choice, NEW d \in Choice, committed'[c] = "on", committed'[d] = "on" PROVE c = d
    BY DEF OneOn
  <2>1. ~phantom
    BY <1>2
  <2>2. CASE t.want
    <3>1. \A e \in Choice \ {t.row} : committed'[e] # "on"
      <4> SUFFICES ASSUME NEW e \in Choice \ {t.row}, committed'[e] = "on" PROVE FALSE
        OBVIOUS
      <4>1. committed[e] = "on" /\ t.wrote[e] \in {"same", "on"}
        BY <1>3, <1>5
      <4>2. e \in t.todo \/ t.wrote[e] = "off"
        BY <1>1, <1>2, <2>1, <2>2, <4>1 DEF Founded, Clears, RowThere
      <4>3. QED
        BY <1>1, <1>2, <4>1, <4>2 DEF Founded
    <3>2. QED
      BY <3>1
  <2>3. CASE ~t.want
    <3>1. committed[c] = "on" /\ committed[d] = "on"
      BY <1>1, <1>2, <1>5, <2>3 DEF Founded
    <3>2. QED
      BY <1>1, <2>1, <3>1 DEF OneOn
  <2>4. QED
    BY <2>2, <2>3
<1>7. ASSUME NEW v \in Worker \ {w} PROVE Founded(tx[v])'
  <2> PICK s : s = tx[v]
    OBVIOUS
  <2>1. s = tx[v] /\ tx'[v] = s /\ Founded(s) /\ s \in TxRecord /\ Apart(s, t)
    BY <1>1, <1>4 DEF Founded
  <2>0. s.row \in Choice /\ s.todo \subseteq Choice
    BY <2>1 DEF TxRecord
  <2>2. s.pc # "idle" /\ ~RowThere(s.row) => ~RowThere(s.row)'
    BY <1>2, <1>5, <2>0, <2>1 DEF Apart, RowThere
  <2>3. \A c \in Choice : s.wrote[c] = "on" => committed'[c] = committed[c]
    BY <1>3, <2>1 DEF Apart
  <2>4. Clears(s)'
    <3> SUFFICES ASSUME s.want, s.pc \in {"clearing", "mark", "commit"}, ~phantom', NEW c \in Choice \ {s.row},
                        IF s.kind = "prompt" THEN committed'[c] = "on" ELSE RowThere(c)'
                 PROVE  c \in s.todo \/ s.wrote[c] = "off"
      BY DEF Clears
    <3>1. ~phantom /\ RowThere(t.row)
      BY <1>2, <2>1
    <3>2. RowThere(c) /\ (s.kind = "prompt" => committed[c] = "on")
      <4>1. CASE s.kind = "prompt"
        <5>1. t.kind = "prompt"
          BY <1>1, <1>2, <2>1, <4>1 DEF Founded
        <5>2. ~RowThere(t.row)
          BY <1>1, <1>2, <5>1 DEF Founded
        <5>3. QED
          BY <3>1, <5>2
      <4>2. CASE s.kind # "prompt"
        BY <1>5, <3>1, <4>2 DEF RowThere
      <4>3. QED
        BY <4>1, <4>2
    <3>3. QED
      BY <2>1, <3>1, <3>2 DEF Founded, Clears
  <2>5. /\ s \in TxRecord
        /\ s.pc # "idle" => (s.kind = "prompt" <=> table' = "prompts")
        /\ s.pc # "idle" /\ s.kind = "prompt" => s.want /\ ~RowThere(s.row)'
        /\ s.pc # "idle" /\ s.kind = "access" => RowThere(s.row)'
    BY <1>2, <1>5, <2>0, <2>1, <2>2 DEF Founded, RowThere
  <2>6. (\A c \in s.todo : RowThere(c)' /\ c # s.row)
        /\ \A c \in Choice : /\ s.wrote[c] = "on" => c = s.row /\ (s.want \/ s.pc = "unmark" \/ committed'[c] = "on")
                             /\ s.wrote[c] # "same" => c = s.row \/ RowThere(c)'
    BY <1>5, <2>0, <2>1, <2>3 DEF Founded, RowThere
  <2>7. Founded(s)'
    BY <2>1, <2>4, <2>5, <2>6 DEF Founded
  <2>8. QED
    BY <2>1, <2>4, <2>5, <2>6 DEF Founded, Clears, RowThere
<1>8. Founded(tx[w])'
  <2>1. Choices!NoTx \in TxRecord /\ Choices!NoTx.pc = "idle" /\ Choices!NoTx.todo = {} /\ Choices!NoTx.wrote = Choices!Same
    BY <1>1, NoTxTyped
  <2>2. QED
    BY <1>4, <2>1 DEF Founded, Clears, Choices!Same
<1>9. \A u, v \in Worker : u # v => Apart(tx[u], tx[v])'
  <2> SUFFICES ASSUME NEW u \in Worker, NEW v \in Worker, u # v PROVE Apart(tx[u], tx[v])'
    OBVIOUS
  <2>1. CASE u = w \/ v = w
    <3>1. Choices!NoTx.pc = "idle" /\ Choices!NoTx.wrote = Choices!Same
      BY <1>1, NoTxTyped
    <3>2. QED
      BY <1>4, <2>1, <3>1 DEF Apart, Choices!Same
  <2>2. CASE u # w /\ v # w
    <3>1. Apart(tx[u], tx[v]) /\ tx'[u] = tx[u] /\ tx'[v] = tx[v] /\ tx[u].row \in Choice
      BY <1>1, <1>4, <2>2 DEF TxRecord
    <3>2. QED
      BY <1>5, <3>1 DEF Apart, RowThere
  <2>3. QED
    BY <2>1, <2>2
<1>10. QED
  BY <1>1, <1>2, <1>3, <1>4, <1>6, <1>7, <1>8, <1>9 DEF ChoiceInv

LEMMA ChoiceInvStep ==
    ASSUME ChoiceInv, [Choices!Next]_Choices!vars
    PROVE  ChoiceInv'
<1>1. CASE Choices!Next
  BY <1>1, BeginKeeps, OwnRowKeeps, ClearKeeps, ChoiceCommitKeeps, AbortKeeps DEF Choices!Next,
     Choices!Step
<1>2. CASE UNCHANGED Choices!vars
  BY <1>2 DEF Choices!vars, ChoiceInv, Founded, Clears, RowThere, Apart, OneOn
<1>3. QED
  BY <1>1, <1>2

LEMMA ChoiceInvSafe ==
    ASSUME ChoiceInv
    PROVE  Choices!TypeOK /\ Choices!OneChosen
<1>1. Choices!TypeOK
  <2>1. \A w \in Worker : /\ tx[w].pc \in {"idle", "save", "unmark", "clear", "clearing", "mark", "commit"}
                          /\ tx[w].wrote \in [Choice -> {"same", "on", "off"}]
                          /\ tx[w].todo \subseteq {c \in Choice : committed[c] # "none"}
    BY DEF ChoiceInv, Founded, TxRecord, RowThere
  <2>2. \A c \in Choice : Cardinality({w \in Worker : tx[w].wrote[c] # "same"}) <= 1
    BY AtMostOne DEF ChoiceInv, Apart
  <2>3. QED
    BY <2>1, <2>2, ChoiceSets DEF ChoiceInv, Choices!TypeOK
<1>2. Choices!OneChosen
  <2> SUFFICES ASSUME ~phantom PROVE Cardinality({c \in Choice : committed[c] = "on"}) <= 1
    BY ChoiceSets DEF Choices!OneChosen
  <2>1. QED
    BY AtMostOne DEF ChoiceInv, OneOn
<1>3. QED
  BY <1>1, <1>2

LEMMA ChoiceIsOne == Choices!Spec => [](Choices!TypeOK /\ Choices!OneChosen)
<1>1. Choices!Init => ChoiceInv
  BY ChoiceBegins
<1>2. ChoiceInv /\ [Choices!Next]_Choices!vars => ChoiceInv'
  BY ChoiceInvStep
<1>3. ChoiceInv => Choices!TypeOK /\ Choices!OneChosen
  BY ChoiceInvSafe
<1>4. QED
  BY <1>1, <1>2, <1>3, PTL DEF Choices!Spec

-------------------------------------------------------------------------------
(* A provider's catalogue.                                                 *)

SyncJobs == [Worker -> [pc : {"idle", "fetch", "upsert", "retire", "record", "forget", "toggle"},
                    list : SUBSET Model, todo : SUBSET Model, on : BOOLEAN]]

\* A toggle is of a model there is.
SyncInv ==
    /\ Providers!TypeOK /\ Providers!RetiredIsOff
    /\ pJob \in SyncJobs
    /\ \A w \in Worker : pJob[w].pc = "toggle" => pJob[w].todo \subseteq known

LEMMA IdleTyped == Providers!Idle \in [pc : {"idle", "fetch", "upsert", "retire", "record", "forget", "toggle"},
                             list : SUBSET Model, todo : SUBSET Model, on : BOOLEAN] /\ Providers!Idle.pc = "idle"
BY DEF Providers!Idle

\* One job moves on, and the rows as it says.
LEMMA JobKeeps ==
    ASSUME SyncInv, NEW w \in Worker,
           NEW j \in [pc : {"idle", "fetch", "upsert", "retire", "record", "forget", "toggle"},
                      list : SUBSET Model, todo : SUBSET Model, on : BOOLEAN],
           pJob' = [pJob EXCEPT ![w] = j], j.pc = "toggle" => j.todo \subseteq known,
           offered' = offered, key' \in BOOLEAN, approval' \in {"pending", "approved"}, changes' = changes, acts' \in 0 .. MaxActs,
           known \subseteq known', known' \subseteq Model, retired' \cup enabled' \subseteq known', Providers!RetiredIsOff'
    PROVE  SyncInv'
<1>1. pJob' \in SyncJobs /\ pJob'[w] = j /\ \A v \in Worker \ {w} : pJob'[v] = pJob[v]
  BY DEF SyncInv, SyncJobs
<1>2. \A v \in Worker : pJob'[v].pc = "toggle" => pJob'[v].todo \subseteq known'
  BY <1>1 DEF SyncInv
<1>3. Providers!TypeOK'
  BY <1>1 DEF SyncInv, Providers!TypeOK, SyncJobs
<1>4. QED
  BY <1>1, <1>2, <1>3 DEF SyncInv

LEMMA SyncInvStep ==
    ASSUME SyncInv, [Providers!Next]_Providers!vars
    PROVE  SyncInv'
<1>1. Providers!TypeOK /\ Providers!RetiredIsOff /\ pJob \in SyncJobs /\ (\A w \in Worker : pJob[w].pc = "toggle" => pJob[w].todo \subseteq known)
  BY DEF SyncInv
<1>2. ASSUME NEW w \in Worker, NEW pc \in {"fetch", "retire", "record"}, Providers!Goto(w, pc), offered' = offered, key' \in BOOLEAN,
             approval' \in {"pending", "approved"}, UNCHANGED <<Providers!rows, changes>>, acts' \in 0 .. MaxActs
      PROVE  SyncInv'
  <2> DEFINE j == [pJob[w] EXCEPT !.pc = pc]
  <2>1. j \in [pc : {"idle", "fetch", "upsert", "retire", "record", "forget", "toggle"},
               list : SUBSET Model, todo : SUBSET Model, on : BOOLEAN] /\ j.pc # "toggle" /\ pJob' = [pJob EXCEPT ![w] = j]
    BY <1>1, <1>2 DEF SyncJobs, Providers!Goto
  <2> HIDE DEF j
  <2>2. QED
    BY <1>1, <1>2, <2>1, JobKeeps DEF Providers!TypeOK, Providers!rows, Providers!RetiredIsOff
<1>3. ASSUME NEW w \in Worker, pJob' = [pJob EXCEPT ![w] = Providers!Idle], offered' = offered, key' \in BOOLEAN,
             approval' \in {"pending", "approved"}, UNCHANGED <<Providers!rows, changes>>, acts' \in 0 .. MaxActs
      PROVE  SyncInv'
  BY <1>1, <1>3, IdleTyped, JobKeeps DEF Providers!TypeOK, Providers!rows, Providers!RetiredIsOff
<1>4. acts \in 0 .. MaxActs /\ key \in BOOLEAN /\ approval \in {"pending", "approved"} /\ offered \subseteq Model /\ known \subseteq Model
      /\ retired \cup enabled \subseteq known /\ MaxActs \in Nat /\ MaxChanges \in Nat /\ changes \in 0 .. MaxChanges
  BY <1>1, SyncAssumption DEF Providers!TypeOK, Providers!ProviderSyncConstants
<1>5. ASSUME NEW w \in Worker, Providers!StartSync(w) PROVE SyncInv'
  BY <1>2, <1>4, <1>5 DEF Providers!StartSync
<1>6. ASSUME NEW w \in Worker, Providers!Work(w) PROVE SyncInv'
  <2>1. CASE Providers!Fetch(w)
    <3> DEFINE j == [Providers!Idle EXCEPT !.pc = "upsert", !.list = offered, !.todo = offered]
    <3>1. j \in [pc : {"idle", "fetch", "upsert", "retire", "record", "forget", "toggle"},
                 list : SUBSET Model, todo : SUBSET Model, on : BOOLEAN] /\ j.pc # "toggle"
      BY <1>4, IdleTyped
    <3>2. pJob' = [pJob EXCEPT ![w] = j] /\ UNCHANGED <<offered, key, approval, known, retired, enabled, kept, changes, acts>>
      BY <2>1 DEF Providers!Fetch, Providers!rows
    <3> HIDE DEF j
    <3>3. QED
      BY <1>1, <1>4, <3>1, <3>2, JobKeeps DEF Providers!RetiredIsOff
  <2>2. CASE Providers!FetchFails(w)
    BY <1>2, <1>4, <2>2 DEF Providers!FetchFails
  <2>3. CASE Providers!Upsert(w)
    <3>1. PICK m \in pJob[w].todo : /\ known' = known \cup {m}
                                    /\ retired' = retired \ {m} /\ kept' = kept \ {m}
                                    /\ pJob' = [pJob EXCEPT ![w].todo = @ \ {m}]
                                    /\ UNCHANGED <<offered, key, approval, enabled, changes, acts>>
      BY <2>3 DEF Providers!Upsert
    <3> DEFINE j == [pJob[w] EXCEPT !.todo = @ \ {m}]
    <3>2. j \in [pc : {"idle", "fetch", "upsert", "retire", "record", "forget", "toggle"},
                 list : SUBSET Model, todo : SUBSET Model, on : BOOLEAN] /\ j.pc # "toggle" /\ m \in Model
      BY <1>1, <2>3 DEF SyncJobs, Providers!Upsert
    <3>3. pJob' = [pJob EXCEPT ![w] = j]
      BY <1>1, <3>1 DEF SyncJobs
    <3>4. Providers!RetiredIsOff'
      BY <1>1, <3>1 DEF Providers!RetiredIsOff
    <3> HIDE DEF j
    <3>5. known \subseteq known' /\ known' \subseteq Model /\ retired' \cup enabled' \subseteq known'
      BY <1>4, <3>1, <3>2
    <3>6. QED
      BY <1>4, <3>1, <3>2, <3>3, <3>4, <3>5, JobKeeps
  <2>4. CASE Providers!UpsertsDone(w)
    BY <1>2, <1>4, <2>4 DEF Providers!UpsertsDone
  <2>5. CASE Providers!Retire(w)
    <3> DEFINE j == [pJob[w] EXCEPT !.pc = "record"]
    <3>1. j \in [pc : {"idle", "fetch", "upsert", "retire", "record", "forget", "toggle"},
                 list : SUBSET Model, todo : SUBSET Model, on : BOOLEAN] /\ j.pc # "toggle" /\ pJob' = [pJob EXCEPT ![w] = j]
      BY <1>1, <2>5 DEF SyncJobs, Providers!Goto, Providers!Retire
    <3>2. PICK gone \in SUBSET known : retired' = retired \cup gone /\ enabled' = enabled \ gone
          /\ UNCHANGED <<offered, key, approval, known, kept, changes, acts>>
      BY <2>5 DEF Providers!Retire
    <3>3. Providers!RetiredIsOff'
      BY <1>1, <3>2 DEF Providers!RetiredIsOff
    <3> HIDE DEF j
    <3>4. QED
      BY <1>4, <3>1, <3>2, <3>3, JobKeeps
  <2>6. CASE Providers!Record(w)
    BY <1>3, <1>4, <2>6 DEF Providers!Record
  <2>7. CASE Providers!ForgetKey(w)
    BY <1>3, <1>4, <2>7 DEF Providers!ForgetKey
  <2>8. CASE Providers!SaveToggle(w)
    <3> DEFINE m == pJob[w].todo
    <3>1. m \subseteq known
      BY <1>1, <2>8 DEF Providers!SaveToggle
    <3>2. pJob' = [pJob EXCEPT ![w] = Providers!Idle] /\ UNCHANGED <<offered, key, approval, known, retired, changes, acts>>
          /\ \/ enabled' = enabled \cup m /\ kept' = kept \cup (m \cap retired)
             \/ enabled' = enabled \ m /\ kept' = kept \ m
      BY <2>8 DEF Providers!SaveToggle
    <3> HIDE DEF m
    <3>3. Providers!RetiredIsOff'
      BY <1>1, <3>2 DEF Providers!RetiredIsOff
    <3>4. QED
      BY <1>4, <3>1, <3>2, <3>3, IdleTyped, JobKeeps
  <2>9. QED
    BY <1>6, <2>1, <2>2, <2>3, <2>4, <2>5, <2>6, <2>7, <2>8 DEF Providers!Work
<1>7. ASSUME NEW w \in Worker, Providers!Connect(w) PROVE SyncInv'
  BY <1>2, <1>4, <1>7 DEF Providers!Connect, Providers!Act
<1>8. ASSUME NEW w \in Worker, Providers!TurnAllOff(w) PROVE SyncInv'
  <2> DEFINE j == [pJob[w] EXCEPT !.pc = "forget"]
  <2>1. j \in [pc : {"idle", "fetch", "upsert", "retire", "record", "forget", "toggle"},
               list : SUBSET Model, todo : SUBSET Model, on : BOOLEAN] /\ j.pc # "toggle" /\ pJob' = [pJob EXCEPT ![w] = j]
    BY <1>1, <1>8 DEF SyncJobs, Providers!TurnAllOff, Providers!Goto
  <2>2. enabled' = {} /\ kept' = {} /\ acts' \in 0 .. MaxActs /\ UNCHANGED <<offered, key, approval, known, retired, changes>>
    BY <1>4, <1>8 DEF Providers!TurnAllOff, Providers!Act
  <2>3. Providers!RetiredIsOff'
    BY <2>2 DEF Providers!RetiredIsOff
  <2> HIDE DEF j
  <2>4. QED
    BY <1>4, <2>1, <2>2, <2>3, JobKeeps
<1>9. ASSUME NEW w \in Worker, NEW m \in Model, Providers!LoadToggle(w, m) PROVE SyncInv'
  <2> DEFINE j == [Providers!Idle EXCEPT !.pc = "toggle", !.todo = {m}, !.on = m \notin enabled]
  <2>1. j \in [pc : {"idle", "fetch", "upsert", "retire", "record", "forget", "toggle"},
               list : SUBSET Model, todo : SUBSET Model, on : BOOLEAN] /\ j.todo = {m}
    BY IdleTyped
  <2>2. pJob' = [pJob EXCEPT ![w] = j] /\ m \in known /\ acts' \in 0 .. MaxActs
        /\ UNCHANGED <<offered, key, approval, known, retired, enabled, kept, changes>>
    BY <1>4, <1>9 DEF Providers!LoadToggle, Providers!Act, Providers!rows
  <2> HIDE DEF j
  <2>3. QED
    BY <1>1, <1>4, <2>1, <2>2, JobKeeps DEF Providers!RetiredIsOff
<1>10. CASE Providers!Approve \/ Providers!ProviderChanges
  BY <1>1, <1>4, <1>10 DEF Providers!Approve, Providers!ProviderChanges, SyncInv, Providers!TypeOK,
     Providers!RetiredIsOff, Providers!rows
<1>11. CASE UNCHANGED Providers!vars
  BY <1>1, <1>11 DEF Providers!vars, SyncInv, Providers!TypeOK, Providers!RetiredIsOff
<1>12. QED
  BY <1>5, <1>6, <1>7, <1>8, <1>9, <1>10, <1>11 DEF Providers!Next

LEMMA SyncBegins ==
    ASSUME Providers!Init
    PROVE  SyncInv
<1>1. pJob \in SyncJobs /\ \A w \in Worker : pJob[w] = Providers!Idle
  BY IdleTyped DEF Providers!Init, SyncJobs
<1>2. Providers!TypeOK /\ Providers!RetiredIsOff
  <2>1. offered \subseteq Model /\ key \in BOOLEAN /\ approval \in {"pending", "approved"} /\ known = {} /\ retired = {} /\ enabled = {}
        /\ changes = 0 /\ acts = 0
    BY DEF Providers!Init
  <2>2. changes \in 0 .. MaxChanges /\ acts \in 0 .. MaxActs
    BY <2>1, SyncAssumption DEF Providers!ProviderSyncConstants
  <2>3. QED
    BY <1>1, <2>1, <2>2, IdleTyped DEF Providers!TypeOK, Providers!RetiredIsOff
<1>3. QED
  BY <1>1, <1>2, IdleTyped DEF SyncInv

LEMMA ProvidersAreSafe == Providers!Spec => [](Providers!TypeOK /\ Providers!RetiredIsOff)
<1>1. Providers!Init => SyncInv
  BY SyncBegins
<1>2. SyncInv /\ [Providers!Next]_Providers!vars => SyncInv'
  BY SyncInvStep
<1>3. SyncInv => Providers!TypeOK /\ Providers!RetiredIsOff
  BY DEF SyncInv
<1>4. QED
  BY <1>1, <1>2, <1>3, PTL DEF Providers!Spec

LEMMA OnlyConnecting == ASSUME [Providers!Next]_Providers!vars PROVE [~key /\ key' => approval' = "pending" /\ acts' = acts + 1]_Providers!vars
<1>1. CASE Providers!Next
  BY <1>1 DEF Providers!Next, Providers!StartSync, Providers!Work, Providers!Fetch,
     Providers!FetchFails, Providers!Upsert, Providers!UpsertsDone, Providers!Retire, Providers!Record,
     Providers!ForgetKey, Providers!SaveToggle, Providers!Connect, Providers!Act,
              Providers!TurnAllOff, Providers!LoadToggle, Providers!Approve, Providers!ProviderChanges
<1>2. CASE UNCHANGED Providers!vars
  BY <1>2
<1>3. QED
  BY <1>1, <1>2

LEMMA DisconnectedStays == Providers!Spec => Providers!StaysDisconnected
<1>1. [Providers!Next]_Providers!vars => [~key /\ key' => approval' = "pending" /\ acts' = acts + 1]_Providers!vars
  BY OnlyConnecting
<1>2. QED
  BY <1>1, PTL DEF Providers!Spec, Providers!StaysDisconnected

-------------------------------------------------------------------------------
(* Who has been told already.                                              *)

\* The workers that have decided to warn, and the warnings of s from time t to the end of its window.
Warning == {w \in Worker : chat[w] = "warn"}
Within(s, t) == {j \in DOMAIN s : s[j] \in t .. t + WarningGap}

\* While a warning is recent nobody else decides to warn: who will warn has decided already.
WarningsBounded ==
    /\ Len(warned) + Cardinality(Warning) <= MaxWarnings + Cardinality(Worker)
    /\ ~deleted => \A i \in DOMAIN warned :
         /\ warned[i] \in notes["usage"]
         /\ Cardinality(Within(warned, warned[i])) + (IF nNow <= warned[i] + WarningGap THEN Cardinality(Warning) ELSE 0) <= Cardinality(Worker)

\* Each notice told is one there is; the sweep only tells of an assignment nobody was told of.
ToldKnown ==
    ~deleted =>
        /\ \A k \in Telling!Trial : \A i \in DOMAIN told[k] : \E t \in notes[k] : t >= told[k][i]
        /\ nSweep.pc = "notify" => \A i \in DOMAIN told[nSweep.kind] : told[nSweep.kind][i] # nSweep.row.at

NoticesInv ==
    /\ nNow \in 0 .. LastDay /\ trial \in Telling!Row /\ trial.at <= nNow
    /\ notes \in [Telling!Kind -> SUBSET (0 .. nNow)]
    /\ nSweep \in [pc : {"idle", "check", "notify"}, row : Telling!Row, kind : Telling!Trial] /\ nSweep.row.at <= nNow
    /\ chat \in [Worker -> {"idle", "warn"}]
    /\ faults \in 0 .. MaxFaults /\ deleted \in BOOLEAN
    /\ warned \in Seq(0 .. nNow) /\ told \in [Telling!Trial -> Seq(0 .. nNow)]
    /\ notes["usage"] \subseteq {warned[i] : i \in DOMAIN warned}
    /\ WarningsBounded /\ ToldKnown /\ Telling!ToldOnce

\* The instance has its own copies of the operators on finite sets: they are the same.
LEMMA NoticeSets ==
    /\ \A S : Telling!IsFiniteSet(S) <=> IsFiniteSet(S)
    /\ \A S : Telling!Cardinality(S) = Cardinality(S)
<1>1. ASSUME NEW S PROVE Telling!IsFiniteSet(S) <=> IsFiniteSet(S)
  BY DEF Telling!IsFiniteSet, IsFiniteSet
<1>2. ASSUME NEW S PROVE Telling!Cardinality(S) = Cardinality(S)
  BY DEF Telling!Cardinality, Cardinality
<1>3. QED
  BY <1>1, <1>2

LEMMA NoticeConsts ==
    /\ NoticeDays \in Nat /\ Term \in Nat /\ WarningGap \in Nat /\ LastDay \in Nat /\ MaxWarnings \in Nat /\ MaxFaults \in Nat
    /\ IsFiniteSet(Worker) /\ Cardinality(Worker) \in Nat
BY NoticesAssumption, NoticeSets, FS_CardinalityType DEF Telling!NoticesConstants

LEMMA WarningFinite ==
    /\ IsFiniteSet(Warning) /\ Cardinality(Warning) \in Nat /\ Cardinality(Warning) <= Cardinality(Worker)
<1>1. Warning \in SUBSET Worker
  BY DEF Warning
<1>2. QED
  BY <1>1, NoticeConsts, FS_Subset, FS_CardinalityType

LEMMA WithinFinite ==
    ASSUME NEW n \in Nat, DOMAIN warned = 1 .. n, NEW t
    PROVE  IsFiniteSet(Within(warned, t)) /\ Cardinality(Within(warned, t)) \in Nat
<1>1. Within(warned, t) \in SUBSET (1 .. n) /\ IsFiniteSet(1 .. n)
  BY FS_Interval DEF Within
<1>2. QED
  BY <1>1, FS_Subset, FS_CardinalityType

LEMMA LaterSeq ==
    ASSUME NEW t \in Nat, NEW u \in Nat, t <= u, NEW s \in Seq(0 .. t)
    PROVE  s \in Seq(0 .. u)
<1>1. 0 .. t \subseteq 0 .. u
  BY SMT
<1>2. QED
  BY <1>1, SMT

\* The warnings stay within their bound while nobody warns, and time goes on.
LEMMA WarningsKept ==
    ASSUME NoticesInv, warned' = warned, chat' = chat, nNow' \in Nat, nNow <= nNow',
           ~deleted' => ~deleted /\ notes'["usage"] = notes["usage"]
    PROVE  WarningsBounded'
<1>1. warned \in Seq(0 .. nNow) /\ nNow \in Nat /\ WarningsBounded /\ WarningGap \in Nat
  BY NoticeConsts DEF NoticesInv
<1>2. Warning' = Warning
  BY DEF Warning
<1>3. Len(warned) + Cardinality(Warning) <= MaxWarnings + Cardinality(Worker)
  BY <1>1 DEF WarningsBounded
<1>4. ASSUME ~deleted', NEW i \in DOMAIN warned
      PROVE  /\ warned[i] \in notes'["usage"]
             /\ Cardinality(Within(warned, warned[i])) + (IF nNow' <= warned[i] + WarningGap THEN Cardinality(Warning) ELSE 0) <= Cardinality(Worker)
  <2>1. /\ warned[i] \in notes["usage"]
        /\ Cardinality(Within(warned, warned[i])) + (IF nNow <= warned[i] + WarningGap THEN Cardinality(Warning) ELSE 0) <= Cardinality(Worker)
    BY <1>1, <1>4 DEF WarningsBounded
  <2>2. Cardinality(Within(warned, warned[i])) \in Nat /\ Cardinality(Warning) \in Nat /\ Cardinality(Worker) \in Nat
    <3>1. DOMAIN warned = 1 .. Len(warned) /\ Len(warned) \in Nat
      BY <1>1
    <3>2. QED
      BY <3>1, WithinFinite, WarningFinite, NoticeConsts
  <2>3. warned[i] \in Nat
    BY <1>1
  <2>4. QED
    BY <1>1, <1>4, <2>1, <2>2, <2>3
<1>5. \A i \in DOMAIN warned : Cardinality(Within(warned', warned'[i])) = Cardinality(Within(warned, warned[i]))
  BY DEF Within
<1>6. QED
  BY <1>2, <1>3, <1>4, <1>5 DEF WarningsBounded

LEMMA DecidesToWarn ==
    ASSUME NoticesInv, NEW w \in Worker, Telling!CheckUsage(w)
    PROVE  WarningsBounded'
<1>1. chat[w] = "idle" /\ Telling!NotWarned /\ Len(warned) < MaxWarnings /\ chat' = [chat EXCEPT ![w] = "warn"]
      /\ UNCHANGED <<nNow, notes, warned, deleted>>
  BY DEF Telling!CheckUsage
<1>2. warned \in Seq(0 .. nNow) /\ nNow \in Nat /\ chat \in [Worker -> {"idle", "warn"}] /\ WarningsBounded /\ WarningGap \in Nat
      /\ DOMAIN warned = 1 .. Len(warned) /\ Len(warned) \in Nat
  BY NoticeConsts DEF NoticesInv
<1>3. Warning' = Warning \cup {w} /\ w \notin Warning
  BY <1>1, <1>2 DEF Warning
<1>4. Cardinality(Warning') = Cardinality(Warning) + 1 /\ Cardinality(Warning) + 1 <= Cardinality(Worker)
  <2>1. Cardinality(Warning') = Cardinality(Warning) + 1
    BY <1>3, WarningFinite, FS_AddElement
  <2>2. Warning' \in SUBSET Worker
    BY <1>2, <1>3 DEF Warning
  <2>3. Cardinality(Warning') <= Cardinality(Worker)
    BY <2>2, NoticeConsts, FS_Subset
  <2>4. QED
    BY <2>1, <2>3
<1>5. Len(warned) + Cardinality(Warning') <= MaxWarnings + Cardinality(Worker)
  BY <1>1, <1>2, <1>4, WarningFinite, NoticeConsts
<1>6. ASSUME ~deleted, NEW i \in DOMAIN warned
      PROVE  /\ warned[i] \in notes["usage"]
             /\ Cardinality(Within(warned, warned[i])) + (IF nNow <= warned[i] + WarningGap THEN Cardinality(Warning') ELSE 0) <= Cardinality(Worker)
  <2>1. /\ warned[i] \in notes["usage"]
        /\ Cardinality(Within(warned, warned[i])) + (IF nNow <= warned[i] + WarningGap THEN Cardinality(Warning) ELSE 0) <= Cardinality(Worker)
    BY <1>2, <1>6 DEF WarningsBounded
  <2>2. warned[i] \in Nat
    BY <1>2
  <2>3. ~(nNow <= warned[i] + WarningGap)
    BY <1>1, <1>2, <2>1, <2>2 DEF Telling!NotWarned, Telling!Recently
  <2>4. QED
    BY <2>1, <2>3
<1>7. \A i \in DOMAIN warned : Cardinality(Within(warned', warned'[i])) = Cardinality(Within(warned, warned[i]))
  BY <1>1 DEF Within
<1>8. QED
  BY <1>1, <1>5, <1>6, <1>7 DEF WarningsBounded

LEMMA Warns ==
    ASSUME NoticesInv, NEW w \in Worker, Telling!WarnUsage(w)
    PROVE  WarningsBounded'
<1> PICK n : n = Len(warned)
  OBVIOUS
<1>1. chat[w] = "warn" /\ notes' = [notes EXCEPT !["usage"] = @ \cup {nNow}] /\ warned' = Append(warned, nNow)
      /\ chat' = [chat EXCEPT ![w] = "idle"] /\ UNCHANGED <<nNow, deleted>>
  BY DEF Telling!WarnUsage
<1>2. warned \in Seq(0 .. nNow) /\ nNow \in Nat /\ chat \in [Worker -> {"idle", "warn"}] /\ WarningsBounded /\ WarningGap \in Nat
      /\ DOMAIN warned = 1 .. n /\ n \in Nat /\ notes'["usage"] = notes["usage"] \cup {nNow}
  BY <1>1, NoticeConsts DEF NoticesInv, Telling!Kind
<1>3. DOMAIN warned' = 1 .. n + 1 /\ Len(warned') = n + 1 /\ warned'[n + 1] = nNow /\ \A i \in 1 .. n : warned'[i] = warned[i] /\ warned[i] \in 0 .. nNow
  BY <1>1, <1>2
<1>4. Warning' = Warning \ {w} /\ w \in Warning
  BY <1>1, <1>2 DEF Warning
<1>5. Cardinality(Warning') = Cardinality(Warning) - 1 /\ Cardinality(Warning) \in Nat /\ Cardinality(Warning) <= Cardinality(Worker)
      /\ Cardinality(Worker) \in Nat /\ MaxWarnings \in Nat
  BY <1>4, WarningFinite, FS_RemoveElement, NoticeConsts
<1>6. Len(warned') + Cardinality(Warning') <= MaxWarnings + Cardinality(Worker)
  BY <1>2, <1>3, <1>5 DEF WarningsBounded
<1>7. ASSUME NEW t \in 0 .. nNow PROVE Within(warned', t) = IF nNow <= t + WarningGap THEN Within(warned, t) \cup {n + 1} ELSE Within(warned, t)
  <2>1. Within(warned', t) = {j \in 1 .. n + 1 : warned'[j] \in t .. t + WarningGap} /\ Within(warned, t) = {j \in 1 .. n : warned[j] \in t .. t + WarningGap}
    BY <1>2, <1>3 DEF Within
  <2>2. n + 1 \in Within(warned', t) <=> nNow <= t + WarningGap
    BY <1>2, <1>3, <2>1
  <2>3. \A j \in 1 .. n : j \in Within(warned', t) <=> j \in Within(warned, t)
    BY <1>2, <1>3, <2>1
  <2>4. QED
    BY <1>2, <2>1, <2>2, <2>3
<1>8. ASSUME NEW t \in 0 .. nNow
      PROVE  /\ IsFiniteSet(Within(warned, t)) /\ Cardinality(Within(warned, t)) \in Nat
             /\ Cardinality(Within(warned', t)) = IF nNow <= t + WarningGap THEN Cardinality(Within(warned, t)) + 1 ELSE Cardinality(Within(warned, t))
  <2>1. IsFiniteSet(Within(warned, t)) /\ Cardinality(Within(warned, t)) \in Nat
    BY <1>2, WithinFinite
  <2>2. n + 1 \notin Within(warned, t)
    BY <1>2 DEF Within
  <2>3. QED
    BY <1>7, <2>1, <2>2, FS_AddElement
<1>9. ASSUME ~deleted, NEW i \in 1 .. n
      PROVE  Cardinality(Within(warned', warned[i])) + (IF nNow <= warned[i] + WarningGap THEN Cardinality(Warning') ELSE 0) <= Cardinality(Worker)
  <2>1. Cardinality(Within(warned, warned[i])) + (IF nNow <= warned[i] + WarningGap THEN Cardinality(Warning) ELSE 0) <= Cardinality(Worker)
    BY <1>2, <1>9 DEF WarningsBounded
  <2>2. warned[i] \in 0 .. nNow /\ warned[i] + WarningGap \in Nat
    BY <1>2, <1>3
  <2>3. /\ Cardinality(Within(warned, warned[i])) \in Nat
        /\ Cardinality(Within(warned', warned[i])) =
             IF nNow <= warned[i] + WarningGap THEN Cardinality(Within(warned, warned[i])) + 1 ELSE Cardinality(Within(warned, warned[i]))
    BY <1>8, <2>2
  <2>4. QED
    BY <1>5, <2>1, <2>3
<1>10. ASSUME ~deleted
       PROVE  Cardinality(Within(warned', nNow)) + Cardinality(Warning') <= Cardinality(Worker)
  <2>1. CASE \E i \in 1 .. n : warned[i] = nNow
    BY <1>2, <1>9, <1>10, <2>1
  <2>2. CASE ~\E i \in 1 .. n : warned[i] = nNow
    <3>1. Within(warned, nNow) = {}
      BY <1>2, <1>3, <2>2 DEF Within
    <3>2. Cardinality(Within(warned, nNow)) = 0
      BY <3>1, FS_EmptySet
    <3>3. QED
      BY <1>2, <1>5, <1>8, <3>2
  <2>3. QED
    BY <2>1, <2>2
<1>11. ASSUME ~deleted, NEW i \in DOMAIN warned'
       PROVE  /\ warned'[i] \in notes'["usage"]
              /\ Cardinality(Within(warned', warned'[i])) + (IF nNow <= warned'[i] + WarningGap THEN Cardinality(Warning') ELSE 0) <= Cardinality(Worker)
  <2>1. CASE i \in 1 .. n
    <3>1. warned'[i] = warned[i] /\ warned[i] \in notes["usage"]
      BY <1>2, <1>3, <1>11, <2>1 DEF WarningsBounded
    <3>2. QED
      BY <1>2, <1>9, <1>11, <2>1, <3>1
  <2>2. CASE i = n + 1
    BY <1>2, <1>3, <1>10, <1>11, <2>2
  <2>3. QED
    BY <1>3, <1>11, <2>1, <2>2
<1>12. QED
  BY <1>1, <1>6, <1>11 DEF WarningsBounded

\* The typing, where the trial's sweep has nothing to say of the warnings and vice versa.
LEMMA TrialKept ==
    ASSUME NoticesInv, UNCHANGED <<trial, nSweep, told>>, ~deleted' => ~deleted,
           ~deleted' => \A k \in Telling!Trial : notes[k] \subseteq notes'[k]
    PROVE  ToldKnown' /\ Telling!ToldOnce'
BY DEF NoticesInv, ToldKnown, Telling!ToldOnce

LEMMA UsageSteps ==
    ASSUME NoticesInv, NEW w \in Worker, Telling!CheckUsage(w) \/ Telling!WarnUsage(w)
    PROVE  NoticesInv'
<1>1. CASE Telling!CheckUsage(w)
  <2>1. chat' = [chat EXCEPT ![w] = "warn"] /\ UNCHANGED <<nNow, trial, notes, nSweep, faults, warned, told, deleted>>
    BY <1>1 DEF Telling!CheckUsage
  <2>2. WarningsBounded' /\ ToldKnown' /\ Telling!ToldOnce'
    BY <1>1, <2>1, DecidesToWarn, TrialKept
  <2>3. QED
    BY <2>1, <2>2 DEF NoticesInv
<1>2. CASE Telling!WarnUsage(w)
  <2>1. notes' = [notes EXCEPT !["usage"] = @ \cup {nNow}] /\ warned' = Append(warned, nNow)
        /\ chat' = [chat EXCEPT ![w] = "idle"] /\ UNCHANGED <<nNow, trial, nSweep, faults, told, deleted>>
    BY <1>2 DEF Telling!WarnUsage
  <2>2. nNow \in Nat /\ notes \in [Telling!Kind -> SUBSET (0 .. nNow)] /\ warned \in Seq(0 .. nNow) /\ nNow \in 0 .. nNow
        /\ notes["usage"] \subseteq {warned[i] : i \in DOMAIN warned}
    BY NoticeConsts DEF NoticesInv
  <2>3. notes' \in [Telling!Kind -> SUBSET (0 .. nNow)] /\ notes'["usage"] = notes["usage"] \cup {nNow}
        /\ \A k \in Telling!Trial : notes'[k] = notes[k]
    BY <2>1, <2>2 DEF Telling!Kind, Telling!Trial
  <2>4. WarningsBounded' /\ ToldKnown' /\ Telling!ToldOnce'
    BY <1>2, <2>1, <2>3, Warns, TrialKept
  <2>5. warned' \in Seq(0 .. nNow) /\ notes'["usage"] \subseteq {warned'[i] : i \in DOMAIN warned'}
    <3>1. warned' \in Seq(0 .. nNow)
      BY <2>1, <2>2
    <3>2. DOMAIN warned = 1 .. Len(warned) /\ DOMAIN warned' = 1 .. Len(warned) + 1 /\ Len(warned) \in Nat
          /\ warned'[Len(warned) + 1] = nNow /\ \A i \in 1 .. Len(warned) : warned'[i] = warned[i]
      BY <2>1, <2>2
    <3>3. QED
      BY <2>2, <2>3, <3>1, <3>2
  <2>6. QED
    BY <2>1, <2>3, <2>4, <2>5 DEF NoticesInv
<1>3. QED
  BY <1>1, <1>2

LEMMA SweepTyped ==
    ASSUME NoticesInv
    PROVE  /\ Telling!Idle(trial) \in [pc : {"idle", "check", "notify"}, row : Telling!Row, kind : Telling!Trial]
           /\ Telling!Idle(trial).pc = "idle" /\ Telling!Idle(trial).row = trial
BY DEF NoticesInv, Telling!Idle, Telling!Trial

\* A step of the sweep that tells nobody.
LEMMA SweepMoves ==
    ASSUME NoticesInv, UNCHANGED <<nNow, trial, notes, chat, warned, told, deleted>>, faults' \in 0 .. MaxFaults,
           nSweep' \in [pc : {"idle", "check", "notify"}, row : Telling!Row, kind : Telling!Trial], nSweep'.row.at <= nNow,
           nSweep'.pc = "notify" /\ ~deleted => \A i \in DOMAIN told[nSweep'.kind] : told[nSweep'.kind][i] # nSweep'.row.at
    PROVE  NoticesInv'
<1>1. WarningsBounded'
  BY WarningsKept, NoticeConsts DEF NoticesInv
<1>2. ToldKnown' /\ Telling!ToldOnce'
  BY DEF NoticesInv, ToldKnown, Telling!ToldOnce
<1>3. QED
  BY <1>1, <1>2 DEF NoticesInv

LEMMA SweepSteps ==
    ASSUME NoticesInv, Telling!StartSweep \/ Telling!CheckTrial \/ Telling!SweepFails
    PROVE  NoticesInv'
<1>1. nSweep \in [pc : {"idle", "check", "notify"}, row : Telling!Row, kind : Telling!Trial] /\ trial.at <= nNow /\ faults \in 0 .. MaxFaults
      /\ MaxFaults \in Nat /\ nSweep.row.at <= nNow /\ trial \in Telling!Row /\ ToldKnown
  BY NoticeConsts DEF NoticesInv
<1>2. CASE Telling!StartSweep
  <2>1. nSweep' = [Telling!Idle(trial) EXCEPT !.pc = "check"] /\ UNCHANGED <<nNow, trial, notes, chat, faults, warned, told, deleted>>
    BY <1>2 DEF Telling!StartSweep
  <2>2. nSweep' \in [pc : {"idle", "check", "notify"}, row : Telling!Row, kind : Telling!Trial] /\ nSweep'.pc = "check" /\ nSweep'.row = trial
    BY <2>1, SweepTyped
  <2>3. QED
    BY <1>1, <2>1, <2>2, SweepMoves
<1>3. CASE Telling!CheckTrial
  <2>1. UNCHANGED <<nNow, trial, notes, chat, faults, warned, told, deleted>>
    BY <1>3 DEF Telling!CheckTrial
  <2>2. CASE nSweep' = Telling!Idle(trial)
    BY <1>1, <2>1, <2>2, SweepTyped, SweepMoves
  <2>3. CASE nSweep' # Telling!Idle(trial)
    <3>1. PICK k \in Telling!Due(nSweep.row) : ~Telling!Recently(k, Telling!Since(nSweep.row)) /\ nSweep' = [nSweep EXCEPT !.pc = "notify", !.kind = k]
      BY <1>3, <2>3 DEF Telling!CheckTrial
    <3>2. k \in Telling!Trial
      BY DEF Telling!Due, Telling!Trial
    <3>3. nSweep' \in [pc : {"idle", "check", "notify"}, row : Telling!Row, kind : Telling!Trial] /\ nSweep'.kind = k /\ nSweep'.row = nSweep.row
      BY <1>1, <3>1, <3>2
    <3>4. ASSUME ~deleted, NEW i \in DOMAIN told[k] PROVE told[k][i] # nSweep.row.at
      <4>1. PICK t \in notes[k] : t >= told[k][i]
        BY <1>1, <3>2, <3>4 DEF ToldKnown
      <4>2. QED
        BY <3>1, <4>1 DEF Telling!Recently, Telling!Since
    <3>5. QED
      BY <1>1, <2>1, <3>3, <3>4, SweepMoves
  <2>4. QED
    BY <2>2, <2>3
<1>4. CASE Telling!SweepFails
  <2>1. nSweep' = Telling!Idle(trial) /\ faults' \in 0 .. MaxFaults /\ UNCHANGED <<nNow, trial, notes, chat, warned, told, deleted>>
    BY <1>1, <1>4 DEF Telling!SweepFails
  <2>2. QED
    BY <1>1, <2>1, SweepTyped, SweepMoves
<1>5. QED
  BY <1>2, <1>3, <1>4

LEMMA TrialTells ==
    ASSUME NoticesInv, Telling!NotifyTrial
    PROVE  NoticesInv'
<1> PICK k : k = nSweep.kind
  OBVIOUS
<1>1. nSweep.pc = "notify" /\ notes' = [notes EXCEPT ![k] = @ \cup {nNow}] /\ told' = [told EXCEPT ![k] = Append(@, nSweep.row.at)]
      /\ nSweep' = Telling!Idle(trial) /\ UNCHANGED <<nNow, trial, chat, faults, warned, deleted>>
  BY DEF Telling!NotifyTrial
<1>2. k \in Telling!Trial /\ nSweep.row.at \in 0 .. nNow /\ nNow \in Nat /\ notes \in [Telling!Kind -> SUBSET (0 .. nNow)] /\ told \in [Telling!Trial -> Seq(0 .. nNow)]
      /\ ToldKnown /\ Telling!ToldOnce
  BY NoticeConsts DEF NoticesInv, Telling!Row
<1>3. notes' \in [Telling!Kind -> SUBSET (0 .. nNow)] /\ notes'["usage"] = notes["usage"] /\ notes'[k] = notes[k] \cup {nNow}
      /\ \A j \in Telling!Trial \ {k} : notes'[j] = notes[j]
  BY <1>1, <1>2 DEF Telling!Kind, Telling!Trial
<1>4. told' \in [Telling!Trial -> Seq(0 .. nNow)] /\ told'[k] = Append(told[k], nSweep.row.at) /\ \A j \in Telling!Trial \ {k} : told'[j] = told[j]
  BY <1>1, <1>2
<1>5. told[k] \in Seq(0 .. nNow) /\ DOMAIN told[k] = 1 .. Len(told[k]) /\ DOMAIN told'[k] = 1 .. Len(told[k]) + 1 /\ Len(told[k]) \in Nat
      /\ told'[k][Len(told[k]) + 1] = nSweep.row.at /\ \A i \in 1 .. Len(told[k]) : told'[k][i] = told[k][i]
  BY <1>2, <1>4
<1>6. WarningsBounded'
  BY <1>1, <1>2, <1>3, WarningsKept
<1>7. ToldKnown'
  <2> SUFFICES ASSUME ~deleted, NEW j \in Telling!Trial, NEW i \in DOMAIN told'[j] PROVE \E t \in notes'[j] : t >= told'[j][i]
    BY <1>1, SweepTyped DEF ToldKnown
  <2>1. CASE j = k /\ i = Len(told[k]) + 1
    BY <1>2, <1>3, <1>5, <2>1
  <2>2. CASE ~(j = k /\ i = Len(told[k]) + 1)
    <3>1. i \in DOMAIN told[j] /\ told'[j][i] = told[j][i]
      <4>1. CASE j # k
        BY <1>4, <4>1
      <4>2. CASE j = k
        <5>1. i \in 1 .. Len(told[k])
          BY <1>5, <2>2, <4>2
        <5>2. QED
          BY <1>5, <4>2, <5>1
      <4>3. QED
        BY <4>1, <4>2
    <3>2. PICK t \in notes[j] : t >= told[j][i]
      BY <1>2, <3>1 DEF ToldKnown
    <3>3. QED
      BY <1>3, <3>1, <3>2
  <2>3. QED
    BY <2>1, <2>2
<1>8. Telling!ToldOnce'
  <2> SUFFICES ASSUME ~deleted, NEW j \in Telling!Trial, NEW h \in DOMAIN told'[j], NEW i \in DOMAIN told'[j], told'[j][h] = told'[j][i] PROVE h = i
    BY <1>1 DEF Telling!ToldOnce
  <2>1. CASE j # k
    BY <1>2, <1>4, <2>1 DEF Telling!ToldOnce
  <2>2. CASE j = k
    <3>1. \A m \in 1 .. Len(told[k]) : told[k][m] # nSweep.row.at
      BY <1>1, <1>2, <1>5 DEF ToldKnown
    <3>2. CASE h \in 1 .. Len(told[k]) /\ i \in 1 .. Len(told[k])
      <4>1. h \in DOMAIN told[k] /\ i \in DOMAIN told[k] /\ told[k][h] = told[k][i]
        BY <1>5, <2>2, <3>2
      <4>2. QED
        BY <1>2, <4>1 DEF Telling!ToldOnce
    <3>3. QED
      BY <1>5, <2>2, <3>1, <3>2
  <2>3. QED
    BY <2>1, <2>2
<1>9. nSweep' \in [pc : {"idle", "check", "notify"}, row : Telling!Row, kind : Telling!Trial] /\ nSweep'.row.at <= nNow
  BY <1>1, SweepTyped DEF NoticesInv
<1>10. notes'["usage"] \subseteq {warned'[i] : i \in DOMAIN warned'}
  <2>1. \A t \in notes["usage"] : \E i \in DOMAIN warned : t = warned[i]
    BY DEF NoticesInv
  <2>2. notes'["usage"] = notes["usage"] /\ warned' = warned
    BY <1>1, <1>3
  <2>3. QED
    BY <2>1, <2>2
<1>11. QED
  BY <1>1, <1>3, <1>4, <1>6, <1>7, <1>8, <1>9, <1>10 DEF NoticesInv

LEMMA TimePasses ==
    ASSUME NoticesInv, Telling!Assign \/ Telling!Tick
    PROVE  NoticesInv'
<1>1. nNow \in 0 .. LastDay /\ nNow < LastDay /\ nNow' = nNow + 1 /\ UNCHANGED <<notes, nSweep, chat, faults, warned, told, deleted>>
      /\ LastDay \in Nat /\ Term \in Nat
  BY NoticeConsts DEF NoticesInv, Telling!Assign, Telling!Tick
<1>2. nNow' \in 0 .. LastDay /\ nNow \in Nat /\ nNow' \in Nat /\ nNow <= nNow'
  BY <1>1
<1>3. trial' \in Telling!Row /\ trial'.at <= nNow'
  <2>1. CASE Telling!Tick
    BY <1>1, <2>1 DEF Telling!Tick, NoticesInv, Telling!Row
  <2>2. CASE Telling!Assign
    <3>1. PICK demo \in BOOLEAN : trial' = [at |-> nNow + 1, expires |-> nNow + 1 + Term, demo |-> demo]
      BY <2>2 DEF Telling!Assign
    <3>2. nNow + 1 \in 0 .. LastDay /\ nNow + 1 + Term \in 0 .. LastDay + Term
      BY <1>1
    <3>3. QED
      BY <1>1, <3>1, <3>2 DEF Telling!Row
  <2>3. QED
    BY <2>1, <2>2
<1>4. warned' \in Seq(0 .. nNow') /\ told' \in [Telling!Trial -> Seq(0 .. nNow')] /\ notes' \in [Telling!Kind -> SUBSET (0 .. nNow')]
  <2>1. warned' \in Seq(0 .. nNow') /\ \A k \in Telling!Trial : told'[k] \in Seq(0 .. nNow')
    BY <1>1, <1>2, LaterSeq DEF NoticesInv
  <2>2. 0 .. nNow \subseteq 0 .. nNow'
    BY <1>2
  <2>3. QED
    BY <1>1, <2>1, <2>2 DEF NoticesInv
<1>5. WarningsBounded'
  BY <1>1, <1>2, WarningsKept
<1>6. ToldKnown' /\ Telling!ToldOnce'
  BY <1>1 DEF NoticesInv, ToldKnown, Telling!ToldOnce
<1>7. nSweep'.row.at <= nNow'
  BY <1>1, <1>2 DEF NoticesInv, Telling!Row
<1>8. QED
  BY <1>1, <1>2, <1>3, <1>4, <1>5, <1>6, <1>7 DEF NoticesInv

LEMMA Deletes ==
    ASSUME NoticesInv, Telling!DeleteNotes
    PROVE  NoticesInv'
<1>1. deleted' = TRUE /\ UNCHANGED <<nNow, trial, nSweep, chat, faults, warned, told>>
  BY DEF Telling!DeleteNotes
<1>2. PICK k \in Telling!Kind : notes' = [notes EXCEPT ![k] = {}]
  BY DEF Telling!DeleteNotes
<1>3. notes' \in [Telling!Kind -> SUBSET (0 .. nNow)] /\ notes'["usage"] \subseteq notes["usage"]
  BY <1>2 DEF NoticesInv, Telling!Kind
<1>4. WarningsBounded'
  BY <1>1, WarningsKept, NoticeConsts DEF NoticesInv
<1>5. ToldKnown' /\ Telling!ToldOnce'
  BY <1>1 DEF ToldKnown, Telling!ToldOnce
<1>6. QED
  BY <1>1, <1>3, <1>4, <1>5 DEF NoticesInv

LEMMA NoticesBegin ==
    ASSUME Telling!Init
    PROVE  NoticesInv
<1>1. nNow = 0 /\ trial = [at |-> 0, expires |-> Term, demo |-> TRUE] /\ notes = [k \in Telling!Kind |-> {}] /\ nSweep = Telling!Idle(trial)
      /\ chat = [w \in Worker |-> "idle"] /\ faults = 0 /\ warned = <<>> /\ told = [k \in Telling!Trial |-> <<>>] /\ deleted = FALSE
  BY DEF Telling!Init
<1>2. trial \in Telling!Row /\ trial.at = 0
  <2>1. 0 \in 0 .. LastDay /\ Term \in 0 .. LastDay + Term
    BY NoticeConsts
  <2>2. QED
    BY <1>1, <2>1 DEF Telling!Row
<1>3. nSweep \in [pc : {"idle", "check", "notify"}, row : Telling!Row, kind : Telling!Trial] /\ nSweep.pc = "idle" /\ nSweep.row = trial
  BY <1>1, <1>2 DEF Telling!Idle, Telling!Trial
<1>4. WarningsBounded
  <2>1. Warning = {} /\ Len(warned) = 0 /\ DOMAIN warned = {}
    BY <1>1 DEF Warning
  <2>2. Cardinality(Warning) = 0
    BY <2>1, FS_EmptySet
  <2>3. QED
    BY <2>1, <2>2, NoticeConsts DEF WarningsBounded
<1>5. ToldKnown /\ Telling!ToldOnce
  BY <1>1, <1>3 DEF ToldKnown, Telling!ToldOnce
<1>6. nNow \in 0 .. LastDay /\ faults \in 0 .. MaxFaults /\ warned \in Seq(0 .. nNow) /\ told \in [Telling!Trial -> Seq(0 .. nNow)]
      /\ notes \in [Telling!Kind -> SUBSET (0 .. nNow)] /\ notes["usage"] = {}
  BY <1>1, NoticeConsts DEF Telling!Kind
<1>7. chat \in [Worker -> {"idle", "warn"}] /\ trial.at <= nNow /\ nSweep.row.at <= nNow /\ deleted \in BOOLEAN
  <2>1. chat \in [Worker -> {"idle", "warn"}] /\ deleted \in BOOLEAN
    BY <1>1
  <2>2. trial.at <= nNow /\ nSweep.row.at <= nNow
    BY <1>1, <1>2, <1>3
  <2>3. QED
    BY <2>1, <2>2
<1>8. QED
  BY <1>2, <1>3, <1>4, <1>5, <1>6, <1>7 DEF NoticesInv

LEMMA NoticesInvStep ==
    ASSUME NoticesInv, [Telling!Next]_Telling!vars
    PROVE  NoticesInv'
<1>1. CASE Telling!Next
  BY <1>1, UsageSteps, SweepSteps, TrialTells, TimePasses, Deletes DEF Telling!Next
<1>2. CASE UNCHANGED Telling!vars
  <2>1. WarningsBounded'
    BY <1>2, WarningsKept, NoticeConsts DEF NoticesInv, Telling!vars
  <2>2. QED
    BY <1>2, <2>1 DEF Telling!vars, NoticesInv, ToldKnown, Telling!ToldOnce
<1>3. QED
  BY <1>1, <1>2

LEMMA NoticesInvSafe ==
    ASSUME NoticesInv
    PROVE  Telling!TypeOK /\ Telling!WarnedSparingly /\ Telling!ToldOnce
<1>1. WarningsBounded /\ Telling!ToldOnce /\ warned \in Seq(0 .. nNow) /\ nNow \in Nat
  BY NoticeConsts DEF NoticesInv
<1>2. DOMAIN warned = 1 .. Len(warned) /\ Len(warned) \in Nat
  BY <1>1
<1>3. Telling!TypeOK
  <2>1. Len(warned) <= MaxWarnings + Cardinality(Worker)
    BY <1>1, <1>2, WarningFinite, NoticeConsts DEF WarningsBounded
  <2>2. \A k \in Telling!Trial : \A i \in DOMAIN told[k] : told[k][i] \in 0 .. nNow
    BY DEF NoticesInv
  <2>3. QED
    BY <2>1, <2>2, NoticeSets DEF NoticesInv, Telling!TypeOK
<1>4. Telling!WarnedSparingly
  <2> SUFFICES ASSUME ~deleted, NEW i \in DOMAIN warned PROVE Cardinality(Within(warned, warned[i])) <= Cardinality(Worker)
    BY NoticeSets DEF Telling!WarnedSparingly, Within
  <2>1. Cardinality(Within(warned, warned[i])) \in Nat /\ Cardinality(Warning) \in Nat
    BY <1>2, WithinFinite, WarningFinite
  <2>2. QED
    BY <1>1, <2>1, NoticeConsts DEF WarningsBounded
<1>5. QED
  BY <1>1, <1>3, <1>4

LEMMA NobodyIsToldTwice == Telling!Spec => [](Telling!TypeOK /\ Telling!WarnedSparingly /\ Telling!ToldOnce)
<1>1. Telling!Init => NoticesInv
  BY NoticesBegin
<1>2. NoticesInv /\ [Telling!Next]_Telling!vars => NoticesInv'
  BY NoticesInvStep
<1>3. NoticesInv => Telling!TypeOK /\ Telling!WarnedSparingly /\ Telling!ToldOnce
  BY NoticesInvSafe
<1>4. QED
  BY <1>1, <1>2, <1>3, PTL DEF Telling!Spec

-------------------------------------------------------------------------------
(* The e-mail of one notification.                                         *)

\* Each attempt has its row before it is sent, and one that broke after it was accepted
\* is counted: so many mails were accepted as attempts broke, and the one under way.
Attempts ==
    /\ mTask \in [pc : {"none", "queued", "render", "connect", "send", "refused", "accepted", "mark", "done"},
                 tries : 0 .. MaxRetries, read : BOOLEAN]
    /\ logged \in Nat /\ accepted \in Nat /\ broken \in Nat
    /\ logged <= mTask.tries + (IF mTask.pc \in {"none", "queued", "render", "connect"} THEN 0 ELSE 1)
    /\ accepted <= logged - (IF mTask.pc = "send" THEN 1 ELSE 0)
    /\ mTask.pc \in {"accepted", "mark"} => accepted = broken + 1
    /\ mTask.pc \notin {"accepted", "mark", "done"} => accepted = broken
    /\ mTask.pc = "done" => accepted \in {broken, broken + 1}

MailInv == Mailing!TypeOK /\ Attempts /\ (note.mailed \/ log = "sent" => accepted > 0)

LEMMA MailBegins == ASSUME Mailing!Init PROVE MailInv
BY MailsAssumption DEF Mailing!Init, MailInv, Mailing!TypeOK, Attempts, Mailing!MailsConstants

LEMMA MailInvStep ==
    ASSUME MailInv, [Mailing!Next]_Mailing!vars
    PROVE  MailInv'
<1>1. Mailing!TypeOK /\ Attempts /\ (note.mailed \/ log = "sent" => accepted > 0) /\ MaxRetries \in Nat /\ MaxClicks \in Nat
  BY MailsAssumption DEF MailInv, Mailing!MailsConstants
<1>2. CASE Mailing!Load
  <2>1. mTask.pc = "queued" /\ mTask' = [mTask EXCEPT !.pc = IF note.there THEN "render" ELSE "done", !.read = note.read]
        /\ UNCHANGED <<note, log, clicks, logged, accepted, broken>> /\ note.read \in BOOLEAN
    BY <1>1, <1>2 DEF Mailing!Load, Mailing!TypeOK
  <2>2. mTask'.pc \in {"render", "done"} /\ mTask'.tries = mTask.tries /\ mTask'.read \in BOOLEAN
        /\ mTask' \in [pc : {"none", "queued", "render", "connect", "send", "refused", "accepted", "mark", "done"},
                     tries : 0 .. MaxRetries, read : BOOLEAN]
    BY <1>1, <2>1 DEF Attempts
  <2>3. QED
    BY <1>1, <2>1, <2>2 DEF MailInv, Mailing!TypeOK, Attempts
<1>3. CASE Mailing!Render \/ Mailing!Accept \/ Mailing!Refuse
  BY <1>1, <1>3 DEF Mailing!Render, Mailing!Accept, Mailing!Refuse, Mailing!To, MailInv,
     Mailing!TypeOK, Attempts
<1>4. CASE Mailing!LogAttempt
  BY <1>1, <1>4 DEF Mailing!LogAttempt, Mailing!To, MailInv, Mailing!TypeOK, Attempts
<1>5. CASE Mailing!LogAccepted \/ Mailing!LogRefused
  BY <1>1, <1>5 DEF Mailing!LogAccepted, Mailing!LogRefused, Mailing!To, MailInv, Mailing!TypeOK,
     Attempts
<1>6. CASE Mailing!MarkMailed
  <2>1. mTask.pc = "mark" /\ mTask' = [mTask EXCEPT !.pc = "done"] /\ note' = [note EXCEPT !.mailed = TRUE]
        /\ UNCHANGED <<log, clicks, logged, accepted, broken>>
    BY <1>6 DEF Mailing!MarkMailed, Mailing!To
  <2>2. note' \in [there : BOOLEAN, read : BOOLEAN, mailed : BOOLEAN]
    BY <1>1, <2>1 DEF Mailing!TypeOK
  <2>3. QED
    BY <1>1, <2>1, <2>2 DEF MailInv, Mailing!TypeOK, Attempts
<1>7. CASE Mailing!Retry
  <2> DEFINE Tasks == [pc : {"none", "queued", "render", "connect", "send", "refused", "accepted", "mark", "done"},
                       tries : 0 .. MaxRetries, read : BOOLEAN]
  <2>1. /\ mTask.pc \in {"queued", "render", "connect", "refused", "accepted", "mark"}
        /\ mTask' = IF mTask.tries = MaxRetries THEN [mTask EXCEPT !.pc = "done"] ELSE [mTask EXCEPT !.pc = "queued", !.tries = @ + 1]
        /\ broken' = IF mTask.pc \in {"accepted", "mark"} THEN broken + 1 ELSE broken
        /\ log' = "none" /\ UNCHANGED <<note, clicks, logged, accepted>>
    BY <1>7 DEF Mailing!Retry, Mailing!Working, Mailing!Broken
  <2>2. accepted = broken' /\ broken' \in Nat
    BY <1>1, <2>1 DEF Attempts
  <2>3. CASE mTask.tries = MaxRetries
    <3>1. mTask' \in Tasks /\ mTask'.pc = "done" /\ mTask'.tries = MaxRetries
      BY <1>1, <2>1, <2>3 DEF Attempts
    <3>2. logged <= MaxRetries + 1 /\ accepted <= logged
      BY <1>1, <2>1, <2>3 DEF Attempts
    <3>3. QED
      BY <1>1, <2>1, <2>2, <3>1, <3>2 DEF MailInv, Mailing!TypeOK, Attempts
  <2>4. CASE mTask.tries # MaxRetries
    <3>1. mTask \in Tasks /\ mTask.tries + 1 \in 0 .. MaxRetries
      BY <1>1, <2>4 DEF Attempts
    <3>2. mTask' \in Tasks /\ mTask'.pc = "queued" /\ mTask'.tries = mTask.tries + 1
      BY <2>1, <2>4, <3>1
    <3>3. logged <= mTask.tries + 1 /\ accepted <= logged /\ logged \in Nat /\ accepted \in Nat
      BY <1>1, <2>1 DEF Attempts
    <3>4. Attempts'
      BY <2>1, <2>2, <3>1, <3>2, <3>3 DEF Attempts
    <3>5. Mailing!TypeOK'
      BY <1>1, <2>1, <2>2, <3>1, <3>2, <3>3 DEF Mailing!TypeOK
    <3>6. QED
      BY <1>1, <2>1, <3>4, <3>5 DEF MailInv
  <2>5. QED
    BY <2>3, <2>4
<1>8. CASE Mailing!Lose
  BY <1>1, <1>8 DEF Mailing!Lose, Mailing!Working, Mailing!Broken, Mailing!To, MailInv, Mailing!TypeOK,
     Attempts
<1>9. CASE Mailing!Toggle \/ Mailing!DeleteNote
  <2>1. note' \in [there : BOOLEAN, read : BOOLEAN, mailed : BOOLEAN] /\ note'.mailed = note.mailed
    BY <1>1, <1>9 DEF Mailing!Toggle, Mailing!DeleteNote, Mailing!TypeOK
  <2>2. clicks' \in 0 .. MaxClicks /\ UNCHANGED <<mTask, log, logged, accepted, broken>>
    BY <1>1, <1>9 DEF Mailing!Toggle, Mailing!DeleteNote, Mailing!Click, Mailing!TypeOK
  <2>3. QED
    BY <1>1, <2>1, <2>2 DEF MailInv, Mailing!TypeOK, Attempts
<1>10. CASE Mailing!DeleteLogs
  BY <1>1, <1>10 DEF Mailing!DeleteLogs, MailInv, Mailing!TypeOK, Attempts
<1>11. CASE UNCHANGED Mailing!vars
  BY <1>1, <1>11 DEF Mailing!vars, MailInv, Mailing!TypeOK, Attempts
<1>12. QED
  BY <1>2, <1>3, <1>4, <1>5, <1>6, <1>7, <1>8, <1>9, <1>10, <1>11 DEF Mailing!Next

LEMMA MailsAreSafe == Mailing!Spec => [](Mailing!TypeOK /\ Mailing!SentMeansAccepted)
<1>1. Mailing!Init => MailInv
  BY MailBegins
<1>2. MailInv /\ [Mailing!Next]_Mailing!vars => MailInv'
  BY MailInvStep
<1>3. MailInv => Mailing!TypeOK /\ Mailing!SentMeansAccepted
  BY DEF MailInv, Attempts, Mailing!SentMeansAccepted
<1>4. QED
  BY <1>1, <1>2, <1>3, PTL DEF Mailing!Spec

LEMMA OnlyClicksRead == ASSUME MailInv, [Mailing!Next]_Mailing!vars PROVE [note'.read # note.read => clicks' = clicks + 1]_Mailing!vars
<1>1. CASE Mailing!Next
  BY <1>1 DEF MailInv, Mailing!TypeOK, Mailing!Next, Mailing!Load, Mailing!Render, Mailing!LogAttempt,
     Mailing!Accept, Mailing!Refuse, Mailing!LogAccepted, Mailing!LogRefused, Mailing!MarkMailed,
     Mailing!Retry, Mailing!Lose, Mailing!Toggle,
              Mailing!DeleteNote, Mailing!DeleteLogs, Mailing!Click
<1>2. CASE UNCHANGED Mailing!vars
  BY <1>2
<1>3. QED
  BY <1>1, <1>2

LEMMA ReadByClick == Mailing!Spec => Mailing!ReadIsTheUsers
<1>1. Mailing!Init => MailInv
  BY MailBegins
<1>2. MailInv /\ [Mailing!Next]_Mailing!vars => MailInv'
  BY MailInvStep
<1>3. MailInv /\ [Mailing!Next]_Mailing!vars => [note'.read # note.read => clicks' = clicks + 1]_Mailing!vars
  BY OnlyClicksRead
<1>4. QED
  BY <1>1, <1>2, <1>3, PTL DEF Mailing!Spec, Mailing!ReadIsTheUsers

-------------------------------------------------------------------------------
(* What is proved of them.                                                 *)

LEMMA WindowsKeepInv == Windows!Spec => []WindowInv
<1>1. Windows!Init => WindowInv
  BY WindowsBegin
<1>2. WindowInv /\ [Windows!Next]_Windows!vars => WindowInv'
  BY WindowInvStep
<1>3. QED
  BY <1>1, <1>2, PTL DEF Windows!Spec

\* A state of the maintenance windows that no longer tells the truth is trusted for less
\* than STATE_TTL, and no request is turned away after the end of the window.
THEOREM StateIsSafe == Windows!Spec => []StateSafe
<1>1. WindowInv => StateSafe
  BY WindowInvSafe DEF WindowInv, StateSafe
<1>2. QED
  BY <1>1, WindowsKeepInv, PTL

\* Each notice of a window is sent at most once, by whatever number of workers, retries and
\* lost tasks, and a withdrawal only where the announcement was claimed.
THEOREM NoticesAreSafe == Windows!Spec => []NoticesSafe
<1>1. WindowInv => NoticesSafe
  BY WindowInvSafe DEF WindowInv, NoticesSafe
<1>2. QED
  BY <1>1, WindowsKeepInv, PTL

\* Whatever transactions choose at once and abort, one row is chosen; a model that the
\* provider no longer offers is never left enabled by a sync.
THEOREM CatalogueIsSafe == Choices!Spec /\ Providers!Spec => []CatalogueSafe
<1>1. /\ Choices!TypeOK /\ Choices!OneChosen
      /\ Providers!TypeOK /\ Providers!RetiredIsOff
      => CatalogueSafe
  BY DEF CatalogueSafe
<1>2. QED
  BY <1>1, ChoiceIsOne, ProvidersAreSafe, PTL

\* A sync that began before a provider was disconnected does not connect it, and a mail
\* does not mark unread what was read meanwhile.
THEOREM DecisionsStay == Providers!Spec /\ Mailing!Spec => LateJobsUndoNothing
BY DisconnectedStays, ReadByClick, PTL DEF LateJobsUndoNothing

\* A user is warned once in twenty-four hours but for the races named, told once of the
\* end of a trial, and what is marked mailed was accepted by the server.
THEOREM NotificationsAreSafe == Telling!Spec /\ Mailing!Spec => []NotificationsSafe
<1>1. /\ Telling!TypeOK /\ Telling!WarnedSparingly /\ Telling!ToldOnce
      /\ Mailing!TypeOK /\ Mailing!SentMeansAccepted
      => NotificationsSafe
  BY DEF NotificationsSafe
<1>2. QED
  BY <1>1, NobodyIsToldTwice, MailsAreSafe, PTL
===============================================================================
