--------------------------------- MODULE Mails ---------------------------------
(***************************************************************************)
(* The e-mail of one notification, from notify to email_sent               *)
(* (notifications/tasks.py, emailing.py): a Celery task that is retried    *)
(* after an exception, against the user who reads, unreads or deletes the  *)
(* notification and the SuperAdmin who deletes the e-mail logs.            *)
(***************************************************************************)
EXTENDS Naturals

CONSTANTS
    MaxRetries,           \* retries of the task
    MaxClicks             \* bound: clicks of the user and the SuperAdmin

MailsConstants == MaxRetries \in Nat /\ MaxClicks \in Nat

VARIABLES
    note,                 \* the notification: there, is_read, email_sent
    task,                 \* the task: where it is, retries, is_read as it was loaded
    log,                  \* the EmailLog row of this attempt: "none", "failed", "sent"
    clicks,
    logged, accepted,     \* history: rows created, mails the server accepted
    broken                \* history: attempts that failed after the server had accepted the mail

vars == <<note, task, log, clicks, logged, accepted, broken>>

TypeOK ==
    /\ note \in [there : BOOLEAN, read : BOOLEAN, mailed : BOOLEAN]
    /\ task.pc \in {"none", "queued", "render", "connect", "send", "refused", "accepted", "mark", "done"}
    /\ task.tries \in 0 .. MaxRetries /\ task.read \in BOOLEAN
    /\ log \in {"none", "failed", "sent"} /\ clicks \in 0 .. MaxClicks
    \* Every attempt has its row, and a mail is accepted in an attempt.
    /\ accepted <= logged /\ logged <= MaxRetries + 1 /\ broken <= accepted

\* notify, of a user with an address: queued if the preference says so.
Init ==
    /\ note = [there |-> TRUE, read |-> FALSE, mailed |-> FALSE]
    /\ \E wanted \in BOOLEAN : task = [pc |-> IF wanted THEN "queued" ELSE "none", tries |-> 0, read |-> FALSE]
    /\ log = "none" /\ clicks = 0 /\ logged = 0 /\ accepted = 0 /\ broken = 0

-------------------------------------------------------------------------------
To(pc) == task' = [task EXCEPT !.pc = pc]

Load ==
    /\ task.pc = "queued"
    /\ task' = [task EXCEPT !.pc = IF note.there THEN "render" ELSE "done", !.read = note.read]
    /\ UNCHANGED <<note, log, clicks, logged, accepted, broken>>

Render ==
    /\ task.pc = "render" /\ To("connect")
    /\ UNCHANGED <<note, log, clicks, logged, accepted, broken>>

\* Mutant: the row is only created for what was sent.
SendUnlogged ==
    /\ task.pc = "connect" /\ To("send")
    /\ UNCHANGED <<note, log, clicks, logged, accepted, broken>>

\* send_via_connection: a row with status FAILED comes before the sending.
LogAttempt ==
    /\ task.pc = "connect" /\ To("send")
    /\ log' = "failed" /\ logged' = logged + 1
    /\ UNCHANGED <<note, clicks, accepted, broken>>

Accept ==
    /\ task.pc = "send" /\ To("accepted")
    /\ accepted' = accepted + 1
    /\ UNCHANGED <<note, log, clicks, logged, broken>>

Refuse ==
    /\ task.pc = "send" /\ To("refused")
    /\ UNCHANGED <<note, log, clicks, logged, accepted, broken>>

\* log.save(update_fields=...): needs its row.
LogAccepted ==
    /\ task.pc = "accepted" /\ log # "none" /\ To("mark")
    /\ log' = "sent"
    /\ UNCHANGED <<note, clicks, logged, accepted, broken>>

\* Mutant: a refused mail counts as sent.
MarkRefused ==
    /\ task.pc = "refused" /\ log # "none" /\ To("mark")
    /\ UNCHANGED <<note, log, clicks, logged, accepted, broken>>

\* A refusal is logged and not retried.
LogRefused ==
    /\ task.pc = "refused" /\ log # "none" /\ To("done")
    /\ UNCHANGED <<note, log, clicks, logged, accepted, broken>>

\* Mutant: the whole row is saved, as it was loaded.
MarkWholeRow ==
    /\ task.pc = "mark" /\ note.there /\ To("done")
    /\ note' = [note EXCEPT !.mailed = TRUE, !.read = task.read]
    /\ UNCHANGED <<log, clicks, logged, accepted, broken>>

MarkMailed ==
    /\ task.pc = "mark" /\ note.there /\ To("done")
    /\ note' = [note EXCEPT !.mailed = TRUE]
    /\ UNCHANGED <<log, clicks, logged, accepted, broken>>

\* Rows to be saved that are gone, templates, the database: the task is run again.
Working == task.pc \in {"queued", "render", "connect", "refused", "accepted", "mark"}

Broken == broken' = IF task.pc \in {"accepted", "mark"} THEN broken + 1 ELSE broken

Retry ==
    /\ Working
    /\ task' = IF task.tries = MaxRetries THEN [task EXCEPT !.pc = "done"]
                                          ELSE [task EXCEPT !.pc = "queued", !.tries = @ + 1]
    /\ log' = "none" /\ Broken
    /\ UNCHANGED <<note, clicks, logged, accepted>>

\* A killed worker: the message was acknowledged when the task began.
Lose ==
    /\ Working /\ To("done")
    /\ Broken
    /\ UNCHANGED <<note, log, clicks, logged, accepted>>

-------------------------------------------------------------------------------
Click == clicks < MaxClicks /\ clicks' = clicks + 1 /\ note.there

\* mark_read, mark_all_read, mark_unread
Toggle ==
    /\ Click /\ note' = [note EXCEPT !.read = ~@]
    /\ UNCHANGED <<task, log, logged, accepted, broken>>

DeleteNote ==
    /\ Click /\ note' = [note EXCEPT !.there = FALSE]
    /\ UNCHANGED <<task, log, logged, accepted, broken>>

DeleteLogs ==
    /\ clicks < MaxClicks /\ clicks' = clicks + 1 /\ log # "none"
    /\ log' = "none"
    /\ UNCHANGED <<note, task, logged, accepted, broken>>

Next ==
    \/ Load \/ Render \/ LogAttempt \/ Accept \/ Refuse \/ LogAccepted \/ LogRefused \/ MarkMailed
    \/ Retry \/ Lose
    \/ Toggle \/ DeleteNote \/ DeleteLogs

Spec == Init /\ [][Next]_vars

-------------------------------------------------------------------------------
\* email_sent and a row with status SENT stand for a mail that was accepted; the mail
\* goes out again only when its attempt broke after that, and never for a refusal.
SentMeansAccepted ==
    /\ note.mailed \/ log = "sent" => accepted > 0
    /\ accepted <= broken + 1

\* A notification is read or unread because the user said so, also when the task that
\* mails it finishes in between.
ReadIsTheUsers == [][note'.read # note.read => clicks' = clicks + 1]_vars
===============================================================================
