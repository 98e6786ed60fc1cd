----------------------------- MODULE MCBackground -----------------------------
(***************************************************************************)
(* The background work and its bookkeeping, in two runs, each part with    *)
(* its own state.  What Celery beat keeps going: a behaviour is one of the *)
(* sweep, of the reminders, or of the maintenance windows and the state    *)
(* that requests cache of them.  The rest: one of the choices of which     *)
(* there is one, of a provider's catalogue, of the notices of a trial, of  *)
(* the usage warnings, of the e-mail of one notification, or of the        *)
(* notices of a maintenance window.                                        *)
(***************************************************************************)
EXTENDS BackgroundProofs

MCDueIn == {-1, 1}

VARIABLE part

wvars == <<window, wNow, cache, visit, queue, wJob, notified, wFails, wSent, changedAt>>
cvars == <<table, committed, tx, begun, phantom>>
pvars == <<offered, key, approval, known, retired, enabled, pJob, changes, acts, kept>>
nvars == <<nNow, trial, notes, nSweep, chat, faults, warned, told, deleted, muddled>>
evars == <<note, mTask, log, clicks, logged, accepted, broken>>
others == <<cvars, pvars, nvars, evars>>

MCInit ==
    /\ Init /\ Windows!Init /\ Choices!Init /\ Providers!Init /\ Telling!Init /\ Mailing!Init
    /\ part # "reminders" => reminderDays = 0
    /\ part # "choices" => /\ table = "plans"
                           /\ committed[CHOOSE c \in Choice : TRUE] = "on"
                           /\ \A c \in Choice : committed[c] # "none"
    /\ part # "providers" => offered = {}
    /\ part # "mail" => mTask.pc = "none"

\* The sweep asks for no payment; the reminders are of two invoices.
Sweeping == task = Idle /\ reminderDays = 0 /\ \A i \in Invoice : status[i] \notin {"pending", "paid", "refunded"}
Reminding == sweep = Asleep /\ ~skipped /\ \A i \in Invoice : i > 2 => status[i] = "none"

MCSweep(A)     == part = "sweep" /\ A /\ Sweeping' /\ UNCHANGED <<part, wvars, others>>
MCReminders(A) == part = "reminders" /\ A /\ Reminding' /\ UNCHANGED <<part, wvars, others>>
MCWindows(A)   == part \in {"windows", "notices"} /\ A /\ UNCHANGED <<part, vars, others>>
MCChoices(A)   == part = "choices" /\ A /\ UNCHANGED <<part, vars, wvars, pvars, nvars, evars>>
MCProviders(A) == part = "providers" /\ A /\ UNCHANGED <<part, vars, wvars, cvars, nvars, evars>>
MCTelling(A)   == part \in {"trial", "warnings"} /\ A /\ UNCHANGED <<part, vars, wvars, cvars, pvars, evars>>
MCMail(A)      == part = "mail" /\ A /\ UNCHANGED <<part, vars, wvars, cvars, pvars, nvars>>

\* The trial and the warnings of one user share nothing but the page to delete them.
MCTrial(A)    == part = "trial" /\ MCTelling(A) /\ UNCHANGED chat
MCWarnings(A) == part = "warnings" /\ MCTelling(A) /\ UNCHANGED <<nSweep, trial>>

\* Of the windows themselves the notices are of no account: no worker sends them.
Unannounced == \A w \in Window : ~window[w].notifyUsers
\* Of the notices no request is: what the clock makes due, the beat task advances as well.
Unvisited == UNCHANGED visit

ScheduledNext ==
    \/ MCSweep(Next) \/ MCReminders(Next)
    \/ MCWindows(Windows!Next) /\ Unannounced'

OperationsNext ==
    \/ MCChoices(Choices!Next) \/ MCProviders(Providers!Next)
    \/ MCTrial(Telling!Next) \/ MCWarnings(Telling!Next) \/ MCMail(Mailing!Next)
    \/ MCWindows(Windows!Next) /\ Unvisited

MCvars == <<part, vars, wvars, others>>

ScheduledInit  == part \in {"sweep", "reminders", "windows"} /\ MCInit
OperationsInit == part \in {"choices", "providers", "trial", "warnings", "mail", "notices"} /\ MCInit

SchedulesSpec ==
    /\ ScheduledInit /\ [][ScheduledNext]_MCvars
    /\ WF_vars(MCSweep(SweepStep)) /\ WF_vars(MCReminders(TaskStep))
    /\ SF_wvars(MCWindows(Windows!Tick))
    /\ \A r \in Visitor : /\ WF_wvars(MCWindows(Windows!VisitStep(r)))
                          /\ WF_wvars(MCWindows(Windows!Visit(r)))

OperationsSpec ==
    /\ OperationsInit /\ [][OperationsNext]_MCvars
    /\ \A w \in Worker :
         /\ WF_cvars(MCChoices(Choices!Step(w)))
         /\ WF_pvars(MCProviders(Providers!StartSync(w)))
         /\ WF_pvars(MCProviders(Providers!Work(w)))
         /\ SF_pvars(MCProviders(Providers!Fetch(w)))
    /\ WF_nvars(MCTrial(Telling!StartSweep))
    /\ WF_nvars(MCTrial(Telling!CheckTrial)) /\ WF_nvars(MCTrial(Telling!NotifyTrial))

\* However late or refused, the tasks catch up: the next cycle is billed (while there is
\* an id left for its invoice), an overdue invoice is reminded of, and the site reopens
\* after the end of a window.
TasksCatchUp ==
    /\ part = "sweep" => \A i \in 1 .. 3 : NextInvoiceArrives(i)
    /\ part = "reminders" => \A i \in 1 .. 2 : ReminderArrives(i)
    /\ part = "windows" => Windows!SiteReopens

\* A choice ends in spite of deadlocks, the catalogue comes to agree with the provider's list,
\* and whose trial is over is told so.
BackgroundWorkEnds ==
    /\ Choices!RequestEnds
    /\ part = "providers" => Providers!CatalogueFollows
    /\ part = "trial" => Telling!ExpiryTold
===============================================================================
