----------------------------- MODULE Subscription -----------------------------
(***************************************************************************)
(* How a recipient's plan follows the payment of their invoices: checkout  *)
(* with its upgrade credit (billing/invoicing.py), the plan assignment     *)
(* that is synced AFTER the transaction that marks an invoice PAID         *)
(* (billing/views.py, governance/plans.py), admin plan changes and         *)
(* self-service cancellation.  All rows belong to one recipient; nothing   *)
(* here reads or writes another recipient's rows.                          *)
(***************************************************************************)
EXTENDS Integers, FiniteSets, FiniteSetsExt

CONSTANTS
    Invoice,              \* the ids of the invoices that may ever be issued
    Plan,                 \* the plans of the catalogue
    DemoPlan,             \* those with is_demo: not for sale, end after DemoDays
    FirstPlan,            \* the default plan, assigned when the account is made
    Rate,                 \* the price of a plan per day
    Durations,            \* the months a customer can pick
    MonthDays,            \* days in a month (UPGRADE_CREDIT_DAYS_PER_MONTH and the calendar's)
    DemoDays,             \* Plan.demo_duration_days
    Worker,               \* web workers that can be syncing a plan at once
    MaxDay,               \* bound: the last day of the run
    MaxConfirm,           \* bound: how often one invoice is marked PAID
    Ops,                  \* bound: what happens in a run besides checkouts and payments
    NoPlan, NoInvoice     \* the null of a plan and of an invoice

AllOps == {"generate", "submit", "reopen", "refund", "remove", "admin", "cancel", "crash"}

ASSUME SubscriptionAssumption ==
    /\ DemoPlan \subseteq Plan /\ FirstPlan \in Plan /\ NoPlan \notin Plan
    /\ Invoice \subseteq Nat /\ NoInvoice \notin Invoice
    /\ Rate \in [Plan -> Nat] /\ Durations \subseteq Nat
    /\ MonthDays \in Nat /\ DemoDays \in Nat
    /\ MaxDay \in Nat /\ MaxConfirm \in Nat /\ Ops \subseteq AllOps
    /\ IsFiniteSet(Invoice) /\ IsFiniteSet(Worker)

VARIABLES
    status,               \* Invoice.status
    terms,                \* the columns an invoice is issued with and keeps
    assignment,           \* the recipient's UserPlanAssignment row
    sync,                 \* per worker: where its plan change stands
    today,                \* timezone.now(), in days
    confirmed,            \* history: how often each invoice was marked PAID
    adminPlans,           \* history: the plans an admin has assigned by hand
    killed                \* history: a worker died with a plan to write

vars == <<status, terms, assignment, sync, today, confirmed, adminPlans, killed>>

INSTANCE InvoiceLedger

Null == -1                \* a null expires_at: the plan never ends

\* previous is previous_plan, credit is credit_applied
Terms == [plan : Plan \cup {NoPlan}, months : Nat, fixed : BOOLEAN, previous : Plan \cup {NoPlan},
          credit : Nat, total : Nat, issued : Nat]
NoTerms == [plan |-> NoPlan, months |-> 0, fixed |-> FALSE, previous |-> NoPlan,
            credit |-> 0, total |-> 0, issued |-> 0]

\* inv is the invoice that was paid (none for an admin's change), prev the
\* expires_at and cancelled the cancelled_at that the worker has read.  The expiry
\* is written last: to "start" a plan just assigned, or to "renew" the one in use.
Sync == [pc : {"idle", "read", "assign", "save", "start", "renew"}, inv : Invoice \cup {NoInvoice},
         plan : Plan \cup {NoPlan}, prev : Nat \cup {Null}, cancelled : BOOLEAN]
Idle == [pc |-> "idle", inv |-> NoInvoice, plan |-> NoPlan, prev |-> Null, cancelled |-> FALSE]

TypeOK ==
    /\ LedgerTypeOK
    /\ terms \in [Invoice -> Terms]
    /\ assignment \in [plan : Plan, expiresAt : Nat \cup {Null}, cancelled : BOOLEAN]
    /\ sync \in [Worker -> Sync]
    /\ today \in 0 .. MaxDay
    /\ confirmed \in [Invoice -> Nat]
    /\ adminPlans \in SUBSET Plan
    /\ killed \in BOOLEAN

\* What assign_plan gives a plan by itself: demo plans end, the others do not.
PlainExpiry(p) == IF p \in DemoPlan THEN today + DemoDays ELSE Null

Init ==
    /\ LedgerInit
    /\ terms = [i \in Invoice |-> NoTerms]
    /\ today = 0
    /\ assignment = [plan |-> FirstPlan, expiresAt |-> PlainExpiry(FirstPlan), cancelled |-> FALSE]
    /\ sync = [w \in Worker |-> Idle]
    /\ confirmed = [i \in Invoice |-> 0]
    /\ adminPlans = {}
    /\ killed = FALSE

-------------------------------------------------------------------------------
\* Ids come from the table's sequence, so they follow the issue dates.
IsNextId(i) == \A j \in Invoice : j < i => status[j] # "none"

\* _compute_upgrade_credit takes the latest PAID invoice for the plan in use.
Sources(p) == {i \in Invoice : status[i] = "paid" /\ terms[i].plan = p}
LatestSource(p) == Max(Sources(p))

\* A change of plan with unused, paid-for days left earns a credit.
EarnsCredit(p) ==
    /\ assignment.plan # p
    /\ assignment.expiresAt > today
    /\ Sources(assignment.plan) # {}

Credit(p) ==
    LET paidFor == terms[LatestSource(assignment.plan)].total
        unused  == Rate[assignment.plan] * (assignment.expiresAt - today)
    IN  IF ~EarnsCredit(p) THEN 0 ELSE IF unused < paidFor THEN unused ELSE paidFor

CheckoutTerms(p, m) ==
    LET price == Rate[p] * MonthDays * m IN
    [plan |-> p, months |-> m, fixed |-> TRUE,
     previous |-> IF EarnsCredit(p) THEN assignment.plan ELSE NoPlan,
     credit |-> Credit(p),
     total |-> IF price > Credit(p) THEN price - Credit(p) ELSE 0,
     issued |-> today]

\* Mutant: one month too many.
NewExpiryOffByOne(i, prev) ==
    LET start == IF terms[i].previous = NoPlan /\ prev > terms[i].issued THEN prev ELSE terms[i].issued
    IN  start + (terms[i].months + 1) * MonthDays

\* _expiry_datetime_for_invoice
NewExpiry(i, prev) ==
    LET start == IF terms[i].previous = NoPlan /\ prev > terms[i].issued THEN prev ELSE terms[i].issued
    IN  start + terms[i].months * MonthDays

\* Requests and plan syncs share the web workers: none is served while all are busy.
WorkerFree == \E w \in Worker : sync[w].pc = "idle"

OpenFor(p, m) == {i \in Invoice : status[i] \in Open /\ terms[i].plan = p /\ terms[i].months = m}

\* Mutant: the plan is assigned before it is paid.
CheckoutAssigns(i, p, m) ==
    /\ WorkerFree
    /\ p \notin DemoPlan
    /\ OpenFor(p, m) = {}
    /\ CheckoutTerms(p, m).total > 0
    /\ IsNextId(i) /\ Move(i, {"none"}, "unpaid")
    /\ terms' = [terms EXCEPT ![i] = CheckoutTerms(p, m)]
    /\ assignment' = [assignment EXCEPT !.plan = p]
    /\ UNCHANGED <<sync, today, confirmed, adminPlans, killed>>

\* checkout_plan with something left to pay; an open invoice for the same plan
\* and duration is handed back instead (no step).
Checkout(i, p, m) ==
    /\ WorkerFree
    /\ p \notin DemoPlan
    /\ OpenFor(p, m) = {}
    /\ CheckoutTerms(p, m).total > 0
    /\ IsNextId(i) /\ Move(i, {"none"}, "unpaid")
    /\ terms' = [terms EXCEPT ![i] = CheckoutTerms(p, m)]
    /\ UNCHANGED <<assignment, sync, today, confirmed, adminPlans, killed>>

\* checkout_plan with a credit that covers everything: paid, assigned and dated
\* in the transaction that creates the invoice.
CheckoutCovered(i, p, m) ==
    /\ WorkerFree
    /\ p \notin DemoPlan
    /\ OpenFor(p, m) = {}
    /\ CheckoutTerms(p, m).total = 0
    /\ IsNextId(i) /\ Move(i, {"none"}, "paid")
    /\ terms' = [terms EXCEPT ![i] = CheckoutTerms(p, m)]
    /\ confirmed' = [confirmed EXCEPT ![i] = @ + 1]
    /\ assignment' = [assignment EXCEPT !.plan = p, !.expiresAt =
                        IF CheckoutTerms(p, m).previous = NoPlan /\ @ > today
                          THEN @ + m * MonthDays ELSE today + m * MonthDays]
    /\ UNCHANGED <<sync, today, adminPlans, killed>>

\* Welcome, recurring and admin-generated invoices: one month, no fixed term.
Generate(i, p) ==
    /\ "generate" \in Ops
    /\ IsNextId(i) /\ Move(i, {"none"}, "unpaid")
    /\ terms' = [terms EXCEPT ![i] =
         [NoTerms EXCEPT !.plan = p, !.months = 1, !.total = Rate[p] * MonthDays, !.issued = today]]
    /\ UNCHANGED <<assignment, sync, today, confirmed, adminPlans, killed>>

\* Mutant: any invoice can be marked PAID, a refunded one too.
ConfirmAnyPayment(w, i) ==
    /\ sync[w].pc = "idle"
    /\ Move(i, Exists, "paid")
    /\ confirmed[i] < MaxConfirm
    /\ confirmed' = [confirmed EXCEPT ![i] = @ + 1]
    /\ sync' = [sync EXCEPT ![w] = [Idle EXCEPT !.pc = "read", !.inv = i, !.plan = terms[i].plan]]
    /\ UNCHANGED <<terms, assignment, today, adminPlans, killed>>

\* Mutant: a status the enumeration does not have.
ConfirmAsVerified(w, i) ==
    /\ sync[w].pc = "idle"
    /\ Move(i, Open, "verified")
    /\ confirmed[i] < MaxConfirm
    /\ confirmed' = [confirmed EXCEPT ![i] = @ + 1]
    /\ sync' = [sync EXCEPT ![w] = [Idle EXCEPT !.pc = "read", !.inv = i, !.plan = terms[i].plan]]
    /\ UNCHANGED <<terms, assignment, today, adminPlans, killed>>

\* verify_invoice_payment and toggle_invoice_status: PAID is committed first,
\* the plan is synced afterwards by the same worker.
ConfirmPayment(w, i) ==
    /\ sync[w].pc = "idle"
    /\ Confirm(i)
    /\ confirmed[i] < MaxConfirm
    /\ confirmed' = [confirmed EXCEPT ![i] = @ + 1]
    /\ sync' = [sync EXCEPT ![w] = [Idle EXCEPT !.pc = "read", !.inv = i, !.plan = terms[i].plan]]
    /\ UNCHANGED <<terms, assignment, today, adminPlans, killed>>

\* The other moves of the ledger leave the plan as it is: proofs, rejections,
\* taking a payment back, refunds and deletion.
OtherMove(i) ==
    /\ WorkerFree
    /\ \/ "submit" \in Ops /\ Submit(i)
       \/ "reopen" \in Ops /\ Reopen(i)
       \/ "refund" \in Ops /\ Refund(i)
       \/ "remove" \in Ops /\ Remove(i)
    /\ UNCHANGED <<terms, assignment, sync, today, confirmed, adminPlans, killed>>

-------------------------------------------------------------------------------
\* Mutant: only an invoice with a fixed term is synced.
SyncReadFixedOnly(w) ==
    LET s == sync[w]  same == assignment.plan = s.plan  fixed == terms[s.inv].fixed IN
    /\ s.pc = "read"
    /\ sync' = [sync EXCEPT ![w] =
         IF ~fixed THEN Idle
         ELSE [s EXCEPT !.prev = assignment.expiresAt, !.pc = IF same THEN "renew" ELSE "assign"]]
    /\ UNCHANGED <<status, terms, assignment, today, confirmed, adminPlans, killed>>

\* _sync_plan_assignment_to_paid_invoice, one step per statement it sends.
SyncRead(w) ==
    LET s == sync[w]  same == assignment.plan = s.plan  fixed == terms[s.inv].fixed IN
    /\ s.pc = "read"
    /\ sync' = [sync EXCEPT ![w] =
         IF same /\ ~fixed THEN Idle
         ELSE [s EXCEPT !.prev = assignment.expiresAt, !.pc = IF same THEN "renew" ELSE "assign"]]
    /\ UNCHANGED <<status, terms, assignment, today, confirmed, adminPlans, killed>>

\* assign_plan: get_or_create reads the whole row ...
AssignRead(w) ==
    /\ sync[w].pc = "assign"
    /\ sync' = [sync EXCEPT ![w].cancelled = assignment.cancelled, ![w].pc = "save"]
    /\ UNCHANGED <<status, terms, assignment, today, confirmed, adminPlans, killed>>

\* Mutant: the expiry of a plan that was just assigned is left to assign_plan.
AssignSaveOnly(w) ==
    LET s == sync[w] IN
    /\ s.pc = "save"
    /\ assignment' = [plan |-> s.plan, expiresAt |-> PlainExpiry(s.plan), cancelled |-> s.cancelled]
    /\ sync' = [sync EXCEPT ![w] = Idle]
    /\ UNCHANGED <<status, terms, today, confirmed, adminPlans, killed>>

\* ... and save() writes the whole row back.
AssignSave(w) ==
    LET s == sync[w] IN
    /\ s.pc = "save"
    /\ assignment' = [plan |-> s.plan, expiresAt |-> PlainExpiry(s.plan), cancelled |-> s.cancelled]
    /\ sync' = [sync EXCEPT ![w] =
         IF s.inv # NoInvoice /\ terms[s.inv].fixed THEN [s EXCEPT !.pc = "start"] ELSE Idle]
    /\ UNCHANGED <<status, terms, today, confirmed, adminPlans, killed>>

SyncExpiry(w) ==
    /\ sync[w].pc \in {"start", "renew"}
    /\ assignment' = [assignment EXCEPT !.expiresAt = NewExpiry(sync[w].inv, sync[w].prev)]
    /\ sync' = [sync EXCEPT ![w] = Idle]
    /\ UNCHANGED <<status, terms, today, confirmed, adminPlans, killed>>

\* The worker process dies; the invoice stays PAID and nothing resumes the sync.
Crash(w) ==
    /\ "crash" \in Ops
    /\ sync[w].pc # "idle"
    /\ sync' = [sync EXCEPT ![w] = Idle]
    /\ killed' = TRUE
    /\ UNCHANGED <<status, terms, assignment, today, confirmed, adminPlans>>

\* change_user_plan / bulk_change_plan: the same plan again is a no-op.
AdminChange(w, p) ==
    /\ "admin" \in Ops
    /\ sync[w].pc = "idle"
    /\ assignment.plan # p
    /\ sync' = [sync EXCEPT ![w] = [Idle EXCEPT !.pc = "assign", !.plan = p]]
    /\ adminPlans' = adminPlans \cup {p}
    /\ UNCHANGED <<status, terms, assignment, today, confirmed, killed>>

CancelPlan ==
    /\ "cancel" \in Ops /\ WorkerFree
    /\ ~assignment.cancelled
    /\ assignment' = [assignment EXCEPT !.cancelled = TRUE]
    /\ UNCHANGED <<status, terms, sync, today, confirmed, adminPlans, killed>>

ResumePlan ==
    /\ WorkerFree
    /\ assignment.cancelled
    /\ assignment' = [assignment EXCEPT !.cancelled = FALSE]
    /\ UNCHANGED <<status, terms, sync, today, confirmed, adminPlans, killed>>

NextDay ==
    /\ today < MaxDay
    /\ today' = today + 1
    /\ UNCHANGED <<status, terms, assignment, sync, confirmed, adminPlans, killed>>

WorkerStep(w) == SyncRead(w) \/ AssignRead(w) \/ AssignSave(w) \/ SyncExpiry(w)

Next ==
    \/ \E i \in Invoice, p \in Plan :
         \/ Generate(i, p)
         \/ \E m \in Durations : Checkout(i, p, m) \/ CheckoutCovered(i, p, m)
    \/ \E i \in Invoice : OtherMove(i) \/ \E w \in Worker : ConfirmPayment(w, i)
    \/ \E w \in Worker : WorkerStep(w) \/ Crash(w) \/ \E p \in Plan : AdminChange(w, p)
    \/ CancelPlan \/ ResumePlan \/ NextDay

Spec == Init /\ [][Next]_vars

\* A worker that is not killed runs its request to the end.
FairSpec == Spec /\ \A w \in Worker : WF_vars(WorkerStep(w))
-------------------------------------------------------------------------------
Days(i) == terms[i].months * MonthDays
Paid == {i \in Invoice : confirmed[i] > 0}

\* The points under the graph of a function to Nat: there are as many as its values sum to.
Under(f) == UNION {{x} \X (1 .. f[x]) : x \in DOMAIN f}

\* The days that confirmed payments have bought, an invoice confirmed again included.
ConfirmedDays == Under([i \in Invoice |-> confirmed[i] * Days(i)])

\* checkout_plan's promise "the plan itself never changes until that invoice is
\* paid": every plan the recipient is moved to was the first one, was chosen by an
\* admin, or is the plan of an invoice that was confirmed before.
PlanWasPaidOrGiven ==
    assignment.plan \in {FirstPlan} \cup adminPlans \cup {terms[i].plan : i \in Paid}

\* No expiry is later than the time the customer's confirmed payments can reach:
\* each confirmation is worth its months once, even when several workers apply
\* them at the same time and some of them die half way.
TimeIsConfirmed ==
    assignment.expiresAt <= today + DemoDays + Cardinality(ConfirmedDays)

\* is_fixed_term: "the customer explicitly bought a real, dated period, so this
\* invoice genuinely drives expires_at once paid": once every worker is done and
\* none was killed, a plan that came from fixed-term invoices alone has an end.
FixedTermIsDated ==
    /\ ~killed /\ \A w \in Worker : sync[w].pc = "idle"
    /\ assignment.plan \notin {FirstPlan} \cup adminPlans
    /\ \A i \in Paid : terms[i].plan = assignment.plan => terms[i].fixed
    => assignment.expiresAt # Null

\* A recipient whose invoice is confirmed does get its plan: whatever else is
\* written meanwhile, the worker that confirmed it sees the plan in place.
PaidPlanArrives ==
    \A w \in Worker, p \in Plan :
        sync[w].pc = "read" /\ sync[w].plan = p ~> assignment.plan = p
===============================================================================
