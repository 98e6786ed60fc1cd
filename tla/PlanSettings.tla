----------------------------- MODULE PlanSettings -----------------------------
(***************************************************************************)
(* One plan and three of the pages that change it (governance/views.py):   *)
(* the plan form, which saves the whole row and the plan's models; budget  *)
(* automation; and capability limits, which merges its switches into those *)
(* of the row it has read, saves, and then corrects the models.  A page    *)
(* reads the row at its start and saves it at its end.                     *)
(***************************************************************************)
EXTENDS Integers, FiniteSets

CONSTANTS
    Model, Claude,        \* the models; the one research needs
    Request,
    MaxPosts,             \* bound: the forms that are posted
    None

PlanConstants == Claude \in Model /\ MaxPosts \in Nat /\ None \notin {"plan", "budget", "capability"}

VARIABLES
    plan,                 \* the row
    allowed,              \* Plan.allowed_provider_models
    connected,            \* Claude is an enabled model of a provider
    req,                  \* each request
    aimed,                \* history: what each column was last set to on purpose
    undone,               \* history: columns last written by a page that did not show them
    torn,                 \* history: the flags and the models come from different forms
    uncapped,             \* history: the cap was taken off after the automation was set
    posts

vars == <<plan, allowed, connected, req, aimed, undone, torn, uncapped, posts>>

\* cap: monthly_budget_cap; auto: auto_downgrade_enabled, and show_on_public_pricing and the
\* capability limits alike, which the plan form writes back; research: a switch of both pages;
\* tools: a switch of the plan form alone.
Columns == {"cap", "auto", "research", "tools"}
Rows == [Columns -> BOOLEAN]

\* The columns a page shows, and the columns it saves.
Shown == [plan |-> {"cap", "research", "tools"}, budget |-> {"auto"}, capability |-> {"research"}]
Pages == DOMAIN Shown

Saved == [plan |-> Columns, budget |-> {"auto"}, capability |-> {"research", "tools"}]

\* What another form may save meanwhile that matters to a page.
Watched == [plan |-> {"auto", "research", "models"}, budget |-> {"cap"},
            capability |-> {"research", "tools", "models"}]

Idle == [page |-> None, pc |-> "idle", row |-> None, models |-> {}, old |-> {}, found |-> TRUE, stale |-> {}]

TypeOK ==
    /\ plan \in Rows /\ aimed \in Rows /\ allowed \subseteq Model /\ undone \subseteq Columns
    /\ posts \in 0 .. MaxPosts
    /\ \A r \in Request :
         /\ req[r].pc \in {"idle", "look", "read", "save", "write"}
         /\ req[r].pc # "idle" => req[r].page \in Pages /\ req[r].row \in [Saved[req[r].page] -> BOOLEAN]
         /\ req[r].models \cup req[r].old \subseteq Model

Init ==
    /\ plan = [c \in Columns |-> FALSE] /\ aimed = plan /\ allowed = {} /\ connected = TRUE
    /\ req = [r \in Request |-> Idle] /\ undone = {} /\ torn = FALSE /\ uncapped = FALSE /\ posts = 0

-------------------------------------------------------------------------------
(* What a page means to save.                                              *)

Open(r, page, row, models, pc) ==
    /\ req[r] = Idle /\ posts < MaxPosts /\ posts' = posts + 1
    /\ req' = [req EXCEPT ![r] = [Idle EXCEPT !.page = page, !.pc = pc, !.models = models,
                                              !.row = [c \in Saved[page] |-> row[c]]]]
    /\ UNCHANGED <<plan, allowed, connected, aimed, undone, torn, uncapped>>

\* PlanFormView.post: what it does not show is written back as read.
OpenPlan(r, form, models) ==
    /\ \A c \in Columns \ Shown.plan : form[c] = plan[c]
    /\ Open(r, "plan", form, models, "look")

\* Mutant: the form is trusted.
AutoAsSent(auto) == auto

\* "A capless plan has nothing for auto-downgrade to measure against - force it off".
AutoAfter(auto) == plan.cap /\ auto

OpenBudget(r, auto) == Open(r, "budget", [plan EXCEPT !.auto = AutoAfter(auto)], {}, "save")

\* Mutant: what the page does not show is off.
Replaced(research) == [[c \in Columns |-> plan[c]] EXCEPT !.research = research, !.tools = FALSE]

\* "Merge, not replace".
Merged(research) == [plan EXCEPT !.research = research]

OpenCapability(r, research) == Open(r, "capability", Merged(research), {}, "save")

-------------------------------------------------------------------------------
(* The models a plan's flags need.                                         *)

\* Mutant: a flag asks for no model.
NoneNeeded(r) == {}

\* _auto_enabled_provider_model_ids adds, and never removes.
Needed(r) == IF req[r].row.research /\ connected THEN {Claude} ELSE {}

\* The ids the set() will leave: those posted or, by the capability page, those read now.
Look(r) ==
    /\ req[r].pc = "look"
    /\ LET q == req[r]
           base == IF q.page = "plan" THEN q.models ELSE allowed IN
       req' = [req EXCEPT ![r] = [q EXCEPT !.models = base \cup Needed(r), !.pc = "read",
                                           !.found = (q.row.research => connected)]]
    /\ UNCHANGED <<plan, allowed, connected, aimed, undone, torn, uncapped, posts>>

\* set() reads what there is, to remove and add the difference.
ReadOld(r) ==
    /\ req[r].pc = "read"
    /\ req' = [req EXCEPT ![r] = [@ EXCEPT !.old = allowed, !.pc = "write"]]
    /\ UNCHANGED <<plan, allowed, connected, aimed, undone, torn, uncapped, posts>>

-------------------------------------------------------------------------------
(* Saving.                                                                 *)

\* The others now hold what is not stored any more.
Outdate(r, columns, then) ==
    req' = [q \in Request |-> IF q = r THEN then
                              ELSE IF req[q] = Idle THEN Idle
                              ELSE [req[q] EXCEPT !.stale = @ \cup (columns \cap Watched[req[q].page])]]

\* The columns a page saves, where those it does not show are as they were read.
SaveRow(r) ==
    LET q == req[r]
        back == Saved[q.page] \ Shown[q.page] IN
    /\ plan' = [c \in Columns |-> IF c \in Saved[q.page] THEN q.row[c] ELSE plan[c]]
    /\ aimed' = [c \in Columns |-> IF c \in Shown[q.page] THEN q.row[c] ELSE aimed[c]]
    /\ undone' = (undone \ Shown[q.page]) \cup (back \cap q.stale)

\* The difference is applied to what there is now.
SetModels(q) == (allowed \ (q.old \ q.models)) \cup (q.models \ q.old)

\* The form's transaction.
CommitPlan(r) ==
    LET q == req[r] IN
    /\ q.page = "plan" /\ q.pc = "write"
    /\ SaveRow(r) /\ allowed' = SetModels(q)
    /\ torn' = (~ q.found \/ {"research", "models"} \cap q.stale # {})
    /\ uncapped' = ~ q.row.cap
    /\ Outdate(r, Columns \cup {"models"}, Idle)
    /\ UNCHANGED <<connected, posts>>

SaveBudget(r) ==
    /\ req[r].page = "budget" /\ SaveRow(r) /\ Outdate(r, {"auto"}, Idle)
    /\ uncapped' = ("cap" \in req[r].stale)
    /\ UNCHANGED <<allowed, connected, torn, posts>>

\* update_capability_limits: the row first, the models in a transaction of their own.
SaveCapability(r) ==
    LET q == req[r] IN
    /\ q.page = "capability" /\ q.pc = "save"
    /\ SaveRow(r) /\ torn' = TRUE
    /\ Outdate(r, {"research", "tools"}, [q EXCEPT !.pc = "look"])
    /\ UNCHANGED <<allowed, connected, uncapped, posts>>

SetCapability(r) ==
    LET q == req[r] IN
    /\ q.page = "capability" /\ q.pc = "write"
    /\ allowed' = SetModels(q)
    /\ torn' = (~ q.found \/ {"research", "models"} \cap q.stale # {})
    /\ Outdate(r, {"models"}, Idle)
    /\ UNCHANGED <<plan, connected, aimed, undone, uncapped, posts>>

\* The worker dies; of the capability page the row may be saved and the models not.
Abandon(r) ==
    /\ req[r] # Idle /\ req' = [req EXCEPT ![r] = Idle]
    /\ UNCHANGED <<plan, allowed, connected, aimed, undone, torn, uncapped, posts>>

\* toggle_provider_model, off and on again
SwitchModel ==
    /\ connected' = ~ connected
    /\ UNCHANGED <<plan, allowed, req, aimed, undone, torn, uncapped, posts>>

Next ==
    \/ \E r \in Request :
         \/ \E form \in Rows, models \in SUBSET Model : OpenPlan(r, form, models)
         \/ \E on \in BOOLEAN : OpenBudget(r, on) \/ OpenCapability(r, on)
         \/ Look(r) \/ ReadOld(r)
         \/ CommitPlan(r) \/ SaveBudget(r) \/ SaveCapability(r) \/ SetCapability(r)
         \/ Abandon(r)
    \/ SwitchModel

Spec == Init /\ [][Next]_vars

-------------------------------------------------------------------------------
(* Properties.                                                             *)

\* "without this, a SuperAdmin who turns on the flag from either page would only find out it
\* doesn't work once a user hits it": research on means its model is allowed, unless it was not
\* connected, or two forms crossed, or the capability page died half way.
ResearchHasModel == plan.research /\ ~ torn => Claude \in allowed

\* A page changes what it shows: every other column is as its own page left it, unless a page
\* that writes columns back crossed the one that set them.
PagesKeepApart == \A c \in Columns : plan[c] = aimed[c] \/ c \in undone

\* An automation that is on has a cap to measure against, unless the plan form has taken it off.
AutoHasCap == plan.auto /\ ~ plan.cap => uncapped
===============================================================================
