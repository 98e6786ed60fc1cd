----------------------------- MODULE SettingsRows -----------------------------
(***************************************************************************)
(* The switches and small forms of the SuperAdmin pages                    *)
(* (governance/views.py), each on a row of its own: compliance and         *)
(* security settings, accounts, models, providers, departments, PII rules  *)
(* and routing rules.  A request loads the row, changes columns of its own *)
(* and saves those columns; the form of a routing rule saves the whole     *)
(* row.  The row may be deleted meanwhile, a model only if no message      *)
(* names it.  A behaviour is about one row of one kind.                    *)
(***************************************************************************)
EXTENDS Integers, FiniteSets

CONSTANTS
    Column,               \* the switches and fields of the row
    Gate,                 \* is_enabled of a provider's model; one of the fields of the others
    Trait,                \* what is said of a model to all who may use it: sees images, is assignable
    Offer,                \* to whom a model is offered: the playground, the domain generator
    Request,
    MaxSaves,             \* bound: the saves that succeed
    None

RowConstants ==
    {Gate, Trait, Offer} \subseteq Column /\ MaxSaves \in Nat /\ None \notin [Column -> BOOLEAN]

VARIABLES
    kind,                 \* what the row is
    row,                  \* what is stored; None is no row
    form,                 \* each request: what it will do with the row it has loaded
    named,                \* a message names the model
    aimed,                \* history: the last value each column was given on purpose
    deleted, saves,       \* history: the row has been deleted; how many saves succeeded
    crossed               \* history: a reply was saved between the check and the deletion

vars == <<kind, row, form, named, aimed, deleted, saves, crossed>>

Kinds == {"settings", "security", "account", "model", "offer", "provider", "pii", "department", "rule"}
Stored == [Column -> BOOLEAN]
Idle == [does |-> "nothing", columns |-> {}, values |-> None]

TypeOK ==
    /\ kind \in Kinds /\ row \in Stored \cup {None} /\ aimed \in Stored
    /\ \A q \in Request :
         /\ form[q].does \in {"nothing", "save", "delete"}
         /\ form[q].does = "save" => form[q].values \in Stored /\ form[q].columns \subseteq Column

Init ==
    /\ kind \in Kinds /\ row = [c \in Column |-> FALSE] /\ aimed = row
    /\ form = [q \in Request |-> Idle] /\ named = FALSE
    /\ deleted = FALSE /\ saves = 0 /\ crossed = FALSE

-------------------------------------------------------------------------------
(* What a request means to save.                                           *)

Load(q, columns, values) ==
    /\ form[q] = Idle /\ row # None
    /\ form' = [form EXCEPT ![q] = [does |-> "save", columns |-> columns, values |-> values]]
    /\ UNCHANGED <<kind, row, named, aimed, deleted, saves, crossed>>

Flip(q, c) == row # None /\ Load(q, {c}, [row EXCEPT ![c] = ~ @])

Fill(q, columns, values) ==
    row # None /\ Load(q, columns, [c \in Column |-> IF c \in columns THEN values[c] ELSE row[c]])

ToggleCompliance(q) == kind = "settings" /\ \E c \in {Gate, Trait} : Flip(q, c)
ToggleSecurity(q)   == kind = "security" /\ \E c \in {Gate, Trait} : Flip(q, c)
ToggleActive(q)     == kind = "account" /\ Flip(q, Gate)
ChangeEmail(q, v)   == kind = "account" /\ Fill(q, {Trait}, v)
ToggleModel(q)      == kind = "model" /\ Flip(q, Gate)
PriceModel(q, v)    == kind = "model" /\ Fill(q, {Trait}, v)
\* A model is offered to the tools only while it is enabled for chat; that it is disabled
\* for chat later leaves the offer as it is.
ToggleOffer(q)      == kind = "offer" /\ row # None /\ row[Gate] /\ Flip(q, Offer)
ToggleTrait(q)      == kind = "offer" /\ row # None /\ row[Gate] /\ Flip(q, Trait)
DisableOffered(q)   == kind = "offer" /\ Flip(q, Gate)
ToggleTraining(q)   == kind = "provider" /\ Flip(q, Gate)
UpdateProviderRegion(q, v) == kind = "provider" /\ Fill(q, {Trait}, v)
UpdatePii(q, v)     == kind = "pii" /\ Fill(q, {Gate, Trait}, v)
UpdateRegion(q, v)  == kind = "department" /\ Fill(q, {Gate}, v)
UpdateRetention(q, v)  == kind = "department" /\ Fill(q, {Trait}, v)
UpdateDepartment(q, v) == kind = "department" /\ Fill(q, {Offer}, v)
PostRule(q, v)      == kind = "rule" /\ Fill(q, Column, v)

-------------------------------------------------------------------------------
\* Mutant: save() without update_fields.
EveryColumn(q) == Column

\* save(update_fields = ...)
Updated(q) == form[q].columns

\* Mutant: a row that is gone is inserted again.
AlwaysInserts == TRUE

\* save() inserts what it does not find, save(update_fields = ...) fails.
Inserts == kind = "rule"

Save(q) ==
    LET new == form[q].values IN
    /\ form[q].does = "save" /\ saves < MaxSaves
    /\ form' = [form EXCEPT ![q] = Idle]
    /\ IF row = None /\ ~ Inserts THEN UNCHANGED <<row, aimed, saves>>
       ELSE LET over(old, columns) == [c \in Column |-> IF c \in columns THEN new[c] ELSE old[c]] IN
            /\ row' = IF row = None THEN new ELSE over(row, Updated(q))
            /\ aimed' = IF row = None THEN new ELSE over(aimed, form[q].columns)
            /\ saves' = saves + 1
    /\ UNCHANGED <<kind, named, deleted, crossed>>

-------------------------------------------------------------------------------
(* Deletion.                                                               *)

Remove == row # None /\ row' = None /\ deleted' = TRUE /\ UNCHANGED <<kind, named, aimed, saves>>

DeleteDepartment == kind = "department" /\ Remove /\ UNCHANGED <<form, crossed>>
DeleteRule       == kind = "rule" /\ Remove /\ UNCHANGED <<form, crossed>>

\* Mutant: only what is enabled is kept.
EnabledOnly == ~ row[Gate]

Unused == ~ named

\* delete_model looks for messages first.
CheckModel(q) ==
    /\ kind = "model" /\ form[q] = Idle /\ row # None /\ Unused
    /\ form' = [form EXCEPT ![q].does = "delete"]
    /\ UNCHANGED <<kind, row, named, aimed, deleted, saves, crossed>>

DeleteModel(q) == form[q].does = "delete" /\ Remove /\ form' = [form EXCEPT ![q] = Idle] /\ UNCHANGED crossed

\* A reply names the model that gave it.
SaveReply ==
    /\ kind = "model" /\ row # None /\ ~ named
    /\ named' = TRUE /\ crossed' = (\E q \in Request : form[q].does = "delete")
    /\ UNCHANGED <<kind, row, form, aimed, deleted, saves>>

Next ==
    \/ \E q \in Request :
         \/ ToggleCompliance(q) \/ ToggleSecurity(q) \/ ToggleActive(q) \/ ToggleModel(q)
         \/ ToggleOffer(q) \/ ToggleTrait(q) \/ DisableOffered(q) \/ ToggleTraining(q)
         \/ \E v \in Stored :
              \/ ChangeEmail(q, v) \/ PriceModel(q, v) \/ UpdatePii(q, v) \/ PostRule(q, v)
              \/ UpdateRegion(q, v) \/ UpdateRetention(q, v) \/ UpdateDepartment(q, v)
              \/ UpdateProviderRegion(q, v)
         \/ Save(q) \/ CheckModel(q) \/ DeleteModel(q)
    \/ DeleteDepartment \/ DeleteRule \/ SaveReply

Spec == Init /\ [][Next]_vars

-------------------------------------------------------------------------------
(* Properties.                                                             *)

\* No request writes back a column it did not mean to change: whatever was saved meanwhile,
\* every column has the value it was last given on purpose.
OnlyOwnColumns == row # None => row = aimed

\* What was deleted does not come back through a page that was open; a routing rule may.
DeletedStays == deleted => row = None \/ kind = "rule"

\* "silently nulling out which model a real historical message used is real data loss": no
\* message loses its model, unless its reply was saved just before the deletion.
NamedIsKept == named /\ ~ crossed => row # None
===============================================================================
