----------------------------- MODULE ProviderSync -----------------------------
(***************************************************************************)
(* One AI provider and the models it lists (providers/services.py and      *)
(* views.py): syncs by the beat task and by administrators, connecting,    *)
(* approving, rejecting, disconnecting, and the toggles of its models.     *)
(***************************************************************************)
EXTENDS Naturals, FiniteSets

CONSTANTS
    Model,
    Worker,               \* requests and tasks under way
    MaxChanges,           \* bound: how often the provider changes its list
    MaxActs               \* bound: acts of administrators

ProviderSyncConstants == MaxChanges \in Nat /\ MaxActs \in Nat

VARIABLES
    offered,              \* the list at the provider
    key,                  \* there is a key: is_connected, api_key_encrypted
    approval,             \* Provider.approval_status
    known,                \* the rows of ProviderModel
    retired, enabled,     \* their is_retired and is_enabled
    job,                  \* what each worker is doing
    changes, acts,        \* so far
    kept                  \* history: retired models an administrator has turned on

vars == <<offered, key, approval, known, retired, enabled, job, changes, acts, kept>>
rows == <<known, retired, enabled, kept>>

Idle == [pc |-> "idle", list |-> {}, todo |-> {}, on |-> FALSE]

TypeOK ==
    /\ offered \subseteq Model /\ key \in BOOLEAN /\ approval \in {"pending", "approved"}
    /\ retired \cup enabled \subseteq known /\ known \subseteq Model
    /\ changes \in 0 .. MaxChanges /\ acts \in 0 .. MaxActs
    /\ \A w \in Worker :
         /\ job[w].pc \in {"idle", "fetch", "upsert", "retire", "record", "forget", "toggle"}
         /\ job[w].todo \subseteq Model /\ job[w].list \subseteq Model

Init ==
    /\ offered \in SUBSET Model
    /\ key = FALSE /\ approval = "approved"
    /\ known = {} /\ retired = {} /\ enabled = {} /\ kept = {}
    /\ job = [w \in Worker |-> Idle]
    /\ changes = 0 /\ acts = 0

Goto(w, pc) == job' = [job EXCEPT ![w].pc = pc]

-------------------------------------------------------------------------------
\* sync_provider, with the key of the row as the request or the task loaded it.
StartSync(w) ==
    /\ job[w] = Idle /\ key
    /\ Goto(w, "fetch")
    /\ UNCHANGED <<offered, key, approval, rows, changes, acts>>

Fetch(w) ==
    /\ job[w].pc = "fetch"
    /\ job' = [job EXCEPT ![w] = [Idle EXCEPT !.pc = "upsert", !.list = offered, !.todo = offered]]
    /\ UNCHANGED <<offered, key, approval, rows, changes, acts>>

FetchFails(w) ==
    /\ job[w].pc = "fetch"
    /\ Goto(w, "record")
    /\ UNCHANGED <<offered, key, approval, rows, changes, acts>>

\* Mutant: a known model stays retired.
UpsertNew(w) ==
    /\ job[w].pc = "upsert" /\ job[w].todo # {}
    /\ \E m \in job[w].todo :
         /\ known' = known \cup {m}
         /\ job' = [job EXCEPT ![w].todo = @ \ {m}]
    /\ UNCHANGED <<offered, key, approval, retired, enabled, kept, changes, acts>>

\* A new model is off; a known one is listed again, on or off as it was.
Upsert(w) ==
    /\ job[w].pc = "upsert" /\ job[w].todo # {}
    /\ \E m \in job[w].todo :
         /\ known' = known \cup {m}
         /\ retired' = retired \ {m} /\ kept' = kept \ {m}
         /\ job' = [job EXCEPT ![w].todo = @ \ {m}]
    /\ UNCHANGED <<offered, key, approval, enabled, changes, acts>>

UpsertsDone(w) ==
    /\ job[w].pc = "upsert" /\ job[w].todo = {}
    /\ Goto(w, "retire")
    /\ UNCHANGED <<offered, key, approval, rows, changes, acts>>

\* Mutant: a retired model can stay on.
RetireOnly(w) ==
    /\ job[w].pc = "retire"
    /\ retired' = retired \cup (known \ job[w].list)
    /\ Goto(w, "record")
    /\ UNCHANGED <<offered, key, approval, known, enabled, kept, changes, acts>>

\* Mutant: a model that was never known is retired.
RetireUnlisted(w) ==
    /\ job[w].pc = "retire"
    /\ retired' = Model \ job[w].list
    /\ enabled' = enabled \cap job[w].list
    /\ Goto(w, "record")
    /\ UNCHANGED <<offered, key, approval, known, kept, changes, acts>>

Retire(w) ==
    LET gone == (known \ job[w].list) \ retired IN
    /\ job[w].pc = "retire"
    /\ retired' = retired \cup gone /\ enabled' = enabled \ gone
    /\ Goto(w, "record")
    /\ UNCHANGED <<offered, key, approval, known, kept, changes, acts>>

\* Mutant: the whole row of the provider is saved, as it was loaded.
RecordWholeRow(w) ==
    /\ job[w].pc = "record"
    /\ key' = TRUE
    /\ job' = [job EXCEPT ![w] = Idle]
    /\ UNCHANGED <<offered, approval, rows, changes, acts>>

\* _record_sync_result saves its own columns only.
Record(w) ==
    /\ job[w].pc = "record"
    /\ job' = [job EXCEPT ![w] = Idle]
    /\ UNCHANGED <<offered, key, approval, rows, changes, acts>>

-------------------------------------------------------------------------------
Act(w) == job[w] = Idle /\ acts < MaxActs /\ acts' = acts + 1

\* The key has been tried; models that are on stay on while the review is pending.
Connect(w) ==
    /\ Act(w)
    /\ key' = TRUE /\ approval' = "pending"
    /\ Goto(w, "fetch")
    /\ UNCHANGED <<offered, rows, changes>>

Approve ==
    /\ approval = "pending" /\ acts < MaxActs /\ acts' = acts + 1
    /\ approval' = "approved"
    /\ UNCHANGED <<offered, key, rows, job, changes>>

\* Disconnect, or reject while pending: the models first, the key in a second statement.
TurnAllOff(w) ==
    /\ Act(w)
    /\ enabled' = {} /\ kept' = {}
    /\ Goto(w, "forget")
    /\ UNCHANGED <<offered, key, approval, known, retired, changes>>

ForgetKey(w) ==
    /\ job[w].pc = "forget"
    /\ key' = FALSE
    /\ job' = [job EXCEPT ![w] = Idle]
    /\ UNCHANGED <<offered, approval, rows, changes, acts>>

\* toggle_provider_model: nothing is turned on while the review is pending.
LoadToggle(w, m) ==
    /\ m \in known /\ Act(w)
    /\ m \notin enabled => approval = "approved"
    /\ job' = [job EXCEPT ![w] = [Idle EXCEPT !.pc = "toggle", !.todo = {m}, !.on = m \notin enabled]]
    /\ UNCHANGED <<offered, key, approval, rows, changes>>

SaveToggle(w) ==
    LET m == job[w].todo IN
    /\ job[w].pc = "toggle"
    /\ enabled' = IF job[w].on THEN enabled \cup m ELSE enabled \ m
    /\ kept' = IF job[w].on THEN kept \cup (m \cap retired) ELSE kept \ m
    /\ job' = [job EXCEPT ![w] = Idle]
    /\ UNCHANGED <<offered, key, approval, known, retired, changes, acts>>

ProviderChanges ==
    /\ changes < MaxChanges /\ changes' = changes + 1
    /\ offered' \in SUBSET Model
    /\ UNCHANGED <<key, approval, rows, job, acts>>

Work(w) ==
    \/ FetchFails(w) \/ Fetch(w) \/ Upsert(w) \/ UpsertsDone(w) \/ Retire(w) \/ Record(w)
    \/ ForgetKey(w) \/ SaveToggle(w)

Next ==
    \/ \E w \in Worker : \/ StartSync(w) \/ Work(w) \/ Connect(w) \/ TurnAllOff(w)
                         \/ \E m \in Model : LoadToggle(w, m)
    \/ Approve \/ ProviderChanges

\* The beat task comes again and again, and fetching does not fail for ever.
Fairness == \A w \in Worker : WF_vars(StartSync(w)) /\ WF_vars(Work(w)) /\ SF_vars(Fetch(w))

Spec == Init /\ [][Next]_vars /\ Fairness

-------------------------------------------------------------------------------
\* A model the provider no longer lists is forced off by the sync that retires it; it
\* is on only when an administrator has turned it on since.
RetiredIsOff == retired \cap enabled \subseteq kept

\* A provider that was disconnected or rejected stays without key until somebody
\* connects it, also when a sync that began before ends after.
StaysDisconnected == [][~key /\ key' => approval' = "pending" /\ acts' = acts + 1]_vars

\* Overlapping syncs can retire what a newer list holds; but once the list no longer
\* changes, a connected provider's rows come to agree with it and stay so.
InStep == offered \subseteq known \ retired /\ known \ offered \subseteq retired
CatalogueFollows == <>[]key => <>[]InStep
===============================================================================
