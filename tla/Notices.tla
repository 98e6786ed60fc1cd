-------------------------------- MODULE Notices --------------------------------
(***************************************************************************)
(* Who has been told already: the notices of one user's trial, sent by the *)
(* daily sweep (notifications/tasks.py), and the usage warnings sent by    *)
(* every chat request over 80% of a cap (chat/views.py).  Both look for an *)
(* earlier notification, which the user may have deleted, and then notify. *)
(***************************************************************************)
EXTENDS Naturals, FiniteSets, Sequences

CONSTANTS
    Worker,               \* chat requests under way
    NoticeDays,           \* TRIAL_EXPIRING_NOTICE_DAYS
    Term,                 \* demo_duration_days
    Window,               \* days between two usage warnings: 24 hours
    MaxTime, MaxWarnings, MaxFaults    \* bounds

NoticesConstants == IsFiniteSet(Worker) /\ {NoticeDays, Term, Window, MaxTime, MaxWarnings, MaxFaults} \subseteq Nat

VARIABLES
    now,
    trial,                \* the UserPlanAssignment: assigned_at, expires_at, plan.is_demo
    notes,                \* created_at of the notifications there are, of each kind
    sweep,                \* the beat task, with the assignment it loaded
    chat,                 \* whether each chat request has decided to warn
    faults,
    warned,               \* history: when usage warnings were created
    told,                 \* history: for which assignment each trial notice was created
    deleted,              \* history: the user has deleted a notification
    muddled               \* history: assignments made while the sweep worked on another

vars == <<now, trial, notes, sweep, chat, faults, warned, told, deleted, muddled>>

Trial == {"expiring", "expired"}
Kind == Trial \cup {"usage"}
Row == [at : 0 .. MaxTime, expires : 0 .. MaxTime + Term, demo : BOOLEAN]

TypeOK ==
    /\ now \in 0 .. MaxTime /\ trial \in Row /\ trial.at <= now
    /\ notes \in [Kind -> SUBSET (0 .. now)]
    /\ sweep \in [pc : {"idle", "check", "notify"}, row : Row, kind : Trial]
    /\ chat \in [Worker -> {"idle", "warn"}]
    /\ faults \in 0 .. MaxFaults
    /\ Len(warned) <= MaxWarnings + Cardinality(Worker)
    /\ \A k \in Trial : \A i \in DOMAIN told[k] : told[k][i] \in 0 .. now
    \* Nothing is created that the history does not know of.
    /\ notes["usage"] \subseteq {warned[i] : i \in DOMAIN warned}

Idle(row) == [pc |-> "idle", row |-> row, kind |-> "expired"]

Init ==
    /\ now = 0
    /\ trial = [at |-> 0, expires |-> Term, demo |-> TRUE]
    /\ notes = [k \in Kind |-> {}]
    /\ sweep = Idle(trial)
    /\ chat = [w \in Worker |-> "idle"]
    /\ faults = 0 /\ warned = <<>> /\ told = [k \in Trial |-> <<>>]
    /\ deleted = FALSE /\ muddled = {}

-------------------------------------------------------------------------------
\* recently_notified
Recently(kind, since) == \E t \in notes[kind] : t >= since

\* Mutant: as for the warnings, a day ago.
SinceADay(row) == IF now = 0 THEN 0 ELSE now - 1

\* A trial notice is sent once for an assignment.
Since(row) == row.at

\* Mutant: an expired trial is no longer looked at.
DueBefore(row) == IF row.expires > now /\ row.expires <= now + NoticeDays THEN {"expiring"} ELSE {}

Due(row) ==
    IF row.expires > now THEN (IF row.expires <= now + NoticeDays THEN {"expiring"} ELSE {})
                         ELSE {"expired"}

\* The sweep loads every demo assignment, then takes them one by one.
StartSweep ==
    /\ sweep.pc = "idle" /\ trial.demo
    /\ sweep' = [Idle(trial) EXCEPT !.pc = "check"]
    /\ UNCHANGED <<now, trial, notes, chat, faults, warned, told, deleted, muddled>>

CheckTrial ==
    /\ sweep.pc = "check"
    /\ LET kinds == {k \in Due(sweep.row) : ~Recently(k, Since(sweep.row))} IN
         \/ \E k \in kinds : sweep' = [sweep EXCEPT !.pc = "notify", !.kind = k]
         \/ kinds = {} /\ sweep' = Idle(trial)
    /\ UNCHANGED <<now, trial, notes, chat, faults, warned, told, deleted, muddled>>

\* Mutant: every notice is one of usage.
NotifyAsUsage ==
    /\ sweep.pc = "notify"
    /\ notes' = [notes EXCEPT !["usage"] = @ \cup {now}]
    /\ told' = [told EXCEPT ![sweep.kind] = Append(@, sweep.row.at)]
    /\ sweep' = Idle(trial)
    /\ UNCHANGED <<now, trial, chat, faults, warned, deleted, muddled>>

NotifyTrial ==
    /\ sweep.pc = "notify"
    /\ notes' = [notes EXCEPT ![sweep.kind] = @ \cup {now}]
    /\ told' = [told EXCEPT ![sweep.kind] = Append(@, sweep.row.at)]
    /\ sweep' = Idle(trial)
    /\ UNCHANGED <<now, trial, chat, faults, warned, deleted, muddled>>

\* An exception, or the worker dies; a retry starts from the beginning.
SweepFails ==
    /\ sweep.pc # "idle" /\ faults < MaxFaults
    /\ faults' = faults + 1
    /\ sweep' = Idle(trial)
    /\ UNCHANGED <<now, trial, notes, chat, warned, told, deleted, muddled>>

\* Mutant: only a warning of this very day counts.
NeverWarned == \A t \in notes["usage"] : t < now

NotWarned == ~Recently("usage", IF now < Window THEN 0 ELSE now - Window)

\* _notify_if_usage_warning, at the end of a reply over the threshold.
CheckUsage(w) ==
    /\ chat[w] = "idle" /\ NotWarned /\ Len(warned) < MaxWarnings
    /\ chat' = [chat EXCEPT ![w] = "warn"]
    /\ UNCHANGED <<now, trial, notes, sweep, faults, warned, told, deleted, muddled>>

WarnUsage(w) ==
    /\ chat[w] = "warn"
    /\ notes' = [notes EXCEPT !["usage"] = @ \cup {now}]
    /\ warned' = Append(warned, now)
    /\ chat' = [chat EXCEPT ![w] = "idle"]
    /\ UNCHANGED <<now, trial, sweep, faults, told, deleted, muddled>>

\* assign_plan: another trial, or a plan that is none, at a later instant.
Assign ==
    /\ now < MaxTime
    /\ now' = now + 1
    /\ \E demo \in BOOLEAN : trial' = [at |-> now + 1, expires |-> now + 1 + Term, demo |-> demo]
    /\ muddled' = IF sweep.pc = "idle" THEN muddled ELSE muddled \cup {now + 1}
    /\ UNCHANGED <<notes, sweep, chat, faults, warned, told, deleted>>

DeleteNotes ==
    /\ ~deleted
    /\ \E k \in Kind : notes[k] # {} /\ notes' = [notes EXCEPT ![k] = {}]
    /\ deleted' = TRUE
    /\ UNCHANGED <<now, trial, sweep, chat, faults, warned, told, muddled>>

Tick ==
    /\ now < MaxTime /\ now' = now + 1
    /\ UNCHANGED <<trial, notes, sweep, chat, faults, warned, told, deleted, muddled>>

Next ==
    \/ StartSweep \/ CheckTrial \/ NotifyTrial \/ SweepFails
    \/ \E w \in Worker : CheckUsage(w) \/ WarnUsage(w)
    \/ Assign \/ DeleteNotes \/ Tick

\* The beat task comes every day, and a task that was started goes on.
Fairness == WF_vars(StartSweep) /\ WF_vars(CheckTrial) /\ WF_vars(NotifyTrial)

Spec == Init /\ [][Next]_vars /\ Fairness

-------------------------------------------------------------------------------
\* "Deduped to at most once per 24h per user": requests that decide at the same time all
\* warn, but never more often than once each, unless the user deletes the first warning.
WarnedSparingly ==
    ~deleted => \A i \in DOMAIN warned :
        Cardinality({j \in DOMAIN warned : warned[j] \in warned[i] .. warned[i] + Window}) <= Cardinality(Worker)

\* "To avoid re-sending the same trial-expiring notice every time the daily sweep task
\* runs": one notice of a kind for an assignment, whatever fails and is run again.
ToldOnce ==
    ~deleted => \A k \in Trial : \A i, j \in DOMAIN told[k] : told[k][i] = told[k][j] => i = j

\* Who has a trial that is over is told so, unless it was assigned in the middle of a
\* sweep: the notice about the trial before is then taken for its own.
Untold ==
    /\ trial.demo /\ trial.expires <= now /\ trial.at \notin muddled
    /\ trial.at \notin {told["expired"][i] : i \in DOMAIN told["expired"]}
ExpiryTold == Untold ~> ~Untold
===============================================================================
