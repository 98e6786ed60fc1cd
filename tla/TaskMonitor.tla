----------------------------- MODULE TaskMonitor -----------------------------
(***************************************************************************)
(* What the system status page knows of the background tasks               *)
(* (governance/task_monitor.py, governance/system_status.py).  Each Celery *)
(* signal of a run reads the task's one record from the cache and writes   *)
(* it back; runs of one task overlap, workers die without a signal, the    *)
(* cache forgets.                                                          *)
(***************************************************************************)
EXTENDS Integers, FiniteSets, Sequences

CONSTANTS
    Task, Job,            \* the scheduled tasks, the one whose runs are followed
    Run,                  \* the runs of Job
    RunningStale,         \* RUNNING_STALE_SECONDS
    Late,                 \* a dispatch older than this is late: three intervals
    MaxTime,              \* bound: the hours of a run
    None                  \* no time, no run, no record

\* The keys of the record that the status needs, and what a signal holds between its get and its set.
Record == [since : Nat \cup {None}, id : Run \cup {None}, success : Nat, failure : Nat]
Update == [was : Record \cup {None}, new : Record]

MonitorConstants ==
    /\ Job \in Task /\ {RunningStale, Late, MaxTime} \subseteq Nat
    /\ None \notin Nat \cup Run \cup Record \cup Update

VARIABLES
    now,
    enabled, dispatched,  \* PeriodicTask: enabled, last_run_at
    rec,                  \* the record of Job in the cache
    run,                  \* each run: where it is, the updates it has yet to make, the record it read
    signals,              \* order of the signals: timestamps to the microsecond
    outcome, diedAt,    \* history: the last outcome signalled, when a run's worker was killed
    mixed                 \* history: an update was lost, or written over another's

vars == <<now, enabled, dispatched, rec, run, signals, outcome, diedAt, mixed>>

Empty == [since |-> None, id |-> None, success |-> 0, failure |-> 0]
Before == [at |-> "waiting", pend |-> <<>>, read |-> None]

TypeOK ==
    /\ now \in 0 .. MaxTime /\ enabled \in [Task -> BOOLEAN]
    /\ dispatched \in [Task -> (0 .. now) \cup {None}]
    /\ rec # None => rec.id \in Run \cup {None} /\ rec.since \in (0 .. now) \cup {None}
    /\ \A r \in Run : run[r].at \in {"waiting", "queued", "working", "ending", "done", "dead"}
    /\ outcome \in {"ok", "failing", "unknown"} /\ mixed \in BOOLEAN

Init ==
    /\ now = 0 /\ enabled = [t \in Task |-> TRUE] /\ dispatched = [t \in Task |-> None]
    /\ rec = None /\ run = [r \in Run |-> Before]
    /\ signals = 0 /\ outcome = "unknown" /\ diedAt = [r \in Run |-> None] /\ mixed = FALSE

-------------------------------------------------------------------------------
(* The runs and their signals.                                             *)

\* Beat only records that it dispatched.
Dispatch(t) ==
    /\ enabled[t] /\ dispatched' = [dispatched EXCEPT ![t] = now]
    /\ IF t = Job
         THEN \E r \in Run : run[r].at = "waiting" /\ run' = [run EXCEPT ![r].at = "queued"]
         ELSE UNCHANGED run
    /\ UNCHANGED <<now, enabled, rec, signals, outcome, diedAt, mixed>>

\* on_prerun
Start(r) ==
    /\ run[r].at = "queued"
    /\ run' = [run EXCEPT ![r].at = "working", ![r].pend = <<"start">>]
    /\ UNCHANGED <<now, enabled, dispatched, rec, signals, outcome, diedAt, mixed>>

\* task_postrun alone, or after task_failure or task_retry
Finish(r, signal) ==
    /\ run[r].at = "working" /\ run[r].pend = <<>>
    /\ run' = [run EXCEPT ![r].at = "ending",
                 ![r].pend = IF signal = "success" THEN <<"success">> ELSE <<signal, "end">>]
    /\ UNCHANGED <<now, enabled, dispatched, rec, signals, outcome, diedAt, mixed>>

Forget(d, r) == IF d.id = r THEN [d EXCEPT !.since = None, !.id = None] ELSE d

\* Mutant: whatever its state, a run that ends is a success.
MutateAlways(d, r, signal) ==
    CASE signal = "start" -> [d EXCEPT !.since = now, !.id = r]
      [] signal \in {"success", "end"} -> [Forget(d, r) EXCEPT !.success = signals + 1]
      [] signal = "failure" -> [d EXCEPT !.failure = signals + 1]
      [] OTHER -> d

\* Mutant: the marker stays when the run ends.
MutateKeeping(d, r, signal) ==
    CASE signal = "start" -> [d EXCEPT !.since = now, !.id = r]
      [] signal = "success" -> [d EXCEPT !.success = signals + 1]
      [] signal = "failure" -> [d EXCEPT !.failure = signals + 1]
      [] OTHER -> d

\* What a signal makes of the record; a retry only counts.
Mutate(d, r, signal) ==
    CASE signal = "start" -> [d EXCEPT !.since = now, !.id = r]
      [] signal = "success" -> [Forget(d, r) EXCEPT !.success = signals + 1]
      [] signal = "end" -> Forget(d, r)
      [] signal = "failure" -> [d EXCEPT !.failure = signals + 1]
      [] OTHER -> d

\* _update: cache.get and mutate, then cache.set.
ReadRecord(r) ==
    LET signal == Head(run[r].pend) IN
    /\ run[r].at \in {"working", "ending"} /\ run[r].pend # <<>> /\ run[r].read = None
    /\ run' = [run EXCEPT ![r].read = [was |-> rec, new |-> Mutate(IF rec = None THEN Empty ELSE rec, r, signal)]]
    /\ signals' = IF signal \in {"success", "failure"} THEN signals + 1 ELSE signals
    /\ outcome' = CASE signal = "success" -> "ok" [] signal = "failure" -> "failing" [] OTHER -> outcome
    /\ UNCHANGED <<now, enabled, dispatched, rec, diedAt, mixed>>

Signalled(r) ==
    run' = [run EXCEPT ![r].pend = Tail(@), ![r].read = None,
              ![r].at = IF @ = "ending" /\ Len(run[r].pend) = 1 THEN "done" ELSE @]

WriteRecord(r) ==
    /\ run[r].at \in {"working", "ending"} /\ run[r].read # None
    /\ rec' = run[r].read.new /\ mixed' = (mixed \/ rec # run[r].read.was)
    /\ Signalled(r)
    /\ UNCHANGED <<now, enabled, dispatched, signals, outcome, diedAt>>

\* The cache does not answer: bookkeeping never breaks a task.
SkipRecord(r) ==
    /\ run[r].at \in {"working", "ending"} /\ run[r].pend # <<>>
    /\ mixed' = TRUE /\ Signalled(r)
    /\ UNCHANGED <<now, enabled, dispatched, rec, signals, outcome, diedAt>>

\* A worker killed in the middle of a task sends no signal.
Kill(r) ==
    /\ run[r].at \in {"working", "ending"}
    /\ run' = [run EXCEPT ![r].at = "dead"]
    /\ diedAt' = [diedAt EXCEPT ![r] = now] /\ mixed' = (mixed \/ run[r].pend # <<>>)
    /\ UNCHANGED <<now, enabled, dispatched, rec, signals, outcome>>

\* The cache is flushed, or the record has expired.
Flush ==
    /\ rec # None /\ rec' = None /\ outcome' = "unknown"
    /\ mixed' = (mixed \/ \E r \in Run : run[r].read # None)
    /\ UNCHANGED <<now, enabled, dispatched, run, signals, diedAt>>

Toggle(t) ==
    /\ enabled' = [enabled EXCEPT ![t] = ~ @]
    /\ UNCHANGED <<now, dispatched, rec, run, signals, outcome, diedAt, mixed>>

Tick == now < MaxTime /\ now' = now + 1 /\ UNCHANGED <<enabled, dispatched, rec, run, signals, outcome, diedAt, mixed>>

-------------------------------------------------------------------------------
(* The status: summarize, is_stale, check_jobs, build_services.            *)

\* Mutant: a marker is believed for ever.
RunningForEver == rec # None /\ rec.since # None

Running == rec # None /\ rec.since # None /\ now - rec.since < RunningStale
Outcome ==
    CASE rec = None -> "unknown"
      [] rec # None /\ rec.failure > rec.success -> "failing"
      [] rec # None /\ rec.failure <= rec.success -> IF rec.success > 0 THEN "ok" ELSE "unknown"

OutcomeOf(t) == IF t = Job THEN Outcome ELSE "unknown"
Stale(t) == enabled[t] /\ dispatched[t] # None /\ now - dispatched[t] > Late

Health(t) ==
    CASE ~ enabled[t] -> "disabled"
      [] enabled[t] /\ OutcomeOf(t) = "failing" -> "failing"
      [] enabled[t] /\ OutcomeOf(t) # "failing" ->
           IF Stale(t) THEN "stale" ELSE IF t = Job /\ Running THEN "running" ELSE OutcomeOf(t)

Judged == {t \in Task : enabled[t] /\ dispatched[t] # None}
BeatStale == Judged # {} /\ \A t \in Judged : Stale(t)
Worker ==
    LET healths == {Health(t) : t \in {x \in Task : enabled[x]}} IN
    CASE healths \cap {"ok", "running"} # {} -> "healthy"
      [] healths \cap {"ok", "running"} = {} -> IF "failing" \in healths THEN "warning" ELSE "unavailable"

\* _attention_from_system: the items of level danger, one per key
Critical ==
    {k \in {"beat", "job"} :
       \/ (k = "beat" /\ BeatStale)
       \/ (k = "job" /\ \E t \in Task : Health(t) = "failing")}

-------------------------------------------------------------------------------
Next ==
    \/ \E t \in Task : Dispatch(t) \/ Toggle(t)
    \/ \E r \in Run :
         \/ Start(r) \/ ReadRecord(r) \/ WriteRecord(r) \/ SkipRecord(r) \/ Kill(r)
         \/ \E signal \in {"success", "failure", "retry"} : Finish(r, signal)
    \/ Flush \/ Tick

Spec == Init /\ [][Next]_vars

-------------------------------------------------------------------------------
(* Properties.                                                             *)

Quiet == ~ mixed /\ \A r \in Run : run[r].read = None

\* Unless updates of two runs mixed or one was lost, the page reports the last outcome that
\* was signalled since the record began, and never health without one.
ReportsLastOutcome ==
    Quiet => Outcome = outcome /\ (Worker = "healthy" => outcome = "ok" \/ Running)

\* Unless updates mixed, a task shown as running has a run that has not ended, or one that
\* died less than RunningStale ago.
RunningIsReal ==
    Quiet /\ Running =>
       \E r \in Run : run[r].at \in {"working", "ending"}
                      \/ (run[r].at = "dead" /\ now - diedAt[r] < RunningStale)
===============================================================================
