------------------------------ MODULE MCPlatform ------------------------------
(***************************************************************************)
(* What every part of the program relies on, in one run, each with its own *)
(* state: a behaviour is one of the limiter, of the sessions, of the       *)
(* second step, of the task records, of the alerts or of the backups.      *)
(***************************************************************************)
EXTENDS PlatformProofs, TLC

\* The processes, browsers and runs share their model values.
Perms == Permutations(Browser) \union Permutations(Admin)

VARIABLE part

lvars == <<counts, fallback, now, up, shared, local, pc, verdict, counted, faults>>
mvars == <<required, challenge, devices, cookie, registering, mNow, revokes, guesses>>
tvars == <<tNow, enabled, dispatched, rec, run, signals, outcome, diedAt, mixed>>
avars == <<aNow, critical, told, snapshot, page, loads>>
bvars == <<bNow, bucket, job, stored, verified>>

ASSUME SignInConstants

MCInit ==
    /\ part \in {"limits", "sessions", "second step", "tasks", "alerts", "backups"}
    /\ Limiter!Init /\ Init /\ SecondStep!Init /\ Tasks!Init /\ Alerts!Init /\ Dumps!Init
    /\ part # "limits" => counts = "calls" /\ fallback
    /\ part # "sessions" => \A b \in Browser : ~session[b].in
    /\ part # "second step" => required

MCLimits(A)     == part = "limits" /\ A /\ UNCHANGED <<part, vars, mvars, tvars, avars, bvars>>
MCSessions(A)   == part = "sessions" /\ A /\ UNCHANGED <<part, lvars, mvars, tvars, avars, bvars>>
MCSecondStep(A) == part = "second step" /\ A /\ UNCHANGED <<part, lvars, vars, tvars, avars, bvars>>
MCTasks(A)      == part = "tasks" /\ A /\ UNCHANGED <<part, lvars, vars, mvars, avars, bvars>>
MCAlerts(A)     == part = "alerts" /\ A /\ UNCHANGED <<part, lvars, vars, mvars, tvars, bvars>>
MCBackups(A)    == part = "backups" /\ A /\ UNCHANGED <<part, lvars, vars, mvars, tvars, avars>>

MCNext ==
    \/ MCLimits(Limiter!Next) \/ MCSessions(Next) \/ MCSecondStep(SecondStep!Next)
    \/ MCTasks(Tasks!Next) \/ MCAlerts(Alerts!Next) \/ MCBackups(Dumps!Next)

MCSpec == MCInit /\ [][MCNext]_<<part, lvars, vars, mvars, tvars, avars, bvars>>
===============================================================================
