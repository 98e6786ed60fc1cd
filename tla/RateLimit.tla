------------------------------- MODULE RateLimit -------------------------------
(***************************************************************************)
(* One key of the limiter (accounts/rate_limit.py) as the web processes    *)
(* use it: a counter with an expiry in the shared cache, read and written  *)
(* by separate commands, and a counter in the memory of each process for   *)
(* when a command fails.  A key either counts every call (is_rate_limited) *)
(* or only failures (is_over_limit, then count_failure).                   *)
(***************************************************************************)
EXTENDS Integers, FiniteSets

CONSTANTS
    Process,              \* the web processes, each with one request at a time
    Limit,                \* the limit of the key
    Window,               \* window_seconds
    MaxTime,              \* bound: the last moment of the run
    MaxFaults             \* bound: cache outages and process restarts in a run

RateLimitConstants ==
    /\ IsFiniteSet(Process) /\ Process # {}
    /\ Limit \in Nat \ {0} /\ Window \in Nat \ {0} /\ MaxTime \in Nat /\ MaxFaults \in Nat

VARIABLES
    counts,               \* what the key counts: "calls" or "failures"
    fallback,             \* the policy is SECURITY_CRITICAL or EXPENSIVE, not NORMAL
    now,                  \* the time
    up,                   \* the cache answers
    shared,               \* the key in the cache
    local,                \* _local_counters[key] of each process
    pc,                   \* the next command of each process
    verdict,              \* the answer of the current call
    counted,              \* history: the calls that were counted
    faults                \* history: outages and restarts so far

setting == <<counts, fallback>>
Hits == INSTANCE HitWindow WITH Caller <- Process

vars == <<setting, now, up, shared, local, pc, verdict, counted, faults>>

Counter == [n : Nat, end : 0 .. MaxTime + Window]
Empty == [n |-> 0, end |-> 0]
First == [n |-> 1, end |-> now + Window]

TypeOK ==
    /\ counts \in {"calls", "failures"} /\ fallback \in BOOLEAN
    /\ now \in 0 .. MaxTime /\ up \in BOOLEAN /\ faults \in 0 .. MaxFaults
    /\ shared \in Counter /\ local \in [Process -> Counter]
    /\ pc \in [Process -> {"read", "set", "try", "incr"}]
    /\ verdict \in [Process -> {"none", "pass", "block"}]
    /\ counted \subseteq [at : 0 .. now, nr : 1 .. Cardinality(counted)] /\ IsFiniteSet(counted)
    /\ \A p \in Process : verdict[p] # "none" => pc[p] = "read"

Init ==
    /\ counts \in {"calls", "failures"}
    /\ fallback \in BOOLEAN /\ (counts = "failures" => fallback)
    /\ now = 0 /\ up = TRUE /\ faults = 0
    /\ shared = Empty /\ local = [p \in Process |-> Empty]
    /\ pc = [p \in Process |-> "read"]
    /\ verdict = [p \in Process |-> "none"]
    /\ counted = {}

-------------------------------------------------------------------------------
Alive(k) == now < k.end

Goto(p, next) ==
    /\ pc' = [pc EXCEPT ![p] = next]
    /\ UNCHANGED <<shared, local, verdict, counted>>

\* Mutant: the call goes on after its answer.
AnswerGoesOn(p, v, count) ==
    /\ verdict' = [verdict EXCEPT ![p] = v]
    /\ counted' = IF count THEN counted \cup {Hits!Hit} ELSE counted
    /\ UNCHANGED pc

Answer(p, v, count) ==
    /\ verdict' = [verdict EXCEPT ![p] = v]
    /\ pc' = [pc EXCEPT ![p] = "read"]
    /\ counted' = IF count THEN counted \cup {Hits!Hit} ELSE counted

\* Mutant: an entry whose window is over is still looked at.
FullForGood(k) == k.n >= Limit

Full(k) == Alive(k) /\ k.n >= Limit

\* _local_is_limited; failures are counted there with a limit out of reach.
CountLocally(p) ==
    LET k == local[p] IN
    IF counts = "calls" /\ Full(k)
      THEN Answer(p, "block", FALSE) /\ UNCHANGED <<shared, local>>
      ELSE /\ local' = [local EXCEPT ![p] = IF Alive(k) THEN [k EXCEPT !.n = @ + 1] ELSE First]
           /\ Answer(p, "pass", TRUE)
           /\ UNCHANGED shared

\* A command raises: the policy decides.
CommandFails(p) ==
    IF fallback THEN CountLocally(p)
                ELSE Answer(p, "pass", FALSE) /\ UNCHANGED <<shared, local>>

\* cache.get
Read(p) ==
    /\ verdict[p] = "none" /\ pc[p] = "read"
    /\ \/ up /\ Full(shared) /\ Answer(p, "block", FALSE) /\ UNCHANGED <<shared, local>>
       \/ up /\ ~Full(shared) /\ Goto(p, IF counts = "failures" THEN "try" ELSE
                                         IF Alive(shared) THEN "incr" ELSE "set")
       \/ ~up /\ counts = "calls" /\ CommandFails(p)
       \/ ~up /\ counts = "failures" /\
            IF fallback /\ Full(local[p])
              THEN Answer(p, "block", FALSE) /\ UNCHANGED <<shared, local>>
              ELSE Goto(p, "try")
    /\ UNCHANGED <<setting, now, up, faults>>

\* What the key protects succeeds, or fails and is to be counted.
Attempt(p) ==
    /\ pc[p] = "try"
    /\ \/ Answer(p, "pass", FALSE) /\ UNCHANGED <<shared, local>>
       \/ Goto(p, "incr")
    /\ UNCHANGED <<setting, now, up, faults>>

\* cache.set: whatever was counted since the read is overwritten.
StartWindow(p) ==
    /\ pc[p] = "set"
    /\ IF up THEN shared' = First /\ Answer(p, "pass", TRUE) /\ UNCHANGED local
             ELSE CommandFails(p)
    /\ UNCHANGED <<setting, now, up, faults>>

\* Mutant: the hit is written over the old counter.
IncrRestarts(p) ==
    /\ pc[p] = "incr"
    /\ shared' = First /\ Answer(p, "pass", TRUE)
    /\ UNCHANGED <<setting, local, now, up, faults>>

\* cache.incr keeps the expiry; an entry that expired meanwhile is an error.
Incr(p) ==
    /\ pc[p] = "incr"
    /\ \/ /\ up /\ Alive(shared)
          /\ shared' = [shared EXCEPT !.n = @ + 1]
          /\ Answer(p, "pass", TRUE) /\ UNCHANGED local
       \/ up /\ ~Alive(shared) /\ counts = "failures" /\ Goto(p, "set")
       \/ up /\ ~Alive(shared) /\ counts = "calls" /\ CommandFails(p)
       \/ ~up /\ CommandFails(p)
    /\ UNCHANGED <<setting, now, up, faults>>

Return(p) ==
    /\ verdict[p] # "none"
    /\ verdict' = [verdict EXCEPT ![p] = "none"]
    /\ UNCHANGED <<setting, now, up, shared, local, pc, counted, faults>>

-------------------------------------------------------------------------------
\* The cache goes away, keeping or losing its keys, and comes back.
Outage ==
    /\ up /\ faults < MaxFaults
    /\ up' = FALSE /\ faults' = faults + 1
    /\ shared' \in {shared, Empty}
    /\ UNCHANGED <<setting, now, local, pc, verdict, counted>>

Recovery ==
    /\ ~up
    /\ up' = TRUE
    /\ UNCHANGED <<setting, now, shared, local, pc, verdict, counted, faults>>

\* A restarted process, or one with too many keys, has forgotten its counter.
Forget(p) ==
    /\ faults < MaxFaults /\ local[p] # Empty
    /\ local' = [local EXCEPT ![p] = Empty]
    /\ faults' = faults + 1
    /\ UNCHANGED <<setting, now, up, shared, pc, verdict, counted>>

Tick ==
    /\ now < MaxTime
    /\ now' = now + 1
    /\ UNCHANGED <<setting, up, shared, local, pc, verdict, counted, faults>>

Next ==
    \/ \E p \in Process : Read(p) \/ Attempt(p) \/ StartWindow(p) \/ Incr(p) \/ Return(p) \/ Forget(p)
    \/ Outage \/ Recovery \/ Tick

Spec == Init /\ [][Next]_vars

-------------------------------------------------------------------------------
\* "a limiter that cannot count never blocks anyone it has not counted itself": who
\* is blocked, by the shared or by a local counter, finds Limit calls counted in
\* the window, through outages, restarts and keys that expire between commands.
OnlyBlocksCounted == Hits!HitSpec

\* "no read-modify-write race between two concurrent requests": there is one, at the
\* start of a window. While the cache stays up no hit is lost otherwise: within a window
\* each process starts the counter over once at most and counts for itself twice at
\* most, and from one start to the next the limit is passed by those that read before.
CountedBounded ==
    LET n == Cardinality(Process) IN
    counts = "calls" /\ faults = 0 => Hits!Recent <= 3 * n + (n + 1) * (Limit + n - 2)
===============================================================================
