------------------------------- MODULE HitWindow -------------------------------
(***************************************************************************)
(* What a rate limiter promises (the docstring of accounts/rate_limit.py): *)
(* a limiter "never blocks anyone it has not counted itself".  A caller is *)
(* passed, counted or not, or is blocked because at least Limit calls were *)
(* counted within the last Window.  RateLimit implements this module.      *)
(***************************************************************************)
EXTENDS Integers, FiniteSets

CONSTANTS
    Caller,               \* the requests that can be asking at once
    Limit,                \* the limit of the key
    Window                \* window_seconds

VARIABLES
    now,                  \* the time
    counted,              \* the calls that were counted: when, and which of them all
    verdict               \* what each caller was told

\* The call that is counted next.
Hit == [at |-> now, nr |-> Cardinality(counted) + 1]

\* How many were counted within the last Window.
Recent == Cardinality({h \in counted : now - Window < h.at /\ h.at <= now})

Tell(c, v) == verdict[c] = "none" /\ verdict' = [verdict EXCEPT ![c] = v]

Pass(c) ==
    /\ Tell(c, "pass")
    /\ counted' \in {counted, counted \cup {Hit}}
    /\ UNCHANGED now

Block(c) ==
    /\ Recent >= Limit
    /\ Tell(c, "block")
    /\ UNCHANGED <<now, counted>>

Leave(c) ==
    /\ verdict[c] # "none"
    /\ verdict' = [verdict EXCEPT ![c] = "none"]
    /\ UNCHANGED <<now, counted>>

Pause == now' = now + 1 /\ UNCHANGED <<counted, verdict>>

HitInit ==
    /\ now = 0
    /\ counted = {}
    /\ verdict = [c \in Caller |-> "none"]

HitNext == Pause \/ \E c \in Caller : Pass(c) \/ Block(c) \/ Leave(c)

HitSpec == HitInit /\ [][HitNext]_<<now, counted, verdict>>
===============================================================================
