------------------------------- MODULE LiveNews -------------------------------
(***************************************************************************)
(* Where the headlines come from (chat/live_intelligence.py and its pages  *)
(* in chat/views.py): a fetch from the sources, the cached copy of an      *)
(* earlier fetch, or an older good copy when the sources fail.  Requests   *)
(* fetch side by side, the cache may refuse any command and may lose what  *)
(* it holds.                                                               *)
(***************************************************************************)
EXTENDS Integers, FiniteSets, FiniteSetsExt

CONSTANTS
    Category,             \* CATEGORIES, of which a page or a brief takes several
    Request,              \* the requests under way
    FreshTtl, LastTtl,    \* FRESH_TTL and LAST_GOOD_TTL
    Cooldown,             \* INTEL_REFRESH_COOLDOWN_SECONDS
    MaxTime, MaxFetches,  \* bounds: the time of a run, the fetches
    None

NewsConstants == {FreshTtl, LastTtl, Cooldown, MaxTime, MaxFetches} \subseteq Nat /\ FreshTtl <= LastTtl

VARIABLES
    now,
    fresh, last,          \* the two cache entries of a category: when they were fetched
    cooldown,             \* when the user's refresh key was added
    req,                  \* each request: its category, and what it got for the earlier ones
    fetches, refreshes,   \* history: the fetches so far, when the user's refreshes were let through
    good, faulty          \* history: the last fetch that found stories, and whether the cache failed

vars == <<now, fresh, last, cooldown, req, fetches, refreshes, good, faulty>>

Idle == [pc |-> "idle", left |-> {}, cat |-> None, force |-> FALSE, began |-> 0, failed |-> FALSE, got |-> [c \in {} |-> None]]

TypeOK ==
    /\ now \in 0 .. MaxTime /\ fetches \in 0 .. MaxFetches /\ faulty \in BOOLEAN
    /\ \A e \in {fresh, last, good} : e \in [Category -> (0 .. now) \cup {None}]
    /\ \A r \in Request : req[r].pc \in {"idle", "look", "fetch", "keep fresh", "keep last", "look back", "shown"}

Init ==
    /\ now = 0 /\ cooldown = None /\ fetches = 0 /\ refreshes = {} /\ faulty = FALSE
    /\ fresh = [c \in Category |-> None] /\ last = fresh /\ good = fresh
    /\ req = [r \in Request |-> Idle]

-------------------------------------------------------------------------------
Begin(r, force) ==
    req' = [req EXCEPT ![r] = [Idle EXCEPT !.pc = "look", !.left = Category, !.force = force, !.began = now]]

\* live_intelligence_feed, and get_stories_for_command with the brief of every category
OpenFeed(r) ==
    /\ req[r].pc = "idle" /\ Begin(r, FALSE)
    /\ UNCHANGED <<now, fresh, last, cooldown, fetches, refreshes, good, faulty>>

\* Mutant: every click refreshes.
AddAlways == TRUE

\* cache.add: only where there is no such key
CanAdd == cooldown # None => now - cooldown >= Cooldown

\* live_intelligence_refresh: a cache that does not answer allows no refresh.
Refresh(r) ==
    /\ req[r].pc = "idle"
    /\ \/ /\ CanAdd /\ Begin(r, TRUE)
          /\ cooldown' = now /\ refreshes' = refreshes \cup {<<r, now>>}
       \/ Begin(r, FALSE) /\ UNCHANGED <<cooldown, refreshes>>
    /\ UNCHANGED <<now, fresh, last, fetches, good, faulty>>

\* The next category is looked up, and what it gave is noted.
Take(r, c) == c \in req[r].left /\ req[r].pc = "look"
Got(r, c, state, at) ==
    req' = [req EXCEPT ![r].pc = IF req[r].left \subseteq {c} THEN "shown" ELSE "look",
             ![r].left = @ \ {c}, ![r].cat = None,
             ![r].got = [x \in DOMAIN @ \cup {c} |-> IF x = c THEN [state |-> state, at |-> at, read |-> now] ELSE @[x]]]

\* Mutant: whatever is in the cache is fresh.
FreshInCache(c) == fresh[c] # None

Fresh(c) == fresh[c] # None /\ now - fresh[c] < FreshTtl

TakeCached(r, c) ==
    /\ Take(r, c) /\ ~ req[r].force /\ Fresh(c)
    /\ Got(r, c, "cached", fresh[c])
    /\ UNCHANGED <<now, fresh, last, cooldown, fetches, refreshes, good, faulty>>

\* There is no fresh copy, a refresh does not look, or the cache does not answer.
StartFetch(r, c) ==
    /\ Take(r, c) /\ fetches < MaxFetches
    /\ req' = [req EXCEPT ![r].pc = "fetch", ![r].cat = c, ![r].left = @ \ {c}]
    /\ fetches' = fetches + 1
    /\ UNCHANGED <<now, fresh, last, cooldown, refreshes, good, faulty>>

\* _fetch_category takes time; one source that fails does not fail the others.
FetchStories(r) ==
    /\ req[r].pc = "fetch"
    /\ req' = [req EXCEPT ![r].pc = "keep fresh"] /\ good' = [good EXCEPT ![req[r].cat] = now]
    /\ UNCHANGED <<now, fresh, last, cooldown, fetches, refreshes, faulty>>

FetchNothing(r) ==
    /\ req[r].pc = "fetch"
    /\ \E failed \in BOOLEAN : req' = [req EXCEPT ![r].pc = "look back", ![r].failed = failed]
    /\ UNCHANGED <<now, fresh, last, cooldown, fetches, refreshes, good, faulty>>

KeepFresh(r) ==
    /\ req[r].pc = "keep fresh" /\ req' = [req EXCEPT ![r].pc = "keep last"]
    /\ \/ fresh' = [fresh EXCEPT ![req[r].cat] = now] /\ UNCHANGED faulty
       \/ faulty' = TRUE /\ UNCHANGED fresh
    /\ UNCHANGED <<now, last, cooldown, fetches, refreshes, good>>

KeepLast(r) ==
    /\ req[r].pc = "keep last" /\ Got(r, req[r].cat, "live", now)
    /\ \/ last' = [last EXCEPT ![req[r].cat] = now] /\ UNCHANGED faulty
       \/ faulty' = TRUE /\ UNCHANGED last
    /\ UNCHANGED <<now, fresh, cooldown, fetches, refreshes, good>>

\* Mutant: the older copy is kept as long as the fresh one.
LastAsFresh(c) == last[c] # None /\ now - last[c] < FreshTtl

LastGood(c) == last[c] # None /\ now - last[c] < LastTtl

\* The sources gave nothing: an older copy, or an honest answer.
LookBack(r) ==
    LET c == req[r].cat IN
    /\ req[r].pc = "look back"
    /\ \/ LastGood(c) /\ Got(r, c, "stale", last[c]) /\ UNCHANGED faulty
       \/ /\ Got(r, c, IF req[r].failed THEN "unavailable" ELSE "empty", None)
          /\ faulty' = (faulty \/ LastGood(c))
    /\ UNCHANGED <<now, fresh, last, cooldown, fetches, refreshes, good>>

\* The page is rendered, or the worker dies anywhere.
Close(r) ==
    /\ req[r].pc # "idle" /\ req' = [req EXCEPT ![r] = Idle]
    /\ faulty' = (faulty \/ req[r].pc \in {"keep fresh", "keep last"})
    /\ UNCHANGED <<now, fresh, last, cooldown, fetches, refreshes, good>>

\* An entry is evicted.
Evict(c) ==
    /\ \/ fresh[c] # None /\ fresh' = [fresh EXCEPT ![c] = None] /\ UNCHANGED <<last, faulty>>
       \/ last[c] # None /\ last' = [last EXCEPT ![c] = None] /\ faulty' = TRUE /\ UNCHANGED fresh
    /\ UNCHANGED <<now, cooldown, req, fetches, refreshes, good>>

\* No time passes between the end of a fetch and what is done with it.
Tick ==
    /\ now < MaxTime /\ \A r \in Request : req[r].pc \notin {"keep fresh", "keep last", "look back"}
    /\ now' = now + 1 /\ UNCHANGED <<fresh, last, cooldown, req, fetches, refreshes, good, faulty>>

Next ==
    \/ \E r \in Request :
         \/ OpenFeed(r) \/ Refresh(r) \/ FetchStories(r) \/ FetchNothing(r)
         \/ KeepFresh(r) \/ KeepLast(r) \/ LookBack(r) \/ Close(r)
         \/ \E c \in Category : TakeCached(r, c) \/ StartFetch(r, c)
    \/ \E c \in Category : Evict(c)
    \/ Tick

Spec == Init /\ [][Next]_vars

-------------------------------------------------------------------------------
(* Properties.                                                             *)

Results == {<<r, c>> : r \in Request, c \in Category} \cap {x \in Request \X Category : x[2] \in DOMAIN req[x[1]].got}

\* "Freshness is labelled honestly": live was fetched since this request began, cached is
\* younger than FRESH_TTL, stale younger than LAST_GOOD_TTL, and the rest shows no story.
LabelledHonestly ==
    \A x \in Results :
      LET got == req[x[1]].got[x[2]] IN
      CASE got.state = "live" -> got.at >= req[x[1]].began
        [] got.state = "cached" -> got.read - got.at < FreshTtl
        [] got.state = "stale" -> got.read - got.at < LastTtl
        [] OTHER -> got.at = None

\* Unless the cache has failed, a category has no stories only if none of its fetches found
\* any for LAST_GOOD_TTL.
ShowsWhatItHas ==
    \A x \in Results :
      LET got == req[x[1]].got[x[2]] IN
      got.at = None /\ ~ faulty => good[x[2]] = None \/ got.read - good[x[2]] >= LastTtl \/ good[x[2]] >= got.read

\* "limited to one real refresh per user per minute": whatever is clicked at the same time.
OneRefreshAMinute == \A x, y \in refreshes : x # y => x[2] - y[2] >= Cooldown \/ y[2] - x[2] >= Cooldown
===============================================================================
