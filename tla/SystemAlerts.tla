---------------------------- MODULE SystemAlerts ----------------------------
(***************************************************************************)
(* Whom the dashboard tells of what is critical (governance/dashboards.py, *)
(* notify_critical_system_alerts), and the snapshot of the server it shows *)
(* (governance/server_health.py): both are looked up and written by        *)
(* whoever opens the page, several SuperAdmins at once.                    *)
(***************************************************************************)
EXTENDS Integers, FiniteSets

CONSTANTS
    Key,                  \* what may be critical: the database, Redis, the scheduler, a task
    Admin,                \* the SuperAdmins, who open the dashboard
    Renotify,             \* SYSTEM_ALERT_RENOTIFY_HOURS
    Ttl,                  \* SERVER_HEALTH_CACHE_SECONDS
    MaxTime, MaxLoads,    \* bounds: the time of a run, the dashboards opened
    None

AlertConstants == {Renotify, Ttl, MaxTime, MaxLoads} \subseteq Nat

VARIABLES
    now,
    critical,             \* the items of level danger, as the system is now
    told,                 \* the SYSTEM_ALERT notifications
    snapshot,             \* the cached snapshot: when it was collected, when it was stored
    page,                 \* each dashboard being loaded
    loads

vars == <<now, critical, told, snapshot, page, loads>>

Closed == [at |-> "closed", keys |-> {}, item |-> None, left |-> {}, shows |-> None, since |-> None]

TypeOK ==
    /\ now \in 0 .. MaxTime /\ critical \subseteq Key /\ loads \in 0 .. MaxLoads
    /\ told \subseteq [key : Key, user : Admin, by : Admin, at : 0 .. now, read : BOOLEAN]
    /\ snapshot # None => snapshot.collected <= snapshot.stored /\ snapshot.stored <= now
    /\ \A a \in Admin : page[a].at \in {"closed", "collected", "probed", "telling"}

Init ==
    /\ now = 0 /\ critical = {} /\ told = {} /\ snapshot = None
    /\ page = [a \in Admin |-> Closed] /\ loads = 0

-------------------------------------------------------------------------------
\* The cache drops the entry Ttl after it was stored.
Cached == snapshot # None /\ now - snapshot.stored < Ttl

\* Mutant: the age of the reading itself is not looked at.
FreshInCache == Cached

\* get_snapshot: and it must have been collected less than Ttl ago.
Fresh == Cached /\ now - snapshot.collected < Ttl

\* build_system_status: the probes and, when there is no fresh one, a new snapshot.
Open(a) ==
    /\ page[a].at = "closed" /\ loads < MaxLoads /\ loads' = loads + 1
    /\ page' = [page EXCEPT ![a] = [Closed EXCEPT
                  !.keys = critical, !.since = now,
                  !.at = IF Fresh THEN "probed" ELSE "collected",
                  !.shows = IF Fresh THEN snapshot.collected ELSE now]]
    /\ UNCHANGED <<now, critical, told, snapshot>>

\* The readings take a while; the cache may not take the snapshot.
Store(a) ==
    /\ page[a].at = "collected" /\ page' = [page EXCEPT ![a].at = "probed"]
    /\ snapshot' \in {snapshot, [collected |-> page[a].shows, stored |-> now]}
    /\ UNCHANGED <<now, critical, told, loads>>

\* Mutant: nobody is taken to have been told.
RecentNone(a, k) == {}

\* Whoever was told of the key since the window before this page began.
Recent(a, k) == {n.user : n \in {m \in told : m.key = k /\ m.at >= page[a].since - Renotify}}

\* Mutant: a key that has been told to somebody is not told to the others.
RemainingIfNone(a, k) == IF Recent(a, k) = {} THEN Admin ELSE {}

Remaining(a, k) == Admin \ Recent(a, k)

\* Item by item: who has not been told of it within the window, ...
Check(a, k) ==
    /\ page[a].at = "probed" /\ k \in page[a].keys
    /\ page' = [page EXCEPT ![a].at = "telling", ![a].item = k, ![a].left = Remaining(a, k)]
    /\ UNCHANGED <<now, critical, told, snapshot, loads>>

\* ... a notification for each of them, one after the other, ...
Notify(a, u) ==
    /\ page[a].at = "telling" /\ u \in page[a].left
    /\ page' = [page EXCEPT ![a].left = @ \ {u}]
    /\ told' = told \cup {[key |-> page[a].item, user |-> u, by |-> a, at |-> now, read |-> FALSE]}
    /\ UNCHANGED <<now, critical, snapshot, loads>>

\* ... and the next item.
NextItem(a) ==
    /\ page[a].at = "telling" /\ page[a].left = {}
    /\ page' = [page EXCEPT ![a].at = "probed", ![a].keys = @ \ {page[a].item}, ![a].item = None]
    /\ UNCHANGED <<now, critical, told, snapshot, loads>>

Shown(a) ==
    /\ page[a].at = "probed" /\ page[a].keys = {} /\ page' = [page EXCEPT ![a] = Closed]
    /\ UNCHANGED <<now, critical, told, snapshot, loads>>

\* A notification fails, or the process dies.
Fail(a) ==
    /\ page[a].at # "closed" /\ page' = [page EXCEPT ![a] = Closed]
    /\ UNCHANGED <<now, critical, told, snapshot, loads>>

\* acknowledge_system_alert: the reader's own notifications of the key.
Acknowledge(a, k) ==
    LET own == {n \in told : n.user = a /\ n.key = k /\ ~ n.read} IN
    /\ own # {} /\ told' = (told \ own) \cup {[n EXCEPT !.read = TRUE] : n \in own}
    /\ UNCHANGED <<now, critical, snapshot, page, loads>>

\* The system itself, of which TaskMonitor is a part.
Change(k) ==
    /\ critical' = IF k \in critical THEN critical \ {k} ELSE critical \cup {k}
    /\ UNCHANGED <<now, told, snapshot, page, loads>>

Tick == now < MaxTime /\ now' = now + 1 /\ UNCHANGED <<critical, told, snapshot, page, loads>>

Next ==
    \/ \E a \in Admin :
         \/ Open(a) \/ Store(a) \/ NextItem(a) \/ Shown(a) \/ Fail(a)
         \/ \E u \in Admin : Notify(a, u)
         \/ \E k \in Key : Check(a, k) \/ Acknowledge(a, k)
    \/ \E k \in Key : Change(k)
    \/ Tick

Spec == Init /\ [][Next]_vars

-------------------------------------------------------------------------------
(* Properties.                                                             *)

\* The same problem tells a SuperAdmin once within the window, read or not, or once for each
\* dashboard that was being loaded at the same time.
AlertsAreSpaced ==
    \A m, n \in told :
       m # n /\ m.key = n.key /\ m.user = n.user /\ m.at <= n.at /\ n.at - m.at <= Renotify => m.by # n.by

\* A page shows the reading of now, or one that was younger than Ttl when the page was opened.
ReadingsAreFresh ==
    \A a \in Admin : page[a].at # "closed" =>
       page[a].shows = page[a].since \/ page[a].since - page[a].shows < Ttl

\* A page that gets past a critical item leaves no SuperAdmin untold of it, whatever part of
\* the others an earlier page that failed has told.
EverybodyIsTold ==
    [][\A a \in Admin : NextItem(a) =>
         \A u \in Admin : \E n \in told :
            n.key = page[a].item /\ n.user = u /\ n.at >= page[a].since - Renotify]_vars
===============================================================================
