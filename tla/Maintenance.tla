------------------------------ MODULE Maintenance ------------------------------
(***************************************************************************)
(* Maintenance mode (governance/maintenance.py): windows that the clock    *)
(* starts and ends, the cached state that every request is checked against *)
(* and the notices that Celery workers send for each change.  Statements   *)
(* on the database and the cache take no time; requests and workers        *)
(* interleave between them.                                                *)
(***************************************************************************)
EXTENDS Integers, FiniteSets

CONSTANTS
    Window,               \* the rows of MaintenanceWindow that may ever be created
    Visitor,              \* requests that can be in the middleware at once
    Worker,               \* Celery workers
    Times,                \* the moments a window can be planned to start or end
    Ttl,                  \* STATE_TTL
    MaxTime,              \* bound: the last moment of the run
    MaxFails,             \* bound: how often a notice task or its queueing fails
    NoWindow              \* no window is active

MaintenanceConstants ==
    /\ NoWindow \notin Window
    /\ MaxTime \in Nat /\ Times \subseteq 1 .. MaxTime
    /\ Ttl \in Nat \ {0} /\ MaxFails \in Nat

VARIABLES
    window,               \* the table
    now,                  \* timezone.now()
    cache,                \* the value of STATE_KEY
    visit,                \* where each request is in current_state, and its answer
    queue,                \* send_maintenance_notice tasks: window and kind of notice
    job,                  \* the task each worker runs
    notified,             \* the notices claimed: notified_<kind>_at of each window
    fails,                \* how many failures there were
    sent,                 \* history: how often the sending of each notice began
    changedAt             \* history: when a window last changed

notices == <<job, notified, sent>>
vars == <<window, now, cache, visit, queue, job, notified, fails, sent, changedAt>>

Null == -1
Kinds == {"scheduled", "started", "completed", "cancelled"}
Moments == {Null} \cup 0 .. MaxTime + Ttl

Row == [status : {"none", "scheduled", "active", "completed", "cancelled"},
        start : Moments, end : Moments, notifyUsers : BOOLEAN]
NoRow == [status |-> "none", start |-> Null, end |-> Null, notifyUsers |-> FALSE]

\* The cached snapshot: the active window and when the answer changes by itself.
State == [there : BOOLEAN, active : Window \cup {NoWindow}, next : Moments, expires : Moments]
NoState == [there |-> FALSE, active |-> NoWindow, next |-> Null, expires |-> Null]

Open(w) == window[w].status \in {"scheduled", "active"}

TypeOK ==
    /\ window \in [Window -> Row]
    /\ \A v, w \in Window : Open(v) /\ Open(w) => v = w
    /\ now \in 0 .. MaxTime
    /\ cache \in State
    /\ visit \in [Visitor -> [pc : {"idle", "advance", "read", "store"}, state : State]]
    /\ queue \in SUBSET (Window \X Kinds)
    /\ job \in [Worker -> [pc : {"idle", "claim", "send", "sending"}, of : Window \cup {NoWindow},
                           kind : Kinds \cup {"none"}]]
    /\ notified \in SUBSET (Window \X Kinds)
    /\ fails \in 0 .. MaxFails
    /\ sent \in [Window \X Kinds -> Nat]
    /\ changedAt \in 0 .. MaxTime

Free == [pc |-> "idle", of |-> NoWindow, kind |-> "none"]

Init ==
    /\ window = [w \in Window |-> NoRow]
    /\ now = 0 /\ changedAt = 0 /\ fails = 0
    /\ cache = NoState
    /\ visit = [r \in Visitor |-> [pc |-> "idle", state |-> NoState]]
    /\ queue = {} /\ notified = {}
    /\ job = [k \in Worker |-> Free]
    /\ sent = [n \in Window \X Kinds |-> 0]

-------------------------------------------------------------------------------
Reached(moment) == moment # Null /\ moment <= now

\* _is_due
Due(w) ==
    \/ window[w].status = "scheduled" /\ Reached(window[w].start)
    \/ window[w].status = "active" /\ Reached(window[w].end)

\* advance: a scheduled window starts, or is cancelled when it was missed
\* altogether; an active one is completed.
After(w) ==
    IF window[w].status = "active" THEN "completed"
    ELSE IF Reached(window[w].end) THEN "cancelled" ELSE "active"

Advanced == [w \in Window |->
    IF Due(w) THEN [window[w] EXCEPT !.status = After(w)] ELSE window[w]]

Kind(status) == IF status = "active" THEN "started" ELSE status

\* Commits the new table, drops the cached state and queues a notice for every
\* window that changed.  A broker outage, or a death after the commit, loses the
\* notices; that death, or a cache outage, leaves the cached state as it was.
Commit(table) ==
    LET changed == {w \in Window : table[w].status # window[w].status}
        tasks   == {<<w, Kind(table[w].status)>> : w \in changed}
    IN  /\ window' = table
        /\ IF changed = {} THEN UNCHANGED <<cache, queue, fails, changedAt>>
           ELSE /\ changedAt' = now
                /\ \/ cache' = NoState /\ queue' = queue \cup tasks /\ UNCHANGED fails
                   \/ /\ fails < MaxFails /\ fails' = fails + 1
                      /\ UNCHANGED queue
                      /\ cache' \in {NoState, cache}

\* Mutant: nobody looks for an open window first.
CreateAnother(w, row) ==
    /\ window[w].status = "none"
    /\ Commit([Advanced EXCEPT ![w] = row])
    /\ UNCHANGED <<now, visit, notices>>

\* enable_now and schedule: _create first applies what the clock made due, then
\* refuses a second open window.
Create(w, row) ==
    /\ window[w].status = "none"
    /\ \A v \in Window : Advanced[v].status \notin {"scheduled", "active"}
    /\ Commit([Advanced EXCEPT ![w] = row])
    /\ UNCHANGED <<now, visit, notices>>

EnableNow(w, end, mail) ==
    /\ end = Null \/ end > now
    /\ Create(w, [status |-> "active", start |-> Null, end |-> end, notifyUsers |-> mail])

Schedule(w, start, end, mail) ==
    /\ start > now /\ end > start
    /\ Create(w, [status |-> "scheduled", start |-> start, end |-> end, notifyUsers |-> mail])

Close(w, from, to) ==
    /\ window[w].status = from
    /\ Commit([window EXCEPT ![w].status = to])
    /\ UNCHANGED <<now, visit, notices>>

Cancel(w) == Close(w, "scheduled", "cancelled")
End(w)    == Close(w, "active", "completed")

\* The beat task, every minute: advance and invalidate.
AdvanceMaintenance ==
    /\ \/ \E w \in Window : Due(w)
       \/ cache # NoState
    /\ IF \E w \in Window : Due(w)
         THEN Commit(Advanced)
         ELSE cache' = NoState /\ UNCHANGED <<window, queue, fails, changedAt>>
    /\ UNCHANGED <<now, visit, notices>>

-------------------------------------------------------------------------------
\* current_state, asked by the middleware on every request: the cached state is
\* the answer unless it is gone, expired, or due to change.
Fresh == cache.there /\ now < cache.expires
\* Mutants: the planned change is not looked at; the state never expires.
UsableUntilExpired == Fresh
UsableForever == cache.there /\ ~Reached(cache.next)

Usable == Fresh /\ ~Reached(cache.next)

Visit(r) ==
    /\ visit[r].pc = "idle"
    /\ visit' = [visit EXCEPT ![r] =
         IF Usable THEN [@ EXCEPT !.state = cache] ELSE [pc |-> "advance", state |-> NoState]]
    /\ UNCHANGED <<window, now, cache, queue, notices, fails, changedAt>>

\* _load_state
VisitAdvance(r) ==
    /\ visit[r].pc = "advance"
    /\ visit' = [visit EXCEPT ![r].pc = "read"]
    /\ Commit(Advanced)
    /\ UNCHANGED <<now, notices>>

Snapshot ==
    LET w == CHOOSE v \in Window : Open(v) IN
    IF ~\E v \in Window : Open(v)
      THEN [NoState EXCEPT !.there = TRUE]
    ELSE IF window[w].status = "active"
      THEN [NoState EXCEPT !.there = TRUE, !.active = w, !.next = window[w].end]
      ELSE [NoState EXCEPT !.there = TRUE, !.next = window[w].start]

VisitRead(r) ==
    /\ visit[r].pc = "read"
    /\ visit' = [visit EXCEPT ![r] = [pc |-> "store", state |-> Snapshot]]
    /\ UNCHANGED <<window, now, cache, queue, notices, fails, changedAt>>

VisitStore(r) ==
    /\ visit[r].pc = "store"
    /\ cache' = [visit[r].state EXCEPT !.expires = now + Ttl]
    /\ visit' = [visit EXCEPT ![r].pc = "idle"]
    /\ UNCHANGED <<window, now, queue, notices, fails, changedAt>>

VisitStep(r) == VisitAdvance(r) \/ VisitRead(r) \/ VisitStore(r)

-------------------------------------------------------------------------------
\* Mutant: a withdrawal is sent to whoever wants notices.
SilentUnlessWanted(w, kind) == ~window[w].notifyUsers

\* deliver_notice: nothing is sent when users are not to be told, nor a withdrawal
\* of a window nobody was told about ...
Silent(w, kind) ==
    \/ ~window[w].notifyUsers
    \/ kind = "cancelled" /\ <<w, "scheduled">> \notin notified

TakeTask(k, w, kind) ==
    /\ job[k].pc = "idle"
    /\ <<w, kind>> \in queue
    /\ queue' = queue \ {<<w, kind>>}
    /\ job' = [job EXCEPT ![k] =
         IF Silent(w, kind) THEN Free ELSE [pc |-> "claim", of |-> w, kind |-> kind]]
    /\ UNCHANGED <<window, now, cache, visit, notified, fails, sent, changedAt>>

\* Mutant: the UPDATE does not say WHERE the column IS NULL.
ClaimNoticeAgain(k) ==
    /\ job[k].pc = "claim"
    /\ notified' = notified \cup {<<job[k].of, job[k].kind>>}
    /\ job' = [job EXCEPT ![k].pc = "send"]
    /\ UNCHANGED <<window, now, cache, visit, queue, fails, sent, changedAt>>

\* ... the notice is claimed by one UPDATE ...
ClaimNotice(k) ==
    LET n == <<job[k].of, job[k].kind>> IN
    /\ job[k].pc = "claim"
    /\ notified' = notified \cup {n}
    /\ job' = [job EXCEPT ![k] = IF n \in notified THEN Free ELSE [@ EXCEPT !.pc = "send"]]
    /\ UNCHANGED <<window, now, cache, visit, queue, fails, sent, changedAt>>

\* ... and sent by the worker that won, to one user after the other.
SendNotice(k) ==
    /\ job[k].pc = "send"
    /\ sent' = [sent EXCEPT ![<<job[k].of, job[k].kind>>] = @ + 1]
    /\ job' = [job EXCEPT ![k].pc = "sending"]
    /\ UNCHANGED <<window, now, cache, visit, queue, notified, fails, changedAt>>

FinishTask(k) ==
    /\ job[k].pc = "sending"
    /\ job' = [job EXCEPT ![k] = Free]
    /\ UNCHANGED <<window, now, cache, visit, queue, notified, fails, sent, changedAt>>

\* An unexpected error in a task, perhaps when some users have been told: it is
\* retried from the start.
RetryTask(k) ==
    /\ job[k].pc # "idle"
    /\ fails < MaxFails
    /\ fails' = fails + 1
    /\ queue' = queue \cup {<<job[k].of, job[k].kind>>}
    /\ job' = [job EXCEPT ![k] = Free]
    /\ UNCHANGED <<window, now, cache, visit, notified, sent, changedAt>>

Tick ==
    /\ now < MaxTime
    /\ \A r \in Visitor : visit[r].pc = "idle"
    /\ now' = now + 1
    /\ UNCHANGED <<window, cache, visit, queue, notices, fails, changedAt>>

Next ==
    \/ \E w \in Window :
         \/ \E end \in Times \cup {Null}, mail \in BOOLEAN :
              EnableNow(w, end, mail) \/ \E start \in Times : Schedule(w, start, end, mail)
         \/ Cancel(w) \/ End(w)
    \/ AdvanceMaintenance
    \/ \E r \in Visitor : Visit(r) \/ VisitStep(r)
    \/ \E k \in Worker :
         \/ \E w \in Window, kind \in Kinds : TakeTask(k, w, kind)
         \/ ClaimNotice(k) \/ SendNotice(k) \/ FinishTask(k) \/ RetryTask(k)
    \/ Tick

Spec == Init /\ [][Next]_vars

\* The clock runs on between requests and the site is visited; neither the beat
\* task nor an admin has to do anything.
FairSpec ==
    /\ Spec
    /\ SF_vars(Tick)
    /\ \A r \in Visitor : WF_vars(VisitStep(r)) /\ WF_vars(Visit(r))
-------------------------------------------------------------------------------
ActiveWindows == {w \in Window : window[w].status = "active"}

\* "so this is right to the second": the cached state, while it is used, says
\* which window is active.
RightToTheSecond == Usable =>
    IF cache.active = NoWindow THEN ActiveWindows = {} ELSE ActiveWindows = {cache.active}

\* STATE_TTL as "a safety net": when a request stored a state that had changed
\* under it, requests are misled for at most Ttl after that change.
MisledWithinTtl == RightToTheSecond \/ now - changedAt < Ttl

\* "a window starts and ends on time even if the Celery beat process is down": no
\* cached state closes the site at or after the window's end time.
NotBlockedAfterEnd ==
    Usable /\ cache.active # NoWindow => ~Reached(window[cache.active].end)

\* The same as liveness: a window that has an end is over some time, as long as
\* somebody visits.
SiteReopens == \A w \in Window :
    window[w].status = "active" /\ window[w].end # Null ~> window[w].status # "active"

\* "it goes out exactly once however many workers or the beat task notice the
\* transition at the same time": no notice is sent twice, retries included.
NoticeAtMostOnce == \A n \in Window \X Kinds : sent[n] <= 1

\* "nobody was told about it, so there is nothing to withdraw": nobody is told that
\* a window is withdrawn that nobody was told about.
WithdrawnMeansTold == \A w \in Window :
    sent[<<w, "cancelled">>] > 0 => <<w, "scheduled">> \in notified
===============================================================================
