---------------------------- MODULE PlatformProofs ----------------------------
(***************************************************************************)
(* What every part of the program relies on, proved for any number of      *)
(* browsers, processes, runs, administrators and backups: the sessions of  *)
(* an account, the second step of a sign-in, the limiter, the records of   *)
(* the scheduled tasks, the alerts and the backups.  Each component has    *)
(* its own variables.                                                      *)
(***************************************************************************)
EXTENDS SignIn, Sequences, FiniteSetTheorems, TLAPS

CONSTANTS
    MaxAttempts, MaxResends, Expiry, TrustTime, MaxPasses,
    Task, Job, Run, RunningStale, Late,
    Key, Admin, Renotify, Ttl, MaxLoads,
    DumpId, MinKept, RetentionDays, LastDay,
    Process, Limit, Window, MaxFaults,
    MaxTime,                                 \* of all but the sessions and the backups
    Nothing

VARIABLES
    required, challenge, devices, cookie, registering, mNow, revokes, guesses,
    tNow, enabled, dispatched, rec, run, signals, outcome, diedAt, mixed,
    aNow, critical, told, snapshot, page, loads,
    bNow, bucket, job, stored, verified,
    counts, fallback, now, up, shared, local, pc, verdict, counted, faults

SecondStep == INSTANCE TrustedDevice WITH now <- mNow
Tasks == INSTANCE TaskMonitor WITH now <- tNow, None <- Nothing
Alerts == INSTANCE SystemAlerts WITH now <- aNow, None <- Nothing
Dumps == INSTANCE Backups WITH
    Job <- DumpId, Retention <- RetentionDays, MaxTime <- LastDay, now <- bNow, None <- Nothing
Limiter == INSTANCE RateLimit

ASSUME DeviceAssumption == SecondStep!TrustedDeviceConstants
ASSUME MonitorAssumption == Tasks!MonitorConstants
ASSUME AlertAssumption == Alerts!AlertConstants
ASSUME BackupAssumption == Dumps!BackupConstants
ASSUME LimiterAssumption == Limiter!RateLimitConstants

-------------------------------------------------------------------------------
\* Whatever forms are saved over a sign-in, only the newest session is served; the second
\* step cannot be guessed on and on, and is skipped only where it was passed.
AccountsSafe ==
    /\ SessionsSafe
    /\ SecondStep!TypeOK /\ SecondStep!GuessesBounded /\ SecondStep!OneDevice /\ SecondStep!SkipIsEarned

\* The status page reports what the tasks signalled, its readings are of now, and a problem
\* that goes on is not told over and over; failed, concurrent and killed backups never cost
\* the last one found whole.
UpkeepSafe ==
    /\ Tasks!TypeOK /\ Tasks!ReportsLastOutcome /\ Tasks!RunningIsReal
    /\ Alerts!TypeOK /\ Alerts!AlertsAreSpaced /\ Alerts!ReadingsAreFresh
    /\ Dumps!TypeOK /\ Dumps!LastWholeKept /\ Dumps!NewestKept

\* Whoever is shown a critical item leaves no SuperAdmin untold of it.
EverybodyIsTold == Alerts!EverybodyIsTold

\* The limiter's count keeps to its bound while the cache stays up, whoever calls at once, and
\* whatever the cache does nobody is turned away who was not counted.
LimiterHolds ==
    /\ [](Limiter!TypeOK /\ Limiter!CountedBounded)
    /\ Limiter!OnlyBlocksCounted

-------------------------------------------------------------------------------
\* Proofs: one session at a time, for every number of browsers, tokens and password
\* changes, and whichever views are used.

\* A session is dated by its token: the account's own is the newest sign-in's, any other an
\* older one's.
Dated(b, token, at) ==
    session[b].mine # None =>
        IF session[b].mine = token THEN session[b].since = at ELSE session[b].since < signIns

\* ... and a request that has loaded the account goes by the token it saw then.
CheckDated(b) ==
    IF req[b].seen.token = None THEN session[b].mine = None /\ req[b].at = 0
    ELSE Dated(b, req[b].seen.token, req[b].at)

\* Tokens are given out in order, so a new one is nobody's yet; and nothing is dated later
\* than now.
Known(b) ==
    /\ session[b].mine <= issued /\ session[b].since <= signIns
    /\ req[b].seen.token <= issued /\ req[b].at <= signIns

BrowserInv(b) ==
    /\ Known(b)
    /\ req[b].pc = "link" => req[b].link.pw = req[b].seen.pw
    /\ ~lost =>
         /\ row.token = None => session[b].mine = None
         /\ session[b].in => Dated(b, row.token, signIns)
         /\ req[b].pc = "check" => CheckDated(b)
         /\ req[b].pc = "view" => session[b].since = req[b].at

\* Nobody has signed in while the account has no token, and a link that was used is of an
\* older password.
AccountInv ==
    /\ row.token <= issued
    /\ ~lost => (row.token = None => signIns = 0) /\ \A l \in used : l.pw < row.pw

SessionInv == TypeOK /\ AccountInv /\ \A b \in Browser : BrowserInv(b)

LEMMA Numbers ==
    ASSUME SignInConstants
    PROVE  Timeout \in Nat /\ MaxTokens \in Nat /\ MaxResets \in Nat
BY DEF SignInConstants

Request == [pc : {"idle", "check", "view", "link", "login"}, seen : Row, at : Nat, link : Link]

LEMMA Empty ==
    ASSUME SignInConstants
    PROVE  /\ SignedOut \in Session /\ ~SignedOut.in /\ SignedOut.mine = None /\ SignedOut.since = 0
           /\ Idle \in Request /\ Idle.pc = "idle" /\ Idle.seen.token = 0 /\ Idle.at = 0 /\ Fresh \in Row
BY Numbers DEF SignedOut, Session, Idle, Request, Fresh, Row, Link, None

LEMMA SessionInvInit == ASSUME SignInConstants PROVE Init => SessionInv
<1> SUFFICES ASSUME Init PROVE SessionInv
  OBVIOUS
<1>1. Legacy \in Session /\ Legacy.mine = None /\ Legacy.since = 0
  BY Empty, Numbers DEF Legacy, SignedOut, Session, None
<1>2. \A b \in Browser : session[b] \in Session /\ session[b].mine = None /\ session[b].since = 0 /\ req[b] = Idle
  BY <1>1, Empty DEF Init
<1>3. session \in [Browser -> Session] /\ req \in [Browser -> Request]
  BY <1>2, Empty DEF Init
<1>4. row.token = 0 /\ row \in Row
  BY Empty DEF Init, Fresh, None
<1>5. issued = 0 /\ links = {} /\ used = {} /\ signIns = 0 /\ lost = FALSE
  BY DEF Init
<1>6. TypeOK
  <2>1. \A b \in Browser : req[b].pc = "idle"
    BY <1>2, Empty
  <2>2. issued \in 0 .. MaxTokens
    BY <1>5, Numbers
  <2>3. lost \in BOOLEAN
    BY <1>5
  <2>4. links \in SUBSET Link /\ used \in SUBSET Link
    BY <1>5
  <2>5. \A b \in Browser : req[b].pc \notin {"check", "view"}
    BY <2>1
  <2>6. signIns \in Nat
    BY <1>5
  <2>7. QED
    BY <1>3, <1>4, <2>2, <2>3, <2>4, <2>5, <2>6 DEF TypeOK, Request
<1>7. AccountInv /\ \A b \in Browser : BrowserInv(b)
  BY <1>2, <1>4, <1>5, Empty DEF AccountInv, BrowserInv, Known, CheckDated, Dated, None
<1>8. QED
  BY <1>6, <1>7 DEF SessionInv

-------------------------------------------------------------------------------
LEMMA Typed ==
    ASSUME SignInConstants, SessionInv, NEW b \in Browser
    PROVE  /\ session[b] \in Session /\ req[b] \in Request /\ row \in Row
           /\ session[b].mine \in Nat /\ session[b].since \in Nat /\ req[b].seen.token \in Nat /\ req[b].at \in Nat
           /\ row.token \in Nat /\ row.pw \in Nat /\ issued \in Nat /\ signIns \in Nat
           /\ req[b].seen.pw \in Nat /\ req[b].link.pw \in Nat
<1>1. session[b] \in Session /\ req[b] \in Request /\ row \in Row /\ issued \in 0 .. MaxTokens /\ signIns \in Nat
  BY DEF SessionInv, TypeOK, Request
<1>2. req[b].seen \in Row /\ req[b].link \in Link /\ req[b].at \in Nat
  BY <1>1 DEF Request
<1>3. session[b].mine \in Nat /\ session[b].since \in Nat /\ issued \in Nat
  BY <1>1, Numbers DEF Session
<1>4. req[b].seen.token \in Nat /\ req[b].seen.pw \in Nat /\ req[b].link.pw \in Nat /\ row.token \in Nat /\ row.pw \in Nat
  BY <1>1, <1>2, Numbers DEF Row, Link
<1>5. QED
  BY <1>1, <1>2, <1>3, <1>4

\* A new token of the account, by a sign-in or for the first session that is let in.
Renewed ==
    /\ issued' = issued + 1 /\ row'.token = issued + 1
    /\ \/ signIns' = signIns + 1
       \/ signIns' = signIns /\ row.token = None
Kept == issued' = issued /\ row'.token = row.token /\ signIns' = signIns

\* What happens in another browser.
LEMMA OthersKeep ==
    ASSUME SignInConstants, SessionInv, NEW d \in Browser, session'[d] = session[d], req'[d] = req[d],
           lost => lost', ~lost' => Renewed \/ Kept, issued' \in {issued, issued + 1}, signIns' \in {signIns, signIns + 1}
    PROVE  BrowserInv(d)'
<1>1. /\ session[d].mine \in Nat /\ session[d].since \in Nat /\ req[d].seen.token \in Nat /\ req[d].at \in Nat
      /\ row.token \in Nat /\ issued \in Nat /\ signIns \in Nat
  BY Typed
<1>2. BrowserInv(d)
  BY DEF SessionInv
<1>3. Known(d)'
  BY <1>1, <1>2 DEF BrowserInv, Known
<1>4. ASSUME ~lost', Kept PROVE BrowserInv(d)'
  BY <1>2, <1>3, <1>4 DEF BrowserInv, CheckDated, Dated, Kept
<1>5. ASSUME ~lost', Renewed PROVE BrowserInv(d)'
  <2>1. row'.token # None /\ row'.token # session[d].mine /\ (row.token = None => session[d].mine = None)
          /\ (signIns' = signIns + 1 \/ session[d].mine = None)
    BY <1>1, <1>2, <1>5 DEF BrowserInv, Known, Renewed, None
  <2>2. session[d].mine # None => session[d].since < signIns'
    BY <1>1, <1>2, <2>1 DEF BrowserInv, Known
  <2>3. session[d].in => Dated(d, row.token, signIns)'
    BY <2>1, <2>2 DEF Dated
  <2>4. req[d].pc = "check" => CheckDated(d)'
    BY <1>2, <1>5, <2>2 DEF BrowserInv, CheckDated, Dated
  <2>5. QED
    BY <1>2, <1>3, <1>5, <2>1, <2>3, <2>4 DEF BrowserInv
<1>6. QED
  BY <1>2, <1>3, <1>4, <1>5 DEF BrowserInv

\* A step of browser b that makes its session s and its request q.
LEMMA StepKeeps ==
    ASSUME SignInConstants, SessionInv, NEW b \in Browser, NEW s \in Session, NEW q \in Request,
           session' = [session EXCEPT ![b] = s], req' = [req EXCEPT ![b] = q], q.pc \in {"check", "view"} => s.in,
           row' \in Row, issued' \in 0 .. MaxTokens, links' \in SUBSET Link, used' \in SUBSET Link,
           lost' \in BOOLEAN, lost => lost', ~lost' => Renewed \/ Kept,
           issued' \in {issued, issued + 1}, signIns' \in {signIns, signIns + 1}, AccountInv', BrowserInv(b)'
    PROVE  SessionInv'
<1>1. session \in [Browser -> Session] /\ req \in [Browser -> Request]
  BY DEF SessionInv, TypeOK, Request
<1>2. session' \in [Browser -> Session] /\ req' \in [Browser -> Request]
        /\ session'[b] = s /\ req'[b] = q /\ \A d \in Browser : d # b => session'[d] = session[d] /\ req'[d] = req[d]
  BY <1>1
<1>3. \A d \in Browser : BrowserInv(d)'
  BY <1>2, OthersKeep
<1>4. \A d \in Browser : req'[d].pc \in {"check", "view"} => session'[d].in
  BY <1>2 DEF SessionInv, TypeOK
<1>5. signIns' \in Nat
  BY Typed
<1>6. TypeOK'
  BY <1>2, <1>4, <1>5 DEF TypeOK, Request
<1>7. QED
  BY <1>3, <1>6 DEF SessionInv

\* ... when nothing of the account changes but the columns no session goes by.
LEMMA QuietKeeps ==
    ASSUME SignInConstants, SessionInv, NEW b \in Browser, NEW s \in Session, NEW q \in Request,
           session' = [session EXCEPT ![b] = s], req' = [req EXCEPT ![b] = q], q.pc \in {"check", "view"} => s.in,
           UNCHANGED <<row, issued, used, signIns, lost>>, links' \in SUBSET Link, BrowserInv(b)'
    PROVE  SessionInv'
<1>1. row' \in Row /\ issued' \in 0 .. MaxTokens /\ used' \in SUBSET Link /\ lost' \in BOOLEAN /\ AccountInv'
  BY DEF SessionInv, TypeOK, AccountInv
<1>2. (~lost' => Renewed \/ Kept) /\ issued' \in {issued, issued + 1} /\ signIns' \in {signIns, signIns + 1}
  BY DEF Kept
<1>3. QED
  BY <1>1, <1>2, StepKeeps

\* A request that ends, with or without its session.
LEMMA EndKeeps ==
    ASSUME SignInConstants, SessionInv, NEW b \in Browser, session'[b] \in {session[b], SignedOut}, req'[b] = Idle,
           row'.token = row.token, issued' = issued, signIns' = signIns, lost => lost'
    PROVE  BrowserInv(b)'
<1>1. BrowserInv(b) /\ session[b].mine \in Nat /\ issued \in Nat /\ signIns \in Nat
  BY Typed DEF SessionInv
<1>2. Known(b)'
  BY <1>1, Empty DEF BrowserInv, Known, None
<1>3. QED
  BY <1>1, <1>2, Empty DEF BrowserInv, Dated

LEMMA RowUpdated ==
    ASSUME NEW r \in Row, NEW n \in 0 .. MaxTokens
    PROVE  LET new == [r EXCEPT !.token = n, !.lastLogin = @ + 1]
           IN  new \in Row /\ new.token = n /\ new.pw = r.pw
<1>1. r.lastLogin + 1 \in Nat
  BY DEF Row
<1> HIDE DEF Row
<1>2. \A m \in Nat : LET new == [r EXCEPT !.token = n, !.lastLogin = m]
                     IN  new \in Row /\ new.token = n /\ new.pw = r.pw
  BY DEF Row
<1>3. QED
  BY <1>1, <1>2

LEMMA SignInKeeps ==
    ASSUME SignInConstants, SessionInv, NEW b \in Browser, LogIn(b) \/ LogInFromGoogle(b)
    PROVE  SessionInv'
<1>1. /\ session[b] \in Session /\ req[b] \in Request /\ row \in Row /\ row.token \in Nat /\ issued \in Nat /\ signIns \in Nat
      /\ BrowserInv(b)
  BY Typed DEF SessionInv
<1>2. PICK s \in Session : /\ session' = [session EXCEPT ![b] = s] /\ s.in /\ s.mine = issued + 1 /\ s.since = signIns + 1
  <2>1. issued + 1 \in 0 .. MaxTokens
    BY <1>1, Numbers DEF LogIn, StartSession, LogInFromGoogle, CanIssue
  <2>2. row.pw \in 0 .. MaxResets /\ req[b].seen.pw \in 0 .. MaxResets
    BY <1>1 DEF Request, Row
  <2>3. 0 \in 0 .. Timeout + 1 /\ signIns + 1 \in Nat
    BY <1>1, Numbers
  <2>4. \A a \in 0 .. MaxResets :
          [in |-> TRUE, mine |-> issued + 1, auth |-> a, idle |-> 0, since |-> signIns + 1] \in Session
    BY <2>1, <2>3 DEF Session
  <2>5. QED
    BY <2>2, <2>4 DEF LogIn, StartSession, LogInFromGoogle, NewToken
<1>3. PICK q \in Request : req' = [req EXCEPT ![b] = q] /\ q.pc = "idle"
                        /\ q.seen.token \in Nat /\ q.seen.token <= issued /\ q.at \in Nat /\ q.at <= signIns
  <2>1. CASE LogIn(b)
    <3>1. req' = [req EXCEPT ![b] = req[b]] /\ req[b].pc = "idle"
      BY <2>1 DEF LogIn, SessionInv, TypeOK
    <3>2. req[b].seen.token \in Nat /\ req[b].seen.token <= issued /\ req[b].at \in Nat /\ req[b].at <= signIns
      BY <1>1, Typed DEF BrowserInv, Known
    <3>3. QED
      BY <1>1, <3>1, <3>2
  <2>2. CASE LogInFromGoogle(b)
    <3>1. req' = [req EXCEPT ![b] = Idle] /\ Idle \in Request /\ Idle.pc = "idle" /\ Idle.seen.token = 0 /\ Idle.at = 0
      BY <2>2, Empty DEF LogInFromGoogle
    <3>2. /\ Idle.seen.token \in Nat /\ Idle.seen.token <= issued
          /\ Idle.at \in Nat /\ Idle.at <= signIns
      BY <1>1, <3>1
    <3>3. QED
      BY <3>1, <3>2
  <2>3. QED
    BY <2>1, <2>2
<1>4. issued' = issued + 1 /\ signIns' = signIns + 1 /\ issued + 1 \in 0 .. MaxTokens /\ used' = used /\ links' = links
  BY <1>1, Numbers DEF LogIn, StartSession, LogInFromGoogle, CanIssue, NewToken
<1>5. row' \in Row /\ row'.token = issued + 1
  <2>1. \A r \in Row : [r EXCEPT !.token = issued + 1, !.lastLogin = @ + 1] \in Row
                         /\ [r EXCEPT !.token = issued + 1, !.lastLogin = @ + 1].token = issued + 1
    BY <1>4, RowUpdated
  <2>2. req[b].seen \in Row
    BY <1>1 DEF Request
  <2>3. QED
    BY <1>1, <2>1, <2>2 DEF LogIn, StartSession, LogInFromGoogle, NewToken, Save
<1>6. (lost => lost') /\ (~lost' => row'.pw = row.pw)
  <2>1. \A r \in Row : [r EXCEPT !.token = issued + 1, !.lastLogin = @ + 1].pw = r.pw
    BY <1>4, RowUpdated
  <2>2. req[b].seen \in Row
    BY <1>1 DEF Request
  <2>3. CASE LogIn(b)
    BY <1>1, <2>1, <2>3 DEF LogIn, StartSession, NewToken
  <2>4. CASE LogInFromGoogle(b)
    BY <2>1, <2>2, <2>4 DEF LogInFromGoogle, Save, NewToken
  <2>5. QED
    BY <2>3, <2>4
<1>7. lost' \in BOOLEAN
  BY DEF SessionInv, TypeOK, LogIn, LogInFromGoogle, Save
<1>8. session'[b] = s /\ req'[b] = q
  BY <1>2, <1>3 DEF SessionInv, TypeOK
<1>9. BrowserInv(b)'
  <2>1. Known(b)'
    BY <1>1, <1>2, <1>3, <1>4, <1>8 DEF Known
  <2>2. row'.token # None
    BY <1>1, <1>5 DEF None
  <2>3. QED
    BY <1>2, <1>3, <1>4, <1>5, <1>8, <2>1, <2>2 DEF BrowserInv, Dated
<1>10. AccountInv'
  <2>1. row'.token <= issued' /\ row'.token # None
    BY <1>1, <1>4, <1>5 DEF None
  <2>2. ~lost' => \A l \in used' : l.pw < row'.pw
    BY <1>4, <1>6 DEF SessionInv, AccountInv
  <2>3. QED
    BY <2>1, <2>2 DEF AccountInv
<1>11. Renewed
  BY <1>4, <1>5 DEF Renewed
<1>12. links' \in SUBSET Link /\ used' \in SUBSET Link
  BY <1>4 DEF SessionInv, TypeOK
<1>13. QED
  BY <1>2, <1>3, <1>4, <1>5, <1>6, <1>7, <1>9, <1>10, <1>11, <1>12, StepKeeps

-------------------------------------------------------------------------------
\* Steps that leave the account as it is.

LEMMA ViewKeeps ==
    ASSUME SignInConstants, SessionInv, NEW b \in Browser, ViewPage(b) \/ LogOut(b)
    PROVE  SessionInv'
<1>1. session[b] \in Session /\ SignedOut \in Session /\ Idle \in Request /\ Idle.pc = "idle"
  BY Typed, Empty
<1>2. PICK s \in {session[b], SignedOut} : session' = [session EXCEPT ![b] = s] /\ req' = [req EXCEPT ![b] = Idle]
          /\ UNCHANGED <<row, issued, used, signIns, lost, links>>
  BY DEF ViewPage, LogOut, Viewing, SessionInv, TypeOK
<1>3. session'[b] \in {session[b], SignedOut} /\ req'[b] = Idle /\ links' \in SUBSET Link
  BY <1>2 DEF SessionInv, TypeOK
<1>4. QED
  BY <1>1, <1>2, <1>3, EndKeeps, QuietKeeps

LEMMA LoadKeeps ==
    ASSUME SignInConstants, SessionInv, NEW b \in Browser, LoadUser(b)
    PROVE  SessionInv'
<1>1. /\ session[b] \in Session /\ req[b] \in Request /\ row \in Row /\ Idle \in Request
      /\ SignedOut \in Session /\ Idle.pc = "idle" /\ BrowserInv(b) /\ session[b].in /\ req[b].pc = "idle"
  BY Typed, Empty DEF SessionInv, LoadUser
<1>2. UNCHANGED <<row, issued, used, signIns, lost, links>> /\ links' \in SUBSET Link
  BY DEF LoadUser, SessionInv, TypeOK
<1>3. CASE session[b].auth # row.pw \/ session[b].idle > Timeout
  <2>1. session' = [session EXCEPT ![b] = SignedOut] /\ req' = [req EXCEPT ![b] = req[b]]
    BY <1>3 DEF LoadUser, SessionInv, TypeOK
  <2>2. session'[b] = SignedOut /\ req'[b] = req[b]
    BY <2>1 DEF SessionInv, TypeOK
  <2>3. Known(b)'
    BY <1>1, <1>2, <2>2, Typed, Empty DEF BrowserInv, Known, None
  <2>4. BrowserInv(b)'
    BY <1>1, <1>2, <2>2, <2>3, Empty DEF BrowserInv
  <2>5. QED
    BY <1>1, <1>2, <2>1, <2>4, QuietKeeps
<1>4. CASE ~(session[b].auth # row.pw \/ session[b].idle > Timeout)
  <2> DEFINE s == [session[b] EXCEPT !.idle = 0]
             q == [Idle EXCEPT !.pc = "check", !.seen = row, !.at = signIns]
  <2>1. session' = [session EXCEPT ![b] = s] /\ req' = [req EXCEPT ![b] = q]
    BY <1>4 DEF LoadUser
  <2>2. s \in Session /\ s.in /\ s.mine = session[b].mine /\ s.since = session[b].since
    BY <1>1, Numbers DEF Session
  <2>3. signIns \in Nat
    BY Typed
  <2>4. q \in Request /\ q.pc = "check" /\ q.seen = row /\ q.at = signIns
    BY <1>1, <2>3 DEF Request
  <2> HIDE DEF s, q
  <2>5. session'[b] = s /\ req'[b] = q
    BY <2>1 DEF SessionInv, TypeOK
  <2>6. Known(b)'
    BY <1>1, <1>2, <2>2, <2>3, <2>4, <2>5 DEF SessionInv, AccountInv, BrowserInv, Known
  <2>7. ~lost => CheckDated(b)'
    BY <1>1, <1>2, <2>2, <2>4, <2>5 DEF SessionInv, AccountInv, BrowserInv, CheckDated, Dated, None
  <2>8. BrowserInv(b)'
    BY <1>1, <1>2, <2>2, <2>4, <2>5, <2>6, <2>7 DEF BrowserInv, Dated
  <2>9. QED
    BY <1>2, <2>1, <2>2, <2>4, <2>8, QuietKeeps
<1>5. QED
  BY <1>3, <1>4

\* A browser that is not signed in asks for a link or comes from Google.
LEMMA OpenKeeps ==
    ASSUME SignInConstants, SessionInv, NEW b \in Browser, FindFromGoogle(b) \/ \E l \in links : OpenLink(b, l)
    PROVE  SessionInv'
<1>1. session[b] \in Session /\ req[b] \in Request /\ row \in Row /\ Idle \in Request /\ BrowserInv(b)
  BY Typed, Empty DEF SessionInv
<1>2. UNCHANGED <<row, issued, used, signIns, lost, links>> /\ links' \in SUBSET Link
  BY DEF FindFromGoogle, OpenLink, SessionInv, TypeOK
<1>3. session' = [session EXCEPT ![b] = session[b]]
  BY DEF FindFromGoogle, OpenLink, SessionInv, TypeOK
<1> DEFINE Opened(q) ==
        /\ q.seen = row /\ q.at = 0
        /\ q.pc = "login" \/ (q.pc = "link" /\ q.link.pw = row.pw)
<1>4. PICK q \in Request : req' = [req EXCEPT ![b] = q] /\ Opened(q)
  <2>1. CASE FindFromGoogle(b)
    <3>1. [Idle EXCEPT !.pc = "login", !.seen = row] \in Request
      BY <1>1 DEF Request
    <3>2. LET q == [Idle EXCEPT !.pc = "login", !.seen = row] IN q.pc = "login" /\ q.seen = row /\ q.at = 0
      BY <1>1, Empty DEF Request
    <3>3. QED
      BY <2>1, <3>1, <3>2 DEF FindFromGoogle
  <2>2. ASSUME NEW l \in links, OpenLink(b, l) PROVE \E q \in Request : req' = [req EXCEPT ![b] = q] /\ Opened(q)
    <3>1. l \in Link /\ l.pw = row.pw
      BY <2>2 DEF OpenLink, LinkValid, SessionInv, TypeOK
    <3>2. [Idle EXCEPT !.pc = "link", !.seen = row, !.link = l] \in Request
      BY <1>1, <3>1 DEF Request
    <3>3. LET q == [Idle EXCEPT !.pc = "link", !.seen = row, !.link = l]
          IN  q.pc = "link" /\ q.seen = row /\ q.at = 0 /\ q.link = l
      BY <1>1, Empty DEF Request
    <3>4. Opened([Idle EXCEPT !.pc = "link", !.seen = row, !.link = l])
      BY <3>1, <3>3
    <3>5. req' = [req EXCEPT ![b] = [Idle EXCEPT !.pc = "link", !.seen = row, !.link = l]]
      BY <2>2 DEF OpenLink
    <3> HIDE DEF Opened
    <3>6. QED
      BY <3>2, <3>4, <3>5
  <2>3. QED
    <3> HIDE DEF Opened
    <3>1. QED
      BY <2>1, <2>2
<1>5. session'[b] = session[b] /\ req'[b] = q
  BY <1>3, <1>4 DEF SessionInv, TypeOK
<1>6. Known(b)'
  BY <1>1, <1>2, <1>4, <1>5, Typed DEF SessionInv, AccountInv, BrowserInv, Known
<1>7. BrowserInv(b)'
  BY <1>1, <1>2, <1>4, <1>5, <1>6 DEF BrowserInv, Dated
<1>8. QED
  BY <1>1, <1>2, <1>3, <1>4, <1>7, QuietKeeps

LEMMA TickKeeps ==
    ASSUME SignInConstants, SessionInv, NEW b \in Browser, Tick(b)
    PROVE  SessionInv'
<1> DEFINE s == [session[b] EXCEPT !.idle = @ + 1]
<1>1. /\ session[b] \in Session /\ req[b] \in Request /\ BrowserInv(b) /\ req[b].pc = "idle"
      /\ session[b].idle <= Timeout
  BY Typed DEF SessionInv, Tick
<1>2. session[b].idle + 1 \in 0 .. Timeout + 1
  <2>1. session[b].idle \in 0 .. Timeout + 1
    BY <1>1 DEF Session
  <2>2. QED
    BY <1>1, <2>1, Numbers
<1>3. s \in Session /\ s.in = session[b].in /\ s.mine = session[b].mine /\ s.since = session[b].since
  <2>1. \A n \in 0 .. Timeout + 1 : LET r == [session[b] EXCEPT !.idle = n]
          IN  r \in Session /\ r.in = session[b].in /\ r.mine = session[b].mine /\ r.since = session[b].since
    BY <1>1 DEF Session
  <2>2. QED
    BY <1>2, <2>1
<1>4. session' = [session EXCEPT ![b] = s] /\ req' = [req EXCEPT ![b] = req[b]]
        /\ UNCHANGED <<row, issued, used, signIns, lost, links>> /\ links' \in SUBSET Link
  BY DEF Tick, SessionInv, TypeOK
<1> HIDE DEF s
<1>5. session'[b] = s /\ req'[b] = req[b]
  BY <1>4 DEF SessionInv, TypeOK
<1>6. BrowserInv(b)'
  BY <1>1, <1>3, <1>4, <1>5 DEF BrowserInv, Known, Dated
<1>7. QED
  BY <1>1, <1>3, <1>4, <1>6, QuietKeeps

LEMMA MailKeeps ==
    ASSUME SignInConstants, SessionInv, MailLink
    PROVE  SessionInv'
<1>1. row \in Row /\ UNCHANGED <<row, session, req, issued, used, signIns, lost>>
  BY DEF MailLink, SessionInv, TypeOK
<1>2. [pw |-> row.pw, lastLogin |-> row.lastLogin] \in Link
  BY <1>1 DEF Row, Link
<1>3. links' \in SUBSET Link
  BY <1>2 DEF MailLink, SessionInv, TypeOK
<1>4. TypeOK'
  BY <1>1, <1>3 DEF SessionInv, TypeOK
<1>5. QED
  BY <1>1, <1>4 DEF SessionInv, AccountInv, BrowserInv, Known, CheckDated, Dated

-------------------------------------------------------------------------------
\* Steps that change the account.

LEMMA EverywhereKeeps ==
    ASSUME SignInConstants, SessionInv, NEW b \in Browser, SignOutEverywhere(b)
    PROVE  SessionInv'
<1>1. /\ row \in Row /\ row.token \in Nat /\ issued \in Nat /\ signIns \in Nat
      /\ SignedOut \in Session /\ Idle \in Request /\ Idle.pc = "idle"
  BY Typed, Empty
<1>2. /\ session' = [session EXCEPT ![b] = SignedOut] /\ req' = [req EXCEPT ![b] = Idle]
      /\ row' = [row EXCEPT !.token = issued + 1] /\ issued' = issued + 1 /\ signIns' = signIns + 1
      /\ UNCHANGED <<links, used, lost>> /\ links' \in SUBSET Link /\ used' \in SUBSET Link /\ lost' \in BOOLEAN
  BY DEF SignOutEverywhere, Viewing, NewToken, SessionInv, TypeOK
<1>3. issued + 1 \in 0 .. MaxTokens
  BY <1>1, Numbers DEF SignOutEverywhere, CanIssue
<1>4. row' \in Row /\ row'.token = issued + 1 /\ row'.pw = row.pw
  BY <1>1, <1>2, <1>3 DEF Row
<1>5. session'[b] = SignedOut /\ req'[b] = Idle
  BY <1>2 DEF SessionInv, TypeOK
<1>6. row'.token # None /\ row'.token <= issued'
  BY <1>1, <1>2, <1>4 DEF None
<1>7. Known(b)'
  <2>1. 0 <= issued' /\ 0 <= signIns'
    BY <1>1, <1>2
  <2>2. QED
    BY <1>5, <2>1, Empty DEF Known, None
<1>8. BrowserInv(b)'
  BY <1>5, <1>6, <1>7, Empty DEF BrowserInv
<1>9. AccountInv'
  BY <1>2, <1>4, <1>6 DEF SessionInv, AccountInv
<1>10. QED
  BY <1>1, <1>2, <1>3, <1>4, <1>8, <1>9, StepKeeps DEF Renewed

\* What a save of a whole row writes: the row that was loaded, with the new password if
\* that is what is saved.
LEMMA SaveKeeps ==
    ASSUME SignInConstants, SessionInv, NEW b \in Browser, SaveProfile(b) \/ ChangePassword(b) \/ ResetPassword(b)
    PROVE  SessionInv'
<1>1. /\ session[b] \in Session /\ req[b] \in Request /\ row \in Row /\ Idle \in Request /\ Idle.pc = "idle"
      /\ issued \in Nat /\ BrowserInv(b)
  BY Typed, Empty DEF SessionInv
<1>2. req[b].seen \in Row /\ req[b].link \in Link /\ row.pw \in 0 .. MaxResets
  BY <1>1 DEF Request, Row
<1>3. /\ req' = [req EXCEPT ![b] = Idle] /\ UNCHANGED <<issued, links, signIns>>
      /\ Save(req[b].seen, row') /\ lost' \in BOOLEAN
      /\ issued' \in 0 .. MaxTokens /\ links' \in SUBSET Link
  BY DEF SaveProfile, ChangePassword, ResetPassword, Viewing, Save, SessionInv, TypeOK
<1>4. (lost => lost') /\ (~lost' => req[b].seen.token = row.token /\ req[b].seen.pw = row.pw)
  BY <1>3 DEF Save
<1>5. CanChange => row.pw + 1 \in 0 .. MaxResets
  BY <1>2, Numbers DEF CanChange
<1>6. row' \in Row /\ row'.token = req[b].seen.token
  <2>1. CASE SaveProfile(b)
    BY <1>2, <2>1 DEF SaveProfile, Save
  <2>2. CASE ChangePassword(b) \/ ResetPassword(b)
    <3>1. CanChange /\ row' = [req[b].seen EXCEPT !.pw = row.pw + 1]
      BY <2>2 DEF ChangePassword, ResetPassword, Save, NewPassword
    <3>2. QED
      BY <1>2, <1>5, <3>1 DEF Row
  <2>3. QED
    BY <2>1, <2>2
<1>7. PICK s \in Session : /\ session' = [session EXCEPT ![b] = s]
                          /\ s.in = session[b].in /\ s.mine = session[b].mine /\ s.since = session[b].since
  <2>1. CASE SaveProfile(b) \/ ResetPassword(b)
    <3>1. session' = [session EXCEPT ![b] = session[b]]
      BY <2>1 DEF SaveProfile, ResetPassword, SessionInv, TypeOK
    <3>2. QED
      BY <1>1, <3>1
  <2>2. CASE ChangePassword(b)
    <3>1. session' = [session EXCEPT ![b] = [session[b] EXCEPT !.auth = row.pw + 1]] /\ row.pw + 1 \in 0 .. MaxResets
      BY <1>5, <2>2 DEF ChangePassword, NewPassword, SessionInv, TypeOK
    <3>2. \A n \in 0 .. MaxResets : LET s == [session[b] EXCEPT !.auth = n]
            IN  s \in Session /\ s.in = session[b].in /\ s.mine = session[b].mine /\ s.since = session[b].since
      BY <1>1 DEF Session
    <3>3. QED
      BY <3>1, <3>2
  <2>3. QED
    BY <2>1, <2>2
<1>8. session'[b] = s /\ req'[b] = Idle
  BY <1>3, <1>7 DEF SessionInv, TypeOK
<1>9. Known(b)'
  BY <1>1, <1>3, <1>7, <1>8, Typed, Empty DEF BrowserInv, Known, None
<1>10. BrowserInv(b)'
  BY <1>1, <1>3, <1>4, <1>6, <1>7, <1>8, <1>9, Empty DEF BrowserInv, Dated
<1>11. used' \in SUBSET Link /\ (~lost' => \A l \in used' : l.pw < row'.pw)
  <2>1. CASE SaveProfile(b)
    BY <1>2, <1>4, <2>1 DEF SaveProfile, Save, SessionInv, TypeOK, AccountInv
  <2>2. CASE ChangePassword(b) \/ ResetPassword(b)
    <3>1. row' = [req[b].seen EXCEPT !.pw = row.pw + 1]
      BY <2>2 DEF ChangePassword, ResetPassword, Save, NewPassword
    <3>2. row'.pw = row.pw + 1
      BY <1>2, <3>1 DEF Row
    <3>3. \A l \in used : l \in Link /\ l.pw \in Nat
      BY Numbers DEF SessionInv, TypeOK, Link
    <3>4. ~lost' => \A l \in used : l.pw < row'.pw
      BY <1>2, <1>4, <3>2, <3>3 DEF SessionInv, AccountInv
    <3>5. req[b].pc = "link" /\ ~lost' => req[b].link.pw < row'.pw
      BY <1>1, <1>2, <1>4, <3>2 DEF BrowserInv
    <3>6. \/ used' = used
          \/ req[b].pc = "link" /\ used' = used \cup {req[b].link}
      BY <2>2 DEF ChangePassword, ResetPassword
    <3>7. used \in SUBSET Link
      BY DEF SessionInv, TypeOK
    <3>8. QED
      BY <1>2, <3>4, <3>5, <3>6, <3>7
  <2>3. QED
    BY <2>1, <2>2
<1>12. AccountInv'
  <2>1. row'.token <= issued'
    BY <1>1, <1>3, <1>6 DEF BrowserInv, Known
  <2>2. QED
    BY <1>3, <1>4, <1>6, <1>11, <2>1 DEF SessionInv, AccountInv
<1>13. (~lost' => Kept) /\ issued' \in {issued, issued + 1} /\ signIns' \in {signIns, signIns + 1}
  BY <1>3, <1>4, <1>6 DEF Kept
<1>14. QED
  BY <1>1, <1>3, <1>4, <1>6, <1>7, <1>10, <1>11, <1>12, <1>13, StepKeeps

\* The check lets a session in only if its token is the newest sign-in's, the first token
\* of the account included.
LEMMA CheckKeeps ==
    ASSUME SignInConstants, SessionInv, NEW b \in Browser, CheckSession(b)
    PROVE  SessionInv'
<1>1. /\ session[b] \in Session /\ req[b] \in Request /\ row \in Row /\ BrowserInv(b) /\ req[b].pc = "check"
      /\ session[b].in /\ issued \in Nat /\ signIns \in Nat
      /\ SignedOut \in Session /\ Idle \in Request /\ Idle.pc = "idle"
  BY Typed, Empty DEF SessionInv, TypeOK, CheckSession
<1>2. UNCHANGED <<used, signIns, lost, links>> /\ links' \in SUBSET Link /\ used' \in SUBSET Link /\ lost' \in BOOLEAN
  BY DEF CheckSession, SessionInv, TypeOK
<1>3. ASSUME NEW token, ServeOrSupersede(b, token), UNCHANGED <<row, issued>>,
             ~lost /\ session[b].mine # None /\ session[b].mine = token => session[b].since = req[b].at
      PROVE  SessionInv'
  <2>1. CASE session[b].mine # None /\ session[b].mine = token
    <3> DEFINE q == [req[b] EXCEPT !.pc = "view"]
    <3>1. session' = [session EXCEPT ![b] = session[b]] /\ req' = [req EXCEPT ![b] = q]
      BY <1>3, <2>1 DEF ServeOrSupersede, SessionInv, TypeOK
    <3>2. q \in Request /\ q.pc = "view" /\ q.seen = req[b].seen /\ q.at = req[b].at
      BY <1>1 DEF Request
    <3> HIDE DEF q
    <3>3. session'[b] = session[b] /\ req'[b] = q
      BY <3>1 DEF SessionInv, TypeOK
    <3>4. BrowserInv(b)'
      BY <1>1, <1>2, <1>3, <2>1, <3>2, <3>3 DEF BrowserInv, Known, Dated
    <3>5. QED
      BY <1>1, <1>2, <1>3, <3>1, <3>2, <3>4, QuietKeeps
  <2>2. CASE ~(session[b].mine # None /\ session[b].mine = token)
    <3>1. session' = [session EXCEPT ![b] = SignedOut] /\ req' = [req EXCEPT ![b] = Idle]
      BY <1>3, <2>2 DEF ServeOrSupersede
    <3>2. session'[b] = SignedOut /\ req'[b] = Idle
      BY <3>1 DEF SessionInv, TypeOK
    <3>3. BrowserInv(b)'
      BY <1>2, <1>3, <3>2, EndKeeps
    <3>4. QED
      BY <1>1, <1>2, <1>3, <3>1, <3>3, QuietKeeps
  <2>3. QED
    BY <2>1, <2>2
<1>4. CASE req[b].seen.token # None
  <2>1. ServeOrSupersede(b, req[b].seen.token) /\ UNCHANGED <<row, issued>>
    BY <1>4 DEF CheckSession
  <2>2. ~lost /\ session[b].mine # None /\ session[b].mine = req[b].seen.token => session[b].since = req[b].at
    BY <1>1, <1>4 DEF BrowserInv, CheckDated, Dated
  <2>3. QED
    BY <1>3, <2>1, <2>2
<1>5. CASE req[b].seen.token = None /\ row.token # None
  <2>1. ServeOrSupersede(b, row.token) /\ UNCHANGED <<row, issued>>
    BY <1>5 DEF CheckSession, Adopt
  <2>2. ~lost => session[b].mine = None
    BY <1>1, <1>5 DEF BrowserInv, CheckDated
  <2>3. QED
    BY <1>3, <2>1, <2>2
<1>6. CASE req[b].seen.token = None /\ row.token = None
  <2> DEFINE s == [session[b] EXCEPT !.mine = issued + 1, !.since = signIns]
             seen == [req[b].seen EXCEPT !.token = issued + 1]
             q == [req[b] EXCEPT !.pc = "view", !.seen = seen]
  <2>1. /\ session' = [session EXCEPT ![b] = s] /\ req' = [req EXCEPT ![b] = q]
        /\ row' = [row EXCEPT !.token = issued + 1] /\ issued' = issued + 1 /\ CanIssue
    <3>1. /\ row' = [row EXCEPT !.token = issued + 1] /\ issued' = issued + 1 /\ CanIssue
          /\ session' = [session EXCEPT ![b].mine = issued + 1, ![b].since = signIns]
          /\ req' = [req EXCEPT ![b].pc = "view", ![b].seen.token = issued + 1]
      BY <1>6 DEF CheckSession, Adopt, NewToken
    <3>2. session' = [session EXCEPT ![b] = s]
      BY <3>1 DEF SessionInv, TypeOK
    <3>3. req' = [req EXCEPT ![b] = q]
      BY <3>1 DEF SessionInv, TypeOK
    <3>4. QED
      BY <3>1, <3>2, <3>3
  <2>2. issued + 1 \in 0 .. MaxTokens
    BY <1>1, <2>1, Numbers DEF CanIssue
  <2>3. row' \in Row /\ row'.token = issued + 1 /\ row'.pw = row.pw
    BY <1>1, <2>1, <2>2 DEF Row
  <2>4. s \in Session /\ s.in /\ s.mine = issued + 1 /\ s.since = signIns
    BY <1>1, <2>2 DEF Session
  <2>5. req[b].seen \in Row
    BY <1>1 DEF Request
  <2>6. seen \in Row /\ seen.token = issued + 1
    BY <2>2, <2>5 DEF Row
  <2>7. q \in Request /\ q.pc = "view" /\ q.seen = seen /\ q.at = req[b].at
    <3> HIDE DEF seen
    <3>1. QED
      BY <1>1, <2>6 DEF Request
  <2> HIDE DEF s, q, seen
  <2>8. session'[b] = s /\ req'[b] = q
    BY <2>1 DEF SessionInv, TypeOK
  <2>9. ~lost => signIns = 0 /\ req[b].at = 0
    BY <1>1, <1>6 DEF BrowserInv, CheckDated, SessionInv, AccountInv
  <2>10. row'.token # None /\ row'.token <= issued'
    BY <1>1, <2>1, <2>3 DEF None
  <2>11. Known(b)'
    BY <1>1, <1>2, <2>1, <2>4, <2>6, <2>7, <2>8 DEF BrowserInv, Known
  <2>12. BrowserInv(b)'
    BY <1>2, <2>3, <2>4, <2>7, <2>8, <2>9, <2>10, <2>11 DEF BrowserInv, Dated
  <2>13. AccountInv'
    BY <1>2, <2>3, <2>10 DEF SessionInv, AccountInv
  <2>14. Renewed
    BY <1>2, <1>6, <2>1, <2>3 DEF Renewed
  <2>15. issued' \in 0 .. MaxTokens /\ issued' \in {issued, issued + 1} /\ signIns' \in {signIns, signIns + 1}
    BY <1>2, <2>1, <2>2
  <2>16. QED
    BY <1>2, <2>1, <2>3, <2>4, <2>7, <2>12, <2>13, <2>14, <2>15, StepKeeps
<1>7. QED
  BY <1>4, <1>5, <1>6

-------------------------------------------------------------------------------
LEMMA SessionInvKept == ASSUME SignInConstants PROVE SessionInv /\ [Next]_vars => SessionInv'
<1>1. ASSUME SessionInv, UNCHANGED vars PROVE SessionInv'
  BY <1>1 DEF vars, SessionInv, TypeOK, AccountInv, BrowserInv, Known, CheckDated, Dated
<1>2. QED
  BY <1>1, SignInKeeps, LoadKeeps, CheckKeeps, ViewKeeps, OpenKeeps, SaveKeeps, EverywhereKeeps, TickKeeps, MailKeeps
     DEF Next

\* However many browsers sign in, out and out everywhere while forms are saved: a page is
\* served only to the newest session, as long as no form writes an older account back.
THEOREM NewestIsServed == ASSUME SignInConstants PROVE Spec => []SessionsSafe
<1>1. SessionInv => SessionsSafe
  BY DEF SessionInv, BrowserInv, OnlyNewestServed, SessionsSafe
<1>2. QED
  BY <1>1, SessionInvInit, SessionInvKept, PTL DEF Spec

\* No session ends as superseded unless there is a newer one, and no reset link is good for
\* a second password.
THEOREM SessionsEndInOrder == ASSUME SignInConstants PROVE Spec => SessionsStep
<1>1. ASSUME SessionInv, NEW b \in Browser, CheckSession(b), session[b].mine # None, ~session'[b].in, ~lost
      PROVE  signIns > session[b].since
  <2>1. session[b] \in Session /\ req[b] \in Request /\ BrowserInv(b) /\ session[b].in /\ req[b].pc = "check"
    BY <1>1, Typed DEF SessionInv, TypeOK, CheckSession
  <2>2. req[b].seen.token # None
    BY <1>1, <2>1 DEF BrowserInv, CheckDated
  <2>3. session[b].mine # req[b].seen.token
    <3>1. CASE session[b].mine = req[b].seen.token
      <4>1. session' = session
        BY <1>1, <2>2, <3>1 DEF CheckSession, ServeOrSupersede
      <4>2. QED
        BY <1>1, <2>1, <4>1
    <3>2. QED
      BY <3>1
  <2>4. session[b].since < signIns
    BY <1>1, <2>1, <2>2, <2>3 DEF BrowserInv, CheckDated, Dated
  <2>5. QED
    BY <2>4, Typed, <1>1
<1>2. ASSUME SessionInv, NEW b \in Browser, NEW l \in used, OpenLink(b, l) PROVE lost
  <2>1. l.pw = row.pw /\ l \in Link
    BY <1>2 DEF OpenLink, LinkValid, SessionInv, TypeOK
  <2>2. row.pw \in Nat
    BY <1>2, Typed
  <2>3. ~(l.pw < row.pw)
    BY <2>1, <2>2
  <2>4. QED
    BY <1>2, <2>3 DEF SessionInv, AccountInv
<1>3. SessionInv /\ [Next]_vars =>
        /\ [\A b \in Browser : CheckSession(b) /\ session[b].mine # None /\ ~session'[b].in /\ ~lost =>
               signIns > session[b].since]_vars
        /\ [\A b \in Browser, l \in used : OpenLink(b, l) => lost]_vars
  BY <1>1, <1>2
<1>4. QED
  BY <1>3, SessionInvInit, SessionInvKept, PTL DEF Spec, SessionsStep, SupersededByNewer, LinkGoodOnce

-------------------------------------------------------------------------------
(* The second step of a sign-in.                                           *)

Valid(d) == ~devices[d].revoked /\ ~devices[d].overtaken

\* The registration of b made the last revocation of all, and nobody came between.
LastToRevoke(b) == registering[b].pc = "create" /\ revokes = registering[b].since + 1

\* A challenge is worth so many guesses as were spent on its codes so far.
GuessesPaid == \A b \in Browser :
    /\ guesses[b] <= MaxAttempts * (1 + MaxResends)
    /\ challenge[b].on => guesses[b] <= MaxAttempts * challenge[b].resends + challenge[b].attempts

\* A device that is not revoked was created after the last revocation, and whoever made
\* that one has not created a device yet, or has created the only one that stands.
DevicesFollow ==
    /\ IsFiniteSet(DOMAIN devices)
    /\ \A d \in DOMAIN devices : /\ devices[d].expires = devices[d].made + TrustTime
                                 /\ ~devices[d].revoked => devices[d].upTo = revokes
    /\ \A b \in Browser : cookie[b] # 0 => devices[cookie[b]].by = b
    /\ \A b \in Browser : /\ registering[b].pc = "revoke" => registering[b].since <= revokes
                          /\ registering[b].pc = "create" => registering[b].since + 1 <= revokes
                          /\ LastToRevoke(b) => \A d \in DOMAIN devices : ~Valid(d)
    /\ \A b, c \in Browser : LastToRevoke(b) /\ LastToRevoke(c) => b = c
    /\ \A d, e \in DOMAIN devices : Valid(d) /\ Valid(e) => d = e

DeviceInv == SecondStep!TypeOK /\ GuessesPaid /\ DevicesFollow

\* The instance has its own copies of the operators on finite sets: they are the same.
LEMMA DeviceSets ==
    /\ \A S : SecondStep!IsFiniteSet(S) <=> IsFiniteSet(S)
    /\ \A S : SecondStep!Cardinality(S) = Cardinality(S)
<1>1. ASSUME NEW S PROVE SecondStep!IsFiniteSet(S) <=> IsFiniteSet(S)
  BY DEF SecondStep!IsFiniteSet, IsFiniteSet
<1>2. ASSUME NEW S PROVE SecondStep!Cardinality(S) = Cardinality(S)
  BY DEF SecondStep!Cardinality, Cardinality
<1>3. QED
  BY <1>1, <1>2

LEMMA DeviceConsts ==
    /\ MaxAttempts \in Nat /\ MaxResends \in Nat /\ Expiry \in Nat /\ TrustTime \in Nat /\ MaxTime \in Nat /\ MaxPasses \in Nat
BY DeviceAssumption DEF SecondStep!TrustedDeviceConstants

LEMMA GrowsWithFactor ==
    ASSUME NEW a \in Nat, NEW r \in Nat, NEW s \in Nat, r <= s
    PROVE  a * r \in Nat /\ a * r <= a * s /\ a * (1 + r) = a + a * r
<1>1. a * r \in Nat /\ a * (1 + r) = a + a * r
  OBVIOUS
<1>2. PICK k \in Nat : s = r + k
  <2>1. s - r \in Nat /\ s = r + (s - r)
    OBVIOUS
  <2>2. QED
    BY <2>1
<1>3. a * s = a * r + a * k /\ a * k \in Nat /\ a * r \in Nat
  BY <1>2
<1>4. a * r <= a * s
  BY <1>3
<1>5. QED
  BY <1>1, <1>4

LEMMA NoChallengeTyped == SecondStep!NoChallenge \in SecondStep!Challenge /\ ~SecondStep!NoChallenge.on
BY DeviceConsts DEF SecondStep!NoChallenge, SecondStep!Challenge

\* A challenge changes, and what it has cost so far is paid for.
LEMMA ChallengeKeeps ==
    ASSUME DeviceInv, NEW b \in Browser, NEW c \in SecondStep!Challenge, challenge' = [challenge EXCEPT ![b] = c],
           NEW g \in Nat, guesses' = [guesses EXCEPT ![b] = g],
           g <= MaxAttempts * (1 + MaxResends), c.on => g <= MaxAttempts * c.resends + c.attempts,
           UNCHANGED <<required, devices, cookie, mNow, revokes>>,
           registering' = registering \/ registering' = [registering EXCEPT ![b] = [pc |-> "revoke", since |-> revokes]]
    PROVE  DeviceInv'
<1>1. SecondStep!TypeOK /\ GuessesPaid /\ DevicesFollow
  BY DEF DeviceInv
<1>2. challenge' \in [Browser -> SecondStep!Challenge] /\ guesses' \in [Browser -> Nat] /\ registering' \in [Browser -> SecondStep!Registration]
  <2>1. challenge' \in [Browser -> SecondStep!Challenge] /\ guesses' \in [Browser -> Nat]
    BY <1>1 DEF SecondStep!TypeOK
  <2>2. [pc |-> "revoke", since |-> revokes] \in SecondStep!Registration
    BY <1>1 DEF SecondStep!TypeOK, SecondStep!Registration
  <2>3. registering' \in [Browser -> SecondStep!Registration]
    BY <1>1, <2>2 DEF SecondStep!TypeOK
  <2>4. QED
    BY <2>1, <2>3
<1>3. challenge'[b] = c /\ guesses'[b] = g /\ \A x \in Browser \ {b} : challenge'[x] = challenge[x] /\ guesses'[x] = guesses[x]
  BY <1>1 DEF SecondStep!TypeOK
<1>4. SecondStep!TypeOK'
  BY <1>1, <1>2 DEF SecondStep!TypeOK
<1>5. GuessesPaid'
  <2> SUFFICES ASSUME NEW x \in Browser
               PROVE  /\ guesses'[x] <= MaxAttempts * (1 + MaxResends)
                      /\ challenge'[x].on => guesses'[x] <= MaxAttempts * challenge'[x].resends + challenge'[x].attempts
    BY DEF GuessesPaid
  <2>1. CASE x = b
    BY <1>3, <2>1
  <2>2. CASE x # b
    BY <1>1, <1>3, <2>2 DEF GuessesPaid
  <2>3. QED
    BY <2>1, <2>2
<1>6. \A x \in Browser : registering'[x].pc = "create" => registering'[x] = registering[x]
  BY <1>1 DEF SecondStep!TypeOK
<1>7. \A d : Valid(d)' <=> Valid(d)
  BY DEF Valid
<1>8. \A x \in Browser : LastToRevoke(x)' => LastToRevoke(x)
  BY <1>6 DEF LastToRevoke
<1>9. DevicesFollow'
  <2>1. \A x \in Browser : /\ registering'[x].pc = "revoke" => registering'[x].since <= revokes
                           /\ registering'[x].pc = "create" => registering'[x].since + 1 <= revokes
                           /\ LastToRevoke(x)' => \A d \in DOMAIN devices : ~Valid(d)
    <3>1. \A x \in Browser : registering'[x].pc = "revoke" => registering'[x] = registering[x] \/ registering'[x].since = revokes
      BY <1>1 DEF SecondStep!TypeOK
    <3>2. revokes \in Nat
      BY <1>1 DEF SecondStep!TypeOK
    <3>3. QED
      BY <1>1, <1>6, <1>8, <3>1, <3>2 DEF DevicesFollow
  <2>2. QED
    BY <1>1, <1>8, <2>1 DEF DevicesFollow, Valid
<1>10. QED
  BY <1>4, <1>5, <1>9 DEF DeviceInv

LEMMA ChallengeSteps ==
    ASSUME DeviceInv, NEW b \in Browser,
           SecondStep!EnterPassword(b) \/ SecondStep!EnterWrongCode(b) \/ SecondStep!EnterRightCode(b) \/ SecondStep!Resend(b) \/ SecondStep!BackToPassword(b)
    PROVE  DeviceInv'
<1> PICK c : c = challenge[b]
  OBVIOUS
<1> PICK g : g = guesses[b]
  OBVIOUS
<1>1. SecondStep!TypeOK /\ GuessesPaid
  BY DEF DeviceInv
<1>2. c \in SecondStep!Challenge /\ g \in Nat /\ g <= MaxAttempts * (1 + MaxResends) /\ (c.on => g <= MaxAttempts * c.resends + c.attempts)
      /\ guesses = [guesses EXCEPT ![b] = g] /\ mNow \in 0 .. MaxTime /\ challenge \in [Browser -> SecondStep!Challenge] /\ guesses \in [Browser -> Nat]
  BY <1>1 DEF SecondStep!TypeOK, GuessesPaid
<1>3. c.attempts \in 0 .. MaxAttempts /\ c.resends \in 0 .. MaxResends /\ c.attempts \in Nat /\ c.resends \in Nat
      /\ c \in [on : BOOLEAN, sent : 0 .. MaxTime, attempts : 0 .. MaxAttempts, resends : 0 .. MaxResends]
  BY <1>2, DeviceConsts DEF SecondStep!Challenge
<1>4. /\ MaxAttempts * c.resends \in Nat /\ MaxAttempts * c.resends <= MaxAttempts * MaxResends
      /\ MaxAttempts * MaxResends \in Nat /\ MaxAttempts * (1 + MaxResends) = MaxAttempts + MaxAttempts * MaxResends
      /\ MaxAttempts * (1 + c.resends) = MaxAttempts + MaxAttempts * c.resends
  BY <1>3, DeviceConsts, GrowsWithFactor
<1>5. CASE SecondStep!EnterPassword(b)
  <2>1. CASE ~required \/ SecondStep!Trusted(b)
    <3>1. UNCHANGED <<challenge, guesses, required, devices, cookie, registering, mNow, revokes>> /\ challenge = [challenge EXCEPT ![b] = c]
      BY <1>2, <1>5, <2>1 DEF SecondStep!EnterPassword
    <3>2. QED
      BY <1>2, <3>1, ChallengeKeeps
  <2>2. CASE ~(~required \/ SecondStep!Trusted(b))
    <3> DEFINE d == [SecondStep!NoChallenge EXCEPT !.on = TRUE, !.sent = mNow]
    <3>1. challenge' = [challenge EXCEPT ![b] = d] /\ guesses' = [guesses EXCEPT ![b] = 0]
          /\ UNCHANGED <<required, devices, cookie, registering, mNow, revokes>>
      BY <1>5, <2>2 DEF SecondStep!EnterPassword
    <3>2. d \in SecondStep!Challenge /\ d.resends = 0 /\ d.attempts = 0
      BY <1>2, NoChallengeTyped DEF SecondStep!Challenge, SecondStep!NoChallenge
    <3>3. 0 <= MaxAttempts * (1 + MaxResends) /\ 0 <= MaxAttempts * d.resends + d.attempts
      BY <1>4, <3>2, DeviceConsts
    <3> HIDE DEF d
    <3>4. QED
      BY <3>1, <3>2, <3>3, ChallengeKeeps
  <2>3. QED
    BY <2>1, <2>2
<1>6. CASE SecondStep!EnterWrongCode(b)
  <2> DEFINE d == [c EXCEPT !.attempts = @ + 1]
  <2>1. challenge' = [challenge EXCEPT ![b] = d] /\ guesses' = [guesses EXCEPT ![b] = g + 1]
        /\ UNCHANGED <<required, devices, cookie, registering, mNow, revokes>> /\ c.on /\ ~(c.attempts >= MaxAttempts)
    BY <1>2, <1>6 DEF SecondStep!EnterWrongCode, SecondStep!Exhausted
  <2>2. c.attempts + 1 \in 0 .. MaxAttempts
    BY <1>3, <2>1, DeviceConsts
  <2>3. d \in SecondStep!Challenge /\ d.resends = c.resends /\ d.attempts = c.attempts + 1
    BY <1>3, <2>2 DEF SecondStep!Challenge
  <2>4. g + 1 <= MaxAttempts * d.resends + d.attempts /\ g + 1 <= MaxAttempts * (1 + MaxResends) /\ g + 1 \in Nat
    BY <1>2, <1>3, <1>4, <2>1, <2>2, <2>3, DeviceConsts
  <2> HIDE DEF d
  <2>5. QED
    BY <2>1, <2>3, <2>4, ChallengeKeeps
<1>7. CASE SecondStep!EnterRightCode(b)
  BY <1>2, <1>7, NoChallengeTyped, ChallengeKeeps DEF SecondStep!EnterRightCode, SecondStep!GiveUp
<1>8. CASE SecondStep!Resend(b)
  <2> DEFINE d == [c EXCEPT !.sent = mNow, !.attempts = 0, !.resends = @ + 1]
  <2>1. challenge' = [challenge EXCEPT ![b] = d] /\ guesses' = guesses /\ c.on /\ c.resends < MaxResends
        /\ UNCHANGED <<required, devices, cookie, registering, mNow, revokes>>
    BY <1>2, <1>8 DEF SecondStep!Resend
  <2>2. c.resends + 1 \in 0 .. MaxResends
    BY <1>3, <2>1, DeviceConsts
  <2>3. d \in SecondStep!Challenge /\ d.resends = c.resends + 1 /\ d.attempts = 0
    <3>1. mNow \in 0 .. MaxTime /\ 0 \in 0 .. MaxAttempts /\ c \in [on : BOOLEAN, sent : 0 .. MaxTime, attempts : 0 .. MaxAttempts, resends : 0 .. MaxResends]
      BY <1>2, <1>3, DeviceConsts
    <3>2. d \in [on : BOOLEAN, sent : 0 .. MaxTime, attempts : 0 .. MaxAttempts, resends : 0 .. MaxResends]
      BY <2>2, <3>1
    <3>3. d.resends = c.resends + 1 /\ d.attempts = 0
      BY <3>1
    <3>4. QED
      BY <3>2, <3>3 DEF SecondStep!Challenge
  <2>4. g <= MaxAttempts * d.resends + d.attempts
    <3>1. MaxAttempts * d.resends = MaxAttempts + MaxAttempts * c.resends
      BY <1>3, <1>4, <2>3
    <3>2. QED
      BY <1>2, <1>3, <1>4, <2>1, <2>3, <3>1, DeviceConsts
  <2> HIDE DEF d
  <2>5. QED
    BY <1>2, <2>1, <2>3, <2>4, ChallengeKeeps
<1>9. CASE SecondStep!BackToPassword(b)
  BY <1>2, <1>9, NoChallengeTyped, ChallengeKeeps DEF SecondStep!BackToPassword, SecondStep!GiveUp
<1>10. QED
  BY <1>5, <1>6, <1>7, <1>8, <1>9

\* All devices are revoked: whoever does that, no other registration made the last one.
LEMMA RevocationKeeps ==
    ASSUME DeviceInv, NEW b \in Browser, SecondStep!RevokeOthers(b) \/ SecondStep!SignOutEverywhere(b)
    PROVE  DeviceInv'
<1>1. SecondStep!TypeOK /\ GuessesPaid /\ DevicesFollow
  BY DEF DeviceInv
<1>2. devices' = [d \in DOMAIN devices |-> [devices[d] EXCEPT !.revoked = TRUE]] /\ revokes' = revokes + 1
      /\ UNCHANGED <<required, challenge, mNow, guesses>>
  BY DEF SecondStep!RevokeOthers, SecondStep!SignOutEverywhere, SecondStep!RevokeAll
<1>3. DOMAIN devices' = DOMAIN devices
      /\ \A d \in DOMAIN devices : devices'[d] \in SecondStep!Device /\ devices'[d].revoked /\ devices'[d].by = devices[d].by
                                   /\ devices'[d].expires = devices[d].expires /\ devices'[d].made = devices[d].made
  BY <1>1, <1>2 DEF SecondStep!TypeOK, SecondStep!Device
<1>4. revokes \in Nat /\ registering \in [Browser -> SecondStep!Registration] /\ cookie \in [Browser -> {0} \cup DOMAIN devices]
  BY <1>1 DEF SecondStep!TypeOK
<1>5. /\ registering' \in [Browser -> SecondStep!Registration]
      /\ \A x \in Browser : /\ registering'[x].since = registering[x].since
                            /\ registering'[x].pc = "create" => (x = b /\ registering[x].pc = "revoke") \/ registering[x].pc = "create"
      /\ cookie' \in [Browser -> {0} \cup DOMAIN devices] /\ \A x \in Browser : cookie'[x] # 0 => cookie'[x] = cookie[x]
  <2>1. CASE SecondStep!RevokeOthers(b)
    BY <1>4, <2>1 DEF SecondStep!RevokeOthers, SecondStep!Registration
  <2>2. CASE SecondStep!SignOutEverywhere(b)
    BY <1>4, <2>2 DEF SecondStep!SignOutEverywhere, SecondStep!Registration
  <2>3. QED
    BY <2>1, <2>2
<1>6. SecondStep!TypeOK'
  BY <1>1, <1>2, <1>3, <1>4, <1>5 DEF SecondStep!TypeOK
<1>7. GuessesPaid'
  BY <1>1, <1>2 DEF GuessesPaid
<1>8. \A d \in DOMAIN devices : ~Valid(d)'
  BY <1>3 DEF Valid
<1>9. \A x \in Browser : /\ registering'[x].pc = "revoke" => registering'[x].since <= revokes'
                         /\ registering'[x].pc = "create" => registering'[x].since + 1 <= revokes'
                         /\ LastToRevoke(x)' => x = b
  <2> SUFFICES ASSUME NEW x \in Browser
               PROVE  /\ registering'[x].pc = "revoke" => registering'[x].since <= revokes'
                      /\ registering'[x].pc = "create" => registering'[x].since + 1 <= revokes'
                      /\ LastToRevoke(x)' => x = b
    OBVIOUS
  <2>1. registering[x].since \in Nat /\ registering'[x].since = registering[x].since
    BY <1>4, <1>5 DEF SecondStep!Registration
  <2>2. registering'[x].pc = "revoke" => registering[x].pc = "revoke"
    BY <1>4 DEF SecondStep!RevokeOthers, SecondStep!SignOutEverywhere, SecondStep!Registration
  <2>3. /\ registering[x].pc = "revoke" => registering[x].since <= revokes
        /\ registering[x].pc = "create" => registering[x].since + 1 <= revokes
    BY <1>1 DEF DevicesFollow
  <2>4. /\ registering'[x].pc = "revoke" => registering'[x].since <= revokes'
        /\ registering'[x].pc = "create" => registering'[x].since + 1 <= revokes'
    BY <1>2, <1>4, <1>5, <2>1, <2>2, <2>3
  <2>5. LastToRevoke(x)' => x = b
    BY <1>2, <1>4, <1>5, <2>1, <2>3 DEF LastToRevoke
  <2>6. QED
    BY <2>4, <2>5
<1>10. DevicesFollow'
  <2>1. \A d \in DOMAIN devices' : /\ devices'[d].expires = devices'[d].made + TrustTime
                                   /\ ~devices'[d].revoked => devices'[d].upTo = revokes'
    BY <1>1, <1>3 DEF DevicesFollow
  <2>2. \A x \in Browser : cookie'[x] # 0 => devices'[cookie'[x]].by = x
    BY <1>1, <1>3, <1>4, <1>5 DEF DevicesFollow
  <2>3. QED
    BY <1>1, <1>3, <1>8, <1>9, <2>1, <2>2 DEF DevicesFollow
<1>11. QED
  BY <1>6, <1>7, <1>10 DEF DeviceInv

\* A device is created: it stands if its registration made the last revocation.
LEMMA DeviceCreateKeeps ==
    ASSUME DeviceInv, NEW b \in Browser, SecondStep!CreateDevice(b)
    PROVE  DeviceInv'
<1> DEFINE n == Cardinality(DOMAIN devices) + 1
           e == [expires |-> mNow + TrustTime, revoked |-> FALSE, by |-> b, made |-> mNow,
                 upTo |-> revokes, overtaken |-> revokes # registering[b].since + 1]
<1> PICK k : k = n
  OBVIOUS
<1> PICK f : f = e
  OBVIOUS
<1>1. SecondStep!TypeOK /\ GuessesPaid /\ DevicesFollow
  BY DEF DeviceInv
<1>2. DOMAIN devices = 1 .. Cardinality(DOMAIN devices) /\ mNow \in 0 .. MaxTime /\ revokes \in Nat
      /\ registering \in [Browser -> SecondStep!Registration] /\ cookie \in [Browser -> {0} \cup DOMAIN devices]
  BY <1>1, DeviceSets DEF SecondStep!TypeOK
<1>3. PICK m \in Nat : DOMAIN devices = 1 .. m /\ Cardinality(DOMAIN devices) = m
  <2>1. Cardinality(DOMAIN devices) \in Nat
    BY <1>1, FS_CardinalityType DEF DevicesFollow
  <2>2. QED
    BY <1>2, <2>1
<1>4. k = m + 1 /\ k \notin DOMAIN devices /\ k \in Nat /\ 1 .. k = DOMAIN devices \cup {k} /\ Cardinality(1 .. k) = k
  <2>1. k = m + 1
    BY <1>3
  <2>2. 1 .. k = (1 .. m) \cup {k} /\ k \in Nat /\ k \notin 1 .. m
    BY <2>1
  <2>3. Cardinality(1 .. k) = k
    <3>1. Cardinality(1 .. k) = IF 1 > k THEN 0 ELSE k - 1 + 1
      BY <2>2, FS_Interval
    <3>2. QED
      BY <2>1, <3>1
  <2>4. QED
    BY <1>3, <2>1, <2>2, <2>3
<1>5. f \in SecondStep!Device /\ f.expires = f.made + TrustTime /\ ~f.revoked /\ f.upTo = revokes /\ f.by = b
      /\ (f.overtaken <=> revokes # registering[b].since + 1)
  <2>1. mNow \in Nat /\ mNow + TrustTime \in 0 .. MaxTime + TrustTime /\ (revokes # registering[b].since + 1) \in BOOLEAN
    BY <1>2, DeviceConsts
  <2>2. e \in SecondStep!Device
    BY <1>2, <2>1 DEF SecondStep!Device
  <2>3. QED
    BY <2>2
<1>6. /\ registering[b].pc = "create"
      /\ devices' = [i \in 1 .. k |-> IF i = k THEN f ELSE devices[i]]
      /\ cookie' = [cookie EXCEPT ![b] = k] /\ registering' = [registering EXCEPT ![b] = SecondStep!NotRegistering]
      /\ UNCHANGED <<required, challenge, mNow, revokes, guesses>>
  BY DeviceSets DEF SecondStep!CreateDevice
<1> HIDE DEF n, e
<1>7. DOMAIN devices' = DOMAIN devices \cup {k} /\ DOMAIN devices' = 1 .. Cardinality(DOMAIN devices')
      /\ devices'[k] = f /\ \A d \in DOMAIN devices : devices'[d] = devices[d]
  BY <1>4, <1>6
<1>8. registering' \in [Browser -> SecondStep!Registration] /\ \A x \in Browser : registering'[x].pc # "no" => x # b /\ registering'[x] = registering[x]
  BY <1>2, <1>6 DEF SecondStep!Registration, SecondStep!NotRegistering
<1>9. cookie' \in [Browser -> {0} \cup DOMAIN devices'] /\ cookie'[b] = k /\ \A x \in Browser \ {b} : cookie'[x] = cookie[x]
  BY <1>2, <1>6, <1>7
<1>10. SecondStep!TypeOK'
  BY <1>1, <1>5, <1>6, <1>7, <1>8, <1>9, DeviceSets DEF SecondStep!TypeOK
<1>11. GuessesPaid'
  BY <1>1, <1>6 DEF GuessesPaid
<1>12. Valid(k)' => LastToRevoke(b)
  BY <1>5, <1>6, <1>7 DEF Valid, LastToRevoke
<1>13. \A d \in DOMAIN devices : Valid(d)' <=> Valid(d)
  BY <1>7 DEF Valid
<1>14. \A x \in Browser : LastToRevoke(x)' => x # b /\ LastToRevoke(x)
  BY <1>6, <1>8 DEF LastToRevoke
<1>15. DevicesFollow'
  <2>1. \A d \in DOMAIN devices' : /\ devices'[d].expires = devices'[d].made + TrustTime
                                   /\ ~devices'[d].revoked => devices'[d].upTo = revokes'
    BY <1>1, <1>5, <1>6, <1>7 DEF DevicesFollow
  <2>2. \A x \in Browser : cookie'[x] # 0 => devices'[cookie'[x]].by = x
    BY <1>1, <1>2, <1>5, <1>7, <1>9 DEF DevicesFollow
  <2>3. \A x \in Browser : /\ registering'[x].pc = "revoke" => registering'[x].since <= revokes'
                           /\ registering'[x].pc = "create" => registering'[x].since + 1 <= revokes'
    BY <1>1, <1>6, <1>8 DEF DevicesFollow
  <2>4. \A x \in Browser : LastToRevoke(x)' => \A d \in DOMAIN devices' : ~Valid(d)'
    BY <1>1, <1>7, <1>12, <1>13, <1>14 DEF DevicesFollow
  <2>5. \A x, y \in Browser : LastToRevoke(x)' /\ LastToRevoke(y)' => x = y
    BY <1>1, <1>14 DEF DevicesFollow
  <2>6. \A d, g \in DOMAIN devices' : Valid(d)' /\ Valid(g)' => d = g
    BY <1>1, <1>7, <1>12, <1>13 DEF DevicesFollow
  <2>7. QED
    BY <1>1, <1>7, <2>1, <2>2, <2>3, <2>4, <2>5, <2>6, FS_AddElement DEF DevicesFollow
<1>16. QED
  BY <1>10, <1>11, <1>15 DEF DeviceInv

LEMMA DeviceBegins == SecondStep!Init => DeviceInv
<1> SUFFICES ASSUME SecondStep!Init PROVE DeviceInv
  OBVIOUS
<1>1. DOMAIN devices = {} /\ 1 .. Cardinality(DOMAIN devices) = DOMAIN devices
  <2>1. DOMAIN devices = {}
    BY DEF SecondStep!Init
  <2>2. Cardinality(DOMAIN devices) = 0
    BY <2>1, FS_EmptySet
  <2>3. QED
    BY <2>1, <2>2
<1>2. registering \in [Browser -> SecondStep!Registration] /\ cookie \in [Browser -> {0} \cup DOMAIN devices]
      /\ guesses \in [Browser -> Nat] /\ challenge \in [Browser -> SecondStep!Challenge]
  BY NoChallengeTyped DEF SecondStep!Init, SecondStep!Registration, SecondStep!NotRegistering
<1>3. SecondStep!TypeOK
  BY <1>1, <1>2, DeviceConsts, DeviceSets DEF SecondStep!TypeOK, SecondStep!Init
<1>4. GuessesPaid
  BY DeviceConsts, GrowsWithFactor, NoChallengeTyped DEF GuessesPaid, SecondStep!Init
<1>5. DevicesFollow
  BY <1>1, FS_EmptySet DEF DevicesFollow, SecondStep!Init, LastToRevoke, SecondStep!NotRegistering
<1>6. QED
  BY <1>3, <1>4, <1>5 DEF DeviceInv

LEMMA DeviceInvStep == DeviceInv /\ [SecondStep!Next]_SecondStep!vars => DeviceInv'
<1> SUFFICES ASSUME DeviceInv, [SecondStep!Next]_SecondStep!vars PROVE DeviceInv'
  OBVIOUS
<1>1. CASE \E b \in Browser : SecondStep!EnterPassword(b) \/ SecondStep!EnterWrongCode(b) \/ SecondStep!EnterRightCode(b) \/ SecondStep!Resend(b) \/ SecondStep!BackToPassword(b)
  BY <1>1, ChallengeSteps
<1>2. CASE \E b \in Browser : SecondStep!RevokeOthers(b) \/ SecondStep!SignOutEverywhere(b)
  BY <1>2, RevocationKeeps
<1>3. CASE \E b \in Browser : SecondStep!CreateDevice(b)
  BY <1>3, DeviceCreateKeeps
<1>4. CASE SecondStep!ToggleRequired \/ SecondStep!Tick \/ UNCHANGED SecondStep!vars
  <2>1. UNCHANGED <<challenge, devices, cookie, registering, revokes, guesses>> /\ required' \in BOOLEAN /\ mNow' \in 0 .. MaxTime
    <3>1. mNow \in 0 .. MaxTime /\ required \in BOOLEAN
      BY DEF DeviceInv, SecondStep!TypeOK
    <3>2. CASE SecondStep!ToggleRequired
      BY <3>1, <3>2 DEF SecondStep!ToggleRequired
    <3>3. CASE SecondStep!Tick
      BY <3>1, <3>3, DeviceConsts DEF SecondStep!Tick
    <3>4. CASE UNCHANGED SecondStep!vars
      BY <3>1, <3>4 DEF SecondStep!vars
    <3>5. QED
      BY <1>4, <3>2, <3>3, <3>4
  <2>2. SecondStep!TypeOK'
    BY <2>1 DEF DeviceInv, SecondStep!TypeOK
  <2>3. GuessesPaid'
    BY <2>1 DEF DeviceInv, GuessesPaid
  <2>4. DevicesFollow'
    BY <2>1 DEF DeviceInv, DevicesFollow, LastToRevoke, Valid
  <2>5. QED
    BY <2>2, <2>3, <2>4 DEF DeviceInv
<1>5. QED
  BY <1>1, <1>2, <1>3, <1>4 DEF SecondStep!Next

LEMMA DeviceInvSafe == DeviceInv => SecondStep!GuessesBounded /\ SecondStep!OneDevice /\ SecondStep!SkipIsEarned
<1> SUFFICES ASSUME DeviceInv PROVE SecondStep!GuessesBounded /\ SecondStep!OneDevice /\ SecondStep!SkipIsEarned
  OBVIOUS
<1>1. SecondStep!GuessesBounded
  BY DEF DeviceInv, GuessesPaid, SecondStep!GuessesBounded
<1>2. SecondStep!OneDevice
  BY DEF DeviceInv, DevicesFollow, Valid, SecondStep!OneDevice
<1>3. SecondStep!SkipIsEarned
  <2> SUFFICES ASSUME NEW b \in Browser, SecondStep!Trusted(b)
               PROVE  LET d == devices[cookie[b]] IN
                      /\ d.by = b /\ mNow - d.made < TrustTime
                      /\ d.overtaken \/ revokes = d.upTo
    BY DEF SecondStep!SkipIsEarned
  <2>1. cookie[b] # 0 /\ cookie[b] \in DOMAIN devices
    BY DEF DeviceInv, SecondStep!TypeOK, SecondStep!Trusted
  <2>2. devices[cookie[b]].made \in Nat /\ mNow \in Nat
    BY <2>1, DeviceConsts DEF DeviceInv, SecondStep!TypeOK, SecondStep!Device
  <2>3. QED
    BY <2>1, <2>2, DeviceConsts DEF DeviceInv, DevicesFollow, SecondStep!Trusted
<1>4. QED
  BY <1>1, <1>2, <1>3

\* The second step (accounts/mfa.py, trusted_device.py): a password buys a bounded number
\* of guesses, one device is trusted, and a browser that skips the step has earned it.
LEMMA SecondStepIsSafe == SecondStep!Spec => [](SecondStep!TypeOK /\ SecondStep!GuessesBounded /\ SecondStep!OneDevice /\ SecondStep!SkipIsEarned)
<1>1. DeviceInv => SecondStep!TypeOK
  BY DEF DeviceInv
<1>2. QED
  BY DeviceBegins, DeviceInvStep, DeviceInvSafe, <1>1, PTL DEF SecondStep!Spec

-------------------------------------------------------------------------------
(* The records of the tasks.                                               *)

RunState == [at : {"waiting", "queued", "working", "ending", "done", "dead"},
             pend : {<<>>, <<"start">>, <<"success">>, <<"failure", "end">>, <<"retry", "end">>, <<"end">>},
             read : Tasks!Update \cup {Nothing}]

\* What the record's outcome rests on; a record that is not there has none.
Top(d) == IF d = Nothing THEN 0 ELSE IF d.failure > d.success THEN d.failure ELSE d.success

OutcomeIn(d) ==
    IF d = Nothing THEN "unknown" ELSE
    IF d.failure > d.success THEN "failing" ELSE IF d.success > 0 THEN "ok" ELSE "unknown"

\* A record of the first n signals, by runs of this task, until the time t.
Plausible(d, t, n) ==
    d # Nothing => /\ d \in Tasks!Record /\ d.success <= n /\ d.failure <= n
                   /\ d.since # Nothing => d.id \in Run /\ d.since \in 0 .. t

\* What a signal s of r makes of the record d; one that bears an outcome is newer than d.
Fits(u, d, r, s, t, n) ==
    /\ s = "start" => u.id = r /\ u.since \in 0 .. t /\ u.success = d.success /\ u.failure = d.failure
    /\ s = "retry" => u = d
    /\ s = "end" => u = Tasks!Forget(d, r)
    /\ s = "success" => /\ u.success \in 1 .. n /\ u.failure = d.failure /\ d.success < u.success /\ d.failure < u.success
                        /\ u.since = Tasks!Forget(d, r).since /\ u.id = Tasks!Forget(d, r).id
    /\ s = "failure" => /\ u.failure \in 1 .. n /\ u.success = d.success /\ d.success < u.failure /\ d.failure < u.failure
                        /\ u.since = d.since /\ u.id = d.id

Pending(r) == run[r].read # Nothing
Signal(r) == Head(run[r].pend)
Base(r) == IF run[r].read.was = Nothing THEN Tasks!Empty ELSE run[r].read.was

\* What a run has yet to signal, and that its worker died with nothing left to signal if
\* no update was lost.
RunsInOrder ==
    /\ run \in [Run -> RunState] /\ signals \in Nat
    /\ \A r \in Run :
         /\ run[r].at \in {"waiting", "queued", "done"} => run[r].pend = <<>>
         /\ run[r].at = "working" => run[r].pend \in {<<>>, <<"start">>}
         /\ run[r].at = "ending" => run[r].pend \notin {<<>>, <<"start">>}
         /\ run[r].at = "dead" /\ ~mixed => run[r].pend = <<>>
         /\ Pending(r) => run[r].pend # <<>>

\* What a pending update makes of the record that it read.
UpdatesFit ==
    \A r \in Run : Pending(r) =>
       /\ Plausible(run[r].read.was, tNow, signals) /\ run[r].read.new \in Tasks!Record
       /\ Fits(run[r].read.new, Base(r), r, Signal(r), tNow, signals)

\* The update of r is that of the last outcome signalled.
LastSignal(r) ==
    /\ Pending(r)
    /\ \/ Signal(r) = "success" /\ run[r].read.new.success = signals /\ outcome = "ok"
       \/ Signal(r) = "failure" /\ run[r].read.new.failure = signals /\ outcome = "failing"

\* Unless updates mixed, the last outcome is about to be written, or it is in the record
\* and every other update that bears one has read an older record.
OutcomeKnown ==
    ~mixed => \/ \E r \in Run : LastSignal(r)
              \/ /\ OutcomeIn(rec) = outcome
                 /\ \A r \in Run : Pending(r) /\ Signal(r) \in {"success", "failure"} => Top(run[r].read.was) < Top(rec)

\* Unless updates mixed, the run that the record names goes on, or died since it began.
MarkerHolds ==
    ~mixed => (rec # Nothing => (rec.id \in Run =>
       /\ run[rec.id].at \in {"working", "ending", "dead"}
       /\ run[rec.id].at = "dead" /\ rec.since # Nothing => diedAt[rec.id] \in Nat /\ rec.since <= diedAt[rec.id]))

MonitorInv ==
    /\ Tasks!TypeOK /\ RunsInOrder /\ UpdatesFit /\ Plausible(rec, tNow, signals)
    /\ diedAt \in [Run -> Nat \cup {Nothing}] /\ OutcomeKnown /\ MarkerHolds

LEMMA MonitorConsts ==
    /\ Job \in Task /\ RunningStale \in Nat /\ Late \in Nat /\ MaxTime \in Nat
    /\ Nothing \notin Nat /\ Nothing \notin Run /\ Nothing \notin Tasks!Record /\ Nothing \notin Tasks!Update
BY MonitorAssumption DEF Tasks!MonitorConstants

LEMMA Signals ==
    /\ Head(<<"start">>) = "start" /\ Tail(<<"start">>) = <<>> /\ Len(<<"start">>) = 1
    /\ Head(<<"success">>) = "success" /\ Tail(<<"success">>) = <<>> /\ Len(<<"success">>) = 1
    /\ Head(<<"end">>) = "end" /\ Tail(<<"end">>) = <<>> /\ Len(<<"end">>) = 1
    /\ Head(<<"failure", "end">>) = "failure" /\ Tail(<<"failure", "end">>) = <<"end">> /\ Len(<<"failure", "end">>) = 2
    /\ Head(<<"retry", "end">>) = "retry" /\ Tail(<<"retry", "end">>) = <<"end">> /\ Len(<<"retry", "end">>) = 2
    /\ <<"start">> # <<>> /\ <<"success">> # <<>> /\ <<"end">> # <<>> /\ <<"failure", "end">> # <<>> /\ <<"retry", "end">> # <<>>
    /\ <<"start">> # <<"success">> /\ <<"start">> # <<"end">> /\ <<"start">> # <<"failure", "end">> /\ <<"start">> # <<"retry", "end">>
OBVIOUS

LEMMA EmptyTyped == Tasks!Empty \in Tasks!Record /\ Tasks!Empty.since = Nothing /\ Tasks!Empty.id = Nothing /\ Tasks!Empty.success = 0 /\ Tasks!Empty.failure = 0
BY DEF Tasks!Empty, Tasks!Record

\* Two records with the same counters tell the same outcome.
LEMMA SameCounters ==
    ASSUME NEW d \in Tasks!Record \cup {Nothing}, NEW e \in Tasks!Record,
           LET b == IF d = Nothing THEN Tasks!Empty ELSE d IN e.success = b.success /\ e.failure = b.failure
    PROVE  Top(e) = Top(d) /\ OutcomeIn(e) = OutcomeIn(d)
BY EmptyTyped, MonitorConsts DEF Top, OutcomeIn

LEMMA Outcomes ==
    ASSUME Plausible(rec, tNow, signals), signals \in Nat
    PROVE  Tasks!Outcome = OutcomeIn(rec)
<1>1. rec # Nothing => rec.success \in Nat /\ rec.failure \in Nat
  BY DEF Plausible, Tasks!Record
<1>2. CASE rec = Nothing
  BY <1>2 DEF Tasks!Outcome, OutcomeIn
<1>3. CASE rec # Nothing /\ rec.failure > rec.success
  BY <1>1, <1>3 DEF Tasks!Outcome, OutcomeIn
<1>4. CASE rec # Nothing /\ rec.failure <= rec.success
  BY <1>1, <1>4 DEF Tasks!Outcome, OutcomeIn
<1>5. QED
  BY <1>1, <1>2, <1>3, <1>4

LEMMA MonitorSafe == MonitorInv => Tasks!TypeOK /\ Tasks!ReportsLastOutcome /\ Tasks!RunningIsReal
<1> SUFFICES ASSUME MonitorInv PROVE Tasks!TypeOK /\ Tasks!ReportsLastOutcome /\ Tasks!RunningIsReal
  OBVIOUS
<1>1. Tasks!Outcome = OutcomeIn(rec)
  BY Outcomes DEF MonitorInv, RunsInOrder
<1>2. ASSUME Tasks!Quiet PROVE OutcomeIn(rec) = outcome
  BY <1>2 DEF Tasks!Quiet, MonitorInv, OutcomeKnown, LastSignal, Pending
<1>3. Tasks!Worker = "healthy" => Tasks!Outcome = "ok" \/ Tasks!Running
  <2> DEFINE healths == {Tasks!Health(t) : t \in {x \in Task : enabled[x]}}
  <2>1. Tasks!Worker = "healthy" => healths \cap {"ok", "running"} # {}
    <3>1. CASE healths \cap {"ok", "running"} = {}
      BY <3>1 DEF Tasks!Worker
    <3>2. QED
      BY <3>1
  <2>2. ASSUME NEW t \in Task, enabled[t], Tasks!Health(t) \in {"ok", "running"} PROVE Tasks!Outcome = "ok" \/ Tasks!Running
    <3>1. CASE Tasks!OutcomeOf(t) = "failing"
      BY <2>2, <3>1 DEF Tasks!Health
    <3>2. CASE Tasks!OutcomeOf(t) # "failing" /\ ~Tasks!Stale(t)
      <4>1. Tasks!Health(t) = IF t = Job /\ Tasks!Running THEN "running" ELSE Tasks!OutcomeOf(t)
        BY <2>2, <3>2 DEF Tasks!Health
      <4>2. CASE t = Job /\ Tasks!Running
        BY <4>2
      <4>3. CASE ~(t = Job /\ Tasks!Running)
        <5>1. Tasks!OutcomeOf(t) \in {"ok", "running"}
          BY <2>2, <4>1, <4>3
        <5>2. Tasks!OutcomeOf(t) # "unknown" => Tasks!OutcomeOf(t) = Tasks!Outcome
          BY DEF Tasks!OutcomeOf
        <5>3. Tasks!Outcome \in {"unknown", "failing", "ok"}
          BY <1>1 DEF OutcomeIn
        <5>4. QED
          BY <5>1, <5>2, <5>3
      <4>4. QED
        BY <4>2, <4>3
    <3>3. CASE Tasks!OutcomeOf(t) # "failing" /\ Tasks!Stale(t)
      BY <2>2, <3>3 DEF Tasks!Health
    <3>4. QED
      BY <3>1, <3>2, <3>3
  <2>3. QED
    BY <2>1, <2>2
<1>4. Tasks!ReportsLastOutcome
  BY <1>1, <1>2, <1>3 DEF Tasks!ReportsLastOutcome
<1>5. Tasks!RunningIsReal
  <2> SUFFICES ASSUME Tasks!Quiet, Tasks!Running
               PROVE  \E r \in Run : \/ run[r].at \in {"working", "ending"}
                                     \/ run[r].at = "dead" /\ tNow - diedAt[r] < RunningStale
    BY DEF Tasks!RunningIsReal
  <2>1. rec # Nothing /\ rec.since # Nothing /\ tNow - rec.since < RunningStale /\ rec.id \in Run /\ rec.since \in 0 .. tNow
    BY DEF Tasks!Running, MonitorInv, Plausible
  <2>2. /\ run[rec.id].at \in {"working", "ending", "dead"}
        /\ run[rec.id].at = "dead" => diedAt[rec.id] \in Nat /\ rec.since <= diedAt[rec.id]
    BY <2>1 DEF MonitorInv, MarkerHolds, Tasks!Quiet
  <2>3. tNow \in Nat
    BY MonitorConsts DEF MonitorInv, Tasks!TypeOK
  <2>4. QED
    BY <2>1, <2>2, <2>3, MonitorConsts
<1>6. QED
  BY <1>4, <1>5 DEF MonitorInv

LEMMA MonitorBegins == Tasks!Init => MonitorInv
<1> SUFFICES ASSUME Tasks!Init PROVE MonitorInv
  OBVIOUS
<1>1. run \in [Run -> RunState] /\ \A r \in Run : run[r].at = "waiting" /\ run[r].pend = <<>> /\ run[r].read = Nothing
  BY DEF Tasks!Init, Tasks!Before, RunState
<1>2. Tasks!TypeOK
  <2>1. enabled \in [Task -> BOOLEAN] /\ dispatched \in [Task -> (0 .. tNow) \cup {Nothing}]
    BY DEF Tasks!Init
  <2>2. tNow \in 0 .. MaxTime /\ rec = Nothing /\ outcome \in {"ok", "failing", "unknown"}
    BY MonitorConsts DEF Tasks!Init
  <2>3. mixed \in BOOLEAN
    BY DEF Tasks!Init
  <2>4. QED
    BY <1>1, <2>1, <2>2, <2>3 DEF Tasks!TypeOK
<1>3. RunsInOrder
  BY <1>1 DEF RunsInOrder, Pending, Tasks!Init
<1>4. UpdatesFit /\ OutcomeKnown /\ MarkerHolds
  BY <1>1 DEF UpdatesFit, OutcomeKnown, MarkerHolds, Pending, OutcomeIn, Tasks!Init
<1>5. QED
  BY <1>2, <1>3, <1>4 DEF MonitorInv, Plausible, Tasks!Init

\* The types of what a step of the runs leaves.
LEMMA StillTyped ==
    ASSUME MonitorInv, run' \in [Run -> RunState], tNow' = tNow, enabled' = enabled,
           dispatched' \in [Task -> (0 .. tNow) \cup {Nothing}],
           rec' # Nothing => rec'.id \in Run \cup {Nothing} /\ rec'.since \in (0 .. tNow) \cup {Nothing},
           outcome' \in {"ok", "failing", "unknown"}, mixed' \in BOOLEAN
    PROVE  Tasks!TypeOK'
<1>1. \A r \in Run : run'[r].at \in {"waiting", "queued", "working", "ending", "done", "dead"}
  BY DEF RunState
<1>2. QED
  BY <1>1 DEF MonitorInv, Tasks!TypeOK

\* A run goes on whose update is not pending, before or after, or its update is lost.
LEMMA RunKeeps ==
    ASSUME MonitorInv, NEW r \in Run, NEW e \in RunState, run' = [run EXCEPT ![r] = e],
           mixed' \/ (run[r].read = Nothing /\ e.read = Nothing),
           e.read = Nothing \/ (e.read = run[r].read /\ e.pend = run[r].pend),
           e.at \in {"waiting", "queued", "done"} => e.pend = <<>>,
           e.at = "working" => e.pend \in {<<>>, <<"start">>},
           e.at = "ending" => e.pend \notin {<<>>, <<"start">>},
           e.at = "dead" /\ ~mixed' => e.pend = <<>>,
           mixed' \/ (run[r].at \in {"working", "ending", "dead"} => e.at \in {"working", "ending", "dead"}),
           dispatched' \in [Task -> (0 .. tNow) \cup {Nothing}], mixed' \in BOOLEAN, mixed => mixed',
           UNCHANGED <<tNow, enabled, rec, signals, outcome>>,
           e.at = "dead" => diedAt' = [diedAt EXCEPT ![r] = tNow],
           e.at # "dead" => diedAt' = diedAt
    PROVE  MonitorInv'
<1>1. Tasks!TypeOK /\ RunsInOrder /\ UpdatesFit /\ Plausible(rec, tNow, signals) /\ diedAt \in [Run -> Nat \cup {Nothing}] /\ OutcomeKnown /\ MarkerHolds
      /\ tNow \in Nat
  BY MonitorConsts DEF MonitorInv, Tasks!TypeOK
<1>2. run' \in [Run -> RunState] /\ run'[r] = e /\ \A x \in Run \ {r} : run'[x] = run[x]
  BY <1>1 DEF RunsInOrder
<1>3. rec # Nothing => rec.id \in Run \cup {Nothing} /\ rec.since \in (0 .. tNow) \cup {Nothing}
  BY <1>1 DEF Tasks!TypeOK
<1>4. Tasks!TypeOK'
  <2>1. outcome' \in {"ok", "failing", "unknown"}
    BY <1>1 DEF Tasks!TypeOK
  <2>2. QED
    BY <1>2, <1>3, <2>1, StillTyped
<1>5. /\ \A x \in Run : Pending(x)' => Pending(x) /\ run'[x].read = run[x].read /\ run'[x].pend = run[x].pend
      /\ ~mixed' => ~Pending(r) /\ ~Pending(r)'
  BY <1>2 DEF Pending
<1>6. RunsInOrder'
  <2>1. \A x \in Run \ {r} : /\ run'[x].at \in {"waiting", "queued", "done"} => run'[x].pend = <<>>
                             /\ run'[x].at = "working" => run'[x].pend \in {<<>>, <<"start">>}
                             /\ run'[x].at = "ending" => run'[x].pend \notin {<<>>, <<"start">>}
                             /\ run'[x].at = "dead" /\ ~mixed' => run'[x].pend = <<>>
                             /\ Pending(x)' => run'[x].pend # <<>>
    BY <1>1, <1>2, <1>5 DEF RunsInOrder
  <2>2. QED
    BY <1>1, <1>2, <1>5, <2>1 DEF RunsInOrder
<1>7. Plausible(rec, tNow, signals)'
  BY <1>1
<1>8. \A x \in Run : Pending(x)' => Signal(x)' = Signal(x) /\ Base(x)' = Base(x) /\ run'[x].read = run[x].read
  BY <1>5 DEF Signal, Base
<1>9. UpdatesFit'
  BY <1>1, <1>5, <1>7, <1>8 DEF UpdatesFit
<1>10. OutcomeKnown'
  <2> SUFFICES ASSUME ~mixed' PROVE OutcomeKnown'
    BY DEF OutcomeKnown
  <2>1. CASE \E x \in Run : LastSignal(x)
    <3>1. PICK x \in Run : LastSignal(x)
      BY <2>1
    <3>2. x # r /\ run'[x] = run[x]
      BY <1>2, <1>5, <3>1 DEF LastSignal
    <3>3. LastSignal(x)'
      BY <3>1, <3>2 DEF LastSignal, Pending, Signal
    <3>4. QED
      BY <3>3 DEF OutcomeKnown
  <2>2. CASE ~\E x \in Run : LastSignal(x)
    BY <1>1, <1>5, <1>8, <2>2 DEF OutcomeKnown
  <2>3. QED
    BY <2>1, <2>2
<1>11. MarkerHolds'
  <2> SUFFICES ASSUME ~mixed', rec # Nothing, rec.id \in Run
               PROVE  /\ run'[rec.id].at \in {"working", "ending", "dead"}
                      /\ run'[rec.id].at = "dead" /\ rec.since # Nothing => diedAt'[rec.id] \in Nat /\ rec.since <= diedAt'[rec.id]
    BY DEF MarkerHolds
  <2>1. /\ run[rec.id].at \in {"working", "ending", "dead"}
        /\ run[rec.id].at = "dead" /\ rec.since # Nothing => diedAt[rec.id] \in Nat /\ rec.since <= diedAt[rec.id]
    BY <1>1 DEF MarkerHolds
  <2>2. CASE rec.id # r
    BY <1>1, <1>2, <2>1, <2>2
  <2>3. CASE rec.id = r
    BY <1>1, <1>2, <1>3, <2>1, <2>3
  <2>4. QED
    BY <2>2, <2>3
<1>12. diedAt' \in [Run -> Nat \cup {Nothing}]
  BY <1>1
<1>13. QED
  BY <1>1, <1>4, <1>6, <1>7, <1>9, <1>10, <1>11, <1>12 DEF MonitorInv

LEMMA RunSteps ==
    ASSUME MonitorInv, NEW r \in Run,
           \/ Tasks!Start(r) \/ Tasks!SkipRecord(r) \/ Tasks!Kill(r)
           \/ \E signal \in {"success", "failure", "retry"} : Tasks!Finish(r, signal)
    PROVE  MonitorInv'
<1> PICK p : p = run[r]
  OBVIOUS
<1>1. run \in [Run -> RunState] /\ p \in RunState /\ dispatched \in [Task -> (0 .. tNow) \cup {Nothing}] /\ mixed \in BOOLEAN
      /\ p \in [at : {"waiting", "queued", "working", "ending", "done", "dead"},
                pend : {<<>>, <<"start">>, <<"success">>, <<"failure", "end">>, <<"retry", "end">>, <<"end">>},
                read : Tasks!Update \cup {Nothing}]
  BY DEF MonitorInv, RunsInOrder, Tasks!TypeOK, RunState
<1>2. /\ p.at \in {"waiting", "queued", "done"} => p.pend = <<>>
      /\ p.at = "working" => p.pend \in {<<>>, <<"start">>}
      /\ p.at = "ending" => p.pend \notin {<<>>, <<"start">>}
      /\ p.at = "dead" /\ ~mixed => p.pend = <<>>
      /\ p.read # Nothing => p.pend # <<>>
  BY DEF MonitorInv, RunsInOrder, Pending
<1>3. CASE Tasks!Start(r)
  <2> DEFINE e == [p EXCEPT !.at = "working", !.pend = <<"start">>]
  <2>1. p.at = "queued" /\ run' = [run EXCEPT ![r] = e]
        /\ UNCHANGED <<tNow, enabled, dispatched, rec, signals, outcome, diedAt, mixed>>
    BY <1>3 DEF Tasks!Start
  <2>2. e \in RunState /\ e.at = "working" /\ e.pend = <<"start">> /\ e.read = p.read
    BY <1>1 DEF RunState
  <2>3. p.read = Nothing
    BY <1>2, <2>1
  <2> HIDE DEF e
  <2>4. dispatched' \in [Task -> (0 .. tNow) \cup {Nothing}] /\ mixed' \in BOOLEAN /\ (mixed => mixed')
    BY <1>1, <2>1
  <2>5. QED
    BY <2>1, <2>2, <2>3, <2>4, RunKeeps
<1>4. CASE \E signal \in {"success", "failure", "retry"} : Tasks!Finish(r, signal)
  <2>1. PICK signal \in {"success", "failure", "retry"} : Tasks!Finish(r, signal)
    BY <1>4
  <2> DEFINE q == IF signal = "success" THEN <<"success">> ELSE <<signal, "end">>
             e == [p EXCEPT !.at = "ending", !.pend = q]
  <2>2. p.at = "working" /\ p.pend = <<>> /\ run' = [run EXCEPT ![r] = e]
        /\ UNCHANGED <<tNow, enabled, dispatched, rec, signals, outcome, diedAt, mixed>>
    BY <2>1 DEF Tasks!Finish
  <2>3. q \in {<<"success">>, <<"failure", "end">>, <<"retry", "end">>}
    BY <2>1
  <2> HIDE DEF q
  <2>4. e \in RunState /\ e.at = "ending" /\ e.pend = q /\ e.read = p.read
    BY <1>1, <2>3 DEF RunState
  <2>5. p.read = Nothing
    BY <1>2, <2>2
  <2>6. q \notin {<<>>, <<"start">>}
    BY <2>3, Signals
  <2> HIDE DEF e
  <2>7. dispatched' \in [Task -> (0 .. tNow) \cup {Nothing}] /\ mixed' \in BOOLEAN /\ (mixed => mixed')
    BY <1>1, <2>2
  <2>8. QED
    BY <2>2, <2>4, <2>5, <2>6, <2>7, RunKeeps
<1>5. CASE Tasks!SkipRecord(r)
  <2> DEFINE e == [p EXCEPT !.pend = Tail(@), !.read = Nothing, !.at = IF @ = "ending" /\ Len(p.pend) = 1 THEN "done" ELSE @]
  <2>1. p.at \in {"working", "ending"} /\ p.pend # <<>> /\ mixed' = TRUE /\ run' = [run EXCEPT ![r] = e]
        /\ UNCHANGED <<tNow, enabled, dispatched, rec, signals, outcome, diedAt>>
    BY <1>5 DEF Tasks!SkipRecord, Tasks!Signalled
  <2>2. /\ p.at = "working" => p.pend = <<"start">>
        /\ p.at = "ending" => p.pend \in {<<"success">>, <<"failure", "end">>, <<"retry", "end">>, <<"end">>}
    BY <1>1, <1>2, <2>1
  <2>3. /\ p.at = "working" => Tail(p.pend) = <<>>
        /\ p.at = "ending" => \/ Len(p.pend) = 1 /\ Tail(p.pend) = <<>>
                              \/ Len(p.pend) = 2 /\ Tail(p.pend) = <<"end">>
    BY <2>2, Signals
  <2>4. \A q \in {<<>>, <<"end">>}, a \in {"working", "ending", "done"} :
           LET f == [p EXCEPT !.pend = q, !.read = Nothing, !.at = a] IN
           f \in RunState /\ f.pend = q /\ f.read = Nothing /\ f.at = a
    BY <1>1 DEF RunState
  <2>5. PICK q \in {<<>>, <<"end">>}, a \in {"working", "ending", "done"} :
          /\ Tail(p.pend) = q /\ (IF p.at = "ending" /\ Len(p.pend) = 1 THEN "done" ELSE p.at) = a
          /\ a \in {"done", "working"} => q = <<>>
          /\ a = "ending" => q = <<"end">>
    <3>1. CASE p.at = "working"
      BY <2>3, <3>1
    <3>2. CASE p.at = "ending" /\ Len(p.pend) = 1
      BY <2>3, <3>2
    <3>3. CASE p.at = "ending" /\ Len(p.pend) = 2 /\ Tail(p.pend) = <<"end">>
      BY <3>3
    <3>4. QED
      BY <2>1, <2>3, <3>1, <3>2, <3>3
  <2> DEFINE f == [p EXCEPT !.pend = q, !.read = Nothing, !.at = a]
  <2>6. run' = [run EXCEPT ![r] = f]
    BY <2>1, <2>5
  <2>7. f \in RunState /\ f.pend = q /\ f.read = Nothing /\ f.at = a
    BY <2>4
  <2> HIDE DEF e, f
  <2>8. /\ f.at \in {"waiting", "queued", "done"} => f.pend = <<>>
        /\ f.at = "working" => f.pend \in {<<>>, <<"start">>}
        /\ f.at = "ending" => f.pend \notin {<<>>, <<"start">>}
        /\ f.at # "dead"
    BY <2>5, <2>7, Signals
  <2>9. mixed' = TRUE /\ dispatched' \in [Task -> (0 .. tNow) \cup {Nothing}] /\ diedAt' = diedAt
        /\ UNCHANGED <<tNow, enabled, rec, signals, outcome>>
    BY <1>1, <2>1
  <2>10. QED
    BY <2>6, <2>7, <2>8, <2>9, RunKeeps
<1>6. CASE Tasks!Kill(r)
  <2> DEFINE e == [p EXCEPT !.at = "dead"]
  <2>1. p.at \in {"working", "ending"} /\ run' = [run EXCEPT ![r] = e] /\ diedAt' = [diedAt EXCEPT ![r] = tNow]
        /\ mixed' = (mixed \/ p.pend # <<>>) /\ UNCHANGED <<tNow, enabled, dispatched, rec, signals, outcome>>
    BY <1>6 DEF Tasks!Kill
  <2>2. e \in RunState /\ e.at = "dead" /\ e.pend = p.pend /\ e.read = p.read
    BY <1>1 DEF RunState
  <2> HIDE DEF e
  <2>3. mixed' \in BOOLEAN /\ (mixed => mixed') /\ (~mixed' => p.pend = <<>> /\ p.read = Nothing)
    BY <1>2, <2>1
  <2>4. dispatched' \in [Task -> (0 .. tNow) \cup {Nothing}]
    BY <1>1, <2>1
  <2>5. QED
    BY <2>1, <2>2, <2>3, <2>4, RunKeeps
<1>7. QED
  BY <1>3, <1>4, <1>5, <1>6

LEMMA DispatchKeeps ==
    ASSUME MonitorInv, NEW t \in Task, Tasks!Dispatch(t)
    PROVE  MonitorInv'
<1>1. dispatched' \in [Task -> (0 .. tNow) \cup {Nothing}] /\ mixed' \in BOOLEAN /\ (mixed => mixed')
      /\ UNCHANGED <<tNow, enabled, rec, signals, outcome, diedAt, mixed>>
  <2>1. tNow \in 0 .. tNow /\ dispatched \in [Task -> (0 .. tNow) \cup {Nothing}] /\ mixed \in BOOLEAN
    BY MonitorConsts DEF MonitorInv, Tasks!TypeOK
  <2>2. QED
    BY <2>1 DEF Tasks!Dispatch
<1>2. CASE \E r \in Run : run[r].at = "waiting" /\ run' = [run EXCEPT ![r].at = "queued"]
  <2>1. PICK r \in Run : run[r].at = "waiting" /\ run' = [run EXCEPT ![r].at = "queued"]
    BY <1>2
  <2> PICK p : p = run[r]
    OBVIOUS
  <2>2. p \in RunState /\ p.pend = <<>> /\ p.read = Nothing /\ p.at = "waiting"
    BY <2>1 DEF MonitorInv, RunsInOrder, Pending
  <2> DEFINE e == [p EXCEPT !.at = "queued"]
  <2>3. e \in RunState /\ e.at = "queued" /\ e.pend = <<>> /\ e.read = Nothing
    BY <2>2 DEF RunState
  <2>4. run' = [run EXCEPT ![r] = e]
    BY <2>1
  <2> HIDE DEF e
  <2>5. QED
    BY <1>1, <2>1, <2>2, <2>3, <2>4, RunKeeps
<1>3. CASE run' = run
  <2>1. Tasks!TypeOK'
    BY <1>1, <1>3 DEF MonitorInv, Tasks!TypeOK
  <2>2. RunsInOrder' /\ UpdatesFit' /\ Plausible(rec, tNow, signals)' /\ diedAt' \in [Run -> Nat \cup {Nothing}]
    BY <1>1, <1>3 DEF MonitorInv, RunsInOrder, UpdatesFit, Plausible, Pending, Signal, Base
  <2>3. OutcomeKnown' /\ MarkerHolds'
    BY <1>1, <1>3 DEF MonitorInv, OutcomeKnown, MarkerHolds, LastSignal, Pending, Signal
  <2>4. QED
    BY <2>1, <2>2, <2>3 DEF MonitorInv
<1>4. QED
  BY <1>2, <1>3 DEF Tasks!Dispatch

\* The record goes, and with it what was known of the outcome.
LEMMA FlushKeeps ==
    ASSUME MonitorInv, Tasks!Flush
    PROVE  MonitorInv'
<1>1. rec' = Nothing /\ outcome' = "unknown" /\ UNCHANGED <<tNow, enabled, dispatched, run, signals, diedAt>>
      /\ mixed' \in BOOLEAN /\ (mixed => mixed') /\ (~mixed' => \A r \in Run : run[r].read = Nothing)
  BY DEF Tasks!Flush, MonitorInv, Tasks!TypeOK
<1>2. Tasks!TypeOK'
  BY <1>1, StillTyped DEF MonitorInv, Tasks!TypeOK, RunsInOrder
<1>3. RunsInOrder' /\ UpdatesFit' /\ Plausible(rec, tNow, signals)' /\ diedAt' \in [Run -> Nat \cup {Nothing}]
  BY <1>1 DEF MonitorInv, RunsInOrder, UpdatesFit, Plausible, Pending, Signal, Base
<1>4. OutcomeKnown' /\ MarkerHolds'
  BY <1>1 DEF OutcomeKnown, MarkerHolds, Pending, OutcomeIn
<1>5. QED
  BY <1>2, <1>3, <1>4 DEF MonitorInv

LEMMA TimeKeeps ==
    ASSUME MonitorInv, (\E t \in Task : Tasks!Toggle(t)) \/ Tasks!Tick \/ UNCHANGED Tasks!vars
    PROVE  MonitorInv'
<1>1. /\ enabled' \in [Task -> BOOLEAN] /\ tNow' \in 0 .. MaxTime /\ tNow' >= tNow /\ tNow \in Nat
      /\ UNCHANGED <<dispatched, rec, run, signals, outcome, diedAt, mixed>>
  <2>1. enabled \in [Task -> BOOLEAN] /\ tNow \in 0 .. MaxTime /\ tNow \in Nat
    BY MonitorConsts DEF MonitorInv, Tasks!TypeOK
  <2>2. CASE \E t \in Task : Tasks!Toggle(t)
    BY <2>1, <2>2 DEF Tasks!Toggle
  <2>3. CASE Tasks!Tick
    BY <2>1, <2>3, MonitorConsts DEF Tasks!Tick
  <2>4. CASE UNCHANGED Tasks!vars
    BY <2>1, <2>4 DEF Tasks!vars
  <2>5. QED
    BY <2>2, <2>3, <2>4
<1>2. 0 .. tNow \subseteq 0 .. tNow'
  BY <1>1
<1>3. Tasks!TypeOK'
  BY <1>1, <1>2 DEF MonitorInv, Tasks!TypeOK
<1>4. RunsInOrder' /\ Plausible(rec, tNow, signals)' /\ diedAt' \in [Run -> Nat \cup {Nothing}]
  BY <1>1, <1>2 DEF MonitorInv, RunsInOrder, Plausible, Pending
<1>5. UpdatesFit'
  <2> SUFFICES ASSUME NEW x \in Run, Pending(x)
               PROVE  /\ Plausible(run[x].read.was, tNow', signals) /\ run[x].read.new \in Tasks!Record
                      /\ Fits(run[x].read.new, Base(x), x, Signal(x), tNow', signals)
    BY <1>1 DEF UpdatesFit, Pending, Signal, Base
  <2>1. /\ Plausible(run[x].read.was, tNow, signals) /\ run[x].read.new \in Tasks!Record
        /\ Fits(run[x].read.new, Base(x), x, Signal(x), tNow, signals)
    BY DEF MonitorInv, UpdatesFit
  <2>2. QED
    BY <1>2, <2>1 DEF Plausible, Fits
<1>6. OutcomeKnown' /\ MarkerHolds'
  BY <1>1 DEF MonitorInv, OutcomeKnown, MarkerHolds, LastSignal, Pending, Signal
<1>7. QED
  BY <1>3, <1>4, <1>5, <1>6 DEF MonitorInv

LEMMA Forgets ==
    ASSUME NEW d \in Tasks!Record, NEW r
    PROVE  /\ Tasks!Forget(d, r) \in Tasks!Record /\ Tasks!Forget(d, r).success = d.success /\ Tasks!Forget(d, r).failure = d.failure
           /\ d.id = r => Tasks!Forget(d, r).since = Nothing /\ Tasks!Forget(d, r).id = Nothing
           /\ d.id # r => Tasks!Forget(d, r) = d
BY DEF Tasks!Forget, Tasks!Record

LEMMA Mutates ==
    ASSUME NEW d \in Tasks!Record, NEW r \in Run, tNow \in Nat, signals \in Nat, d.success <= signals, d.failure <= signals,
           NEW s \in {"start", "success", "end", "failure", "retry"}
    PROVE  /\ Tasks!Mutate(d, r, s) \in Tasks!Record
           /\ Fits(Tasks!Mutate(d, r, s), d, r, s, tNow, signals + 1)
           /\ s = "success" => Tasks!Mutate(d, r, s).success = signals + 1
           /\ s = "failure" => Tasks!Mutate(d, r, s).failure = signals + 1
<1> PICK f : f = Tasks!Forget(d, r)
  OBVIOUS
<1> PICK u : u = Tasks!Mutate(d, r, s)
  OBVIOUS
<1>1. f \in Tasks!Record /\ f.success = d.success /\ f.failure = d.failure
  BY Forgets
<1>2. d.success \in Nat /\ d.failure \in Nat
  BY DEF Tasks!Record
<1>3. CASE s = "start"
  <2>1. u = [d EXCEPT !.since = tNow, !.id = r]
    BY <1>3 DEF Tasks!Mutate
  <2>2. u \in Tasks!Record /\ u.id = r /\ u.since = tNow /\ u.success = d.success /\ u.failure = d.failure
    BY <2>1 DEF Tasks!Record
  <2>3. QED
    BY <1>3, <2>2 DEF Fits
<1>4. CASE s = "success"
  <2>1. u = [f EXCEPT !.success = signals + 1]
    BY <1>4 DEF Tasks!Mutate
  <2>2. u \in Tasks!Record /\ u.success = signals + 1 /\ u.failure = f.failure /\ u.since = f.since /\ u.id = f.id
    BY <1>1, <2>1 DEF Tasks!Record
  <2>3. u.success \in 1 .. signals + 1 /\ d.success < u.success /\ d.failure < u.success
    BY <1>2, <2>2
  <2>4. QED
    BY <1>1, <1>4, <2>2, <2>3 DEF Fits
<1>5. CASE s = "failure"
  <2>1. u = [d EXCEPT !.failure = signals + 1]
    BY <1>5 DEF Tasks!Mutate
  <2>2. u \in Tasks!Record /\ u.failure = signals + 1 /\ u.success = d.success /\ u.since = d.since /\ u.id = d.id
    BY <2>1 DEF Tasks!Record
  <2>3. u.failure \in 1 .. signals + 1 /\ d.success < u.failure /\ d.failure < u.failure
    BY <1>2, <2>2
  <2>4. QED
    BY <1>5, <2>2, <2>3 DEF Fits
<1>6. CASE s = "end"
  <2>1. u = f
    BY <1>6 DEF Tasks!Mutate
  <2>2. QED
    BY <1>1, <1>6, <2>1 DEF Fits
<1>7. CASE s = "retry"
  <2>1. u = d
    BY <1>7 DEF Tasks!Mutate
  <2>2. QED
    BY <1>7, <2>1 DEF Fits
<1>8. QED
  BY <1>3, <1>4, <1>5, <1>6, <1>7

\* The signals of a run that has some left.
LEMMA SignalKinds ==
    ASSUME MonitorInv, NEW r \in Run, run[r].at \in {"working", "ending"}, run[r].pend # <<>>
    PROVE  \/ run[r].at = "working" /\ run[r].pend = <<"start">> /\ Signal(r) = "start"
           \/ run[r].at = "ending" /\ run[r].pend = <<"success">> /\ Signal(r) = "success"
           \/ run[r].at = "ending" /\ run[r].pend = <<"end">> /\ Signal(r) = "end"
           \/ run[r].at = "ending" /\ run[r].pend = <<"failure", "end">> /\ Signal(r) = "failure"
           \/ run[r].at = "ending" /\ run[r].pend = <<"retry", "end">> /\ Signal(r) = "retry"
<1>1. run[r] \in RunState /\ (run[r].at = "working" => run[r].pend \in {<<>>, <<"start">>})
      /\ (run[r].at = "ending" => run[r].pend \notin {<<>>, <<"start">>})
  BY DEF MonitorInv, RunsInOrder
<1>2. run[r].pend \in {<<>>, <<"start">>, <<"success">>, <<"failure", "end">>, <<"retry", "end">>, <<"end">>}
  BY <1>1 DEF RunState
<1>3. QED
  BY <1>1, <1>2, Signals DEF Signal

\* A signal reads the record: if it bears an outcome, it is now the last one.
LEMMA ReadKeeps ==
    ASSUME MonitorInv, NEW r \in Run, Tasks!ReadRecord(r)
    PROVE  MonitorInv'
<1> PICK p : p = run[r]
  OBVIOUS
<1> PICK s : s = Head(p.pend)
  OBVIOUS
<1> PICK d : d = IF rec = Nothing THEN Tasks!Empty ELSE rec
  OBVIOUS
<1> PICK u : u = Tasks!Mutate(d, r, s)
  OBVIOUS
<1>1. Tasks!TypeOK /\ RunsInOrder /\ UpdatesFit /\ Plausible(rec, tNow, signals) /\ OutcomeKnown /\ MarkerHolds
      /\ tNow \in Nat /\ signals \in Nat /\ diedAt \in [Run -> Nat \cup {Nothing}]
  BY MonitorConsts DEF MonitorInv, Tasks!TypeOK, RunsInOrder
<1>2. /\ p.at \in {"working", "ending"} /\ p.pend # <<>> /\ p.read = Nothing
      /\ run' = [run EXCEPT ![r].read = [was |-> rec, new |-> u]]
      /\ signals' = (IF s \in {"success", "failure"} THEN signals + 1 ELSE signals)
      /\ UNCHANGED <<tNow, enabled, dispatched, rec, diedAt, mixed>>
      /\ outcome' = CASE s = "success" -> "ok" [] s = "failure" -> "failing" [] OTHER -> outcome
  BY DEF Tasks!ReadRecord
<1>3. /\ s = "success" => outcome' = "ok"
      /\ s = "failure" => outcome' = "failing"
      /\ s \notin {"success", "failure"} => outcome' = outcome
  BY <1>2
<1>4. s \in {"start", "success", "end", "failure", "retry"} /\ s = Signal(r)
  BY <1>2, SignalKinds DEF Signal
<1>5. d \in Tasks!Record /\ rec \in Tasks!Record \cup {Nothing} /\ d.success <= signals /\ d.failure <= signals
  BY <1>1, EmptyTyped DEF Plausible
<1>6. /\ u \in Tasks!Record /\ Fits(u, d, r, s, tNow, signals + 1)
      /\ s = "success" => u.success = signals + 1
      /\ s = "failure" => u.failure = signals + 1
  BY <1>1, <1>4, <1>5, Mutates
<1>7. [was |-> rec, new |-> u] \in Tasks!Update /\ [was |-> rec, new |-> u] # Nothing
  <2>1. [was |-> rec, new |-> u] \in Tasks!Update
    BY <1>5, <1>6 DEF Tasks!Update
  <2>2. QED
    BY <2>1, MonitorConsts
<1>8. /\ run' \in [Run -> RunState] /\ \A x \in Run \ {r} : run'[x] = run[x]
      /\ run'[r].at = p.at /\ run'[r].pend = p.pend /\ run'[r].read = [was |-> rec, new |-> u]
  <2> PICK g : g = [was |-> rec, new |-> u]
    OBVIOUS
  <2>1. p \in [at : {"waiting", "queued", "working", "ending", "done", "dead"},
             pend : {<<>>, <<"start">>, <<"success">>, <<"failure", "end">>, <<"retry", "end">>, <<"end">>},
             read : Tasks!Update \cup {Nothing}]
    BY <1>1 DEF RunsInOrder, RunState
  <2>2. LET e == [p EXCEPT !.read = g] IN e \in RunState /\ e.at = p.at /\ e.pend = p.pend /\ e.read = g
    BY <1>7, <2>1 DEF RunState
  <2>3. run' = [run EXCEPT ![r] = [p EXCEPT !.read = g]] /\ run \in [Run -> RunState]
    BY <1>1, <1>2 DEF RunsInOrder
  <2>4. QED
    BY <2>2, <2>3
<1>9. Tasks!TypeOK'
  <2>1. outcome' \in {"ok", "failing", "unknown"}
    BY <1>1, <1>3 DEF Tasks!TypeOK
  <2>2. mixed' \in BOOLEAN /\ dispatched' \in [Task -> (0 .. tNow) \cup {Nothing}]
        /\ (rec' # Nothing => rec'.id \in Run \cup {Nothing} /\ rec'.since \in (0 .. tNow) \cup {Nothing})
    BY <1>1, <1>2 DEF Tasks!TypeOK
  <2>3. QED
    BY <1>2, <1>8, <2>1, <2>2, StillTyped
<1>10. signals' \in Nat /\ signals' >= signals
  BY <1>1, <1>2
<1>11. RunsInOrder'
  <2>1. \A x \in Run : /\ run'[x].at = run[x].at /\ run'[x].pend = run[x].pend
                       /\ Pending(x)' => Pending(x) \/ x = r
    BY <1>8 DEF Pending
  <2>2. QED
    BY <1>1, <1>2, <1>8, <1>10, <2>1 DEF RunsInOrder
<1>12. \A e : Plausible(e, tNow, signals) => Plausible(e, tNow, signals')
  BY <1>1, <1>10 DEF Plausible, Tasks!Record
<1>13. /\ \A x \in Run \ {r} : (Pending(x)' <=> Pending(x)) /\ Signal(x)' = Signal(x) /\ Base(x)' = Base(x) /\ run'[x] = run[x]
       /\ Pending(r)' /\ Signal(r)' = s /\ Base(r)' = d /\ run'[r].read.was = rec /\ run'[r].read.new = u
  BY <1>2, <1>7, <1>8 DEF Pending, Signal, Base
<1>14. UpdatesFit'
  <2>1. 1 .. signals \subseteq 1 .. signals'
    BY <1>1, <1>10
  <2>2. ASSUME NEW x \in Run \ {r}, Pending(x)
        PROVE  /\ Plausible(run[x].read.was, tNow, signals') /\ run[x].read.new \in Tasks!Record
               /\ Fits(run[x].read.new, Base(x), x, Signal(x), tNow, signals')
    <3>1. /\ Plausible(run[x].read.was, tNow, signals) /\ run[x].read.new \in Tasks!Record
          /\ Fits(run[x].read.new, Base(x), x, Signal(x), tNow, signals)
      BY <1>1, <2>2 DEF UpdatesFit
    <3>2. QED
      BY <1>12, <2>1, <3>1 DEF Fits
  <2>3. Fits(u, d, r, s, tNow, signals')
    BY <1>2, <1>6 DEF Fits
  <2>4. Plausible(rec, tNow, signals')
    BY <1>1, <1>12
  <2>5. QED
    BY <1>2, <1>6, <1>13, <2>2, <2>3, <2>4 DEF UpdatesFit
<1>15. OutcomeKnown'
  <2> SUFFICES ASSUME ~mixed' PROVE OutcomeKnown'
    BY DEF OutcomeKnown
  <2>1. CASE s \in {"success", "failure"}
    <3>1. (s = "success" => u.success = signals') /\ (s = "failure" => u.failure = signals')
      BY <1>2, <1>6, <2>1
    <3>2. LastSignal(r)'
      BY <1>3, <1>13, <2>1, <3>1 DEF LastSignal
    <3>3. QED
      BY <3>2 DEF OutcomeKnown
  <2>2. CASE s \notin {"success", "failure"}
    <3>1. outcome' = outcome /\ signals' = signals
      BY <1>2, <1>3, <2>2
    <3>2. CASE \E x \in Run : LastSignal(x)
      <4>1. PICK x \in Run : LastSignal(x)
        BY <3>2
      <4>2. x # r
        BY <1>2, <4>1 DEF LastSignal, Pending
      <4>3. LastSignal(x)'
        BY <1>13, <3>1, <4>1, <4>2 DEF LastSignal
      <4>4. QED
        BY <4>3 DEF OutcomeKnown
    <3>3. CASE ~\E x \in Run : LastSignal(x)
      BY <1>1, <1>2, <1>13, <2>2, <3>1, <3>3 DEF OutcomeKnown
    <3>4. QED
      BY <3>2, <3>3
  <2>3. QED
    BY <2>1, <2>2
<1>16. MarkerHolds'
  <2>1. \A x \in Run : run'[x].at = run[x].at
    BY <1>8
  <2>2. QED
    BY <1>1, <1>2, <2>1 DEF MarkerHolds
<1>17. QED
  <2>1. Plausible(rec, tNow, signals)'
    BY <1>1, <1>2, <1>12
  <2>2. QED
    BY <1>1, <1>2, <1>9, <1>11, <1>14, <1>15, <1>16, <2>1 DEF MonitorInv

LEMMA TopBelow ==
    ASSUME NEW d \in Tasks!Record \cup {Nothing}, NEW n \in Nat,
           LET b == IF d = Nothing THEN Tasks!Empty ELSE d IN b.success < n /\ b.failure < n
    PROVE  Top(d) < n
BY EmptyTyped, MonitorConsts DEF Top, Tasks!Record

\* The record that a signal writes is as plausible as the one that it read.
LEMMA FitsPlausibly ==
    ASSUME NEW d \in Tasks!Record \cup {Nothing}, NEW u \in Tasks!Record, NEW r \in Run, NEW t \in Nat, NEW n \in Nat,
           NEW s \in {"start", "success", "end", "failure", "retry"},
           Plausible(d, t, n), Fits(u, IF d = Nothing THEN Tasks!Empty ELSE d, r, s, t, n)
    PROVE  Plausible(u, t, n)
<1> PICK b : b = IF d = Nothing THEN Tasks!Empty ELSE d
  OBVIOUS
<1>1. b \in Tasks!Record /\ b.success <= n /\ b.failure <= n /\ (b.since # Nothing => b.id \in Run /\ b.since \in 0 .. t)
  BY EmptyTyped DEF Plausible
<1>2. /\ Tasks!Forget(b, r).success = b.success /\ Tasks!Forget(b, r).failure = b.failure
      /\ Tasks!Forget(b, r).since # Nothing => Tasks!Forget(b, r).id \in Run /\ Tasks!Forget(b, r).since \in 0 .. t
  BY <1>1, Forgets
<1>3. u.success <= n /\ u.failure <= n
  <2>1. CASE s \in {"start", "retry", "end"}
    BY <1>1, <1>2, <2>1 DEF Fits
  <2>2. CASE s \in {"success", "failure"}
    BY <1>1, <2>2 DEF Fits
  <2>3. QED
    BY <2>1, <2>2
<1>4. u.since # Nothing => u.id \in Run /\ u.since \in 0 .. t
  <2>1. CASE s = "start"
    BY <2>1 DEF Fits
  <2>2. CASE s \in {"success", "end"}
    BY <1>2, <2>2 DEF Fits
  <2>3. CASE s \in {"failure", "retry"}
    BY <1>1, <2>3 DEF Fits
  <2>4. QED
    BY <2>1, <2>2, <2>3
<1>5. QED
  BY <1>3, <1>4 DEF Plausible

\* A signal writes what it made of the record: if nobody wrote it meanwhile, the outcome
\* it bears was the last one, or it bears none.
LEMMA WriteKeeps ==
    ASSUME MonitorInv, NEW r \in Run, Tasks!WriteRecord(r)
    PROVE  MonitorInv'
<1> PICK p : p = run[r]
  OBVIOUS
<1> PICK s : s = Signal(r)
  OBVIOUS
<1> PICK w : w = p.read.was
  OBVIOUS
<1> PICK d : d = Base(r)
  OBVIOUS
<1> PICK u : u = p.read.new
  OBVIOUS
<1>1. Tasks!TypeOK /\ RunsInOrder /\ UpdatesFit /\ Plausible(rec, tNow, signals) /\ OutcomeKnown /\ MarkerHolds
      /\ tNow \in Nat /\ signals \in Nat /\ diedAt \in [Run -> Nat \cup {Nothing}]
  BY MonitorConsts DEF MonitorInv, Tasks!TypeOK, RunsInOrder
<1>2. /\ p.at \in {"working", "ending"} /\ p.read # Nothing /\ rec' = u /\ mixed' = (mixed \/ rec # w)
      /\ run' = [run EXCEPT ![r].pend = Tail(@), ![r].read = Nothing,
                   ![r].at = IF @ = "ending" /\ Len(run[r].pend) = 1 THEN "done" ELSE @]
      /\ UNCHANGED <<tNow, enabled, dispatched, signals, outcome, diedAt>>
  BY DEF Tasks!WriteRecord, Tasks!Signalled
<1>3. Pending(r) /\ p.pend # <<>> /\ p \in RunState
  BY <1>1, <1>2 DEF Pending, RunsInOrder
<1>4. /\ Plausible(w, tNow, signals) /\ u \in Tasks!Record /\ Fits(u, d, r, s, tNow, signals) /\ d = (IF w = Nothing THEN Tasks!Empty ELSE w)
      /\ w \in Tasks!Record \cup {Nothing} /\ d \in Tasks!Record
  <2>1. Plausible(w, tNow, signals) /\ u \in Tasks!Record /\ Fits(u, d, r, s, tNow, signals) /\ d = (IF w = Nothing THEN Tasks!Empty ELSE w)
    BY <1>1, <1>3 DEF UpdatesFit, Base
  <2>2. QED
    BY <2>1, EmptyTyped DEF Plausible
<1>5. \/ p.at = "working" /\ p.pend = <<"start">> /\ s = "start"
      \/ p.at = "ending" /\ p.pend = <<"success">> /\ s = "success"
      \/ p.at = "ending" /\ p.pend = <<"end">> /\ s = "end"
      \/ p.at = "ending" /\ p.pend = <<"failure", "end">> /\ s = "failure"
      \/ p.at = "ending" /\ p.pend = <<"retry", "end">> /\ s = "retry"
  BY <1>2, <1>3, SignalKinds
<1>6. \A q \in {<<>>, <<"end">>}, a \in {"working", "ending", "done"} :
         LET f == [p EXCEPT !.pend = q, !.read = Nothing, !.at = a] IN
         f \in RunState /\ f.pend = q /\ f.read = Nothing /\ f.at = a
  BY <1>3 DEF RunState
<1>7. PICK q \in {<<>>, <<"end">>}, a \in {"working", "ending", "done"} :
         /\ run' = [run EXCEPT ![r] = [p EXCEPT !.pend = q, !.read = Nothing, !.at = a]]
         /\ a \in {"done", "working"} => q = <<>>
         /\ a = "ending" => q = <<"end">>
         /\ a = "done" <=> s \in {"success", "end"}
         /\ a # "done" => a = p.at
  <2> DEFINE a == IF p.at = "ending" /\ Len(p.pend) = 1 THEN "done" ELSE p.at
  <2>1. run' = [run EXCEPT ![r] = [p EXCEPT !.pend = Tail(p.pend), !.read = Nothing, !.at = a]]
    BY <1>2
  <2>2. /\ Tail(p.pend) \in {<<>>, <<"end">>} /\ a \in {"working", "ending", "done"}
        /\ a \in {"done", "working"} => Tail(p.pend) = <<>>
        /\ a = "ending" => Tail(p.pend) = <<"end">>
        /\ a = "done" <=> s \in {"success", "end"}
        /\ a # "done" => a = p.at
    <3>1. CASE p.at = "working" /\ p.pend = <<"start">> /\ s = "start"
      BY <3>1, Signals
    <3>2. CASE p.at = "ending" /\ p.pend \in {<<"success">>, <<"end">>} /\ s \in {"success", "end"}
      BY <3>2, Signals
    <3>3. CASE p.at = "ending" /\ p.pend \in {<<"failure", "end">>, <<"retry", "end">>} /\ s \in {"failure", "retry"}
      <4>1. Len(p.pend) = 2 /\ Tail(p.pend) = <<"end">>
        BY <3>3, Signals
      <4>2. a = "ending"
        BY <3>3, <4>1
      <4>3. QED
        BY <3>3, <4>1, <4>2
    <3>4. QED
      BY <1>5, <3>1, <3>2, <3>3
  <2> HIDE DEF a
  <2>3. QED
    BY <2>1, <2>2
<1>8. /\ run' \in [Run -> RunState] /\ \A x \in Run \ {r} : run'[x] = run[x]
      /\ run'[r].at = a /\ run'[r].pend = q /\ run'[r].read = Nothing
  BY <1>1, <1>6, <1>7 DEF RunsInOrder
<1>9. /\ ~Pending(r)'
      /\ \A x \in Run \ {r} : (Pending(x)' <=> Pending(x)) /\ Signal(x)' = Signal(x) /\ Base(x)' = Base(x) /\ run'[x] = run[x]
  BY <1>8 DEF Pending, Signal, Base
<1>10. Plausible(u, tNow, signals)
  BY <1>1, <1>4, <1>5, FitsPlausibly
<1>11. mixed' \in BOOLEAN /\ (~mixed' => ~mixed /\ rec = w)
  BY <1>1, <1>2 DEF Tasks!TypeOK
<1>12. Tasks!TypeOK'
  <2>1. u.id \in Run \cup {Nothing} /\ u.since \in (0 .. tNow) \cup {Nothing}
    BY <1>4, <1>10, MonitorConsts DEF Plausible, Tasks!Record
  <2>2. dispatched' \in [Task -> (0 .. tNow) \cup {Nothing}] /\ outcome' \in {"ok", "failing", "unknown"}
    BY <1>1, <1>2 DEF Tasks!TypeOK
  <2>3. QED
    BY <1>2, <1>8, <1>11, <2>1, <2>2, StillTyped
<1>13. RunsInOrder'
  <2>1. \A x \in Run \ {r} : /\ run'[x].at \in {"waiting", "queued", "done"} => run'[x].pend = <<>>
                             /\ run'[x].at = "working" => run'[x].pend \in {<<>>, <<"start">>}
                             /\ run'[x].at = "ending" => run'[x].pend \notin {<<>>, <<"start">>}
                             /\ run'[x].at = "dead" /\ ~mixed' => run'[x].pend = <<>>
                             /\ Pending(x)' => run'[x].pend # <<>>
    BY <1>1, <1>9, <1>11 DEF RunsInOrder
  <2>2. /\ run'[r].at \in {"waiting", "queued", "done"} => run'[r].pend = <<>>
        /\ run'[r].at = "working" => run'[r].pend \in {<<>>, <<"start">>}
        /\ run'[r].at = "ending" => run'[r].pend \notin {<<>>, <<"start">>}
        /\ run'[r].at # "dead"
    BY <1>7, <1>8, Signals
  <2>3. QED
    BY <1>1, <1>2, <1>8, <1>9, <2>1, <2>2 DEF RunsInOrder
<1>14. UpdatesFit'
  BY <1>1, <1>2, <1>9 DEF UpdatesFit
<1>15. OutcomeKnown'
  <2> SUFFICES ASSUME ~mixed' PROVE OutcomeKnown'
    BY DEF OutcomeKnown
  <2>1. ~mixed /\ rec = w
    BY <1>11
  <2>2. \A x \in Run : Pending(x) /\ Signal(x) \in {"success", "failure"} => Top(run[x].read.was) < signals
    <3> TAKE x \in Run
    <3> HAVE Pending(x) /\ Signal(x) \in {"success", "failure"}
    <3>1. Plausible(run[x].read.was, tNow, signals) /\ Fits(run[x].read.new, Base(x), x, Signal(x), tNow, signals)
      BY <1>1 DEF UpdatesFit
    <3>2. run[x].read.was \in Tasks!Record \cup {Nothing} /\ Base(x) \in Tasks!Record
      BY <3>1, EmptyTyped DEF Plausible, Base
    <3>3. Base(x).success < signals /\ Base(x).failure < signals
      BY <1>1, <3>1, <3>2 DEF Fits, Tasks!Record
    <3>4. QED
      BY <1>1, <3>2, <3>3, TopBelow DEF Base
  <2>3. CASE LastSignal(r)
    <3>1. Top(u) = signals /\ OutcomeIn(u) = outcome
      <4>1. u.success \in Nat /\ u.failure \in Nat /\ u # Nothing /\ d.success \in Nat /\ d.failure \in Nat
        BY <1>4, MonitorConsts DEF Tasks!Record
      <4>2. CASE s = "success"
        <5>1. u.success = signals /\ outcome = "ok" /\ signals \in 1 .. signals /\ u.failure < signals
          BY <1>4, <2>3, <4>2 DEF LastSignal, Fits
        <5>2. QED
          BY <4>1, <5>1 DEF Top, OutcomeIn
      <4>3. CASE s = "failure"
        <5>1. u.failure = signals /\ outcome = "failing" /\ u.success < signals
          BY <1>4, <2>3, <4>3 DEF LastSignal, Fits
        <5>2. QED
          BY <4>1, <5>1 DEF Top, OutcomeIn
      <4>4. QED
        BY <2>3, <4>2, <4>3 DEF LastSignal
    <3>2. OutcomeIn(rec') = outcome' /\ \A x \in Run : Pending(x)' /\ Signal(x)' \in {"success", "failure"} => Top(run'[x].read.was) < Top(rec')
      BY <1>2, <1>9, <2>2, <3>1
    <3>3. QED
      BY <3>2 DEF OutcomeKnown
  <2>4. CASE \E x \in Run \ {r} : LastSignal(x)
    <3>1. PICK x \in Run \ {r} : LastSignal(x)
      BY <2>4
    <3>2. LastSignal(x)'
      BY <1>2, <1>9, <3>1 DEF LastSignal
    <3>3. QED
      BY <3>2 DEF OutcomeKnown
  <2>5. CASE ~\E x \in Run : LastSignal(x)
    <3>1. OutcomeIn(rec) = outcome /\ \A x \in Run : Pending(x) /\ Signal(x) \in {"success", "failure"} => Top(run[x].read.was) < Top(rec)
      BY <1>1, <2>1, <2>5 DEF OutcomeKnown
    <3>2. s \notin {"success", "failure"}
      <4>1. Top(w) \in Int
        BY <1>4 DEF Top, Tasks!Record
      <4>2. s \in {"success", "failure"} => Top(w) < Top(w)
        BY <1>3, <2>1, <3>1
      <4>3. QED
        BY <4>1, <4>2
    <3>3. u.success = d.success /\ u.failure = d.failure
      BY <1>4, <1>5, <3>2, Forgets DEF Fits
    <3>4. Top(u) = Top(rec) /\ OutcomeIn(u) = OutcomeIn(rec)
      BY <1>4, <2>1, <3>3, SameCounters
    <3>5. OutcomeIn(rec') = outcome' /\ \A x \in Run : Pending(x)' /\ Signal(x)' \in {"success", "failure"} => Top(run'[x].read.was) < Top(rec')
      BY <1>2, <1>9, <3>1, <3>4
    <3>6. QED
      BY <3>5 DEF OutcomeKnown
  <2>6. QED
    BY <2>3, <2>4, <2>5
<1>16. MarkerHolds'
  <2> SUFFICES ASSUME ~mixed', u.id \in Run
               PROVE  /\ run'[u.id].at \in {"working", "ending", "dead"}
                      /\ run'[u.id].at = "dead" /\ u.since # Nothing => diedAt[u.id] \in Nat /\ u.since <= diedAt[u.id]
    BY <1>2 DEF MarkerHolds
  <2>1. ~mixed /\ rec = w
    BY <1>11
  <2>2. CASE s = "start"
    <3>1. u.id = r /\ a = "working"
      BY <1>4, <1>5, <1>7, <2>2 DEF Fits
    <3>2. QED
      BY <1>8, <3>1
  <2>3. CASE s # "start"
    <3>1. /\ u.id = d.id /\ u.since = d.since
          /\ s \in {"success", "end"} => u.id # r
      <4>1. CASE s \in {"failure", "retry"}
        BY <1>4, <4>1 DEF Fits
      <4>2. CASE s \in {"success", "end"}
        <5>1. u.id = Tasks!Forget(d, r).id /\ u.since = Tasks!Forget(d, r).since
          BY <1>4, <4>2 DEF Fits
        <5>2. d.id # r
          BY <1>4, <5>1, Forgets, MonitorConsts
        <5>3. QED
          BY <1>4, <5>1, <5>2, Forgets
      <4>3. QED
        BY <1>5, <2>3, <4>1, <4>2
    <3>2. w # Nothing /\ d = w
      BY <1>4, <3>1, EmptyTyped, MonitorConsts
    <3>3. /\ run[u.id].at \in {"working", "ending", "dead"}
          /\ run[u.id].at = "dead" /\ u.since # Nothing => diedAt[u.id] \in Nat /\ u.since <= diedAt[u.id]
      BY <1>1, <2>1, <3>1, <3>2 DEF MarkerHolds
    <3>4. CASE u.id # r
      BY <1>8, <3>3, <3>4
    <3>5. CASE u.id = r
      <4>1. a \in {"working", "ending"}
        BY <1>7, <3>1, <3>5
      <4>2. QED
        BY <1>8, <3>5, <4>1
    <3>6. QED
      BY <3>4, <3>5
  <2>4. QED
    BY <2>2, <2>3
<1>17. QED
  <2>1. Plausible(rec, tNow, signals)'
    BY <1>2, <1>10
  <2>2. QED
    BY <1>1, <1>2, <1>12, <1>13, <1>14, <1>15, <1>16, <2>1 DEF MonitorInv

LEMMA MonitorInvStep == MonitorInv /\ [Tasks!Next]_Tasks!vars => MonitorInv'
<1> SUFFICES ASSUME MonitorInv, [Tasks!Next]_Tasks!vars PROVE MonitorInv'
  OBVIOUS
<1>1. CASE \E t \in Task : Tasks!Dispatch(t)
  BY <1>1, DispatchKeeps
<1>2. CASE \E r \in Run : Tasks!Start(r) \/ Tasks!SkipRecord(r) \/ Tasks!Kill(r) \/ \E signal \in {"success", "failure", "retry"} : Tasks!Finish(r, signal)
  BY <1>2, RunSteps
<1>3. CASE \E r \in Run : Tasks!ReadRecord(r)
  BY <1>3, ReadKeeps
<1>4. CASE \E r \in Run : Tasks!WriteRecord(r)
  BY <1>4, WriteKeeps
<1>5. CASE Tasks!Flush
  BY <1>5, FlushKeeps
<1>6. CASE (\E t \in Task : Tasks!Toggle(t)) \/ Tasks!Tick \/ UNCHANGED Tasks!vars
  BY <1>6, TimeKeeps
<1>7. QED
  BY <1>1, <1>2, <1>3, <1>4, <1>5, <1>6 DEF Tasks!Next

\* The status page (task_monitor.py, system_status.py): unless updates of the record
\* mixed, it reports the last outcome signalled, and a task runs that it shows as running.
LEMMA StatusIsSafe == Tasks!Spec => [](Tasks!TypeOK /\ Tasks!ReportsLastOutcome /\ Tasks!RunningIsReal)
BY MonitorBegins, MonitorInvStep, MonitorSafe, PTL DEF Tasks!Spec

-------------------------------------------------------------------------------
(* Who is told of what is critical.                                        *)

\* A page knows when it was opened and what it shows, and a cached snapshot when it was made.
PagesTyped ==
    /\ page \in [Admin -> [at : {"closed", "collected", "probed", "telling"}, keys : SUBSET Key, item : Key \cup {Nothing},
                           left : SUBSET Admin, shows : Nat \cup {Nothing}, since : Nat \cup {Nothing}]]
    /\ \A a \in Admin : page[a].at # "closed" =>
          /\ page[a].since \in 0 .. aNow /\ page[a].shows \in 0 .. aNow
          /\ page[a].at = "telling" => page[a].item \in Key
    /\ snapshot # Nothing => snapshot.collected \in 0 .. aNow /\ snapshot.stored \in 0 .. aNow

\* What m tells, it tells within the window of the page that is telling of it now.
Covers(m, a, u) == m.key = page[a].item /\ m.user = u /\ m.at >= page[a].since - Renotify

\* The page has not yet told those who are left, and somebody has told all the others.
LeftUntold ==
    \A a, u \in Admin : page[a].at = "telling" =>
       IF u \in page[a].left THEN \A m \in told : ~(m.by = a /\ Covers(m, a, u))
                             ELSE \E m \in told : Covers(m, a, u)

AlertInv == Alerts!TypeOK /\ PagesTyped /\ LeftUntold /\ Alerts!AlertsAreSpaced /\ Alerts!ReadingsAreFresh

Notice == [key : Key, user : Admin, by : Admin, at : 0 .. aNow, read : BOOLEAN]

LEMMA AlertConsts == Renotify \in Nat /\ Ttl \in Nat /\ MaxTime \in Nat /\ MaxLoads \in Nat
BY AlertAssumption DEF Alerts!AlertConstants

LEMMA AlertTypes ==
    ASSUME AlertInv
    PROVE  /\ aNow \in 0 .. MaxTime /\ aNow \in Nat /\ told \subseteq Notice
           /\ page \in [Admin -> [at : {"closed", "collected", "probed", "telling"}, keys : SUBSET Key, item : Key \cup {Nothing},
                                  left : SUBSET Admin, shows : Nat \cup {Nothing}, since : Nat \cup {Nothing}]]
           /\ snapshot # Nothing => snapshot.collected \in 0 .. aNow /\ snapshot.stored \in 0 .. aNow /\ snapshot.collected <= snapshot.stored
           /\ Alerts!TypeOK /\ PagesTyped /\ LeftUntold /\ Alerts!AlertsAreSpaced /\ Alerts!ReadingsAreFresh
BY AlertConsts DEF AlertInv, Alerts!TypeOK, PagesTyped, Notice

\* A page changes that tells of nothing, before or after.
LEMMA PageKeeps ==
    ASSUME AlertInv, NEW a \in Admin, page' \in [Admin -> [at : {"closed", "collected", "probed", "telling"}, keys : SUBSET Key,
              item : Key \cup {Nothing}, left : SUBSET Admin, shows : Nat \cup {Nothing}, since : Nat \cup {Nothing}]],
           \A b \in Admin \ {a} : page'[b] = page[b],
           page'[a].at # "telling",
           page'[a].at # "closed" =>
              /\ page'[a].since \in 0 .. aNow /\ page'[a].shows \in 0 .. aNow
              /\ page'[a].shows = page'[a].since \/ page'[a].since - page'[a].shows < Ttl,
           loads' \in 0 .. MaxLoads, UNCHANGED <<aNow, critical, told>>,
           snapshot' # Nothing => snapshot'.collected \in 0 .. aNow /\ snapshot'.stored \in 0 .. aNow /\ snapshot'.collected <= snapshot'.stored
    PROVE  AlertInv'
<1>1. Alerts!TypeOK /\ PagesTyped /\ LeftUntold /\ Alerts!AlertsAreSpaced /\ Alerts!ReadingsAreFresh
  BY DEF AlertInv
<1>2. \A b \in Admin : page'[b].at \in {"closed", "collected", "probed", "telling"}
  OBVIOUS
<1>3. Alerts!TypeOK'
  BY <1>1, <1>2 DEF Alerts!TypeOK
<1>4. PagesTyped'
  <2>1. \A b \in Admin : page'[b].at # "closed" =>
          /\ page'[b].since \in 0 .. aNow /\ page'[b].shows \in 0 .. aNow
          /\ page'[b].at = "telling" => page'[b].item \in Key
    BY <1>1 DEF PagesTyped
  <2>2. QED
    BY <2>1 DEF PagesTyped
<1>5. LeftUntold'
  <2>1. \A b \in Admin : page'[b].at = "telling" => page'[b] = page[b]
    OBVIOUS
  <2>2. QED
    BY <1>1, <2>1 DEF LeftUntold, Covers
<1>6. Alerts!AlertsAreSpaced'
  BY <1>1 DEF Alerts!AlertsAreSpaced
<1>7. Alerts!ReadingsAreFresh'
  BY <1>1 DEF Alerts!ReadingsAreFresh
<1>8. QED
  BY <1>3, <1>4, <1>5, <1>6, <1>7 DEF AlertInv

LEMMA PageSteps ==
    ASSUME AlertInv, NEW a \in Admin, Alerts!Open(a) \/ Alerts!Store(a) \/ Alerts!NextItem(a) \/ Alerts!Shown(a) \/ Alerts!Fail(a)
    PROVE  AlertInv'
<1> PICK p : p = page[a]
  OBVIOUS
<1> USE AlertTypes, AlertConsts
<1>1. /\ p.at \in {"closed", "collected", "probed", "telling"} /\ p.keys \in SUBSET Key /\ p.item \in Key \cup {Nothing}
      /\ p.left \in SUBSET Admin /\ p.shows \in Nat \cup {Nothing} /\ p.since \in Nat \cup {Nothing}
      /\ p.at # "closed" => p.since \in 0 .. aNow /\ p.shows \in 0 .. aNow /\ (p.shows = p.since \/ p.since - p.shows < Ttl)
      /\ loads \in 0 .. MaxLoads
      /\ p \in [at : {"closed", "collected", "probed", "telling"}, keys : SUBSET Key, item : Key \cup {Nothing},
                                  left : SUBSET Admin, shows : Nat \cup {Nothing}, since : Nat \cup {Nothing}]
  BY DEF PagesTyped, Alerts!ReadingsAreFresh, Alerts!TypeOK
<1>2. CASE Alerts!Open(a)
  <2> DEFINE q == [Alerts!Closed EXCEPT !.keys = critical, !.since = aNow,
                     !.at = IF Alerts!Fresh THEN "probed" ELSE "collected",
                     !.shows = IF Alerts!Fresh THEN snapshot.collected ELSE aNow]
  <2>1. page' = [page EXCEPT ![a] = q] /\ loads' = loads + 1 /\ loads < MaxLoads /\ UNCHANGED <<aNow, critical, told, snapshot>>
    BY <1>2 DEF Alerts!Open
  <2>2. critical \in SUBSET Key
    BY DEF Alerts!TypeOK
  <2>3. q.at \in {"probed", "collected"} /\ q.keys = critical /\ q.item = Nothing /\ q.left = {} /\ q.since = aNow
        /\ q.shows \in 0 .. aNow /\ (q.shows = q.since \/ q.since - q.shows < Ttl)
    BY DEF Alerts!Closed, Alerts!Fresh, Alerts!Cached
  <2>4. \A s \in {"probed", "collected"}, v \in Nat :
          [Alerts!Closed EXCEPT !.keys = critical, !.since = aNow, !.at = s, !.shows = v]
             \in [at : {"closed", "collected", "probed", "telling"}, keys : SUBSET Key, item : Key \cup {Nothing},
                  left : SUBSET Admin, shows : Nat \cup {Nothing}, since : Nat \cup {Nothing}]
    BY <2>2 DEF Alerts!Closed
  <2>5. (IF Alerts!Fresh THEN snapshot.collected ELSE aNow) \in Nat /\ (IF Alerts!Fresh THEN "probed" ELSE "collected") \in {"probed", "collected"}
    BY DEF Alerts!Fresh, Alerts!Cached
  <2>6. q \in [at : {"closed", "collected", "probed", "telling"}, keys : SUBSET Key, item : Key \cup {Nothing},
               left : SUBSET Admin, shows : Nat \cup {Nothing}, since : Nat \cup {Nothing}]
    BY <2>4, <2>5
  <2> HIDE DEF q
  <2>7. page' \in [Admin -> [at : {"closed", "collected", "probed", "telling"}, keys : SUBSET Key,
              item : Key \cup {Nothing}, left : SUBSET Admin, shows : Nat \cup {Nothing}, since : Nat \cup {Nothing}]]
        /\ page'[a] = q /\ \A b \in Admin \ {a} : page'[b] = page[b]
    BY <2>1, <2>6
  <2>8. loads' \in 0 .. MaxLoads
    BY <1>1, <2>1
  <2>9. QED
    BY <2>1, <2>3, <2>7, <2>8, PageKeeps
<1>3. CASE Alerts!Store(a)
  <2> DEFINE q == [p EXCEPT !.at = "probed"]
  <2>1. page' = [page EXCEPT ![a] = q] /\ p.at = "collected" /\ UNCHANGED <<aNow, critical, told, loads>>
        /\ snapshot' \in {snapshot, [collected |-> p.shows, stored |-> aNow]}
    BY <1>3 DEF Alerts!Store
  <2>2. q \in [at : {"closed", "collected", "probed", "telling"}, keys : SUBSET Key, item : Key \cup {Nothing},
               left : SUBSET Admin, shows : Nat \cup {Nothing}, since : Nat \cup {Nothing}]
        /\ q.since = p.since /\ q.shows = p.shows /\ q.at = "probed"
    BY <1>1
  <2> HIDE DEF q
  <2>3. page' \in [Admin -> [at : {"closed", "collected", "probed", "telling"}, keys : SUBSET Key,
              item : Key \cup {Nothing}, left : SUBSET Admin, shows : Nat \cup {Nothing}, since : Nat \cup {Nothing}]]
        /\ page'[a] = q /\ \A b \in Admin \ {a} : page'[b] = page[b]
    BY <2>1, <2>2
  <2>4. snapshot' # Nothing => snapshot'.collected \in 0 .. aNow /\ snapshot'.stored \in 0 .. aNow /\ snapshot'.collected <= snapshot'.stored
    BY <1>1, <2>1
  <2>5. QED
    BY <1>1, <2>1, <2>2, <2>3, <2>4, PageKeeps
<1>4. CASE Alerts!NextItem(a)
  <2> DEFINE q == [p EXCEPT !.at = "probed", !.keys = @ \ {p.item}, !.item = Nothing]
  <2>1. page' = [page EXCEPT ![a] = q] /\ p.at = "telling" /\ UNCHANGED <<aNow, critical, told, snapshot, loads>>
    BY <1>4 DEF Alerts!NextItem
  <2>2. q \in [at : {"closed", "collected", "probed", "telling"}, keys : SUBSET Key, item : Key \cup {Nothing},
               left : SUBSET Admin, shows : Nat \cup {Nothing}, since : Nat \cup {Nothing}]
        /\ q.since = p.since /\ q.shows = p.shows /\ q.at = "probed"
    BY <1>1
  <2> HIDE DEF q
  <2>3. page' \in [Admin -> [at : {"closed", "collected", "probed", "telling"}, keys : SUBSET Key,
              item : Key \cup {Nothing}, left : SUBSET Admin, shows : Nat \cup {Nothing}, since : Nat \cup {Nothing}]]
        /\ page'[a] = q /\ \A b \in Admin \ {a} : page'[b] = page[b]
    BY <2>1, <2>2
  <2>4. QED
    BY <1>1, <2>1, <2>2, <2>3, PageKeeps
<1>5. CASE Alerts!Shown(a) \/ Alerts!Fail(a)
  <2>1. page' = [page EXCEPT ![a] = Alerts!Closed] /\ UNCHANGED <<aNow, critical, told, snapshot, loads>>
    BY <1>5 DEF Alerts!Shown, Alerts!Fail
  <2>2. Alerts!Closed \in [at : {"closed", "collected", "probed", "telling"}, keys : SUBSET Key, item : Key \cup {Nothing},
                    left : SUBSET Admin, shows : Nat \cup {Nothing}, since : Nat \cup {Nothing}]
        /\ Alerts!Closed.at = "closed"
    BY DEF Alerts!Closed
  <2>3. page' \in [Admin -> [at : {"closed", "collected", "probed", "telling"}, keys : SUBSET Key,
              item : Key \cup {Nothing}, left : SUBSET Admin, shows : Nat \cup {Nothing}, since : Nat \cup {Nothing}]]
        /\ page'[a] = Alerts!Closed /\ \A b \in Admin \ {a} : page'[b] = page[b]
    BY <2>1, <2>2
  <2>4. QED
    BY <1>1, <2>1, <2>2, <2>3, PageKeeps
<1>6. QED
  BY <1>2, <1>3, <1>4, <1>5

\* The page that tells changes, and nobody else does.
LEMMA AlertCheckKeeps ==
    ASSUME AlertInv, NEW a \in Admin, NEW k \in Key, Alerts!Check(a, k)
    PROVE  AlertInv'
<1> PICK p : p = page[a]
  OBVIOUS
<1> DEFINE q == [p EXCEPT !.at = "telling", !.item = k, !.left = Alerts!Remaining(a, k)]
<1>1. Alerts!TypeOK /\ PagesTyped /\ LeftUntold /\ Alerts!AlertsAreSpaced /\ Alerts!ReadingsAreFresh
  BY DEF AlertInv
<1>2. page' = [page EXCEPT ![a] = q] /\ p.at = "probed" /\ UNCHANGED <<aNow, critical, told, snapshot, loads>>
  BY DEF Alerts!Check
<1>3. p \in [at : {"closed", "collected", "probed", "telling"}, keys : SUBSET Key, item : Key \cup {Nothing},
             left : SUBSET Admin, shows : Nat \cup {Nothing}, since : Nat \cup {Nothing}]
      /\ p.since \in 0 .. aNow /\ p.shows \in 0 .. aNow
  BY <1>2, AlertTypes DEF PagesTyped
<1>4. Alerts!Remaining(a, k) \in SUBSET Admin
  BY DEF Alerts!Remaining
<1>5. q \in [at : {"closed", "collected", "probed", "telling"}, keys : SUBSET Key, item : Key \cup {Nothing},
             left : SUBSET Admin, shows : Nat \cup {Nothing}, since : Nat \cup {Nothing}]
      /\ q.since = p.since /\ q.shows = p.shows /\ q.at = "telling" /\ q.item = k /\ q.left = Alerts!Remaining(a, k)
  BY <1>3, <1>4
<1> HIDE DEF q
<1>6. page' \in [Admin -> [at : {"closed", "collected", "probed", "telling"}, keys : SUBSET Key,
            item : Key \cup {Nothing}, left : SUBSET Admin, shows : Nat \cup {Nothing}, since : Nat \cup {Nothing}]]
      /\ page'[a] = q /\ \A b \in Admin \ {a} : page'[b] = page[b]
  BY <1>2, <1>5, AlertTypes
<1>7. Alerts!TypeOK'
  <2>1. \A b \in Admin : page'[b].at \in {"closed", "collected", "probed", "telling"}
    BY <1>6
  <2>2. QED
    BY <1>1, <1>2, <2>1 DEF Alerts!TypeOK
<1>8. PagesTyped'
  <2>1. \A b \in Admin : page'[b].at # "closed" =>
          /\ page'[b].since \in 0 .. aNow /\ page'[b].shows \in 0 .. aNow
          /\ page'[b].at = "telling" => page'[b].item \in Key
    BY <1>1, <1>3, <1>5, <1>6 DEF PagesTyped
  <2>2. QED
    BY <1>1, <1>2, <1>6, <2>1 DEF PagesTyped
<1>9. LeftUntold'
  <2> SUFFICES ASSUME NEW b \in Admin, NEW u \in Admin, page'[b].at = "telling"
               PROVE  IF u \in page'[b].left THEN \A m \in told' : ~(m.by = b /\ Covers(m, b, u)')
                                             ELSE \E m \in told' : Covers(m, b, u)'
    BY DEF LeftUntold
  <2>1. CASE b = a
    <3>1. \A m : Covers(m, a, u)' <=> m.key = k /\ m.user = u /\ m.at >= page[a].since - Renotify
      BY <1>5, <1>6 DEF Covers
    <3>2. u \in q.left <=> \A m \in told : ~(m.key = k /\ m.user = u /\ m.at >= page[a].since - Renotify)
      BY <1>5 DEF Alerts!Remaining, Alerts!Recent
    <3>3. QED
      BY <1>2, <1>6, <2>1, <3>1, <3>2
  <2>2. CASE b # a
    BY <1>1, <1>2, <1>6, <2>2 DEF LeftUntold, Covers
  <2>3. QED
    BY <2>1, <2>2
<1>10. Alerts!AlertsAreSpaced'
  BY <1>1, <1>2 DEF Alerts!AlertsAreSpaced
<1>11. Alerts!ReadingsAreFresh'
  BY <1>1, <1>2, <1>5, <1>6 DEF Alerts!ReadingsAreFresh
<1>12. QED
  BY <1>7, <1>8, <1>9, <1>10, <1>11 DEF AlertInv

\* One is told who was not told by this page within its window.
LEMMA NotifyKeeps ==
    ASSUME AlertInv, NEW a \in Admin, NEW u \in Admin, Alerts!Notify(a, u)
    PROVE  AlertInv'
<1> PICK p : p = page[a]
  OBVIOUS
<1> DEFINE q == [p EXCEPT !.left = @ \ {u}]
<1> PICK n : n = [key |-> page[a].item, user |-> u, by |-> a, at |-> aNow, read |-> FALSE]
  OBVIOUS
<1>1. Alerts!TypeOK /\ PagesTyped /\ LeftUntold /\ Alerts!AlertsAreSpaced /\ Alerts!ReadingsAreFresh
  BY DEF AlertInv
<1>2. page' = [page EXCEPT ![a] = q] /\ p.at = "telling" /\ u \in p.left /\ UNCHANGED <<aNow, critical, snapshot, loads>>
      /\ told' = told \cup {n}
  BY DEF Alerts!Notify
<1>3. p \in [at : {"closed", "collected", "probed", "telling"}, keys : SUBSET Key, item : Key \cup {Nothing},
             left : SUBSET Admin, shows : Nat \cup {Nothing}, since : Nat \cup {Nothing}]
      /\ p.since \in 0 .. aNow /\ p.shows \in 0 .. aNow /\ p.item \in Key /\ aNow \in 0 .. MaxTime /\ aNow \in Nat
  BY <1>2, AlertTypes DEF PagesTyped
<1>4. q \in [at : {"closed", "collected", "probed", "telling"}, keys : SUBSET Key, item : Key \cup {Nothing},
             left : SUBSET Admin, shows : Nat \cup {Nothing}, since : Nat \cup {Nothing}]
      /\ q.since = p.since /\ q.shows = p.shows /\ q.at = "telling" /\ q.item = p.item /\ q.left = p.left \ {u}
  BY <1>2, <1>3
<1> HIDE DEF q
<1>5. page' \in [Admin -> [at : {"closed", "collected", "probed", "telling"}, keys : SUBSET Key,
            item : Key \cup {Nothing}, left : SUBSET Admin, shows : Nat \cup {Nothing}, since : Nat \cup {Nothing}]]
      /\ page'[a] = q /\ \A b \in Admin \ {a} : page'[b] = page[b]
  BY <1>2, <1>4, AlertTypes
<1>6. n \in Notice /\ n.key = p.item /\ n.user = u /\ n.by = a /\ n.at = aNow /\ told \subseteq Notice
  BY <1>3, AlertTypes DEF Notice
<1>7. Alerts!TypeOK'
  <2>1. \A b \in Admin : page'[b].at \in {"closed", "collected", "probed", "telling"}
    BY <1>5
  <2>2. told' \subseteq Notice
    BY <1>2, <1>6
  <2>3. QED
    BY <1>1, <1>2, <2>1, <2>2 DEF Alerts!TypeOK, Notice
<1>8. PagesTyped'
  <2>1. \A b \in Admin : page'[b].at # "closed" =>
          /\ page'[b].since \in 0 .. aNow /\ page'[b].shows \in 0 .. aNow
          /\ page'[b].at = "telling" => page'[b].item \in Key
    BY <1>1, <1>3, <1>4, <1>5 DEF PagesTyped
  <2>2. QED
    BY <1>1, <1>2, <1>5, <2>1 DEF PagesTyped
<1>9. \A b, v \in Admin : \A m : Covers(m, b, v)' <=> Covers(m, b, v)
  BY <1>4, <1>5 DEF Covers
<1>10. Covers(n, a, u)
  BY <1>3, <1>6, AlertConsts DEF Covers
<1>11. LeftUntold'
  <2> SUFFICES ASSUME NEW b \in Admin, NEW v \in Admin, page'[b].at = "telling"
               PROVE  IF v \in page'[b].left THEN \A m \in told' : ~(m.by = b /\ Covers(m, b, v))
                                             ELSE \E m \in told' : Covers(m, b, v)
    BY <1>9 DEF LeftUntold
  <2>1. page[b].at = "telling" /\ (v \in page'[b].left <=> v \in page[b].left /\ ~(b = a /\ v = u))
    BY <1>2, <1>4, <1>5
  <2>2. n.by = b /\ Covers(n, b, v) => b = a /\ v = u
    BY <1>6 DEF Covers
  <2>3. QED
    BY <1>1, <1>2, <1>10, <2>1, <2>2 DEF LeftUntold
<1>12. \A m \in told : ~(m.by = a /\ m.key = n.key /\ m.user = u /\ aNow - m.at <= Renotify)
  <2> SUFFICES ASSUME NEW m \in told, m.by = a, m.key = n.key, m.user = u, aNow - m.at <= Renotify PROVE FALSE
    OBVIOUS
  <2>1. m.at \in 0 .. aNow
    BY <1>6 DEF Notice
  <2>2. m.at >= p.since - Renotify
    BY <1>3, <2>1, AlertConsts
  <2>3. Covers(m, a, u)
    BY <1>6, <2>2 DEF Covers
  <2>4. QED
    BY <1>1, <1>2, <2>3 DEF LeftUntold
<1>13. Alerts!AlertsAreSpaced'
  <2> SUFFICES ASSUME NEW m \in told', NEW o \in told', m # o, m.key = o.key, m.user = o.user, m.at <= o.at,
                      o.at - m.at <= Renotify, m.by = o.by
               PROVE  FALSE
    BY DEF Alerts!AlertsAreSpaced
  <2>1. CASE m \in told /\ o \in told
    BY <1>1, <2>1 DEF Alerts!AlertsAreSpaced
  <2>2. CASE m \in told /\ o = n
    BY <1>6, <1>12, <2>2
  <2>3. CASE m = n /\ o \in told
    <3>1. o.at \in 0 .. aNow /\ o.at >= aNow
      BY <1>6, <2>3 DEF Notice
    <3>2. aNow - o.at <= Renotify
      BY <1>3, <3>1, AlertConsts
    <3>3. QED
      BY <1>6, <1>12, <2>3, <3>2
  <2>4. QED
    BY <1>2, <2>1, <2>2, <2>3
<1>14. Alerts!ReadingsAreFresh'
  BY <1>1, <1>2, <1>4, <1>5 DEF Alerts!ReadingsAreFresh
<1>15. QED
  BY <1>7, <1>8, <1>11, <1>13, <1>14 DEF AlertInv

\* Who reads a notification changes nothing of whom it told and when.
LEMMA AcknowledgeKeeps ==
    ASSUME AlertInv, NEW a \in Admin, NEW k \in Key, Alerts!Acknowledge(a, k)
    PROVE  AlertInv'
<1> PICK own : own = {n \in told : n.user = a /\ n.key = k /\ ~ n.read}
  OBVIOUS
<1> PICK f : f = [n \in told |-> IF n \in own THEN [n EXCEPT !.read = TRUE] ELSE n]
  OBVIOUS
<1>1. Alerts!TypeOK /\ PagesTyped /\ LeftUntold /\ Alerts!AlertsAreSpaced /\ Alerts!ReadingsAreFresh
  BY DEF AlertInv
<1>2. UNCHANGED <<aNow, critical, snapshot, page, loads>> /\ told' = (told \ own) \cup {[n EXCEPT !.read = TRUE] : n \in own}
      /\ own \subseteq told
  BY DEF Alerts!Acknowledge
<1>3. \A n \in told : /\ f[n] \in Notice /\ f[n] \in told'
                      /\ f[n].key = n.key /\ f[n].user = n.user /\ f[n].by = n.by /\ f[n].at = n.at
  <2> TAKE n \in told
  <2>1. n \in Notice
    BY AlertTypes
  <2>2. f[n] = IF n \in own THEN [n EXCEPT !.read = TRUE] ELSE n
    OBVIOUS
  <2>3. CASE n \in own
    BY <1>2, <2>1, <2>2, <2>3 DEF Notice
  <2>4. CASE n \notin own
    BY <1>2, <2>1, <2>2, <2>4
  <2>5. QED
    BY <2>3, <2>4
<1>4. \A m \in told' : \E n \in told : m = f[n]
  BY <1>2
<1>5. Alerts!TypeOK'
  <2>1. told' \subseteq Notice
    BY <1>3, <1>4
  <2>2. QED
    BY <1>1, <1>2, <2>1 DEF Alerts!TypeOK, Notice
<1>6. PagesTyped'
  BY <1>1, <1>2 DEF PagesTyped
<1>7. LeftUntold'
  <2>1. \A n \in told, b, u \in Admin : (n.by = b <=> f[n].by = b) /\ (Covers(f[n], b, u) <=> Covers(n, b, u))
    BY <1>3 DEF Covers
  <2>2. \A m, b, u : Covers(m, b, u)' <=> Covers(m, b, u)
    BY <1>2 DEF Covers
  <2>3. \A b, u \in Admin : page[b].at = "telling" =>
           IF u \in page[b].left THEN \A m \in told' : ~(m.by = b /\ Covers(m, b, u))
                                 ELSE \E m \in told' : Covers(m, b, u)
    <3> TAKE b \in Admin, u \in Admin
    <3> HAVE page[b].at = "telling"
    <3>1. CASE u \in page[b].left
      <4>1. \A n \in told : ~(n.by = b /\ Covers(n, b, u))
        BY <1>1, <3>1 DEF LeftUntold
      <4>2. \A m \in told' : ~(m.by = b /\ Covers(m, b, u))
        <5> SUFFICES ASSUME NEW m \in told', m.by = b, Covers(m, b, u) PROVE FALSE
          OBVIOUS
        <5>1. PICK n \in told : m = f[n]
          BY <1>4
        <5>2. QED
          BY <2>1, <4>1, <5>1
      <4>3. QED
        BY <3>1, <4>2
    <3>2. CASE u \notin page[b].left
      <4>1. PICK n \in told : Covers(n, b, u)
        BY <1>1, <3>2 DEF LeftUntold
      <4>2. f[n] \in told' /\ Covers(f[n], b, u)
        BY <1>3, <2>1, <4>1
      <4>3. QED
        BY <3>2, <4>2
    <3>3. QED
      BY <3>1, <3>2
  <2>4. QED
    BY <1>2, <2>2, <2>3 DEF LeftUntold
<1>8. Alerts!AlertsAreSpaced'
  <2> SUFFICES ASSUME NEW m \in told', NEW o \in told', m # o, m.key = o.key, m.user = o.user, m.at <= o.at,
                      o.at - m.at <= Renotify, m.by = o.by
               PROVE  FALSE
    BY DEF Alerts!AlertsAreSpaced
  <2>1. PICK x \in told, y \in told : m = f[x] /\ o = f[y]
    BY <1>4
  <2>2. x # y /\ x.key = y.key /\ x.user = y.user /\ x.at <= y.at /\ y.at - x.at <= Renotify /\ x.by = y.by
    BY <1>3, <2>1
  <2>3. QED
    BY <1>1, <2>2 DEF Alerts!AlertsAreSpaced
<1>9. Alerts!ReadingsAreFresh'
  BY <1>1, <1>2 DEF Alerts!ReadingsAreFresh
<1>10. QED
  BY <1>5, <1>6, <1>7, <1>8, <1>9 DEF AlertInv

LEMMA AlertsBegin == Alerts!Init => AlertInv
<1> SUFFICES ASSUME Alerts!Init PROVE AlertInv
  OBVIOUS
<1>1. Alerts!Closed \in [at : {"closed", "collected", "probed", "telling"}, keys : SUBSET Key, item : Key \cup {Nothing},
                  left : SUBSET Admin, shows : Nat \cup {Nothing}, since : Nat \cup {Nothing}] /\ Alerts!Closed.at = "closed"
  BY DEF Alerts!Closed
<1>2. Alerts!TypeOK
  BY <1>1, AlertConsts DEF Alerts!Init, Alerts!TypeOK
<1>3. PagesTyped
  BY <1>1 DEF Alerts!Init, PagesTyped
<1>4. LeftUntold /\ Alerts!AlertsAreSpaced /\ Alerts!ReadingsAreFresh
  BY <1>1 DEF Alerts!Init, LeftUntold, Alerts!AlertsAreSpaced, Alerts!ReadingsAreFresh
<1>5. QED
  BY <1>2, <1>3, <1>4 DEF AlertInv

LEMMA AlertInvStep == AlertInv /\ [Alerts!Next]_Alerts!vars => AlertInv'
<1> SUFFICES ASSUME AlertInv, [Alerts!Next]_Alerts!vars PROVE AlertInv'
  OBVIOUS
<1>1. CASE \E a \in Admin : Alerts!Open(a) \/ Alerts!Store(a) \/ Alerts!NextItem(a) \/ Alerts!Shown(a) \/ Alerts!Fail(a)
  BY <1>1, PageSteps
<1>2. CASE \E a, u \in Admin : Alerts!Notify(a, u)
  BY <1>2, NotifyKeeps
<1>3. CASE \E a \in Admin, k \in Key : Alerts!Check(a, k) \/ Alerts!Acknowledge(a, k)
  BY <1>3, AlertCheckKeeps, AcknowledgeKeeps
<1>4. CASE (\E k \in Key : Alerts!Change(k)) \/ Alerts!Tick \/ UNCHANGED Alerts!vars
  <2>1. UNCHANGED <<told, snapshot, page, loads>> /\ critical' \subseteq Key /\ aNow' \in 0 .. MaxTime /\ aNow' >= aNow /\ aNow \in Nat
    <3>1. critical \subseteq Key /\ aNow \in 0 .. MaxTime /\ aNow \in Nat
      BY AlertTypes DEF Alerts!TypeOK
    <3>2. CASE \E k \in Key : Alerts!Change(k)
      BY <3>1, <3>2 DEF Alerts!Change
    <3>3. CASE Alerts!Tick
      BY <3>1, <3>3, AlertConsts DEF Alerts!Tick
    <3>4. CASE UNCHANGED Alerts!vars
      BY <3>1, <3>4 DEF Alerts!vars
    <3>5. QED
      BY <1>4, <3>2, <3>3, <3>4
  <2>2. 0 .. aNow \subseteq 0 .. aNow'
    BY <2>1
  <2>3. Alerts!TypeOK'
    <3>1. told' \subseteq Notice'
      BY <2>1, <2>2, AlertTypes DEF Notice
    <3>2. snapshot' # Nothing => snapshot'.collected <= snapshot'.stored /\ snapshot'.stored <= aNow'
      BY <2>1, AlertTypes
    <3>3. QED
      BY <2>1, <3>1, <3>2 DEF AlertInv, Alerts!TypeOK, Notice
  <2>4. PagesTyped'
    BY <2>1, <2>2 DEF AlertInv, PagesTyped
  <2>5. LeftUntold' /\ Alerts!AlertsAreSpaced' /\ Alerts!ReadingsAreFresh'
    BY <2>1 DEF AlertInv, LeftUntold, Covers, Alerts!AlertsAreSpaced, Alerts!ReadingsAreFresh
  <2>6. QED
    BY <2>3, <2>4, <2>5 DEF AlertInv
<1>5. QED
  BY <1>1, <1>2, <1>3, <1>4 DEF Alerts!Next

\* The status page (governance/dashboards.py, server_health.py): a SuperAdmin is told of
\* one problem once in a window, or once for each page, and no page shows an old reading.
LEMMA AlertsAreSafe == Alerts!Spec => [](Alerts!TypeOK /\ Alerts!AlertsAreSpaced /\ Alerts!ReadingsAreFresh)
<1>1. AlertInv => Alerts!TypeOK /\ Alerts!AlertsAreSpaced /\ Alerts!ReadingsAreFresh
  BY DEF AlertInv
<1>2. QED
  BY AlertsBegin, AlertInvStep, <1>1, PTL DEF Alerts!Spec

\* A page that is through with a critical item finds every SuperAdmin told of it within
\* the window, by itself or by another page (notify_critical_system_alerts).
LEMMA NobodyIsLeftUntold == Alerts!Spec => Alerts!EverybodyIsTold
<1>1. AlertInv /\ [Alerts!Next]_Alerts!vars =>
        [\A a \in Admin : Alerts!NextItem(a) =>
           \A u \in Admin : \E n \in told : n.key = page[a].item /\ n.user = u /\ n.at >= page[a].since - Renotify]_Alerts!vars
  <2> SUFFICES ASSUME AlertInv, NEW a \in Admin, Alerts!NextItem(a), NEW u \in Admin
               PROVE  \E n \in told : n.key = page[a].item /\ n.user = u /\ n.at >= page[a].since - Renotify
    OBVIOUS
  <2>1. page[a].at = "telling" /\ page[a].left = {}
    BY DEF Alerts!NextItem
  <2>2. QED
    BY <2>1 DEF AlertInv, LeftUntold, Covers
<1>2. QED
  BY AlertsBegin, AlertInvStep, <1>1, PTL DEF Alerts!Spec, Alerts!EverybodyIsTold

-------------------------------------------------------------------------------
(* The backups.                                                            *)

Backup == [at : 0 .. bNow, whole : BOOLEAN]
BackupJob == [at : {"waiting", "dumped", "uploaded", "verified", "pruning", "over"},
              since : Nat \cup {Nothing}, doomed : SUBSET DumpId]
Started(j) == job[j].at # "waiting"
Active(j) == job[j].at \notin {"waiting", "over"}

BucketTyped ==
    /\ bucket \in [DumpId -> Backup \cup {Nothing}] /\ job \in [DumpId -> BackupJob]
    /\ IsFiniteSet(stored) /\ Dumps!There \subseteq stored /\ stored \subseteq DumpId

\* A backup is of a job that uploaded it after it had begun, and a job under way began less
\* than the retention ago.
JobsInTime ==
    /\ \A j \in DumpId : Started(j) => job[j].since \in 0 .. bNow
    /\ \A j \in DumpId : Active(j) => bNow - job[j].since < RetentionDays
    /\ \A j \in DumpId : job[j].at \in {"waiting", "dumped"} => j \notin stored
    /\ \A j \in stored : Started(j)
    /\ \A j \in Dumps!There : job[j].since <= bucket[j].at
    /\ \A j \in DumpId : job[j].at \in {"verified", "pruning"} => j \in verified
    /\ \A j \in DumpId : job[j].at \in {"waiting", "dumped", "uploaded"} => j \notin verified

\* What is about to be deleted has MinKept backups before it, and began before the job
\* that deletes it, which has found its own backup whole.
DoomedAreOld ==
    \A j \in DumpId : \A k \in job[j].doomed :
       /\ j \in verified /\ k \in stored /\ job[k].since < job[j].since
       /\ k \in Dumps!There => Dumps!Position(k) >= MinKept

BackupInv == Dumps!TypeOK /\ BucketTyped /\ JobsInTime /\ DoomedAreOld /\ Dumps!LastWholeKept /\ Dumps!NewestKept

\* The instance has its own copies of the operators on finite sets: they are the same.
LEMMA DumpSets ==
    /\ \A S : Dumps!IsFiniteSet(S) <=> IsFiniteSet(S)
    /\ \A S : Dumps!Cardinality(S) = Cardinality(S)
<1>1. ASSUME NEW S PROVE Dumps!IsFiniteSet(S) <=> IsFiniteSet(S)
  BY DEF Dumps!IsFiniteSet, IsFiniteSet
<1>2. ASSUME NEW S PROVE Dumps!Cardinality(S) = Cardinality(S)
  BY DEF Dumps!Cardinality, Cardinality
<1>3. QED
  BY <1>1, <1>2

LEMMA BackupConsts ==
    /\ DumpId \subseteq Nat /\ MinKept \in Nat /\ RetentionDays \in Nat /\ RetentionDays > 0 /\ LastDay \in Nat
    /\ Nothing \notin [at : Nat, whole : BOOLEAN]
BY BackupAssumption DEF Dumps!BackupConstants

LEMMA BackupParts ==
    ASSUME BackupInv
    PROVE  /\ Dumps!TypeOK /\ BucketTyped /\ JobsInTime /\ DoomedAreOld /\ Dumps!LastWholeKept /\ Dumps!NewestKept
           /\ bNow \in 0 .. LastDay /\ bNow \in Nat
           /\ IsFiniteSet(Dumps!There) /\ Cardinality(Dumps!There) \in Nat /\ Cardinality(stored) \in Nat
           /\ Nothing \notin Backup
           /\ \A j \in Dumps!There : bucket[j] \in Backup
<1>1. Dumps!TypeOK /\ BucketTyped /\ JobsInTime /\ DoomedAreOld /\ Dumps!LastWholeKept /\ Dumps!NewestKept
  BY DEF BackupInv
<1>2. bNow \in 0 .. LastDay /\ bNow \in Nat
  BY <1>1, BackupConsts DEF Dumps!TypeOK
<1>3. Nothing \notin Backup
  BY <1>2, BackupConsts DEF Backup
<1>4. IsFiniteSet(Dumps!There) /\ IsFiniteSet(stored)
  BY <1>1, FS_Subset DEF BucketTyped
<1>5. Cardinality(Dumps!There) \in Nat /\ Cardinality(stored) \in Nat
  BY <1>4, FS_CardinalityType
<1>6. \A j \in Dumps!There : bucket[j] \in Backup
  BY <1>1 DEF BucketTyped, Dumps!There
<1>7. QED
  BY <1>1, <1>2, <1>3, <1>4, <1>5, <1>6

LEMMA LeastOfTwo ==
    ASSUME NEW a \in Int, NEW b \in Int
    PROVE  Dumps!Min({a, b}) = (IF a <= b THEN a ELSE b)
<1>1. CASE a <= b
  <2>1. \A x \in {a, b} : (\A y \in {a, b} : x <= y) <=> x = a
    BY <1>1
  <2>2. QED
    BY <1>1, <2>1 DEF Dumps!Min
<1>2. CASE ~(a <= b)
  <2>1. \A x \in {a, b} : (\A y \in {a, b} : x <= y) <=> x = b
    BY <1>2
  <2>2. QED
    BY <1>2, <2>1 DEF Dumps!Min
<1>3. QED
  BY <1>1, <1>2

\* A job goes on, and nothing is stored, found whole or deleted.
LEMMA JobKeeps ==
    ASSUME BackupInv, NEW j \in DumpId, NEW e \in BackupJob, job' = [job EXCEPT ![j] = e],
           e.at # "waiting", e.since \in 0 .. bNow,
           e.at # "over" => bNow - e.since < RetentionDays,
           Started(j) => e.since = job[j].since,
           e.at = "dumped" => job[j].at = "waiting",
           j \in verified => e.at \notin {"dumped", "uploaded"},
           e.at \in {"verified", "pruning"} => j \in verified,
           e.at = "uploaded" => job[j].at = "dumped",
           \A k \in e.doomed : /\ j \in verified /\ k \in stored /\ job[k].since < e.since
                               /\ k \in Dumps!There => Dumps!Position(k) >= MinKept,
           UNCHANGED <<bNow, bucket, stored, verified>>
    PROVE  BackupInv'
<1>1. Dumps!TypeOK /\ BucketTyped /\ JobsInTime /\ DoomedAreOld /\ Dumps!LastWholeKept /\ Dumps!NewestKept /\ bNow \in Nat
  BY BackupParts
<1>2. job' \in [DumpId -> BackupJob] /\ job'[j] = e /\ \A k \in DumpId \ {j} : job'[k] = job[k]
  BY <1>1 DEF BucketTyped
<1>3. Dumps!There' = Dumps!There /\ (\A k : Dumps!Position(k)' = Dumps!Position(k)) /\ Backup' = Backup
  BY DumpSets DEF Dumps!There, Dumps!Position, Dumps!Ahead, Backup
<1>4. Dumps!TypeOK'
  <2>1. \A k \in DumpId : job'[k].at \in {"waiting", "dumped", "uploaded", "verified", "pruning", "over"} /\ job'[k].doomed \subseteq DumpId
    BY <1>2 DEF BackupJob
  <2>2. QED
    BY <1>1, <1>3, <2>1 DEF Dumps!TypeOK
<1>5. BucketTyped'
  <2>1. BackupJob' = BackupJob
    BY DEF BackupJob
  <2>2. QED
    BY <1>1, <1>2, <1>3, <2>1 DEF BucketTyped
<1>6. \A k \in DumpId : Started(k) => Started(k)' /\ job'[k].since = job[k].since
  BY <1>2 DEF Started
<1>7. JobsInTime'
  <2>1. \A k \in DumpId : Started(k)' => job'[k].since \in 0 .. bNow
    BY <1>1, <1>2 DEF JobsInTime, Started
  <2>2. \A k \in DumpId : Active(k)' => bNow - job'[k].since < RetentionDays
    BY <1>1, <1>2 DEF JobsInTime, Active
  <2>3. \A k \in DumpId : job'[k].at \in {"waiting", "dumped"} => k \notin stored
    BY <1>1, <1>2 DEF JobsInTime
  <2>4. \A k \in stored : k \in DumpId /\ Started(k)
    BY <1>1 DEF JobsInTime, BucketTyped
  <2>5. \A k \in Dumps!There : k \in stored /\ job[k].since <= bucket[k].at
    BY <1>1 DEF JobsInTime, BucketTyped
  <2>6. \A k \in DumpId : job'[k].at \in {"verified", "pruning"} => k \in verified
    BY <1>1, <1>2 DEF JobsInTime
  <2>7. \A k \in DumpId : job'[k].at \in {"waiting", "dumped", "uploaded"} => k \notin verified
    BY <1>1, <1>2 DEF JobsInTime
  <2>8. QED
    BY <1>3, <1>6, <2>1, <2>2, <2>3, <2>4, <2>5, <2>6, <2>7 DEF JobsInTime
<1>8. DoomedAreOld'
  <2> SUFFICES ASSUME NEW l \in DumpId, NEW k \in job'[l].doomed
               PROVE  /\ l \in verified /\ k \in stored /\ job'[k].since < job'[l].since
                      /\ k \in Dumps!There => Dumps!Position(k) >= MinKept
    BY <1>3 DEF DoomedAreOld
  <2>1. \A x \in stored : x \in DumpId /\ Started(x)
    BY <1>1 DEF BucketTyped, JobsInTime
  <2>2. CASE l = j
    BY <1>2, <1>6, <2>1, <2>2
  <2>3. CASE l # j
    BY <1>1, <1>2, <1>6, <2>1, <2>3 DEF DoomedAreOld
  <2>4. QED
    BY <2>2, <2>3
<1>9. Dumps!LastWholeKept'
  <2>1. \A k \in verified : k \in DumpId /\ job'[k].since = job[k].since
    <3> TAKE k \in verified
    <3>1. k \in DumpId /\ Started(k)
      BY <1>1 DEF Dumps!TypeOK, BucketTyped, JobsInTime
    <3>2. QED
      BY <1>6, <3>1
  <2>2. QED
    BY <1>1, <1>3, <2>1 DEF Dumps!LastWholeKept
<1>10. Dumps!NewestKept'
  BY <1>1, <1>3, DumpSets DEF Dumps!NewestKept
<1>11. QED
  BY <1>4, <1>5, <1>7, <1>8, <1>9, <1>10 DEF BackupInv

LEMMA JobSteps ==
    ASSUME BackupInv, NEW j \in DumpId, Dumps!Dump(j) \/ Dumps!List(j) \/ Dumps!End(j)
    PROVE  BackupInv'
<1> PICK p : p = job[j]
  OBVIOUS
<1>1. BucketTyped /\ JobsInTime /\ DoomedAreOld /\ bNow \in Nat /\ BackupInv
  BY BackupParts
<1>2. p \in BackupJob /\ p \in [at : {"waiting", "dumped", "uploaded", "verified", "pruning", "over"},
              since : Nat \cup {Nothing}, doomed : SUBSET DumpId]
  BY <1>1 DEF BucketTyped, BackupJob
<1>3. CASE Dumps!Dump(j)
  <2>1. PICK to \in {"dumped", "over"} : job' = [job EXCEPT ![j] = [p EXCEPT !.at = to, !.since = bNow]]
    BY <1>1, <1>3 DEF Dumps!Dump, BucketTyped
  <2>2. p.at = "waiting" /\ UNCHANGED <<bNow, bucket, stored, verified>>
    BY <1>3 DEF Dumps!Dump
  <2> DEFINE e == [p EXCEPT !.at = to, !.since = bNow]
  <2>3. e \in BackupJob /\ e.at = to /\ e.since = bNow /\ e.doomed = p.doomed
    BY <1>1, <1>2 DEF BackupJob
  <2>4. j \notin verified /\ ~Started(j) /\ p.doomed = {} /\ bNow \in 0 .. bNow /\ bNow - bNow < RetentionDays
    BY <1>1, <2>2, BackupConsts DEF JobsInTime, DoomedAreOld, Started
  <2> HIDE DEF e
  <2>5. /\ e.at # "waiting" /\ e.since \in 0 .. bNow
        /\ e.at # "over" => bNow - e.since < RetentionDays
        /\ Started(j) => e.since = job[j].since
        /\ e.at = "dumped" => job[j].at = "waiting"
        /\ j \in verified => e.at \notin {"dumped", "uploaded"}
        /\ e.at \in {"verified", "pruning"} => j \in verified
        /\ e.at = "uploaded" => job[j].at = "dumped"
        /\ e.doomed = {}
    BY <2>2, <2>3, <2>4
  <2>6. job' = [job EXCEPT ![j] = e]
    BY <2>1 DEF e
  <2>7. QED
    BY <1>1, <2>2, <2>3, <2>5, <2>6, JobKeeps
<1>4. CASE Dumps!List(j)
  <2> DEFINE old == {k \in Dumps!There : Dumps!Position(k) >= MinKept /\ bucket[k].at < bNow - RetentionDays}
             e == [p EXCEPT !.at = "pruning", !.doomed = old]
  <2>1. job' = [job EXCEPT ![j] = e] /\ p.at = "verified" /\ UNCHANGED <<bNow, bucket, stored, verified>>
    BY <1>4 DEF Dumps!List
  <2>2. e \in BackupJob /\ e.at = "pruning" /\ e.since = p.since /\ e.doomed = old
    BY <1>2 DEF BackupJob, Dumps!There
  <2>3. j \in verified /\ p.since \in 0 .. bNow /\ bNow - p.since < RetentionDays
    BY <1>1, <2>1 DEF JobsInTime, Started, Active
  <2>4. \A k \in old : /\ j \in verified /\ k \in stored /\ job[k].since < p.since
                       /\ k \in Dumps!There => Dumps!Position(k) >= MinKept
    <3> TAKE k \in old
    <3>1. k \in Dumps!There /\ k \in stored /\ Started(k) /\ k \in DumpId
      BY <1>1 DEF BucketTyped, JobsInTime
    <3>2. job[k].since \in 0 .. bNow /\ job[k].since <= bucket[k].at /\ bucket[k].at \in 0 .. bNow
      BY <1>1, <3>1, BackupParts DEF JobsInTime, Backup
    <3>3. bucket[k].at < bNow - RetentionDays
      OBVIOUS
    <3>4. job[k].since < p.since
      BY <1>1, <2>3, <3>2, <3>3, BackupConsts
    <3>5. QED
      BY <2>3, <3>1, <3>4
  <2> HIDE DEF e, old
  <2>5. QED
    BY <1>1, <2>1, <2>2, <2>3, <2>4, JobKeeps
<1>5. CASE Dumps!End(j)
  <2> DEFINE e == [p EXCEPT !.at = "over", !.doomed = {}]
  <2>1. job' = [job EXCEPT ![j] = e] /\ p.at # "waiting" /\ UNCHANGED <<bNow, bucket, stored, verified>>
    BY <1>5 DEF Dumps!End
  <2>2. e \in BackupJob /\ e.at = "over" /\ e.since = p.since /\ e.doomed = {}
    BY <1>2 DEF BackupJob
  <2>3. p.since \in 0 .. bNow
    BY <1>1, <2>1 DEF JobsInTime, Started
  <2> HIDE DEF e
  <2>4. QED
    BY <1>1, <2>1, <2>2, <2>3, JobKeeps
<1>6. QED
  BY <1>3, <1>4, <1>5

\* A backup arrives, whole or not: one more is there, and one more was stored.
LEMMA ArrivalKeeps ==
    ASSUME BackupInv, NEW j \in DumpId, NEW whole \in BOOLEAN, job[j].at = "dumped",
           job' = [job EXCEPT ![j].at = "uploaded"], stored' = stored \cup {j},
           bucket' = [bucket EXCEPT ![j] = [at |-> bNow, whole |-> whole]], UNCHANGED <<bNow, verified>>
    PROVE  BackupInv'
<1> PICK b : b = [at |-> bNow, whole |-> whole]
  OBVIOUS
<1>1. Dumps!TypeOK /\ BucketTyped /\ JobsInTime /\ DoomedAreOld /\ Dumps!LastWholeKept /\ Dumps!NewestKept /\ bNow \in Nat
  BY BackupParts
<1>2. b \in Backup /\ b # Nothing /\ b.at = bNow /\ Backup' = Backup /\ BackupJob' = BackupJob
  <2>1. b \in Backup /\ b.at = bNow
    BY <1>1 DEF Backup
  <2>2. QED
    BY <2>1, BackupParts DEF Backup, BackupJob
<1>3. job[j] \in BackupJob
  BY <1>1 DEF BucketTyped
<1>4. /\ job' \in [DumpId -> BackupJob] /\ bucket' \in [DumpId -> Backup \cup {Nothing}]
      /\ bucket'[j] = b /\ \A k \in DumpId \ {j} : bucket'[k] = bucket[k]
      /\ \A k \in DumpId : job'[k].since = job[k].since /\ job'[k].doomed = job[k].doomed
      /\ job'[j].at = "uploaded" /\ \A k \in DumpId \ {j} : job'[k] = job[k]
  <2>1. bucket' \in [DumpId -> Backup \cup {Nothing}] /\ bucket'[j] = b /\ \A k \in DumpId \ {j} : bucket'[k] = bucket[k]
    BY <1>1, <1>2 DEF BucketTyped
  <2>2. [job[j] EXCEPT !.at = "uploaded"] \in BackupJob
    BY <1>3 DEF BackupJob
  <2>3. job' \in [DumpId -> BackupJob] /\ job'[j] = [job[j] EXCEPT !.at = "uploaded"] /\ \A k \in DumpId \ {j} : job'[k] = job[k]
    BY <1>1, <2>2 DEF BucketTyped
  <2>4. job'[j].since = job[j].since /\ job'[j].doomed = job[j].doomed /\ job'[j].at = "uploaded"
    BY <1>3, <2>3 DEF BackupJob
  <2>5. QED
    BY <2>1, <2>3, <2>4
<1>5. j \notin stored /\ j \notin Dumps!There /\ Dumps!There' = Dumps!There \cup {j} /\ j \notin verified
  BY <1>1, <1>2, <1>4 DEF JobsInTime, BucketTyped, Dumps!There
<1>6. \A k \in DumpId : (Started(k)' <=> Started(k)) /\ (Active(k)' <=> Active(k))
  BY <1>4 DEF Started, Active
<1>7. Dumps!TypeOK'
  <2>1. \A k \in Dumps!There' : bucket'[k].at \in 0 .. bNow /\ bucket'[k].whole \in BOOLEAN
    BY <1>1, <1>2, <1>4 DEF Dumps!There, Dumps!TypeOK, Backup
  <2>2. \A k \in DumpId : job'[k].at \in {"waiting", "dumped", "uploaded", "verified", "pruning", "over"} /\ job'[k].doomed \subseteq DumpId
    BY <1>4 DEF BackupJob
  <2>3. QED
    BY <1>1, <2>1, <2>2 DEF Dumps!TypeOK
<1>8. BucketTyped'
  BY <1>1, <1>2, <1>4, <1>5, FS_AddElement DEF BucketTyped
<1>9. JobsInTime'
  <2>1. \A k \in DumpId : Started(k)' => job'[k].since \in 0 .. bNow
    BY <1>1, <1>4, <1>6 DEF JobsInTime
  <2>2. \A k \in DumpId : Active(k)' => bNow - job'[k].since < RetentionDays
    BY <1>1, <1>4, <1>6 DEF JobsInTime
  <2>3. \A k \in DumpId : job'[k].at \in {"waiting", "dumped"} => k \notin stored'
    BY <1>1, <1>4 DEF JobsInTime
  <2>4. \A k \in stored' : Started(k)'
    BY <1>1, <1>4, <1>6 DEF JobsInTime, BucketTyped, Started
  <2>5. \A k \in Dumps!There' : job'[k].since <= bucket'[k].at
    <3>1. Started(j) /\ job[j].since \in 0 .. bNow
      BY <1>1 DEF JobsInTime, Started
    <3>2. QED
      BY <1>1, <1>2, <1>4, <1>5, <3>1 DEF JobsInTime, Dumps!There
  <2>6. \A k \in DumpId : job'[k].at \in {"verified", "pruning"} => k \in verified
    BY <1>1, <1>4 DEF JobsInTime
  <2>7. \A k \in DumpId : job'[k].at \in {"waiting", "dumped", "uploaded"} => k \notin verified
    BY <1>1, <1>4, <1>5 DEF JobsInTime
  <2>8. QED
    BY <2>1, <2>2, <2>3, <2>4, <2>5, <2>6, <2>7 DEF JobsInTime
<1>10. \A k \in Dumps!There : Dumps!Position(k)' >= Dumps!Position(k) /\ Dumps!Position(k) \in Nat /\ Dumps!Position(k)' \in Nat
  <2> TAKE k \in Dumps!There
  <2> DEFINE A == {i \in Dumps!There : Dumps!Ahead(i, k)}
             B == {i \in Dumps!There' : Dumps!Ahead(i, k)'}
  <2>1. A \subseteq B
    BY <1>4, <1>5 DEF Dumps!Ahead, Dumps!There
  <2>2. IsFiniteSet(Dumps!There') /\ IsFiniteSet(Dumps!There)
    BY <1>5, BackupParts, FS_AddElement
  <2>3. IsFiniteSet(A) /\ IsFiniteSet(B)
    BY <2>2, FS_Subset
  <2>4. Cardinality(A) <= Cardinality(B) /\ Cardinality(A) \in Nat
    BY <2>1, <2>3, FS_Subset, FS_CardinalityType
  <2>5. Dumps!Position(k) = Cardinality(A) /\ Dumps!Position(k)' = Cardinality(B)
    BY DumpSets DEF Dumps!Position
  <2> HIDE DEF A, B
  <2>6. Cardinality(B) \in Nat
    BY <2>3, FS_CardinalityType
  <2>7. QED
    BY <2>4, <2>5, <2>6
<1>11. DoomedAreOld'
  <2> SUFFICES ASSUME NEW l \in DumpId, NEW k \in job'[l].doomed
               PROVE  /\ l \in verified /\ k \in stored' /\ job'[k].since < job'[l].since
                      /\ k \in Dumps!There' => Dumps!Position(k)' >= MinKept
    BY DEF DoomedAreOld
  <2>1. k \in DumpId /\ k \in job[l].doomed
    BY <1>4 DEF BackupJob
  <2>2. l \in verified /\ k \in stored /\ job[k].since < job[l].since /\ (k \in Dumps!There => Dumps!Position(k) >= MinKept)
    BY <1>1, <2>1 DEF DoomedAreOld
  <2>3. k # j
    BY <1>5, <2>2
  <2>4. QED
    BY <1>4, <1>5, <1>10, <2>1, <2>2, <2>3, BackupConsts
<1>12. Dumps!LastWholeKept'
  <2>1. \A k \in verified : k \in DumpId /\ k # j
    BY <1>1, <1>5 DEF Dumps!TypeOK, BucketTyped
  <2>2. QED
    BY <1>1, <1>4, <1>5, <2>1 DEF Dumps!LastWholeKept
<1>13. Dumps!NewestKept'
  <2>1. Cardinality(Dumps!There') = Cardinality(Dumps!There) + 1 /\ Cardinality(stored') = Cardinality(stored) + 1
    BY <1>1, <1>5, BackupParts, FS_AddElement DEF BucketTyped
  <2>2. Cardinality(Dumps!There) \in Nat /\ Cardinality(stored) \in Nat /\ MinKept \in Nat
    BY BackupParts, BackupConsts
  <2>3. Cardinality(Dumps!There) >= (IF MinKept <= Cardinality(stored) THEN MinKept ELSE Cardinality(stored))
    BY <1>1, <2>2, LeastOfTwo, DumpSets DEF Dumps!NewestKept
  <2>4. Cardinality(Dumps!There') >= (IF MinKept <= Cardinality(stored') THEN MinKept ELSE Cardinality(stored'))
    BY <2>1, <2>2, <2>3
  <2>5. Cardinality(stored') \in Int /\ MinKept \in Int
    BY <2>1, <2>2
  <2>6. Dumps!Min({MinKept, Cardinality(stored')}) = (IF MinKept <= Cardinality(stored') THEN MinKept ELSE Cardinality(stored'))
    BY <2>5, LeastOfTwo
  <2>7. QED
    BY <2>4, <2>6, DumpSets DEF Dumps!NewestKept
<1>14. QED
  BY <1>7, <1>8, <1>9, <1>11, <1>12, <1>13 DEF BackupInv

\* A backup is deleted that has MinKept others before it, and is of an older job.
LEMMA DeleteKeeps ==
    ASSUME BackupInv, NEW j \in DumpId, Dumps!Delete(j)
    PROVE  BackupInv'
<1>1. Dumps!TypeOK /\ BucketTyped /\ JobsInTime /\ DoomedAreOld /\ Dumps!LastWholeKept /\ Dumps!NewestKept /\ bNow \in Nat
  BY BackupParts
<1>2. PICK d \in job[j].doomed : job' = [job EXCEPT ![j].doomed = @ \ {d}] /\ bucket' = [bucket EXCEPT ![d] = Nothing]
  BY DEF Dumps!Delete
<1>3. UNCHANGED <<bNow, stored, verified>> /\ Backup' = Backup /\ BackupJob' = BackupJob
  BY DEF Dumps!Delete, Backup, BackupJob
<1>4. d \in DumpId /\ d \in stored /\ j \in verified /\ job[d].since < job[j].since /\ (d \in Dumps!There => Dumps!Position(d) >= MinKept)
      /\ job[j] \in BackupJob
  BY <1>1 DEF BucketTyped, DoomedAreOld
<1>5. /\ job' \in [DumpId -> BackupJob] /\ \A k \in DumpId : /\ job'[k].since = job[k].since /\ job'[k].doomed \subseteq job[k].doomed
                                                       /\ job'[k].at = job[k].at
  <2>1. [job[j] EXCEPT !.doomed = @ \ {d}] \in BackupJob
    BY <1>4 DEF BackupJob
  <2>2. job' \in [DumpId -> BackupJob] /\ job'[j] = [job[j] EXCEPT !.doomed = @ \ {d}] /\ \A k \in DumpId \ {j} : job'[k] = job[k]
    BY <1>1, <1>2, <2>1 DEF BucketTyped
  <2>3. job'[j].since = job[j].since /\ job'[j].doomed = job[j].doomed \ {d} /\ job'[j].at = job[j].at
    BY <1>4, <2>2 DEF BackupJob
  <2>4. QED
    BY <2>2, <2>3
<1>6. bucket' \in [DumpId -> Backup \cup {Nothing}] /\ bucket'[d] = Nothing /\ (\A k \in DumpId \ {d} : bucket'[k] = bucket[k])
  BY <1>1, <1>2, <1>4 DEF BucketTyped
<1>7. Dumps!There' = Dumps!There \ {d}
  BY <1>4, <1>6 DEF Dumps!There
<1>8. \A k \in DumpId : (Started(k)' <=> Started(k)) /\ (Active(k)' <=> Active(k))
  BY <1>5 DEF Started, Active
<1>9. Dumps!TypeOK'
  <2>1. \A k \in Dumps!There' : bucket'[k].at \in 0 .. bNow /\ bucket'[k].whole \in BOOLEAN
    BY <1>1, <1>6, <1>7 DEF Dumps!There, Dumps!TypeOK
  <2>2. \A k \in DumpId : job'[k].at \in {"waiting", "dumped", "uploaded", "verified", "pruning", "over"} /\ job'[k].doomed \subseteq DumpId
    BY <1>5 DEF BackupJob
  <2>3. QED
    BY <1>1, <1>3, <2>1, <2>2 DEF Dumps!TypeOK
<1>10. BucketTyped'
  BY <1>1, <1>3, <1>5, <1>6, <1>7 DEF BucketTyped
<1>11. JobsInTime'
  <2>1. \A k \in stored : k \in DumpId
    BY <1>1 DEF BucketTyped
  <2>2. \A k \in Dumps!There' : k \in DumpId /\ k # d /\ k \in Dumps!There
    BY <1>7 DEF Dumps!There
  <2>3. QED
    BY <1>1, <1>3, <1>5, <1>6, <1>8, <2>1, <2>2 DEF JobsInTime
\* Whoever had d before it had all those that d had before it, and they stay.
<1>12. \A k \in Dumps!There' : Dumps!Position(k) >= MinKept => Dumps!Position(k)' >= MinKept
  <2> SUFFICES ASSUME NEW k \in Dumps!There', Dumps!Position(k) >= MinKept PROVE Dumps!Position(k)' >= MinKept
    OBVIOUS
  <2> DEFINE A == {i \in Dumps!There : Dumps!Ahead(i, k)}
             B == {i \in Dumps!There' : Dumps!Ahead(i, k)'}
             C == {i \in Dumps!There : Dumps!Ahead(i, d)}
  <2>1. k \in DumpId /\ k # d /\ k \in Dumps!There /\ \A i \in Dumps!There' : i \in DumpId /\ i # d /\ i \in Dumps!There
    BY <1>7 DEF Dumps!There
  <2>2. \A i \in Dumps!There' : Dumps!Ahead(i, k)' <=> Dumps!Ahead(i, k)
    BY <1>6, <2>1 DEF Dumps!Ahead
  <2>3. IsFiniteSet(Dumps!There) /\ IsFiniteSet(Dumps!There')
    BY <1>7, BackupParts, FS_Subset
  <2>4. IsFiniteSet(A) /\ IsFiniteSet(B) /\ IsFiniteSet(C)
    BY <2>3, FS_Subset
  <2>5. Cardinality(A) \in Nat /\ Cardinality(B) \in Nat /\ Cardinality(C) \in Nat
    BY <2>4, FS_CardinalityType
  <2>6. Dumps!Position(k) = Cardinality(A) /\ Dumps!Position(k)' = Cardinality(B) /\ Dumps!Position(d) = Cardinality(C)
    BY DumpSets DEF Dumps!Position
  <2>7. CASE d \in Dumps!There /\ Dumps!Ahead(d, k)
    <3>1. \A i \in Dumps!There : bucket[i].at \in Nat /\ i \in Nat
      BY <1>1, BackupParts, BackupConsts DEF Backup, Dumps!There
    <3>2. \A i \in Dumps!There : Dumps!Ahead(i, d) => Dumps!Ahead(i, k) /\ i # d
      BY <2>1, <2>7, <3>1 DEF Dumps!Ahead
    <3>3. C \subseteq B
      BY <1>7, <2>2, <3>2
    <3>4. Cardinality(C) <= Cardinality(B)
      BY <2>4, <3>3, FS_Subset
    <3>5. Cardinality(C) >= MinKept
      BY <1>4, <2>6, <2>7
    <3> HIDE DEF A, B, C
    <3>6. QED
      BY <2>5, <2>6, <3>4, <3>5, BackupConsts
  <2>8. CASE ~(d \in Dumps!There /\ Dumps!Ahead(d, k))
    <3>1. A = B
      BY <1>7, <2>2, <2>8
    <3>2. QED
      BY <2>6, <3>1
  <2>9. QED
    BY <2>7, <2>8
<1>13. DoomedAreOld'
  <2> SUFFICES ASSUME NEW l \in DumpId, NEW k \in job'[l].doomed
               PROVE  /\ l \in verified /\ k \in stored /\ job'[k].since < job'[l].since
                      /\ k \in Dumps!There' => Dumps!Position(k)' >= MinKept
    BY <1>3 DEF DoomedAreOld
  <2>1. k \in job[l].doomed /\ \A x \in stored : x \in DumpId
    BY <1>1, <1>5 DEF BucketTyped
  <2>2. QED
    BY <1>1, <1>5, <1>7, <1>12, <2>1 DEF DoomedAreOld
<1>14. Dumps!LastWholeKept'
  <2>1. \A k \in verified : k \in DumpId
    BY <1>1 DEF Dumps!TypeOK, BucketTyped
  <2>2. CASE verified = {}
    BY <1>3, <2>2 DEF Dumps!LastWholeKept
  <2>3. CASE verified # {}
    <3>1. PICK k \in verified : k \in Dumps!There /\ bucket[k].whole /\ \A l \in verified : job[l].since <= job[k].since
      BY <1>1, <2>3 DEF Dumps!LastWholeKept
    <3>2. job[j].since \in Nat /\ job[d].since \in Nat
      BY <1>1, <1>4 DEF BucketTyped, JobsInTime, Dumps!TypeOK
    <3>3. k # d
      <4>1. job[j].since <= job[k].since
        BY <1>4, <3>1
      <4>2. QED
        BY <1>4, <3>2, <4>1
    <3>4. k \in Dumps!There' /\ bucket'[k].whole /\ \A l \in verified : job'[l].since <= job'[k].since
      BY <1>5, <1>6, <1>7, <2>1, <3>1, <3>3
    <3>5. QED
      BY <1>3, <3>4 DEF Dumps!LastWholeKept
  <2>4. QED
    BY <2>2, <2>3
<1>15. Dumps!NewestKept'
  <2> PICK m : m = Dumps!Min({MinKept, Cardinality(stored)})
    OBVIOUS
  <2>1. Cardinality(stored) \in Nat /\ MinKept \in Nat /\ Cardinality(Dumps!There) \in Nat /\ IsFiniteSet(Dumps!There)
    BY BackupParts, BackupConsts
  <2>2. m = IF MinKept <= Cardinality(stored) THEN MinKept ELSE Cardinality(stored)
    BY <2>1, LeastOfTwo
  <2>3. Cardinality(Dumps!There') >= m
    <3>1. CASE d \in Dumps!There
      <4> DEFINE C == {i \in Dumps!There : Dumps!Ahead(i, d)}
      <4>1. C \subseteq Dumps!There'
        <5>1. bucket[d].at \in Nat /\ d \in Nat
          BY <3>1, <1>1, <1>4, BackupParts, BackupConsts DEF Backup
        <5>2. ~Dumps!Ahead(d, d)
          BY <5>1 DEF Dumps!Ahead
        <5>3. QED
          BY <1>7, <5>2
      <4>2. IsFiniteSet(Dumps!There') /\ Cardinality(C) \in Nat /\ Cardinality(Dumps!There') \in Nat
        BY <1>7, <2>1, <4>1, FS_Subset, FS_CardinalityType
      <4>3. Cardinality(C) <= Cardinality(Dumps!There')
        BY <4>1, <4>2, FS_Subset
      <4>4. Cardinality(C) >= MinKept
        BY <1>4, <3>1, DumpSets DEF Dumps!Position
      <4> HIDE DEF C
      <4>5. QED
        BY <2>1, <2>2, <4>2, <4>3, <4>4
    <3>2. CASE d \notin Dumps!There
      <4>1. Dumps!There' = Dumps!There
        BY <1>7, <3>2
      <4>2. QED
        BY <1>1, <4>1, DumpSets DEF Dumps!NewestKept
    <3>3. QED
      BY <3>1, <3>2
  <2>4. QED
    BY <1>3, <2>3, DumpSets DEF Dumps!NewestKept
<1>16. QED
  BY <1>9, <1>10, <1>11, <1>13, <1>14, <1>15 DEF BackupInv

\* A backup is found whole: it, or the last one before, is the last one found whole.
LEMMA VerifyKeeps ==
    ASSUME BackupInv, NEW j \in DumpId, Dumps!Verify(j)
    PROVE  BackupInv'
<1> PICK p : p = job[j]
  OBVIOUS
<1>1. Dumps!TypeOK /\ BucketTyped /\ JobsInTime /\ DoomedAreOld /\ Dumps!LastWholeKept /\ Dumps!NewestKept /\ bNow \in Nat
  BY BackupParts
<1>2. p.at = "uploaded" /\ job' = [job EXCEPT ![j].at = IF Dumps!Arrived(j) THEN "verified" ELSE "over"] /\ UNCHANGED <<bNow, bucket, stored>>
      /\ verified' = IF j \in Dumps!There /\ bucket[j].whole THEN verified \cup {j} ELSE verified
  BY DEF Dumps!Verify, Dumps!Go
<1>3. p \in BackupJob
  BY <1>1 DEF BucketTyped
<1>4. p.since \in 0 .. bNow /\ bNow - p.since < RetentionDays /\ j \notin verified /\ p.doomed = {} /\ Started(j)
  BY <1>1, <1>2 DEF JobsInTime, Started, Active, DoomedAreOld
<1>5. CASE ~Dumps!Arrived(j)
  <2> DEFINE e == [p EXCEPT !.at = "over"]
  <2>1. job' = [job EXCEPT ![j] = e] /\ UNCHANGED <<bNow, bucket, stored, verified>>
    BY <1>2, <1>5 DEF Dumps!Arrived
  <2>2. e \in BackupJob /\ e.at = "over" /\ e.since = p.since /\ e.doomed = {}
    BY <1>3, <1>4 DEF BackupJob
  <2> HIDE DEF e
  <2>3. QED
    BY <1>4, <2>1, <2>2, JobKeeps
<1>6. CASE Dumps!Arrived(j)
  <2>1. j \in Dumps!There /\ bucket[j].whole /\ verified' = verified \cup {j} /\ job' = [job EXCEPT ![j].at = "verified"]
    BY <1>2, <1>6 DEF Dumps!Arrived
  <2>2. [p EXCEPT !.at = "verified"] \in BackupJob
    BY <1>3 DEF BackupJob
  <2>3. /\ job' \in [DumpId -> BackupJob] /\ job'[j].at = "verified" /\ (\A k \in DumpId \ {j} : job'[k] = job[k])
        /\ \A k \in DumpId : job'[k].since = job[k].since /\ job'[k].doomed = job[k].doomed
    <3>1. job' \in [DumpId -> BackupJob] /\ job'[j] = [p EXCEPT !.at = "verified"] /\ \A k \in DumpId \ {j} : job'[k] = job[k]
      BY <1>1, <2>1, <2>2 DEF BucketTyped
    <3>2. job'[j].since = p.since /\ job'[j].doomed = p.doomed /\ job'[j].at = "verified"
      BY <1>3, <3>1 DEF BackupJob
    <3>3. QED
      BY <3>1, <3>2
  <2>4. Dumps!There' = Dumps!There /\ (\A k : Dumps!Position(k)' = Dumps!Position(k)) /\ Backup' = Backup /\ BackupJob' = BackupJob
    BY <1>2, DumpSets DEF Dumps!There, Dumps!Position, Dumps!Ahead, Backup, BackupJob
  <2>5. \A k \in DumpId : (Started(k)' <=> Started(k)) /\ (Active(k)' <=> Active(k))
    BY <1>2, <2>3 DEF Started, Active
  <2>6. Dumps!TypeOK'
    <3>1. \A k \in DumpId : job'[k].at \in {"waiting", "dumped", "uploaded", "verified", "pruning", "over"} /\ job'[k].doomed \subseteq DumpId
      BY <2>3 DEF BackupJob
    <3>2. verified' \subseteq stored
      BY <1>1, <2>1 DEF Dumps!TypeOK, BucketTyped
    <3>3. QED
      BY <1>1, <1>2, <2>4, <3>1, <3>2 DEF Dumps!TypeOK
  <2>7. BucketTyped'
    BY <1>1, <1>2, <2>3, <2>4 DEF BucketTyped
  <2>8. JobsInTime'
    <3>1. \A k \in DumpId : Started(k)' => job'[k].since \in 0 .. bNow
      BY <1>1, <2>3, <2>5 DEF JobsInTime
    <3>2. \A k \in DumpId : Active(k)' => bNow - job'[k].since < RetentionDays
      BY <1>1, <2>3, <2>5 DEF JobsInTime
    <3>3. \A k \in DumpId : job'[k].at \in {"waiting", "dumped"} => k \notin stored
      BY <1>1, <2>3 DEF JobsInTime
    <3>4. \A k \in stored : Started(k)'
      BY <1>1, <2>5 DEF JobsInTime, BucketTyped
    <3>5. \A k \in Dumps!There : job'[k].since <= bucket[k].at
      BY <1>1, <2>3 DEF JobsInTime, Dumps!There
    <3>6. \A k \in DumpId : job'[k].at \in {"verified", "pruning"} => k \in verified'
      BY <1>1, <2>1, <2>3 DEF JobsInTime
    <3>7. \A k \in DumpId : job'[k].at \in {"waiting", "dumped", "uploaded"} => k \notin verified'
      BY <1>1, <2>1, <2>3 DEF JobsInTime
    <3>8. QED
      BY <1>2, <2>4, <3>1, <3>2, <3>3, <3>4, <3>5, <3>6, <3>7 DEF JobsInTime
  <2>9. DoomedAreOld'
    <3> SUFFICES ASSUME NEW l \in DumpId, NEW k \in job'[l].doomed
                 PROVE  /\ l \in verified' /\ k \in stored /\ job'[k].since < job'[l].since
                        /\ k \in Dumps!There => Dumps!Position(k) >= MinKept
      BY <1>2, <2>4 DEF DoomedAreOld
    <3>1. k \in job[l].doomed /\ \A x \in stored : x \in DumpId
      BY <1>1, <2>3 DEF BucketTyped
    <3>2. QED
      BY <1>1, <2>1, <2>3, <3>1 DEF DoomedAreOld
  <2>10. Dumps!LastWholeKept'
    <3>1. \A k \in verified : k \in DumpId /\ job[k].since \in Nat
      BY <1>1 DEF Dumps!TypeOK, BucketTyped, JobsInTime
    <3>2. \E k \in verified' : k \in Dumps!There /\ bucket[k].whole /\ \A l \in verified' : job[l].since <= job[k].since
      <4>1. CASE \A l \in verified : job[l].since <= p.since
        <5>1. \A l \in verified' : job[l].since <= job[j].since
          BY <1>4, <2>1, <4>1
        <5>2. QED
          BY <2>1, <5>1
      <4>2. CASE \E l \in verified : ~(job[l].since <= p.since)
        <5>1. PICK k \in verified : k \in Dumps!There /\ bucket[k].whole /\ \A l \in verified : job[l].since <= job[k].since
          BY <1>1, <4>2 DEF Dumps!LastWholeKept
        <5>2. p.since <= job[k].since
          BY <1>4, <3>1, <4>2, <5>1
        <5>3. QED
          BY <2>1, <5>1, <5>2
      <4>3. QED
        BY <4>1, <4>2
    <3>3. \A l \in verified' : job'[l].since = job[l].since
      BY <2>1, <2>3, <3>1
    <3>4. QED
      BY <1>2, <2>4, <3>2, <3>3 DEF Dumps!LastWholeKept
  <2>11. Dumps!NewestKept'
    BY <1>1, <1>2, <2>4, DumpSets DEF Dumps!NewestKept
  <2>12. QED
    BY <2>6, <2>7, <2>8, <2>9, <2>10, <2>11 DEF BackupInv
<1>7. QED
  BY <1>5, <1>6

LEMMA UploadKeeps ==
    ASSUME BackupInv, NEW j \in DumpId, Dumps!Upload(j)
    PROVE  BackupInv'
<1> PICK p : p = job[j]
  OBVIOUS
<1>1. p \in BackupJob /\ p.at = "dumped"
  BY BackupParts DEF BucketTyped, Dumps!Upload, Dumps!Go
<1>2. p.since \in 0 .. bNow /\ bNow - p.since < RetentionDays /\ j \notin verified /\ p.doomed = {} /\ Started(j)
  BY <1>1, BackupParts DEF JobsInTime, Started, Active, DoomedAreOld
<1>3. CASE UNCHANGED <<bucket, stored>>
  <2>1. PICK to \in {"over", "uploaded"} : job' = [job EXCEPT ![j] = [p EXCEPT !.at = to]] /\ UNCHANGED <<bNow, bucket, stored, verified>>
    BY <1>3 DEF Dumps!Upload, Dumps!Go
  <2> DEFINE e == [p EXCEPT !.at = to]
  <2>2. e \in BackupJob /\ e.at = to /\ e.since = p.since /\ e.doomed = {}
    BY <1>1, <1>2 DEF BackupJob
  <2> HIDE DEF e
  <2>3. job' = [job EXCEPT ![j] = e]
    BY <2>1 DEF e
  <2>4. QED
    BY <1>1, <1>2, <2>1, <2>2, <2>3, JobKeeps
<1>4. CASE ~UNCHANGED <<bucket, stored>>
  BY <1>1, <1>4, ArrivalKeeps DEF Dumps!Upload, Dumps!Go
<1>5. QED
  BY <1>3, <1>4

LEMMA BackupsBegin == Dumps!Init => BackupInv
<1> SUFFICES ASSUME Dumps!Init PROVE BackupInv
  OBVIOUS
<1>1. Dumps!There = {} /\ bNow = 0 /\ stored = {} /\ verified = {}
  BY DEF Dumps!Init, Dumps!There
<1>2. bucket \in [DumpId -> Backup \cup {Nothing}] /\ job \in [DumpId -> BackupJob] /\ \A j \in DumpId : job[j].at = "waiting" /\ job[j].doomed = {}
  BY DEF Dumps!Init, BackupJob
<1>3. Dumps!TypeOK
  <2>1. bNow \in 0 .. LastDay /\ verified \subseteq stored /\ \A j \in Dumps!There : FALSE
    BY <1>1, BackupConsts
  <2>2. \A j \in DumpId : job[j].at = "waiting" /\ job[j].doomed \subseteq DumpId
    BY <1>2
  <2>3. QED
    BY <2>1, <2>2 DEF Dumps!TypeOK
<1>4. BucketTyped
  BY <1>1, <1>2, FS_EmptySet DEF BucketTyped
<1>5. JobsInTime /\ DoomedAreOld /\ Dumps!LastWholeKept
  BY <1>1, <1>2 DEF JobsInTime, DoomedAreOld, Dumps!LastWholeKept, Started, Active
<1>6. Dumps!NewestKept
  <2>1. Cardinality(Dumps!There) = 0 /\ Cardinality(stored) = 0
    BY <1>1, FS_EmptySet
  <2>2. Dumps!Min({MinKept, 0}) <= 0
    BY BackupConsts, LeastOfTwo
  <2>3. QED
    BY <2>1, <2>2, BackupConsts, LeastOfTwo, DumpSets DEF Dumps!NewestKept
<1>7. QED
  BY <1>3, <1>4, <1>5, <1>6 DEF BackupInv

LEMMA BackupInvStep == BackupInv /\ [Dumps!Next]_Dumps!vars => BackupInv'
<1> SUFFICES ASSUME BackupInv, [Dumps!Next]_Dumps!vars PROVE BackupInv'
  OBVIOUS
<1>1. CASE \E j \in DumpId : Dumps!Dump(j) \/ Dumps!List(j) \/ Dumps!End(j)
  BY <1>1, JobSteps
<1>2. CASE \E j \in DumpId : Dumps!Upload(j) \/ Dumps!Verify(j) \/ Dumps!Delete(j)
  BY <1>2, UploadKeeps, VerifyKeeps, DeleteKeeps
<1>3. CASE Dumps!Tick \/ UNCHANGED Dumps!vars
  <2>1. UNCHANGED <<bucket, job, stored, verified>> /\ bNow' \in 0 .. LastDay /\ bNow' >= bNow /\ bNow \in Nat
        /\ \A j \in DumpId : Active(j) => bNow' - job[j].since < RetentionDays
    <3>1. bNow \in 0 .. LastDay /\ bNow \in Nat /\ \A j \in DumpId : Active(j) => bNow - job[j].since < RetentionDays
      BY BackupParts DEF JobsInTime
    <3>2. CASE Dumps!Tick
      <4>1. bNow' = bNow + 1 /\ bNow < LastDay /\ UNCHANGED <<bucket, job, stored, verified>>
            /\ \A j \in {k \in DumpId : job[k].at \notin {"waiting", "over"}} : bNow' - job[j].since < RetentionDays
        BY <3>2 DEF Dumps!Tick
      <4>2. \A j \in DumpId : Active(j) => bNow' - job[j].since < RetentionDays
        BY <4>1 DEF Active
      <4>3. bNow' \in 0 .. LastDay /\ bNow' >= bNow
        BY <3>1, <4>1, BackupConsts
      <4>4. QED
        BY <3>1, <4>1, <4>2, <4>3
    <3>3. CASE UNCHANGED Dumps!vars
      BY <3>1, <3>3 DEF Dumps!vars
    <3>4. QED
      BY <1>3, <3>2, <3>3
  <2>2. 0 .. bNow \subseteq 0 .. bNow' /\ Backup \subseteq Backup' /\ Dumps!There' = Dumps!There /\ BackupJob' = BackupJob
        /\ \A k : Dumps!Position(k)' = Dumps!Position(k)
    BY <2>1, DumpSets DEF Backup, Dumps!There, BackupJob, Dumps!Position, Dumps!Ahead
  <2>3. Dumps!TypeOK'
    BY <2>1, <2>2 DEF BackupInv, Dumps!TypeOK
  <2>4. BucketTyped'
    BY <2>1, <2>2 DEF BackupInv, BucketTyped
  <2>5. JobsInTime'
    BY <2>1, <2>2 DEF BackupInv, JobsInTime, Started, Active
  <2>6. DoomedAreOld'
    BY <2>1, <2>2 DEF BackupInv, DoomedAreOld
  <2>7. Dumps!LastWholeKept' /\ Dumps!NewestKept'
    BY <2>1, <2>2, DumpSets DEF BackupInv, Dumps!LastWholeKept, Dumps!NewestKept
  <2>8. QED
    BY <2>3, <2>4, <2>5, <2>6, <2>7 DEF BackupInv
<1>4. QED
  BY <1>1, <1>2, <1>3 DEF Dumps!Next

\* The backups (backup_database.py): whatever fails and whoever runs at once, the last
\* one found whole stays, and pruning leaves MinKept of those that were stored.
LEMMA BackupsAreSafe == Dumps!Spec => [](Dumps!TypeOK /\ Dumps!LastWholeKept /\ Dumps!NewestKept)
<1>1. BackupInv => Dumps!TypeOK /\ Dumps!LastWholeKept /\ Dumps!NewestKept
  BY DEF BackupInv
<1>2. QED
  BY BackupsBegin, BackupInvStep, <1>1, PTL DEF Dumps!Spec

-----------------------------------------------------------------------------
\* The limiter.

\* Whatever a counter has counted was counted since its window began.
Since(k) == {h \in counted : h.at >= k.end - Window}
Earned(k) == k.n <= Cardinality(Since(k))
Sound(k) == Earned(k) /\ k.end <= now + Window

LimiterInv ==
    /\ Limiter!TypeOK
    /\ Sound(shared) /\ \A p \in Process : Sound(local[p])

\* The instance has its own copies of the operators on finite sets: they are the same.
LEMMA HitSets ==
    /\ \A S : Limiter!IsFiniteSet(S) <=> IsFiniteSet(S)
    /\ \A S : Limiter!Cardinality(S) = Cardinality(S)
    /\ \A S : Limiter!Hits!Cardinality(S) = Cardinality(S)
<1>1. ASSUME NEW S PROVE Limiter!IsFiniteSet(S) <=> IsFiniteSet(S)
  BY DEF Limiter!IsFiniteSet, IsFiniteSet
<1>2. ASSUME NEW S PROVE Limiter!Cardinality(S) = Cardinality(S)
  BY DEF Limiter!Cardinality, Cardinality
<1>3. ASSUME NEW S PROVE Limiter!Hits!Cardinality(S) = Cardinality(S)
  BY DEF Limiter!Hits!Cardinality, Cardinality
<1>4. QED
  BY <1>1, <1>2, <1>3

LEMMA LimitNumbers ==
    ASSUME Limiter!RateLimitConstants
    PROVE  Limit \in Nat /\ Limit # 0 /\ Window \in Nat /\ Window # 0 /\ MaxTime \in Nat /\ MaxFaults \in Nat
BY DEF Limiter!RateLimitConstants

LEMMA SinceSized ==
    ASSUME Limiter!TypeOK, NEW k
    PROVE  IsFiniteSet(Since(k)) /\ Cardinality(Since(k)) \in Nat /\ Cardinality(counted) \in Nat
<1>1. IsFiniteSet(counted) /\ Since(k) \in SUBSET counted
  BY HitSets DEF Limiter!TypeOK, Since
<1>2. QED
  BY <1>1, FS_Subset, FS_CardinalityType

\* A counter that is empty, or was started by a call that is counted with it.
LEMMA EmptySound == ASSUME Limiter!RateLimitConstants, Limiter!TypeOK PROVE Limiter!Empty \in Limiter!Counter /\ Sound(Limiter!Empty)
<1>1. Earned(Limiter!Empty)
  BY SinceSized DEF Earned, Limiter!Empty
<1>2. Limiter!Empty \in Limiter!Counter /\ Limiter!Empty.end <= now + Window
  BY LimitNumbers DEF Limiter!Empty, Limiter!Counter, Limiter!TypeOK
<1>3. QED
  BY <1>1, <1>2 DEF Sound

LEMMA LimiterInit == ASSUME Limiter!RateLimitConstants PROVE Limiter!Init => LimiterInv
<1> SUFFICES ASSUME Limiter!Init PROVE LimiterInv
  OBVIOUS
<1>1. Limiter!TypeOK
  <2>1. IsFiniteSet(counted)
    BY FS_EmptySet DEF Limiter!Init
  <2>2. Limiter!Empty \in Limiter!Counter
    BY LimitNumbers DEF Limiter!Empty, Limiter!Counter
  <2>3. QED
    BY <2>1, <2>2, LimitNumbers, HitSets DEF Limiter!Init, Limiter!TypeOK
<1>2. QED
  BY <1>1, EmptySound DEF Limiter!Init, LimiterInv

\* A call is told its answer: no count is lost, and one that counts is new.
LEMMA HitCounted ==
    ASSUME Limiter!RateLimitConstants, LimiterInv, counted' = counted \cup {Limiter!Hits!Hit}, now' = now
    PROVE  /\ counted' \subseteq [at : 0 .. now, nr : 1 .. Cardinality(counted')] /\ IsFiniteSet(counted')
           /\ \A k \in Limiter!Counter : k.end - Window <= now => Cardinality(Since(k)') = Cardinality(Since(k)) + 1
<1> DEFINE n == Cardinality(counted)
           h == Limiter!Hits!Hit
<1>1. h = [at |-> now, nr |-> n + 1]
  BY HitSets DEF Limiter!Hits!Hit
<1>2. n \in Nat /\ IsFiniteSet(counted) /\ counted \subseteq [at : 0 .. now, nr : 1 .. n]
  BY SinceSized, HitSets DEF LimiterInv, Limiter!TypeOK
<1>3. h \notin counted
  BY <1>1, <1>2
<1>4. IsFiniteSet(counted') /\ Cardinality(counted') = n + 1
  BY <1>2, <1>3, FS_AddElement
<1>5. now \in Nat
  BY LimitNumbers DEF LimiterInv, Limiter!TypeOK
<1>6. ASSUME NEW k \in Limiter!Counter, k.end - Window <= now
      PROVE  Cardinality(Since(k)') = Cardinality(Since(k)) + 1
  <2>1. Since(k)' = Since(k) \cup {h}
    BY <1>1, <1>6, <1>5 DEF Since
  <2>2. h \notin Since(k) /\ IsFiniteSet(Since(k))
    BY <1>3, SinceSized DEF Since, LimiterInv
  <2>3. QED
    BY <2>1, <2>2, FS_AddElement
<1>7. counted' \subseteq [at : 0 .. now, nr : 1 .. n + 1]
  BY <1>1, <1>2, <1>5
<1>8. QED
  BY <1>4, <1>6, <1>7

\* What a step of a process leaves of the counters.
Counting(p) ==
    /\ LimiterInv /\ p \in Process /\ UNCHANGED <<Limiter!setting, now, up, faults>>
    /\ counted' = counted \/ counted' = counted \cup {Limiter!Hits!Hit}

LEMMA CountingTyped ==
    ASSUME Limiter!RateLimitConstants, NEW p, Counting(p)
    PROVE  /\ counted' \subseteq [at : 0 .. now', nr : 1 .. Cardinality(counted')] /\ IsFiniteSet(counted')
           /\ now' = now /\ now \in Nat /\ now <= MaxTime
           /\ \A k : Cardinality(Since(k)) \in Nat
<1>1. now' = now /\ now \in Nat /\ now <= MaxTime
  BY LimitNumbers DEF Counting, LimiterInv, Limiter!TypeOK
<1>2. \A k : Cardinality(Since(k)) \in Nat
  BY SinceSized DEF Counting, LimiterInv
<1>3. counted' \subseteq [at : 0 .. now', nr : 1 .. Cardinality(counted')] /\ IsFiniteSet(counted')
  <2>1. CASE counted' = counted
    BY <2>1, <1>1, HitSets DEF Counting, LimiterInv, Limiter!TypeOK
  <2>2. CASE counted' = counted \cup {Limiter!Hits!Hit}
    BY <2>2, <1>1, HitCounted DEF Counting
  <2>3. QED
    BY <2>1, <2>2 DEF Counting
<1>4. QED
  BY <1>1, <1>2, <1>3

LEMMA SoundKept ==
    ASSUME Limiter!RateLimitConstants, NEW p, Counting(p), NEW k \in Limiter!Counter, Sound(k)
    PROVE  Sound(k)'
<1>1. k.n \in Nat /\ k.end \in Int /\ Window \in Nat
  BY LimitNumbers DEF Limiter!Counter
<1>2. k.end - Window <= now
  BY <1>1, CountingTyped DEF Sound
<1>3. CASE counted' = counted
  BY <1>3, CountingTyped DEF Sound, Earned, Since
<1>4. CASE counted' = counted \cup {Limiter!Hits!Hit}
  <2>1. Cardinality(Since(k)') = Cardinality(Since(k)) + 1
    BY <1>4, <1>2, HitCounted, CountingTyped DEF Counting
  <2>2. Earned(k)'
    BY <2>1, <1>1, CountingTyped DEF Sound, Earned
  <2>3. QED
    BY <2>2, CountingTyped DEF Sound
<1>5. QED
  BY <1>3, <1>4 DEF Counting

\* A hit that is counted starts a counter or adds to it.
Added(k) == [k EXCEPT !.n = @ + 1]

LEMMA HitSound ==
    ASSUME Limiter!RateLimitConstants, NEW p, Counting(p), counted' = counted \cup {Limiter!Hits!Hit}
    PROVE  /\ \A k : k = Limiter!First => k \in Limiter!Counter /\ Sound(k)'
           /\ \A k \in Limiter!Counter : Sound(k) => Added(k) \in Limiter!Counter /\ Sound(Added(k))'
<1>1. Window \in Nat /\ MaxTime \in Nat /\ now \in Nat /\ now' = now /\ now <= MaxTime
  BY LimitNumbers, CountingTyped
<1>2. Limiter!First \in Limiter!Counter /\ Limiter!First' = Limiter!First /\ Limiter!First.n = 1 /\ Limiter!First.end = now + Window
  BY <1>1 DEF Limiter!First, Limiter!Counter
<1>3. ASSUME NEW k \in Limiter!Counter, Sound(k)
      PROVE  Added(k) \in Limiter!Counter /\ Sound(Added(k))'
  <2>1. k.n \in Nat /\ k.end \in Nat /\ Added(k) \in Limiter!Counter /\ Added(k).n = k.n + 1 /\ Added(k).end = k.end
    BY LimitNumbers DEF Limiter!Counter, Added
  <2>2. k.end - Window <= now
    BY <1>3, <2>1, <1>1 DEF Sound
  <2>3. Cardinality(Since(k)') = Cardinality(Since(k)) + 1
    BY <2>2, HitCounted, <1>1 DEF Counting
  <2>4. Since(Added(k))' = Since(k)'
    BY <2>1 DEF Since
  <2>5. k.n <= Cardinality(Since(k)) /\ Cardinality(Since(k)) \in Nat /\ k.end <= now + Window
    BY <1>3, CountingTyped DEF Sound, Earned
  <2>6. Earned(Added(k))'
    BY <2>1, <2>3, <2>4, <2>5 DEF Earned
  <2>7. QED
    BY <2>1, <2>5, <2>6, <1>1 DEF Sound
<1>4. ASSUME NEW k, k = Limiter!First
      PROVE  k \in Limiter!Counter /\ Sound(k)'
  <2>1. k \in Limiter!Counter /\ k.n = 1 /\ k.end = now + Window
    BY <1>2, <1>4
  <2>2. Cardinality(Since(k)') = Cardinality(Since(k)) + 1
    BY <1>1, <2>1, HitCounted DEF Counting
  <2>3. Cardinality(Since(k)) \in Nat
    BY CountingTyped
  <2>4. QED
    BY <1>1, <2>1, <2>2, <2>3 DEF Sound, Earned
<1>5. QED
  BY <1>2, <1>3, <1>4

\* A full counter that is alive has its calls within the last window.
LEMMA FullBlocks ==
    ASSUME Limiter!RateLimitConstants, LimiterInv, NEW k \in Limiter!Counter, Sound(k), Limiter!Full(k)
    PROVE  Limiter!Hits!Recent >= Limit
<1> DEFINE R == {h \in counted : now - Window < h.at /\ h.at <= now}
<1>1. k.n \in Nat /\ k.end \in Nat /\ Window \in Nat /\ Limit \in Nat /\ now \in Nat
  BY LimitNumbers DEF Limiter!Counter, LimiterInv, Limiter!TypeOK
<1>2. IsFiniteSet(counted) /\ \A h \in counted : h.at \in Nat /\ h.at <= now
  BY <1>1, HitSets DEF LimiterInv, Limiter!TypeOK
<1>3. Since(k) \subseteq R
  BY <1>1, <1>2 DEF Since, Limiter!Full, Limiter!Alive
<1>4. IsFiniteSet(R) /\ Cardinality(R) \in Nat
  <2>1. R \in SUBSET counted
    OBVIOUS
  <2>2. QED
    BY <2>1, <1>2, FS_Subset, FS_CardinalityType
<1>5. Cardinality(Since(k)) <= Cardinality(R) /\ Cardinality(Since(k)) \in Nat
  BY <1>3, <1>4, FS_Subset, SinceSized DEF LimiterInv
<1>6. k.n <= Cardinality(Since(k)) /\ k.n >= Limit
  BY DEF Sound, Earned, Limiter!Full
<1>7. Cardinality(R) >= Limit
  BY <1>1, <1>4, <1>5, <1>6
<1>8. QED
  BY <1>7, HitSets DEF Limiter!Hits!Recent

\* What a step of a process does: an answer or none, and counters that stay sound.
CountersOK ==
    /\ shared \in Limiter!Counter /\ Sound(shared)
    /\ local \in [Process -> Limiter!Counter] /\ \A p \in Process : Sound(local[p])

LEMMA CountersUnchanged ==
    ASSUME Limiter!RateLimitConstants, NEW p, Counting(p), UNCHANGED <<shared, local>>
    PROVE  CountersOK'
BY SoundKept DEF CountersOK, Counting, LimiterInv, Limiter!TypeOK

LEMMA SharedChanged ==
    ASSUME Limiter!RateLimitConstants, NEW p, Counting(p), UNCHANGED local, NEW k \in Limiter!Counter, shared' = k, Sound(k)'
    PROVE  CountersOK'
BY SoundKept DEF CountersOK, Counting, LimiterInv, Limiter!TypeOK

LEMMA LocalChanged ==
    ASSUME Limiter!RateLimitConstants, NEW p, Counting(p), UNCHANGED shared, NEW k \in Limiter!Counter,
           local' = [local EXCEPT ![p] = k], Sound(k)'
    PROVE  CountersOK'
<1>1. \A q \in Process : Sound(local[q])'
  <2> TAKE q \in Process
  <2>1. CASE q = p
    BY <2>1 DEF Counting, LimiterInv, Limiter!TypeOK
  <2>2. CASE q # p
    BY <2>2, SoundKept DEF Counting, LimiterInv, Limiter!TypeOK
  <2>3. QED
    BY <2>1, <2>2
<1>2. QED
  BY <1>1, SoundKept DEF CountersOK, Counting, LimiterInv, Limiter!TypeOK

LEMMA InvFromCounters ==
    ASSUME Limiter!RateLimitConstants, NEW p, Counting(p), CountersOK',
           pc' \in [Process -> {"read", "set", "try", "incr"}],
           verdict' \in [Process -> {"none", "pass", "block"}],
           \A q \in Process : verdict'[q] # "none" => pc'[q] = "read"
    PROVE  LimiterInv'
BY CountingTyped, HitSets DEF Counting, LimiterInv, Limiter!TypeOK, CountersOK, Limiter!setting

LEMMA GotoKeeps ==
    ASSUME Limiter!RateLimitConstants, NEW p, NEW next \in {"read", "set", "try", "incr"}, LimiterInv, p \in Process,
           Limiter!Goto(p, next), verdict[p] = "none", UNCHANGED <<Limiter!setting, now, up, faults>>
    PROVE  LimiterInv' /\ UNCHANGED <<now, counted, verdict>>
<1>1. Counting(p) /\ UNCHANGED <<shared, local>>
  BY DEF Limiter!Goto, Counting
<1>2. CountersOK'
  BY <1>1, CountersUnchanged
<1>3. pc' \in [Process -> {"read", "set", "try", "incr"}] /\ verdict' = verdict
      /\ \A q \in Process : verdict'[q] # "none" => pc'[q] = "read"
  BY DEF Limiter!Goto, LimiterInv, Limiter!TypeOK
<1>4. QED
  BY <1>1, <1>2, <1>3, InvFromCounters DEF LimiterInv, Limiter!TypeOK, Limiter!Goto

LEMMA AnswerKeeps ==
    ASSUME Limiter!RateLimitConstants, NEW p, NEW v \in {"pass", "block"}, NEW count \in BOOLEAN, LimiterInv,
           p \in Process, verdict[p] = "none", Limiter!Answer(p, v, count), UNCHANGED <<Limiter!setting, now, up, faults>>,
           v = "block" => ~count /\ Limiter!Hits!Recent >= Limit
    PROVE  /\ Counting(p) /\ (count => counted' = counted \cup {Limiter!Hits!Hit})
           /\ CountersOK' => LimiterInv'
           /\ Limiter!Hits!HitNext
<1>1. Counting(p) /\ (count => counted' = counted \cup {Limiter!Hits!Hit})
  BY DEF Limiter!Answer, Counting
<1>2. pc' \in [Process -> {"read", "set", "try", "incr"}] /\ verdict' \in [Process -> {"none", "pass", "block"}]
      /\ \A q \in Process : verdict'[q] # "none" => pc'[q] = "read"
  BY DEF Limiter!Answer, LimiterInv, Limiter!TypeOK
<1>3. CountersOK' => LimiterInv'
  BY <1>1, <1>2, InvFromCounters
<1>4. CASE v = "pass"
  <2>1. Limiter!Hits!Pass(p)
    BY <1>4 DEF Limiter!Hits!Pass, Limiter!Hits!Tell, Limiter!Answer
  <2>2. QED
    BY <1>1, <1>3, <2>1 DEF Limiter!Hits!HitNext
<1>5. CASE v = "block"
  <2>1. Limiter!Hits!Block(p)
    BY <1>5 DEF Limiter!Hits!Block, Limiter!Hits!Tell, Limiter!Answer
  <2>2. QED
    BY <1>1, <1>3, <2>1 DEF Limiter!Hits!HitNext
<1>6. QED
  BY <1>4, <1>5

LEMMA CountLocallyKeeps ==
    ASSUME Limiter!RateLimitConstants, NEW p, LimiterInv, p \in Process, verdict[p] = "none",
           Limiter!CountLocally(p), UNCHANGED <<Limiter!setting, now, up, faults>>
    PROVE  LimiterInv' /\ Limiter!Hits!HitNext
<1>1. local[p] \in Limiter!Counter /\ Sound(local[p])
  BY DEF LimiterInv, Limiter!TypeOK
<1>2. CASE counts = "calls" /\ Limiter!Full(local[p])
  <2>1. Limiter!Answer(p, "block", FALSE) /\ UNCHANGED <<shared, local>>
    BY <1>2 DEF Limiter!CountLocally
  <2>2. Limiter!Hits!Recent >= Limit
    BY <1>1, <1>2, FullBlocks
  <2>3. QED
    BY <2>1, <2>2, AnswerKeeps, CountersUnchanged
<1>3. CASE ~(counts = "calls" /\ Limiter!Full(local[p]))
  <2>1. Limiter!Answer(p, "pass", TRUE) /\ UNCHANGED shared
    BY <1>3 DEF Limiter!CountLocally
  <2>2. Counting(p) /\ counted' = counted \cup {Limiter!Hits!Hit} /\ (CountersOK' => LimiterInv') /\ Limiter!Hits!HitNext
    BY <2>1, AnswerKeeps
  <2>3. CASE Limiter!Alive(local[p])
    <3>1. PICK k \in Limiter!Counter : k = local[p] /\ Sound(k)
      BY <1>1
    <3>2. local' = [local EXCEPT ![p] = Added(k)]
      <4>1. local' = [local EXCEPT ![p] = IF Limiter!Alive(local[p]) THEN [local[p] EXCEPT !.n = @ + 1] ELSE Limiter!First]
        BY <1>3 DEF Limiter!CountLocally
      <4>2. Added(k) = [local[p] EXCEPT !.n = @ + 1]
        BY <3>1 DEF Added
      <4>3. QED
        BY <2>3, <4>1, <4>2
    <3>3. Added(k) \in Limiter!Counter /\ Sound(Added(k))'
      BY <3>1, <2>2, HitSound
    <3>4. QED
      BY <2>1, <2>2, <3>2, <3>3, LocalChanged
  <2>4. CASE ~Limiter!Alive(local[p])
    <3>1. PICK k : k = Limiter!First
      OBVIOUS
    <3>2. local' = [local EXCEPT ![p] = k]
      BY <1>3, <2>4, <3>1 DEF Limiter!CountLocally
    <3>3. k \in Limiter!Counter /\ Sound(k)'
      BY <3>1, <2>2, HitSound
    <3>4. QED
      BY <2>1, <2>2, <3>2, <3>3, LocalChanged
  <2>5. QED
    BY <2>3, <2>4
<1>4. QED
  BY <1>2, <1>3

\* The steps of a process.
Told == LimiterInv' /\ (Limiter!Hits!HitNext \/ UNCHANGED <<now, counted, verdict>>)

LEMMA CommandFailsKeeps ==
    ASSUME Limiter!RateLimitConstants, NEW p, LimiterInv, p \in Process, verdict[p] = "none",
           Limiter!CommandFails(p), UNCHANGED <<Limiter!setting, now, up, faults>>
    PROVE  Told
<1>1. CASE fallback
  BY <1>1, CountLocallyKeeps DEF Limiter!CommandFails, Told
<1>2. CASE ~fallback
  <2>1. Limiter!Answer(p, "pass", FALSE) /\ UNCHANGED <<shared, local>>
    BY <1>2 DEF Limiter!CommandFails
  <2>2. QED
    BY <2>1, AnswerKeeps, CountersUnchanged DEF Told
<1>3. QED
  BY <1>1, <1>2

LEMMA LimitReadKeeps ==
    ASSUME Limiter!RateLimitConstants, NEW p \in Process, LimiterInv, Limiter!Read(p)
    PROVE  Told
<1>1. verdict[p] = "none" /\ UNCHANGED <<Limiter!setting, now, up, faults>>
  BY DEF Limiter!Read
<1>2. shared \in Limiter!Counter /\ Sound(shared) /\ local[p] \in Limiter!Counter /\ Sound(local[p])
  BY DEF LimiterInv, Limiter!TypeOK
<1>3. ASSUME NEW k \in Limiter!Counter, Sound(k), Limiter!Full(k), Limiter!Answer(p, "block", FALSE), UNCHANGED <<shared, local>>
      PROVE  Told
  BY <1>1, <1>3, FullBlocks, AnswerKeeps, CountersUnchanged DEF Told
<1>4. ASSUME NEW next \in {"set", "try", "incr"}, Limiter!Goto(p, next)
      PROVE  Told
  BY <1>1, <1>4, GotoKeeps DEF Told
<1>5. CASE up /\ Limiter!Full(shared) /\ Limiter!Answer(p, "block", FALSE) /\ UNCHANGED <<shared, local>>
  BY <1>2, <1>3, <1>5
<1>6. CASE up /\ ~Limiter!Full(shared) /\ Limiter!Goto(p, IF counts = "failures" THEN "try" ELSE
                                                 IF Limiter!Alive(shared) THEN "incr" ELSE "set")
  BY <1>4, <1>6
<1>7. CASE ~up /\ counts = "calls" /\ Limiter!CommandFails(p)
  BY <1>1, <1>7, CommandFailsKeeps
<1>8. CASE ~up /\ counts = "failures" /\ fallback /\ Limiter!Full(local[p]) /\ Limiter!Answer(p, "block", FALSE)
           /\ UNCHANGED <<shared, local>>
  BY <1>2, <1>3, <1>8
<1>9. CASE Limiter!Goto(p, "try")
  BY <1>4, <1>9
<1>10. QED
  BY <1>5, <1>6, <1>7, <1>8, <1>9 DEF Limiter!Read

LEMMA AttemptKeeps ==
    ASSUME Limiter!RateLimitConstants, NEW p \in Process, LimiterInv, Limiter!Attempt(p)
    PROVE  Told
<1>1. verdict[p] = "none" /\ UNCHANGED <<Limiter!setting, now, up, faults>>
  BY DEF Limiter!Attempt, LimiterInv, Limiter!TypeOK
<1>2. CASE Limiter!Answer(p, "pass", FALSE) /\ UNCHANGED <<shared, local>>
  BY <1>1, <1>2, AnswerKeeps, CountersUnchanged DEF Told
<1>3. CASE Limiter!Goto(p, "incr")
  BY <1>1, <1>3, GotoKeeps DEF Told
<1>4. QED
  BY <1>2, <1>3 DEF Limiter!Attempt

LEMMA StartWindowKeeps ==
    ASSUME Limiter!RateLimitConstants, NEW p \in Process, LimiterInv, Limiter!StartWindow(p)
    PROVE  Told
<1>1. verdict[p] = "none" /\ UNCHANGED <<Limiter!setting, now, up, faults>>
  BY DEF Limiter!StartWindow, LimiterInv, Limiter!TypeOK
<1>2. CASE up
  <2>1. shared' = Limiter!First /\ Limiter!Answer(p, "pass", TRUE) /\ UNCHANGED local
    BY <1>2 DEF Limiter!StartWindow
  <2>2. Counting(p) /\ counted' = counted \cup {Limiter!Hits!Hit} /\ (CountersOK' => LimiterInv') /\ Limiter!Hits!HitNext
    BY <1>1, <2>1, AnswerKeeps
  <2>3. PICK k : k = Limiter!First
    OBVIOUS
  <2>4. k \in Limiter!Counter /\ Sound(k)'
    BY <2>2, <2>3, HitSound
  <2>5. CountersOK'
    BY <2>1, <2>2, <2>3, <2>4, SharedChanged
  <2>6. QED
    BY <2>2, <2>5 DEF Told
<1>3. CASE ~up
  BY <1>1, <1>3, CommandFailsKeeps DEF Limiter!StartWindow
<1>4. QED
  BY <1>2, <1>3

LEMMA IncrKeeps ==
    ASSUME Limiter!RateLimitConstants, NEW p \in Process, LimiterInv, Limiter!Incr(p)
    PROVE  Told
<1>1. verdict[p] = "none" /\ UNCHANGED <<Limiter!setting, now, up, faults>>
  BY DEF Limiter!Incr, LimiterInv, Limiter!TypeOK
<1>2. CASE shared' = [shared EXCEPT !.n = @ + 1] /\ Limiter!Answer(p, "pass", TRUE) /\ UNCHANGED local
  <2>1. Counting(p) /\ counted' = counted \cup {Limiter!Hits!Hit} /\ (CountersOK' => LimiterInv') /\ Limiter!Hits!HitNext
    BY <1>1, <1>2, AnswerKeeps
  <2>2. PICK k \in Limiter!Counter : k = shared /\ Sound(k)
    BY DEF LimiterInv, Limiter!TypeOK
  <2>3. shared' = Added(k) /\ Added(k) \in Limiter!Counter /\ Sound(Added(k))'
    BY <1>2, <2>1, <2>2, HitSound DEF Added
  <2>4. CountersOK'
    BY <1>2, <2>1, <2>3, SharedChanged
  <2>5. QED
    BY <2>1, <2>4 DEF Told
<1>3. CASE Limiter!Goto(p, "set")
  BY <1>1, <1>3, GotoKeeps DEF Told
<1>4. CASE Limiter!CommandFails(p)
  BY <1>1, <1>4, CommandFailsKeeps
<1>5. QED
  BY <1>2, <1>3, <1>4 DEF Limiter!Incr

\* Time and outages leave the counters sound: they only forget.
LEMMA EnvironmentKeeps ==
    ASSUME Limiter!RateLimitConstants, LimiterInv,
           \/ Limiter!Outage \/ Limiter!Recovery \/ Limiter!Tick \/ UNCHANGED Limiter!vars \/ \E p \in Process : Limiter!Return(p) \/ Limiter!Forget(p)
    PROVE  Told
<1>1. \A k \in Limiter!Counter : Sound(k) /\ counted' = counted /\ now' >= now /\ now' \in Nat => Sound(k)'
  BY LimitNumbers DEF Sound, Earned, Since, Limiter!Counter, LimiterInv, Limiter!TypeOK
<1>2. Limiter!Empty \in Limiter!Counter /\ Sound(Limiter!Empty)
  BY EmptySound DEF LimiterInv
<1>3. now \in Nat /\ now >= now /\ shared \in Limiter!Counter /\ Sound(shared) /\ local \in [Process -> Limiter!Counter]
      /\ \A p \in Process : Sound(local[p])
  BY LimitNumbers DEF LimiterInv, Limiter!TypeOK
<1> DEFINE Forgotten == /\ UNCHANGED <<Limiter!setting, now, pc, verdict, counted>> /\ up' \in BOOLEAN
                        /\ faults' \in 0 .. MaxFaults
                        /\ shared' \in {shared, Limiter!Empty} /\ local' \in [Process -> Limiter!Counter]
                        /\ \A p \in Process : local'[p] \in {local[p], Limiter!Empty}
<1>4. Forgotten => Told
  <2> SUFFICES ASSUME Forgotten PROVE LimiterInv'
    BY DEF Told
  <2>1. Limiter!TypeOK'
    BY <1>2, <1>3 DEF LimiterInv, Limiter!TypeOK, Limiter!setting
  <2>2. ASSUME NEW k \in Limiter!Counter, Sound(k) PROVE Sound(k)'
    BY <1>1, <1>3, <2>2
  <2>3. PICK s \in Limiter!Counter : s = shared' /\ Sound(s)
    BY <1>2, <1>3
  <2>4. \A p \in Process : \E k \in Limiter!Counter : k = local'[p] /\ Sound(k)
    BY <1>2, <1>3
  <2>5. Sound(shared)' /\ \A p \in Process : Sound(local[p])'
    BY <2>2, <2>3, <2>4
  <2>6. QED
    BY <2>1, <2>5 DEF LimiterInv
<1>5. CASE Limiter!Outage
  <2>1. faults' \in 0 .. MaxFaults
    BY <1>5, LimitNumbers DEF Limiter!Outage, LimiterInv, Limiter!TypeOK
  <2>2. QED
    BY <1>3, <1>4, <1>5, <2>1 DEF Limiter!Outage
<1>6. CASE Limiter!Recovery \/ UNCHANGED Limiter!vars
  BY <1>3, <1>4, <1>6 DEF Limiter!Recovery, Limiter!vars, LimiterInv, Limiter!TypeOK, Limiter!setting
<1>7. CASE Limiter!Tick
  <2>1. Limiter!Hits!Pause
    BY <1>7 DEF Limiter!Tick, Limiter!Hits!Pause
  <2>2. now' \in 0 .. MaxTime /\ now' >= now /\ now' \in Nat
    BY <1>7, LimitNumbers DEF Limiter!Tick, LimiterInv, Limiter!TypeOK
  <2>3. Limiter!TypeOK'
    BY <1>7, <2>2 DEF Limiter!Tick, LimiterInv, Limiter!TypeOK, Limiter!setting
  <2>4. QED
    BY <1>1, <1>7, <2>1, <2>2, <2>3 DEF Limiter!Tick, LimiterInv, Limiter!TypeOK, Told,
       Limiter!Hits!HitNext
<1>8. ASSUME NEW p \in Process, Limiter!Return(p)
      PROVE  Told
  <2>1. Limiter!Hits!Leave(p)
    BY <1>8 DEF Limiter!Return, Limiter!Hits!Leave
  <2>2. Limiter!TypeOK'
    BY <1>8 DEF Limiter!Return, LimiterInv, Limiter!TypeOK, Limiter!setting
  <2>3. QED
    BY <1>1, <1>8, <2>1, <2>2 DEF Limiter!Return, LimiterInv, Limiter!TypeOK, Told, Limiter!Hits!HitNext
<1>9. ASSUME NEW p \in Process, Limiter!Forget(p)
      PROVE  Told
  <2>1. faults' \in 0 .. MaxFaults
    BY <1>9, LimitNumbers DEF Limiter!Forget, LimiterInv, Limiter!TypeOK
  <2>2. local' \in [Process -> Limiter!Counter] /\ \A q \in Process : local'[q] \in {local[q], Limiter!Empty}
    BY <1>2, <1>3, <1>9 DEF Limiter!Forget
  <2>3. QED
    BY <1>4, <1>9, <2>1, <2>2 DEF Limiter!Forget, LimiterInv, Limiter!TypeOK
<1>10. QED
  BY <1>5, <1>6, <1>7, <1>8, <1>9

LEMMA LimiterStep == ASSUME Limiter!RateLimitConstants PROVE LimiterInv /\ [Limiter!Next]_Limiter!vars => Told
<1> SUFFICES ASSUME LimiterInv, [Limiter!Next]_Limiter!vars PROVE Told
  OBVIOUS
<1>1. ASSUME NEW p \in Process, Limiter!Read(p) \/ Limiter!Attempt(p) \/ Limiter!StartWindow(p) \/ Limiter!Incr(p)
      PROVE  Told
  BY <1>1, LimitReadKeeps, AttemptKeeps, StartWindowKeeps, IncrKeeps
<1>2. QED
  BY <1>1, EnvironmentKeeps DEF Limiter!Next

LEMMA LimiterImplementsHits == ASSUME Limiter!RateLimitConstants PROVE Limiter!Spec => Limiter!OnlyBlocksCounted
<1>1. Limiter!Init => LimiterInv
  BY LimiterInit
<1>2. LimiterInv /\ [Limiter!Next]_Limiter!vars => LimiterInv' /\ [Limiter!Hits!HitNext]_<<now, counted, verdict>>
  BY LimiterStep DEF Told
<1>3. Limiter!Init => Limiter!Hits!HitInit
  BY DEF Limiter!Init, Limiter!Hits!HitInit
<1>4. QED
  BY <1>1, <1>2, <1>3, PTL DEF Limiter!Spec, Limiter!OnlyBlocksCounted, Limiter!Hits!HitSpec

-----------------------------------------------------------------------
\* How many calls a window lets through while the cache stays up. Every call that was
\* counted is told apart by what counted it and for whom: it started the counter, added
\* to it, or was counted locally. C are the calls, s is the counter, q says where the
\* processes are, and m is the time.
Quiet == counts = "calls" /\ faults = 0
Way == {"start", "add", "local"}

Slack == Limit + Cardinality(Process) - 2
Extra(s) == IF s.n = 0 THEN 0 ELSE s.n - 1
Adding(q) == {p \in Process : q[p] = "incr"}

Later(C, way, w, t) == {h \in C : way[h] = w /\ h.at > t}
Repeats(way, by, w, h, k) == way[h] = w /\ way[k] = w /\ by[h] = by[k] /\ h.nr < k.nr

StartsApart(C, way, by, s, q, m) ==
    /\ \A h, k \in C : Repeats(way, by, "start", h, k) => h.at + Window <= k.at
    /\ \A h \in C : way[h] = "start" =>
         h.at + Window <= s.end /\ (q[by[h]] = "set" => h.at + Window <= m)

LocalsApart(C, way, by, s, q) ==
    /\ \A h \in C : way[h] = "local" => (q[by[h]] = "incr" => h.at < s.end)
    /\ \A h, k \in C : Repeats(way, by, "local", h, k) =>
         (h.at < s.end /\ s.end <= k.at) \/ h.at + Window < s.end
    /\ \A h, k, l \in C :
         Repeats(way, by, "local", h, k) /\ Repeats(way, by, "local", k, l) => h.at + Window <= l.at

AddsBounded(C, way, s) ==
    \A t \in Int :
        Cardinality(Later(C, way, "add", t)) <= Slack * Cardinality(Later(C, way, "start", t)) + Extra(s)

Labelled(C, way, by, s, q, m) ==
    /\ way \in [C -> Way] /\ by \in [C -> Process]
    /\ StartsApart(C, way, by, s, q, m) /\ LocalsApart(C, way, by, s, q) /\ AddsBounded(C, way, s)

Quieted(C, s, q, m) ==
    /\ \A p \in Process : q[p] # "try"
    /\ \A h, k \in C : h.nr = k.nr => h = k
    /\ s.end <= m + Window
    /\ s.n + Cardinality(Adding(q)) <= Slack + 1
    /\ s.n = 0 => Adding(q) = {} /\ s.end = 0
    /\ \E way, by : Labelled(C, way, by, s, q, m)

QuietInv == up /\ Quieted(counted, shared, pc, now)

\* What is known of the calls, the counter and the time.
Calls(C, s, m) ==
    /\ IsFiniteSet(C) /\ \A h \in C : h.at \in Nat /\ h.at <= m /\ h.nr \in Nat
    /\ s.n \in Nat /\ s.end \in Nat /\ m \in Nat

LEMMA ProcessSized ==
    ASSUME Limiter!RateLimitConstants
    PROVE  /\ Slack \in Nat /\ Cardinality(Process) \in Nat /\ Slack + 1 = Limit + Cardinality(Process) - 1
           /\ IsFiniteSet(Process) /\ Cardinality(Process) # 0
           /\ \A S \in SUBSET Process : IsFiniteSet(S) /\ Cardinality(S) \in Nat /\ Cardinality(S) <= Cardinality(Process)
<1>1. IsFiniteSet(Process) /\ Process # {}
  BY HitSets DEF Limiter!RateLimitConstants
<1>2. Cardinality(Process) \in Nat /\ Cardinality(Process) # 0
  BY <1>1, FS_CardinalityType, FS_EmptySet
<1>3. \A S \in SUBSET Process : IsFiniteSet(S) /\ Cardinality(S) \in Nat /\ Cardinality(S) <= Cardinality(Process)
  BY <1>1, FS_Subset, FS_CardinalityType
<1>4. QED
  BY <1>1, <1>2, <1>3, LimitNumbers DEF Slack

LEMMA CallsKnown ==
    ASSUME Limiter!RateLimitConstants, LimiterInv
    PROVE  Calls(counted, shared, now) /\ Cardinality(counted) \in Nat
           /\ \A h \in counted : h.nr <= Cardinality(counted)
<1>1. IsFiniteSet(counted) /\ Cardinality(counted) \in Nat
  BY FS_CardinalityType, HitSets DEF LimiterInv, Limiter!TypeOK
<1>2. QED
  BY <1>1, LimitNumbers, HitSets DEF LimiterInv, Limiter!TypeOK, Calls, Limiter!Counter

\* Those of one kind can be counted.
LEMMA LaterSized ==
    ASSUME NEW C, IsFiniteSet(C), NEW way, NEW w, NEW t
    PROVE  IsFiniteSet(Later(C, way, w, t)) /\ Cardinality(Later(C, way, w, t)) \in Nat
<1>1. Later(C, way, w, t) \in SUBSET C
  BY DEF Later
<1>2. QED
  BY <1>1, FS_Subset, FS_CardinalityType

\* A step that counts no call: time passes, or a process has read the counter.
LEMMA LabelsStay ==
    ASSUME Limiter!RateLimitConstants, NEW C, NEW way, NEW by, NEW s, NEW q, NEW m, NEW q1, NEW m1,
           Labelled(C, way, by, s, q, m), Calls(C, s, m), m1 \in Nat, m1 >= m,
           \A p \in Process : q1[p] = "set" => q[p] = "set" \/ s.end <= m,
           \A p \in Process : q1[p] = "incr" => q[p] = "incr" \/ m < s.end
    PROVE  Labelled(C, way, by, s, q1, m1)
<1>1. way \in [C -> Way] /\ by \in [C -> Process]
  BY DEF Labelled
<1>2. Window \in Nat /\ s.end \in Nat /\ m \in Nat /\ \A h \in C : h.at \in Nat /\ h.at <= m
  BY LimitNumbers DEF Calls
<1>3. StartsApart(C, way, by, s, q1, m1)
  <2>1. \A h, k \in C : Repeats(way, by, "start", h, k) => h.at + Window <= k.at
    BY DEF Labelled, StartsApart
  <2>2. ASSUME NEW h \in C, way[h] = "start"
        PROVE  h.at + Window <= s.end /\ (q1[by[h]] = "set" => h.at + Window <= m1)
    <3>1. h.at + Window <= s.end /\ (q[by[h]] = "set" => h.at + Window <= m)
      BY <2>2 DEF Labelled, StartsApart
    <3>2. by[h] \in Process
      BY <1>1
    <3>3. QED
      BY <1>2, <3>1, <3>2
  <2>3. QED
    BY <2>1, <2>2 DEF StartsApart
<1>4. LocalsApart(C, way, by, s, q1)
  <2>1. ASSUME NEW h \in C, way[h] = "local", q1[by[h]] = "incr"
        PROVE  h.at < s.end
    <3>1. q[by[h]] = "incr" => h.at < s.end
      BY <2>1 DEF Labelled, LocalsApart
    <3>2. by[h] \in Process
      BY <1>1
    <3>3. QED
      BY <1>2, <2>1, <3>1, <3>2
  <2>2. QED
    BY <2>1 DEF Labelled, LocalsApart
<1>5. QED
  BY <1>1, <1>3, <1>4 DEF Labelled

\* A call that is counted takes its label; the others keep theirs.
With(f, S, x, y) == [z \in S |-> IF z = x THEN y ELSE f[z]]
Newest(C, h0, m) == h0 \notin C /\ h0.at = m /\ h0.nr \in Nat /\ \A h \in C : h.nr < h0.nr
Grown(C, way, by, h0, w, p, way1, by1) ==
    /\ way1 \in [C \cup {h0} -> Way] /\ by1 \in [C \cup {h0} -> Process]
    /\ way1[h0] = w /\ by1[h0] = p
    /\ \A h \in C : way1[h] = way[h] /\ by1[h] = by[h]

LEMMA LabelsGrow ==
    ASSUME NEW C, NEW way \in [C -> Way], NEW by \in [C -> Process],
           NEW h0, h0 \notin C, NEW w \in Way, NEW p \in Process
    PROVE  \E way1, by1 : Grown(C, way, by, h0, w, p, way1, by1)
<1> DEFINE way1 == With(way, C \cup {h0}, h0, w)
           by1 == With(by, C \cup {h0}, h0, p)
<1>1. Grown(C, way, by, h0, w, p, way1, by1)
  BY DEF Grown, With
<1>2. QED
  BY <1>1

\* The calls C, of which none is after m, and one more at m.
OneMore(C, way, way1, h0, m) ==
    /\ IsFiniteSet(C) /\ m \in Nat /\ h0 \notin C /\ h0.at = m
    /\ \A h \in C : way1[h] = way[h] /\ h.at \in Nat /\ h.at <= m

LEMMA LaterGrows ==
    ASSUME NEW C, NEW way, NEW way1, NEW h0, NEW m, OneMore(C, way, way1, h0, m), NEW x, NEW t \in Int
    PROVE  /\ way1[h0] # x => Later(C \cup {h0}, way1, x, t) = Later(C, way, x, t)
           /\ t < m /\ way1[h0] = x =>
                Cardinality(Later(C \cup {h0}, way1, x, t)) = Cardinality(Later(C, way, x, t)) + 1
           /\ t >= m => Later(C \cup {h0}, way1, x, t) = {}
           /\ Cardinality(Later(C \cup {h0}, way1, x, t)) \in Nat /\ Cardinality(Later(C, way, x, t)) \in Nat
<1>0. /\ IsFiniteSet(C) /\ m \in Nat /\ h0 \notin C /\ h0.at = m
      /\ \A h \in C : way1[h] = way[h] /\ h.at \in Nat /\ h.at <= m
  BY DEF OneMore
<1>1. IsFiniteSet(C \cup {h0})
  BY <1>0, FS_AddElement
<1>2. \A h \in C \cup {h0} : h.at \in Nat /\ h.at <= m
  BY <1>0
<1>3. way1[h0] # x => Later(C \cup {h0}, way1, x, t) = Later(C, way, x, t)
  BY <1>0 DEF Later
<1>4. t >= m => Later(C \cup {h0}, way1, x, t) = {}
  BY <1>0, <1>2 DEF Later
<1>5. ASSUME t < m, way1[h0] = x
      PROVE  Cardinality(Later(C \cup {h0}, way1, x, t)) = Cardinality(Later(C, way, x, t)) + 1
  <2>1. ASSUME NEW h
        PROVE  h \in Later(C \cup {h0}, way1, x, t) <=> h \in Later(C, way, x, t) \cup {h0}
    BY <1>0, <1>5 DEF Later
  <2>2. Later(C \cup {h0}, way1, x, t) = Later(C, way, x, t) \cup {h0}
    BY <2>1
  <2>3. h0 \notin Later(C, way, x, t)
    BY <1>0 DEF Later
  <2>4. IsFiniteSet(Later(C, way, x, t))
    BY <1>0, LaterSized
  <2>5. QED
    BY <1>0, <2>2, <2>3, <2>4, FS_AddElement
<1>6. QED
  BY <1>0, <1>1, <1>3, <1>4, <1>5, LaterSized

LEMMA Steps == \A a, b \in Nat : a * (b + 1) = a * b + a /\ a * b \in Nat
OBVIOUS

LEMMA Grows == ASSUME NEW a \in Nat, NEW b \in Nat, NEW c \in Nat, b <= c PROVE a * b <= a * c
OBVIOUS

\* A process sets the counter to 1, that of its own window.
LEMMA StartLabelled ==
    ASSUME Limiter!RateLimitConstants, NEW C, NEW way, NEW by, NEW s, NEW q, NEW m, NEW h0, NEW p \in Process,
           NEW way1, NEW by1, NEW s1, NEW q1,
           Labelled(C, way, by, s, q, m), Calls(C, s, m), Newest(C, h0, m),
           Grown(C, way, by, h0, "start", p, way1, by1),
           q[p] = "set", q1[p] = "read", \A r \in Process \ {p} : q1[r] = q[r],
           s.end <= m + Window, s.n <= Slack + 1, s1.n = 1, s1.end = m + Window
    PROVE  Labelled(C \cup {h0}, way1, by1, s1, q1, m)
<1>1. /\ h0 \notin C /\ h0.at = m /\ h0.nr \in Nat /\ \A h \in C : h.nr < h0.nr
      /\ way1[h0] = "start" /\ by1[h0] = p /\ \A h \in C : way1[h] = way[h] /\ by1[h] = by[h]
      /\ by \in [C -> Process]
  BY DEF Newest, Grown, Labelled
<1>2. /\ Window \in Nat /\ Window # 0 /\ s.end \in Nat /\ s.n \in Nat /\ m \in Nat
      /\ \A h \in C : h.at \in Nat /\ h.at <= m /\ h.nr \in Nat
  BY LimitNumbers DEF Calls
<1>3. StartsApart(C \cup {h0}, way1, by1, s1, q1, m)
  <2>1. ASSUME NEW h \in C, NEW k \in C, Repeats(way1, by1, "start", h, k)
        PROVE  h.at + Window <= k.at
    BY <1>1, <2>1 DEF Labelled, StartsApart, Repeats
  <2>2. ASSUME NEW h \in C, Repeats(way1, by1, "start", h, h0)
        PROVE  h.at + Window <= h0.at
    BY <1>1, <2>2 DEF Labelled, StartsApart, Repeats
  <2>3. \A h \in C \cup {h0} : ~ Repeats(way1, by1, "start", h0, h)
    BY <1>1, <1>2 DEF Repeats
  <2>4. ASSUME NEW h \in C, way1[h] = "start"
        PROVE  h.at + Window <= s1.end /\ (q1[by1[h]] = "set" => h.at + Window <= m)
    <3>1. way[h] = "start" /\ by1[h] = by[h] /\ by[h] \in Process
      BY <1>1, <2>4
    <3>2. q1[by[h]] = "set" => q[by[h]] = "set"
      BY <3>1
    <3>3. q[by[h]] = "set" => h.at + Window <= m
      BY <3>1 DEF Labelled, StartsApart
    <3>4. QED
      BY <1>2, <3>1, <3>2, <3>3
  <2>5. h0.at + Window <= s1.end /\ q1[by1[h0]] # "set"
    BY <1>1, <1>2
  <2>6. QED
    BY <2>1, <2>2, <2>3, <2>4, <2>5 DEF StartsApart
<1>4. LocalsApart(C \cup {h0}, way1, by1, s1, q1)
  <2>1. way1[h0] # "local"
    BY <1>1
  <2>2. \A h, k \in C : Repeats(way1, by1, "local", h, k) => Repeats(way, by, "local", h, k)
    BY <1>1 DEF Repeats
  <2>3. \A h, k \in C \cup {h0} : Repeats(way1, by1, "local", h, k) => h \in C /\ k \in C
    BY <2>1 DEF Repeats
  <2>4. ASSUME NEW h \in C, NEW k \in C, Repeats(way1, by1, "local", h, k)
        PROVE  h.at + Window < s1.end
    <3>1. (h.at < s.end /\ s.end <= k.at) \/ h.at + Window < s.end
      BY <2>2, <2>4 DEF Labelled, LocalsApart
    <3>2. QED
      BY <1>2, <3>1
  <2>5. \A h \in C : h.at < s1.end
    BY <1>2
  <2>6. \A h, k, l \in C : Repeats(way1, by1, "local", h, k) /\ Repeats(way1, by1, "local", k, l) => h.at + Window <= l.at
    BY <2>2 DEF Labelled, LocalsApart
  <2>7. QED
    BY <2>1, <2>3, <2>4, <2>5, <2>6 DEF LocalsApart
<1>5. AddsBounded(C \cup {h0}, way1, s1)
  <2> SUFFICES ASSUME NEW t \in Int
               PROVE  Cardinality(Later(C \cup {h0}, way1, "add", t))
                        <= Slack * Cardinality(Later(C \cup {h0}, way1, "start", t)) + 0
    <3>1. Extra(s1) = 0
      BY DEF Extra
    <3>2. QED
      BY <3>1 DEF AddsBounded
  <2> DEFINE a == Cardinality(Later(C, way, "add", t))
             b == Cardinality(Later(C, way, "start", t))
             b1 == Cardinality(Later(C \cup {h0}, way1, "start", t))
  <2>0. OneMore(C, way, way1, h0, m)
    BY <1>1 DEF Calls, OneMore
  <2>8. ASSUME NEW x
        PROVE  /\ way1[h0] # x => Later(C \cup {h0}, way1, x, t) = Later(C, way, x, t)
               /\ t < m /\ way1[h0] = x =>
                    Cardinality(Later(C \cup {h0}, way1, x, t)) = Cardinality(Later(C, way, x, t)) + 1
               /\ t >= m => Later(C \cup {h0}, way1, x, t) = {}
               /\ Cardinality(Later(C \cup {h0}, way1, x, t)) \in Nat /\ Cardinality(Later(C, way, x, t)) \in Nat
    BY <2>0, LaterGrows
  <2>7. /\ Later(C \cup {h0}, way1, "add", t) = Later(C, way, "add", t)
        /\ t < m => b1 = b + 1
        /\ t >= m => Later(C \cup {h0}, way1, "add", t) = {}
        /\ a \in Nat /\ b \in Nat /\ Cardinality(Later(C \cup {h0}, way1, "start", t)) \in Nat
    BY <1>1, <2>8
  <2>1. a \in Nat /\ b \in Nat /\ b1 \in Nat /\ Slack \in Nat /\ Extra(s) <= Slack /\ Extra(s) \in Nat
    BY <1>2, <2>7, ProcessSized DEF Extra
  <2>2. a <= Slack * b + Extra(s)
    BY DEF Labelled, AddsBounded
  <2>3. CASE t < m
    <3>1. Cardinality(Later(C \cup {h0}, way1, "add", t)) = a /\ b1 = b + 1
      BY <2>3, <2>7
    <3>2. Slack * (b + 1) = Slack * b + Slack /\ Slack * b \in Nat
      BY <2>1, Steps
    <3>3. QED
      BY <2>1, <2>2, <3>1, <3>2
  <2>4. CASE t >= m
    <3>1. Cardinality(Later(C \cup {h0}, way1, "add", t)) = 0
      BY <2>4, <2>7, FS_EmptySet
    <3>2. Slack * b1 \in Nat
      BY <2>1, Steps
    <3>3. QED
      BY <3>1, <3>2
  <2>5. QED
    BY <1>2, <2>3, <2>4
<1>6. QED
  BY <1>3, <1>4, <1>5 DEF Labelled, Grown

\* A process adds to a counter whose window is not over.
LEMMA AddLabelled ==
    ASSUME Limiter!RateLimitConstants, NEW C, NEW way, NEW by, NEW s, NEW q, NEW m, NEW h0, NEW p \in Process,
           NEW way1, NEW by1, NEW s1, NEW q1,
           Labelled(C, way, by, s, q, m), Calls(C, s, m), Newest(C, h0, m),
           Grown(C, way, by, h0, "add", p, way1, by1),
           q1[p] = "read", \A r \in Process \ {p} : q1[r] = q[r],
           s.n # 0, s1.n = s.n + 1, s1.end = s.end
    PROVE  Labelled(C \cup {h0}, way1, by1, s1, q1, m)
<1>1. /\ h0 \notin C /\ h0.at = m /\ h0.nr \in Nat /\ \A h \in C : h.nr < h0.nr
      /\ way1[h0] = "add" /\ by1[h0] = p /\ \A h \in C : way1[h] = way[h] /\ by1[h] = by[h]
      /\ by \in [C -> Process]
  BY DEF Newest, Grown, Labelled
<1>2. s.end \in Nat /\ s.n \in Nat /\ m \in Nat
  BY DEF Calls
<1>3. \A w \in {"start", "local"} : \A h, k \in C \cup {h0} :
         Repeats(way1, by1, w, h, k) => h \in C /\ k \in C /\ Repeats(way, by, w, h, k)
  BY <1>1 DEF Repeats
<1>4. \A h \in C : by[h] \in Process /\ (q1[by[h]] # "read" => q1[by[h]] = q[by[h]])
  BY <1>1
<1>5. StartsApart(C \cup {h0}, way1, by1, s1, q1, m)
  <2>1. \A h, k \in C \cup {h0} : Repeats(way1, by1, "start", h, k) => h.at + Window <= k.at
    BY <1>3 DEF Labelled, StartsApart
  <2>2. ASSUME NEW h \in C \cup {h0}, way1[h] = "start"
        PROVE  h.at + Window <= s1.end /\ (q1[by1[h]] = "set" => h.at + Window <= m)
    <3>1. h \in C /\ way[h] = "start" /\ by1[h] = by[h]
      BY <1>1, <2>2
    <3>2. QED
      BY <1>4, <3>1 DEF Labelled, StartsApart
  <2>3. QED
    BY <2>1, <2>2 DEF StartsApart
<1>6. LocalsApart(C \cup {h0}, way1, by1, s1, q1)
  <2>1. ASSUME NEW h \in C \cup {h0}, way1[h] = "local", q1[by1[h]] = "incr"
        PROVE  h.at < s1.end
    <3>1. h \in C /\ way[h] = "local" /\ by1[h] = by[h]
      BY <1>1, <2>1
    <3>2. QED
      BY <1>4, <2>1, <3>1 DEF Labelled, LocalsApart
  <2>2. \A h, k \in C \cup {h0} : Repeats(way1, by1, "local", h, k) =>
           (h.at < s1.end /\ s1.end <= k.at) \/ h.at + Window < s1.end
    BY <1>3 DEF Labelled, LocalsApart
  <2>3. \A h, k, l \in C \cup {h0} :
           Repeats(way1, by1, "local", h, k) /\ Repeats(way1, by1, "local", k, l) => h.at + Window <= l.at
    BY <1>3 DEF Labelled, LocalsApart
  <2>4. QED
    BY <2>1, <2>2, <2>3 DEF LocalsApart
<1>7. AddsBounded(C \cup {h0}, way1, s1)
  <2> SUFFICES ASSUME NEW t \in Int
               PROVE  Cardinality(Later(C \cup {h0}, way1, "add", t))
                        <= Slack * Cardinality(Later(C \cup {h0}, way1, "start", t)) + Extra(s1)
    BY DEF AddsBounded
  <2> DEFINE a == Cardinality(Later(C, way, "add", t))
             b == Cardinality(Later(C, way, "start", t))
             a1 == Cardinality(Later(C \cup {h0}, way1, "add", t))
  <2>0. OneMore(C, way, way1, h0, m)
    BY <1>1 DEF Calls, OneMore
  <2>8. ASSUME NEW x
        PROVE  /\ way1[h0] # x => Later(C \cup {h0}, way1, x, t) = Later(C, way, x, t)
               /\ t < m /\ way1[h0] = x =>
                    Cardinality(Later(C \cup {h0}, way1, x, t)) = Cardinality(Later(C, way, x, t)) + 1
               /\ t >= m => Later(C \cup {h0}, way1, x, t) = {}
               /\ Cardinality(Later(C \cup {h0}, way1, x, t)) \in Nat /\ Cardinality(Later(C, way, x, t)) \in Nat
    BY <2>0, LaterGrows
  <2>7. /\ Later(C \cup {h0}, way1, "start", t) = Later(C, way, "start", t)
        /\ t < m => a1 = a + 1
        /\ t >= m => Later(C \cup {h0}, way1, "add", t) = {}
        /\ a \in Nat /\ b \in Nat /\ Cardinality(Later(C \cup {h0}, way1, "start", t)) \in Nat
    BY <1>1, <2>8
  <2>1. /\ a \in Nat /\ b \in Nat /\ Slack \in Nat /\ Slack * b \in Nat
        /\ Extra(s) \in Nat /\ Extra(s1) = Extra(s) + 1
    BY <1>2, <2>7, ProcessSized, Steps DEF Extra
  <2>2. a <= Slack * b + Extra(s)
    BY DEF Labelled, AddsBounded
  <2>3. Later(C \cup {h0}, way1, "start", t) = Later(C, way, "start", t)
    BY <2>7
  <2>4. CASE t < m
    <3>1. a1 = a + 1
      BY <2>4, <2>7
    <3>2. QED
      BY <2>1, <2>2, <2>3, <3>1
  <2>5. CASE t >= m
    <3>1. a1 = 0
      BY <2>5, <2>7, FS_EmptySet
    <3>2. QED
      BY <2>1, <2>3, <3>1
  <2>6. QED
    BY <1>2, <2>4, <2>5
<1>8. QED
  BY <1>5, <1>6, <1>7 DEF Labelled, Grown

\* The entry has expired since the process read it, and the process counts for itself.
LEMMA LocalLabelled ==
    ASSUME Limiter!RateLimitConstants, NEW C, NEW way, NEW by, NEW s, NEW q, NEW m, NEW h0, NEW p \in Process,
           NEW way1, NEW by1, NEW q1,
           Labelled(C, way, by, s, q, m), Calls(C, s, m), Newest(C, h0, m),
           Grown(C, way, by, h0, "local", p, way1, by1),
           q[p] = "incr", q1[p] = "read", \A r \in Process \ {p} : q1[r] = q[r], s.end <= m
    PROVE  Labelled(C \cup {h0}, way1, by1, s, q1, m)
<1>1. /\ h0 \notin C /\ h0.at = m /\ h0.nr \in Nat /\ \A h \in C : h.nr < h0.nr
      /\ way1[h0] = "local" /\ by1[h0] = p /\ \A h \in C : way1[h] = way[h] /\ by1[h] = by[h]
      /\ by \in [C -> Process]
  BY DEF Newest, Grown, Labelled
<1>2. /\ Window \in Nat /\ Window # 0 /\ s.end \in Nat /\ s.n \in Nat /\ m \in Nat
      /\ \A h \in C : h.at \in Nat /\ h.at <= m /\ h.nr \in Nat
  BY LimitNumbers DEF Calls
<1>3. \A h \in C : by[h] \in Process /\ (q1[by[h]] # "read" => q1[by[h]] = q[by[h]])
  BY <1>1
<1>4. StartsApart(C \cup {h0}, way1, by1, s, q1, m)
  <2>1. \A h, k \in C \cup {h0} : Repeats(way1, by1, "start", h, k) => h \in C /\ k \in C /\ Repeats(way, by, "start", h, k)
    BY <1>1 DEF Repeats
  <2>2. ASSUME NEW h \in C \cup {h0}, way1[h] = "start"
        PROVE  h.at + Window <= s.end /\ (q1[by1[h]] = "set" => h.at + Window <= m)
    <3>1. h \in C /\ way[h] = "start" /\ by1[h] = by[h]
      BY <1>1, <2>2
    <3>2. QED
      BY <1>3, <3>1 DEF Labelled, StartsApart
  <2>3. \A h, k \in C \cup {h0} : Repeats(way1, by1, "start", h, k) => h.at + Window <= k.at
    BY <2>1 DEF Labelled, StartsApart
  <2>4. QED
    BY <2>2, <2>3 DEF StartsApart
<1>5. LocalsApart(C \cup {h0}, way1, by1, s, q1)
  <2>1. ASSUME NEW h \in C \cup {h0}, way1[h] = "local", q1[by1[h]] = "incr"
        PROVE  h.at < s.end
    <3>1. h \in C /\ way[h] = "local" /\ by1[h] = by[h]
      BY <1>1, <2>1
    <3>2. QED
      BY <1>3, <2>1, <3>1 DEF Labelled, LocalsApart
  <2>2. \A h \in C \cup {h0} : ~ Repeats(way1, by1, "local", h0, h)
    BY <1>1, <1>2 DEF Repeats
  <2>3. \A h, k \in C : Repeats(way1, by1, "local", h, k) => Repeats(way, by, "local", h, k)
    BY <1>1 DEF Repeats
  <2>4. ASSUME NEW h \in C, Repeats(way1, by1, "local", h, h0)
        PROVE  way[h] = "local" /\ by[h] = p /\ h.at < s.end
    BY <1>1, <2>4 DEF Labelled, LocalsApart, Repeats
  <2>5. ASSUME NEW h \in C, NEW k \in C, Repeats(way1, by1, "local", h, k)
        PROVE  (h.at < s.end /\ s.end <= k.at) \/ h.at + Window < s.end
    BY <2>3, <2>5 DEF Labelled, LocalsApart
  <2>6. ASSUME NEW h \in C, NEW k \in C, Repeats(way1, by1, "local", h, k), Repeats(way1, by1, "local", k, h0)
        PROVE  h.at + Window <= h0.at
    <3>1. k.at < s.end
      BY <2>4, <2>6
    <3>2. h.at + Window < s.end
      BY <1>2, <2>5, <2>6, <3>1
    <3>3. QED
      BY <1>1, <1>2, <3>2
  <2>7. \A h, k, l \in C :
           Repeats(way1, by1, "local", h, k) /\ Repeats(way1, by1, "local", k, l) => h.at + Window <= l.at
    BY <2>3 DEF Labelled, LocalsApart
  <2>8. \A h, k \in C \cup {h0} : Repeats(way1, by1, "local", h, k) =>
           (h.at < s.end /\ s.end <= k.at) \/ h.at + Window < s.end
    BY <1>1, <1>2, <2>2, <2>4, <2>5
  <2>9. \A h, k, l \in C \cup {h0} :
           Repeats(way1, by1, "local", h, k) /\ Repeats(way1, by1, "local", k, l) => h.at + Window <= l.at
    BY <2>2, <2>6, <2>7
  <2>10. QED
    BY <2>1, <2>8, <2>9 DEF LocalsApart
<1>6. AddsBounded(C \cup {h0}, way1, s)
  <2>1. OneMore(C, way, way1, h0, m)
    BY <1>1 DEF Calls, OneMore
  <2>2. ASSUME NEW t \in Int, NEW x \in {"start", "add"}
        PROVE  Later(C \cup {h0}, way1, x, t) = Later(C, way, x, t)
    <3>1. way1[h0] # x
      BY <1>1
    <3>2. way1[h0] # x => Later(C \cup {h0}, way1, x, t) = Later(C, way, x, t)
      BY <2>1, LaterGrows
    <3>3. QED
      BY <3>1, <3>2
  <2>3. QED
    BY <2>2 DEF Labelled, AddsBounded
<1>7. QED
  BY <1>4, <1>5, <1>6 DEF Labelled, Grown

\* A process that has given its answer no longer adds to the counter.
LEMMA AnsweredAdds ==
    ASSUME Limiter!RateLimitConstants, NEW q, NEW q1, NEW p \in Process,
           q1[p] = "read", \A r \in Process \ {p} : q1[r] = q[r]
    PROVE  /\ Adding(q1) = Adding(q) \ {p}
           /\ Cardinality(Adding(q1)) \in Nat /\ Cardinality(Adding(q)) \in Nat
           /\ Cardinality(Adding(q1)) <= Cardinality(Adding(q))
           /\ q[p] = "incr" => Cardinality(Adding(q)) = Cardinality(Adding(q1)) + 1
           /\ Cardinality(Adding(q1)) + 1 <= Cardinality(Process)
<1>1. Adding(q1) = Adding(q) \ {p} /\ Adding(q) \in SUBSET Process /\ Adding(q1) \in SUBSET Process
  BY DEF Adding
<1>2. IsFiniteSet(Adding(q)) /\ IsFiniteSet(Adding(q1)) /\ IsFiniteSet(Process)
  BY <1>1, ProcessSized
<1>3. Cardinality(Adding(q1)) \in Nat /\ Cardinality(Adding(q)) \in Nat /\ Cardinality(Process) \in Nat
  BY <1>2, FS_CardinalityType
<1>4. Cardinality(Adding(q1)) <= Cardinality(Adding(q))
  BY <1>1, <1>2, FS_Subset
<1>5. q[p] = "incr" => Cardinality(Adding(q)) = Cardinality(Adding(q1)) + 1
  <2>1. p \notin Adding(q1) /\ (q[p] = "incr" => Adding(q) = Adding(q1) \cup {p})
    BY <1>1 DEF Adding
  <2>2. QED
    BY <1>2, <2>1, FS_AddElement
<1>6. Cardinality(Adding(q1)) + 1 <= Cardinality(Process)
  <2>1. p \notin Adding(q1) /\ Adding(q1) \cup {p} \in SUBSET Process
    BY <1>1
  <2>2. Cardinality(Adding(q1) \cup {p}) = Cardinality(Adding(q1)) + 1
    BY <1>2, <2>1, FS_AddElement
  <2>3. Cardinality(Adding(q1) \cup {p}) <= Cardinality(Process)
    BY <2>1, ProcessSized
  <2>4. QED
    BY <2>2, <2>3
<1>7. QED
  BY <1>1, <1>3, <1>4, <1>5, <1>6

\* Nothing is counted: time passes, a process answers, or it has read a counter that is not full.
LEMMA QuietStays ==
    ASSUME Limiter!RateLimitConstants, NEW C, NEW s, NEW q, NEW m, NEW q1, NEW m1,
           Quieted(C, s, q, m), Calls(C, s, m), m1 \in Nat, m1 >= m,
           \A r \in Process : q1[r] # "try",
           \A r \in Process : q1[r] = "set" => q[r] = "set" \/ s.end <= m,
           \A r \in Process : q1[r] = "incr" => q[r] = "incr" \/ m < s.end,
           Adding(q1) \subseteq Adding(q) \/ s.n <= Limit - 1
    PROVE  Quieted(C, s, q1, m1)
<1>1. Window \in Nat /\ s.end \in Nat /\ s.n \in Nat /\ m \in Nat /\ Slack \in Nat
  BY LimitNumbers, ProcessSized DEF Calls
<1>2. Adding(q1) \in SUBSET Process /\ Adding(q) \in SUBSET Process
  BY DEF Adding
<1>3. s.n + Cardinality(Adding(q1)) <= Slack + 1
  <2>1. Cardinality(Adding(q1)) \in Nat /\ Cardinality(Adding(q)) \in Nat
    BY <1>2, ProcessSized
  <2>2. CASE Adding(q1) \subseteq Adding(q)
    <3>1. Cardinality(Adding(q1)) <= Cardinality(Adding(q))
      BY <1>2, <2>2, ProcessSized, FS_Subset
    <3>2. QED
      BY <1>1, <2>1, <3>1 DEF Quieted
  <2>3. CASE s.n <= Limit - 1
    <3>1. Cardinality(Adding(q1)) <= Cardinality(Process)
      BY <1>2, ProcessSized
    <3>2. QED
      BY <1>1, <2>1, <2>3, <3>1, ProcessSized, LimitNumbers
  <2>4. QED
    BY <2>2, <2>3
<1>4. s.n = 0 => Adding(q1) = {} /\ s.end = 0
  <2>1. s.n = 0 => s.end = 0 /\ \A r \in Process : q[r] # "incr"
    BY DEF Quieted, Adding
  <2>2. s.n = 0 => \A r \in Process : q1[r] # "incr"
    BY <1>1, <2>1
  <2>3. QED
    BY <2>1, <2>2 DEF Adding
<1>5. PICK way, by : Labelled(C, way, by, s, q, m)
  BY DEF Quieted
<1>6. Labelled(C, way, by, s, q1, m1)
  BY <1>5, LabelsStay
<1>7. s.end <= m1 + Window
  BY <1>1 DEF Quieted
<1>8. QED
  BY <1>3, <1>4, <1>6, <1>7 DEF Quieted

\* A process counts a call and answers.
LEMMA QuietCounts ==
    ASSUME Limiter!RateLimitConstants, NEW C, NEW s, NEW q, NEW m, NEW h0, NEW p \in Process, NEW s1, NEW q1,
           Quieted(C, s, q, m), Calls(C, s, m), Newest(C, h0, m),
           q1[p] = "read", \A r \in Process \ {p} : q1[r] = q[r],
           \/ q[p] = "set" /\ s1.n = 1 /\ s1.end = m + Window
           \/ q[p] = "incr" /\ m < s.end /\ s1.n = s.n + 1 /\ s1.end = s.end
           \/ q[p] = "incr" /\ s.end <= m /\ s1 = s
    PROVE  Quieted(C \cup {h0}, s1, q1, m)
<1>1. /\ Window \in Nat /\ s.end \in Nat /\ s.n \in Nat /\ m \in Nat /\ Slack \in Nat /\ Limit \in Nat /\ Limit # 0
      /\ s.end <= m + Window /\ s.n + Cardinality(Adding(q)) <= Slack + 1
      /\ Slack + 1 = Limit + Cardinality(Process) - 1 /\ Cardinality(Process) \in Nat
  BY LimitNumbers, ProcessSized DEF Calls, Quieted
<1>2. PICK way, by : Labelled(C, way, by, s, q, m)
  BY DEF Quieted
<1>3. way \in [C -> Way] /\ by \in [C -> Process]
  BY <1>2 DEF Labelled
<1>4. \A w \in Way : \E way1, by1 : Grown(C, way, by, h0, w, p, way1, by1)
  BY <1>3, LabelsGrow DEF Newest
<1>5. (\A r \in Process : q1[r] # "try") /\ (\A h, k \in C \cup {h0} : h.nr = k.nr => h = k)
  <2>1. \A h \in C : h.nr < h0.nr /\ h.nr \in Nat /\ h0.nr \in Nat
    BY DEF Newest, Calls
  <2>2. \A r \in Process : q1[r] # "try"
    BY DEF Quieted
  <2>3. QED
    BY <2>1, <2>2 DEF Quieted
<1>6. /\ Cardinality(Adding(q1)) \in Nat /\ Cardinality(Adding(q)) \in Nat
      /\ Cardinality(Adding(q1)) <= Cardinality(Adding(q))
      /\ q[p] = "incr" => Cardinality(Adding(q)) = Cardinality(Adding(q1)) + 1
      /\ Cardinality(Adding(q1)) + 1 <= Cardinality(Process)
  BY AnsweredAdds
<1>7. q[p] = "incr" => s.n # 0
  BY DEF Quieted, Adding
<1>8. CASE q[p] = "set" /\ s1.n = 1 /\ s1.end = m + Window
  <2>1. PICK way1, by1 : Grown(C, way, by, h0, "start", p, way1, by1)
    BY <1>4 DEF Way
  <2>2. Labelled(C \cup {h0}, way1, by1, s1, q1, m)
    <3>1. s.n <= Slack + 1
      BY <1>1, <1>6
    <3>2. QED
      BY <1>1, <1>2, <1>8, <2>1, <3>1, StartLabelled
  <2>3. s1.n + Cardinality(Adding(q1)) <= Slack + 1 /\ s1.end <= m + Window /\ s1.n # 0
    BY <1>1, <1>6, <1>8
  <2>4. QED
    BY <1>5, <2>2, <2>3 DEF Quieted
<1>9. CASE q[p] = "incr" /\ m < s.end /\ s1.n = s.n + 1 /\ s1.end = s.end
  <2>1. PICK way1, by1 : Grown(C, way, by, h0, "add", p, way1, by1)
    BY <1>4 DEF Way
  <2>2. Labelled(C \cup {h0}, way1, by1, s1, q1, m)
    BY <1>2, <1>7, <1>9, <2>1, AddLabelled
  <2>3. s1.n + Cardinality(Adding(q1)) <= Slack + 1 /\ s1.end <= m + Window /\ s1.n # 0
    BY <1>1, <1>6, <1>9
  <2>4. QED
    BY <1>5, <2>2, <2>3 DEF Quieted
<1>10. CASE q[p] = "incr" /\ s.end <= m /\ s1 = s
  <2>1. PICK way1, by1 : Grown(C, way, by, h0, "local", p, way1, by1)
    BY <1>4 DEF Way
  <2>2. Labelled(C \cup {h0}, way1, by1, s1, q1, m)
    BY <1>2, <1>10, <2>1, LocalLabelled
  <2>3. s1.n + Cardinality(Adding(q1)) <= Slack + 1 /\ s1.end <= m + Window /\ s1.n # 0
    BY <1>1, <1>6, <1>7, <1>10
  <2>4. QED
    BY <1>5, <2>2, <2>3 DEF Quieted
<1>11. QED
  BY <1>8, <1>9, <1>10

LEMMA QuietInit == ASSUME Limiter!RateLimitConstants PROVE Limiter!Init => QuietInv
<1> SUFFICES ASSUME Limiter!Init PROVE QuietInv
  OBVIOUS
<1>1. shared.n = 0 /\ shared.end = 0 /\ now = 0 /\ counted = {} /\ up /\ \A p \in Process : pc[p] = "read"
  BY DEF Limiter!Init, Limiter!Empty
<1>2. Adding(pc) = {} /\ Cardinality(Adding(pc)) = 0
  <2>1. Adding(pc) = {}
    BY <1>1 DEF Adding
  <2>2. QED
    BY <2>1, FS_EmptySet
<1>3. Labelled(counted, [h \in {} |-> "start"], [h \in {} |-> CHOOSE p \in Process : TRUE], shared, pc, now)
  <2> DEFINE way == [h \in {} |-> "start"]
             by == [h \in {} |-> CHOOSE p \in Process : TRUE]
  <2>1. way \in [{} -> Way] /\ by \in [{} -> Process]
    OBVIOUS
  <2>2. AddsBounded({}, way, shared)
    <3> SUFFICES ASSUME NEW t \in Int
                 PROVE  Cardinality(Later({}, way, "add", t)) <= Slack * Cardinality(Later({}, way, "start", t)) + Extra(shared)
      BY DEF AddsBounded
    <3>1. Later({}, way, "add", t) = {} /\ Later({}, way, "start", t) = {}
      BY DEF Later
    <3>2. Slack * 0 = 0
      BY ProcessSized
    <3>3. QED
      <4>1. Cardinality({}) = 0
        BY FS_EmptySet
      <4>2. Extra(shared) = 0
        BY <1>1 DEF Extra
      <4>3. Cardinality(Later({}, way, "add", t)) = 0 /\ Cardinality(Later({}, way, "start", t)) = 0
        BY <3>1, <4>1
      <4>4. QED
        BY <3>2, <4>2, <4>3
  <2>3. StartsApart({}, way, by, shared, pc, now) /\ LocalsApart({}, way, by, shared, pc)
    BY DEF StartsApart, LocalsApart
  <2>4. QED
    BY <1>1, <2>1, <2>2, <2>3 DEF Labelled
<1>4. QED
  BY <1>1, <1>2, <1>3, ProcessSized, LimitNumbers DEF QuietInv, Quieted

LEMMA QuietHit ==
    ASSUME Limiter!RateLimitConstants, LimiterInv
    PROVE  Newest(counted, Limiter!Hits!Hit, now)
<1>1. Limiter!Hits!Hit = [at |-> now, nr |-> Cardinality(counted) + 1]
  BY HitSets DEF Limiter!Hits!Hit
<1>2. QED
  BY <1>1, CallsKnown DEF Newest, Calls

\* What an answer leaves.
LEMMA QuietAnswer ==
    ASSUME Limiter!RateLimitConstants, LimiterInv, QuietInv, NEW p \in Process, NEW v, NEW count \in BOOLEAN,
           Limiter!Answer(p, v, count), UNCHANGED <<up, now>>,
           \/ ~count /\ shared' = shared
           \/ count /\ pc[p] = "set" /\ shared'.n = 1 /\ shared'.end = now + Window
           \/ count /\ pc[p] = "incr" /\ Limiter!Alive(shared) /\ shared'.n = shared.n + 1 /\ shared'.end = shared.end
           \/ count /\ pc[p] = "incr" /\ ~Limiter!Alive(shared) /\ shared' = shared
    PROVE  QuietInv'
<1>1. pc'[p] = "read" /\ \A r \in Process \ {p} : pc'[r] = pc[r]
  BY DEF Limiter!Answer, LimiterInv, Limiter!TypeOK
<1>2. Calls(counted, shared, now) /\ Quieted(counted, shared, pc, now) /\ now \in Nat /\ shared.end \in Nat /\ up
  BY CallsKnown DEF QuietInv, Calls
<1>3. CASE ~count /\ shared' = shared
  <2>1. counted' = counted
    BY <1>3 DEF Limiter!Answer
  <2>2. Adding(pc') \subseteq Adding(pc)
    BY <1>1 DEF Adding
  <2>3. now >= now /\ (\A r \in Process : pc'[r] # "try") /\ \A r \in Process : pc'[r] \in {"set", "incr"} => pc[r] = pc'[r]
    BY <1>1, <1>2 DEF Quieted
  <2>4. Quieted(counted, shared, pc', now)
    BY <1>2, <2>2, <2>3, QuietStays
  <2>5. QED
    BY <1>2, <1>3, <2>1, <2>4 DEF QuietInv
<1>4. CASE count
  <2>1. counted' = counted \cup {Limiter!Hits!Hit} /\ Newest(counted, Limiter!Hits!Hit, now)
    BY <1>4, QuietHit DEF Limiter!Answer
  <2>2. Quieted(counted \cup {Limiter!Hits!Hit}, shared', pc', now)
    BY <1>1, <1>2, <1>4, <2>1, QuietCounts DEF Limiter!Alive
  <2>3. QED
    BY <1>2, <2>1, <2>2 DEF QuietInv
<1>5. QED
  BY <1>3, <1>4

LEMMA QuietRead ==
    ASSUME Limiter!RateLimitConstants, LimiterInv, Quiet, QuietInv, NEW p \in Process, Limiter!Read(p)
    PROVE  QuietInv'
<1>1. UNCHANGED <<up, now>> /\ up /\ counts = "calls" /\ pc[p] = "read"
  BY DEF Limiter!Read, QuietInv, Quiet
<1>2. Calls(counted, shared, now) /\ Quieted(counted, shared, pc, now) /\ now \in Nat /\ shared.end \in Nat /\ shared.n \in Nat
      /\ Limit \in Nat
  BY CallsKnown, LimitNumbers DEF QuietInv, Calls
<1>3. CASE Limiter!Full(shared) /\ Limiter!Answer(p, "block", FALSE) /\ UNCHANGED <<shared, local>>
  BY <1>1, <1>3, QuietAnswer
<1>4. CASE ~Limiter!Full(shared) /\ Limiter!Goto(p, IF Limiter!Alive(shared) THEN "incr" ELSE "set")
  <2>1. counted' = counted /\ shared' = shared
    BY <1>4 DEF Limiter!Goto
  <2>2. /\ \A r \in Process \ {p} : pc'[r] = pc[r]
        /\ IF Limiter!Alive(shared) THEN pc'[p] = "incr" ELSE pc'[p] = "set"
    BY <1>4 DEF Limiter!Goto, LimiterInv, Limiter!TypeOK
  <2>3. Adding(pc') \subseteq Adding(pc) \/ shared.n <= Limit - 1
    <3>1. CASE Limiter!Alive(shared)
      BY <1>2, <1>4, <3>1 DEF Limiter!Full
    <3>2. CASE ~Limiter!Alive(shared)
      BY <2>2, <3>2 DEF Adding
    <3>3. QED
      BY <3>1, <3>2
  <2>4. (\A r \in Process : pc'[r] # "try") /\ now >= now
    BY <1>2, <2>2 DEF Quieted
  <2>5. /\ \A r \in Process : pc'[r] = "set" => pc[r] = "set" \/ shared.end <= now
        /\ \A r \in Process : pc'[r] = "incr" => pc[r] = "incr" \/ now < shared.end
    BY <1>2, <2>2 DEF Limiter!Alive
  <2>6. Quieted(counted, shared, pc', now)
    BY <1>2, <2>3, <2>4, <2>5, QuietStays
  <2>7. QED
    BY <1>1, <2>1, <2>6 DEF QuietInv
<1>5. QED
  BY <1>1, <1>3, <1>4 DEF Limiter!Read

LEMMA QuietCommands ==
    ASSUME Limiter!RateLimitConstants, LimiterInv, Quiet, QuietInv, NEW p \in Process, Limiter!StartWindow(p) \/ Limiter!Incr(p)
    PROVE  QuietInv'
<1>1. UNCHANGED <<up, now>> /\ up /\ counts = "calls" /\ Calls(counted, shared, now)
  BY CallsKnown DEF Limiter!StartWindow, Limiter!Incr, QuietInv, Quiet
<1>2. CASE Limiter!StartWindow(p)
  <2>1. pc[p] = "set" /\ shared' = Limiter!First /\ Limiter!Answer(p, "pass", TRUE)
    BY <1>1, <1>2 DEF Limiter!StartWindow
  <2>2. shared'.n = 1 /\ shared'.end = now + Window
    BY <2>1 DEF Limiter!First
  <2>3. QED
    BY <1>1, <2>1, <2>2, QuietAnswer
<1>3. CASE Limiter!Incr(p)
  <2>1. pc[p] = "incr"
    BY <1>3 DEF Limiter!Incr
  <2>2. CASE Limiter!Alive(shared) /\ shared' = [shared EXCEPT !.n = @ + 1] /\ Limiter!Answer(p, "pass", TRUE)
    <3>1. shared'.n = shared.n + 1 /\ shared'.end = shared.end
      BY <2>2 DEF LimiterInv, Limiter!TypeOK, Limiter!Counter
    <3>2. QED
      BY <1>1, <2>1, <2>2, <3>1, QuietAnswer
  <2>3. CASE ~Limiter!Alive(shared) /\ Limiter!CommandFails(p)
    <3>1. Limiter!Answer(p, "block", FALSE) \/ Limiter!Answer(p, "pass", TRUE) \/ Limiter!Answer(p, "pass", FALSE)
      BY <2>3 DEF Limiter!CommandFails, Limiter!CountLocally
    <3>2. shared' = shared
      BY <2>3 DEF Limiter!CommandFails, Limiter!CountLocally
    <3>3. QED
      BY <1>1, <2>1, <2>3, <3>1, <3>2, QuietAnswer
  <2>4. QED
    BY <1>1, <1>3, <2>2, <2>3 DEF Limiter!Incr
<1>4. QED
  BY <1>2, <1>3

LEMMA QuietRest ==
    ASSUME Limiter!RateLimitConstants, LimiterInv, QuietInv,
           \/ Limiter!Recovery \/ Limiter!Tick \/ UNCHANGED Limiter!vars \/ \E p \in Process : Limiter!Return(p)
    PROVE  QuietInv'
<1>1. counted' = counted /\ shared' = shared /\ pc' = pc /\ up' = up
  BY DEF Limiter!Recovery, Limiter!Tick, Limiter!vars, Limiter!Return, QuietInv
<1>2. Calls(counted, shared, now) /\ Quieted(counted, shared, pc, now) /\ now \in Nat /\ up
  BY CallsKnown DEF QuietInv, Calls
<1>3. now' \in Nat /\ now' >= now
  <2>1. CASE Limiter!Tick
    BY <1>2, <2>1 DEF Limiter!Tick
  <2>2. CASE Limiter!Recovery \/ UNCHANGED Limiter!vars \/ \E p \in Process : Limiter!Return(p)
    <3>1. now' = now
      BY <2>2 DEF Limiter!Recovery, Limiter!vars, Limiter!Return
    <3>2. QED
      BY <1>2, <3>1
  <2>3. QED
    BY <2>1, <2>2
<1>4. Quieted(counted, shared, pc, now')
  <2>1. \A r \in Process : pc[r] # "try"
    BY <1>2 DEF Quieted
  <2>2. QED
    BY <1>2, <1>3, <2>1, QuietStays
<1>5. QED
  BY <1>1, <1>2, <1>4 DEF QuietInv

LEMMA QuietStep ==
    ASSUME Limiter!RateLimitConstants
    PROVE  LimiterInv /\ (Quiet => QuietInv) /\ [Limiter!Next]_Limiter!vars => (Quiet' => QuietInv')
<1> SUFFICES ASSUME LimiterInv, Quiet => QuietInv, [Limiter!Next]_Limiter!vars, Quiet' PROVE QuietInv'
  OBVIOUS
<1>1. counts' = counts
  BY DEF Limiter!Next, Limiter!Read, Limiter!Attempt, Limiter!StartWindow, Limiter!Incr,
     Limiter!Return, Limiter!Forget, Limiter!Outage, Limiter!Recovery, Limiter!Tick, Limiter!vars,
     Limiter!setting
<1>2. ASSUME Limiter!Outage \/ \E p \in Process : Limiter!Forget(p)
      PROVE  FALSE
  BY <1>2, LimitNumbers DEF Limiter!Outage, Limiter!Forget, Quiet, LimiterInv, Limiter!TypeOK
<1>3. faults' = faults
  BY <1>2 DEF Limiter!Next, Limiter!Read, Limiter!Attempt, Limiter!StartWindow, Limiter!Incr,
     Limiter!Return, Limiter!Recovery, Limiter!Tick, Limiter!vars
<1>4. Quiet /\ QuietInv
  BY <1>1, <1>3 DEF Quiet
<1>5. ASSUME NEW p \in Process, Limiter!Attempt(p)
      PROVE  FALSE
  BY <1>4, <1>5 DEF Limiter!Attempt, QuietInv, Quieted
<1>6. QED
  BY <1>2, <1>4, <1>5, QuietRead, QuietCommands, QuietRest DEF Limiter!Next

\* A window has room for one start and two local counts of each process.
LEMMA WindowCounts ==
    ASSUME Limiter!RateLimitConstants, NEW C, NEW way, NEW by, NEW s, NEW q, NEW m,
           Labelled(C, way, by, s, q, m), Calls(C, s, m), \A h, k \in C : h.nr = k.nr => h = k
    PROVE  /\ Cardinality(Later(C, way, "start", m - Window)) <= Cardinality(Process)
           /\ Cardinality(Later(C, way, "local", m - Window)) <= 2 * Cardinality(Process)
<1> DEFINE t == m - Window
           S == Later(C, way, "start", t)
           L == Later(C, way, "local", t)
           Again(h) == \E k \in L : by[k] = by[h] /\ k.nr < h.nr
<1>1. /\ IsFiniteSet(C) /\ Window \in Nat /\ m \in Nat /\ by \in [C -> Process]
      /\ \A h \in C : h.at \in Nat /\ h.at <= m /\ h.nr \in Nat
      /\ IsFiniteSet(Process) /\ Cardinality(Process) \in Nat
  BY LimitNumbers, ProcessSized DEF Calls, Labelled
<1>2. \A h, k \in C : h.nr < k.nr \/ k.nr < h.nr \/ h = k
  BY <1>1
<1>3. /\ IsFiniteSet(S) /\ Cardinality(S) \in Nat /\ IsFiniteSet(L) /\ Cardinality(L) \in Nat
      /\ \A h \in S : h \in C /\ way[h] = "start" /\ ~(h.at + Window <= m)
      /\ \A h \in L : h \in C /\ way[h] = "local" /\ ~(h.at + Window <= m)
  <2>1. IsFiniteSet(S) /\ Cardinality(S) \in Nat /\ IsFiniteSet(L) /\ Cardinality(L) \in Nat
    BY <1>1, LaterSized
  <2>2. \A w : \A h \in Later(C, way, w, t) : h \in C /\ way[h] = w /\ h.at > t
    BY DEF Later
  <2>3. \A h \in C : h.at > t => ~(h.at + Window <= m)
    BY <1>1
  <2> HIDE DEF t
  <2>4. QED
    BY <2>1, <2>2, <2>3
<1> HIDE DEF S, L
<1>4. Cardinality(S) <= Cardinality(Process)
  <2> DEFINE f == [h \in S |-> by[h]]
  <2>1. f \in [S -> Process]
    BY <1>1, <1>3
  <2>2. ASSUME NEW h \in S, NEW k \in S, h # k
        PROVE  by[h] # by[k]
    <3>1. \A x, y \in S : Repeats(way, by, "start", x, y) => x.at + Window <= y.at
      BY <1>3 DEF Labelled, StartsApart
    <3>2. \A x, y \in S : ~ Repeats(way, by, "start", x, y)
      BY <1>1, <1>3, <3>1
    <3>3. QED
      BY <1>2, <1>3, <2>2, <3>2 DEF Repeats
  <2>3. QED
    <3>1. \A h, k \in S : h # k => f[h] # f[k]
      BY <2>2
    <3> HIDE DEF f
    <3>2. ~ (Cardinality(Process) < Cardinality(S))
      BY <1>1, <1>3, <2>1, <3>1, FS_PigeonHole
    <3>3. QED
      BY <1>1, <1>3, <3>2
<1>5. Cardinality(L) <= 2 * Cardinality(Process)
  <2> DEFINE T == Process \X {1, 2}
             f == [h \in L |-> <<by[h], IF Again(h) THEN 2 ELSE 1>>]
  <2>1. IsFiniteSet(T) /\ Cardinality(T) = Cardinality(Process) * 2 /\ Cardinality(T) \in Nat
    <3>1. IsFiniteSet({1, 2}) /\ Cardinality({1, 2}) = 2
      <4>1. {1, 2} = 1 .. 2
        OBVIOUS
      <4>2. IsFiniteSet(1 .. 2) /\ Cardinality(1 .. 2) = IF 1 > 2 THEN 0 ELSE 2 - 1 + 1
        BY FS_Interval, 1 \in Int, 2 \in Int
      <4>3. QED
        BY <4>1, <4>2
    <3>2. QED
      BY <1>1, <3>1, FS_Product
  <2>2. f \in [L -> T]
    BY <1>1, <1>3
  <2>3. ASSUME NEW h \in L, NEW k \in L, h.nr < k.nr, by[h] = by[k]
        PROVE  Again(k) /\ ~ Again(h)
    <3>1. Again(k)
      BY <2>3
    <3>2. ASSUME NEW g \in L, by[g] = by[h], g.nr < h.nr
          PROVE  FALSE
      <4>1. Repeats(way, by, "local", g, h) /\ Repeats(way, by, "local", h, k)
        BY <1>3, <2>3, <3>2 DEF Repeats
      <4>2. g.at + Window <= k.at
        BY <1>3, <4>1 DEF Labelled, LocalsApart
      <4>3. QED
        BY <1>1, <1>3, <4>2
    <3>3. QED
      BY <3>1, <3>2
  <2>4. ASSUME NEW h \in L, NEW k \in L, h # k
        PROVE  f[h] # f[k]
    <3> HIDE DEF Again
    <3>1. f[h] = <<by[h], IF Again(h) THEN 2 ELSE 1>> /\ f[k] = <<by[k], IF Again(k) THEN 2 ELSE 1>>
      OBVIOUS
    <3>2. by[h] = by[k] => (Again(h) /\ ~Again(k)) \/ (Again(k) /\ ~Again(h))
      BY <1>2, <1>3, <2>3, <2>4
    <3>3. QED
      BY <3>1, <3>2
  <2> HIDE DEF f, T
  <2>5. ~ (Cardinality(T) < Cardinality(L))
    BY <1>3, <2>1, <2>2, <2>4, FS_PigeonHole
  <2>6. QED
    BY <1>1, <1>3, <2>1, <2>5
<1>6. QED
  BY <1>4, <1>5 DEF S, L

LEMMA QuietBounded ==
    ASSUME Limiter!RateLimitConstants, LimiterInv, Quiet => QuietInv
    PROVE  Limiter!CountedBounded
<1> DEFINE n == Cardinality(Process)
           t == now - Window
<1> SUFFICES ASSUME Quiet PROVE Limiter!Hits!Recent <= 3 * n + (n + 1) * (Limit + n - 2)
  BY HitSets DEF Limiter!CountedBounded, Quiet
<1>1. Calls(counted, shared, now) /\ QuietInv
  BY CallsKnown
<1>2. PICK way, by : Labelled(counted, way, by, shared, pc, now)
  BY <1>1 DEF QuietInv, Quieted
<1> DEFINE S == Later(counted, way, "start", t)
           A == Later(counted, way, "add", t)
           L == Later(counted, way, "local", t)
<1>3. /\ IsFiniteSet(S) /\ IsFiniteSet(A) /\ IsFiniteSet(L)
      /\ Cardinality(S) \in Nat /\ Cardinality(A) \in Nat /\ Cardinality(L) \in Nat
  BY <1>1, LaterSized DEF Calls
<1>4. Cardinality(S) <= n /\ Cardinality(L) <= 2 * n
  BY <1>1, <1>2, WindowCounts DEF QuietInv, Quieted
<1>5. n \in Nat /\ Slack \in Nat /\ Slack = Limit + n - 2 /\ Extra(shared) \in Nat /\ Extra(shared) <= Slack
  <2>1. shared.n \in Nat /\ Adding(pc) \in SUBSET Process /\ shared.n + Cardinality(Adding(pc)) <= Slack + 1
    BY <1>1 DEF Calls, Adding, QuietInv, Quieted
  <2>2. QED
    BY <2>1, ProcessSized DEF Extra, Slack
<1>6. t \in Int /\ now \in Nat /\ \A h \in counted : h.at \in Nat /\ h.at <= now
  BY <1>1, LimitNumbers DEF Calls
<1>7. Cardinality(A) <= Slack * n + Slack
  <2>1. Cardinality(A) <= Slack * Cardinality(S) + Extra(shared)
    BY <1>2, <1>6 DEF Labelled, AddsBounded
  <2>2. Slack * Cardinality(S) <= Slack * n /\ Slack * Cardinality(S) \in Nat /\ Slack * n \in Nat
    BY <1>3, <1>4, <1>5, Grows, Steps
  <2>3. QED
    BY <1>3, <1>5, <2>1, <2>2
<1>8. {h \in counted : now - Window < h.at /\ h.at <= now} = (S \cup A) \cup L
  <2>1. \A h \in counted : way[h] \in Way
    BY <1>2 DEF Labelled
  <2>2. QED
    BY <1>6, <2>1 DEF Later, Way
<1>9. Cardinality((S \cup A) \cup L) <= Cardinality(S) + Cardinality(A) + Cardinality(L)
  <2>1. IsFiniteSet(S \cup A) /\ Cardinality(S \cup A) <= Cardinality(S) + Cardinality(A) /\ Cardinality(S \cup A) \in Nat
    <3>1. IsFiniteSet(S \cup A) /\ Cardinality(S \cup A) = Cardinality(S) + Cardinality(A) - Cardinality(S \cap A)
      BY <1>3, FS_Union
    <3>2. Cardinality(S \cap A) \in Nat
      BY <1>3, FS_Intersection, FS_CardinalityType
    <3>3. QED
      BY <1>3, <3>1, <3>2, FS_CardinalityType
  <2>2. Cardinality((S \cup A) \cup L) = Cardinality(S \cup A) + Cardinality(L) - Cardinality((S \cup A) \cap L)
    BY <1>3, <2>1, FS_Union
  <2>3. Cardinality((S \cup A) \cap L) \in Nat
    BY <1>3, <2>1, FS_Intersection, FS_CardinalityType
  <2>4. QED
    BY <1>3, <2>1, <2>2, <2>3
<1>10. Limiter!Hits!Recent = Cardinality((S \cup A) \cup L) /\ Cardinality((S \cup A) \cup L) \in Nat
  <2>1. IsFiniteSet((S \cup A) \cup L)
    BY <1>3, FS_Union
  <2>2. QED
    BY <1>8, <2>1, HitSets, FS_CardinalityType DEF Limiter!Hits!Recent
<1> HIDE DEF S, A, L
<1>11. (n + 1) * (Limit + n - 2) = Slack * n + Slack /\ Slack * n \in Nat
  <2>1. Slack * (n + 1) = Slack * n + Slack /\ Slack * n \in Nat
    BY <1>5, Steps
  <2>2. (n + 1) * Slack = Slack * (n + 1)
    BY <1>5
  <2>3. QED
    BY <1>5, <2>1, <2>2
<1>12. QED
  BY <1>3, <1>4, <1>5, <1>7, <1>9, <1>10, <1>11

LEMMA LimiterKeeps == ASSUME Limiter!RateLimitConstants PROVE Limiter!Spec => [](Limiter!TypeOK /\ Limiter!CountedBounded)
<1>1. Limiter!Init => LimiterInv /\ (Quiet => QuietInv)
  BY LimiterInit, QuietInit
<1>2. LimiterInv /\ (Quiet => QuietInv) /\ [Limiter!Next]_Limiter!vars => LimiterInv' /\ (Quiet => QuietInv)'
  BY LimiterStep, QuietStep DEF Told
<1>3. LimiterInv /\ (Quiet => QuietInv) => Limiter!TypeOK /\ Limiter!CountedBounded
  BY QuietBounded DEF LimiterInv
<1>4. QED
  BY <1>1, <1>2, <1>3, PTL DEF Limiter!Spec

-------------------------------------------------------------------------------
(* What is proved of them.                                                 *)

\* Of one account no session but the newest is served, however its row is saved meanwhile;
\* and nobody is let past the second step, or kept on a device, without a code.
THEOREM AccountsAreSafe == ASSUME SignInConstants PROVE Spec /\ SecondStep!Spec => []AccountsSafe
<1>1. /\ SessionsSafe
      /\ SecondStep!TypeOK /\ SecondStep!GuessesBounded /\ SecondStep!OneDevice /\ SecondStep!SkipIsEarned
      => AccountsSafe
  BY DEF AccountsSafe
<1>2. QED
  BY <1>1, NewestIsServed, SecondStepIsSafe, PTL

\* The status of a task is its last outcome unless a signal was lost or overtaken, readings
\* are no older than the cache allows, alerts keep their distance, and pruning leaves the
\* newest backups and the last one found whole, whatever else runs at once.
THEOREM UpkeepIsSafe == Tasks!Spec /\ Alerts!Spec /\ Dumps!Spec => []UpkeepSafe
<1>1. /\ Tasks!TypeOK /\ Tasks!ReportsLastOutcome /\ Tasks!RunningIsReal
      /\ Alerts!TypeOK /\ Alerts!AlertsAreSpaced /\ Alerts!ReadingsAreFresh
      /\ Dumps!TypeOK /\ Dumps!LastWholeKept /\ Dumps!NewestKept
      => UpkeepSafe
  BY DEF UpkeepSafe
<1>2. QED
  BY <1>1, StatusIsSafe, AlertsAreSafe, BackupsAreSafe, PTL

\* A dashboard is not shown a critical item before every SuperAdmin has been told of it.
THEOREM NobodyIsUntold == Alerts!Spec => EverybodyIsTold
BY NobodyIsLeftUntold DEF EverybodyIsTold

\* For any number of processes: whoever is blocked finds Limit calls counted in the window,
\* through outages and restarts; and with the cache up, a window passes no more calls than
\* one start and two local counts of each process and what they add to their counters.
THEOREM LimitersHold == Limiter!Spec => LimiterHolds
BY LimiterAssumption, LimiterImplementsHits, LimiterKeeps, PTL DEF LimiterHolds
===============================================================================
