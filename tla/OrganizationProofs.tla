-------------------------- MODULE OrganizationProofs --------------------------
(***************************************************************************)
(* What administrators manage, for every set of people, teams, files and   *)
(* models and any number of requests: nothing refers to what is gone,      *)
(* managers and teams agree, and a department's Admin stays within it and  *)
(* is shown what the posts accept; files, branding, switches and the mail  *)
(* server's settings keep what was saved; and no model is asked that is    *)
(* forbidden.  Each component but the people has its own variables.        *)
(***************************************************************************)
EXTENDS Organization, Sequences, FiniteSetTheorems, TLAPS

CONSTANTS
    File, DirOf, Worker, MaxJobs, MaxScans, MaxDeletes,
    Admin, Reader, Design, BrokenDesign, PaleDesigns, MaxSaves,
    Model, Tier, EU, Trains, Claude, Pool, Plans, MaxActs,
    Feature, Post, Visit, MaxCommits,
    Column, Gate, Trait, Offer, Form,        \* and MaxSaves
    ServerConfig, Password, Working, Tester, MaxTests,
    Account, Limit, Invoice, MaxSteps        \* and Dept, Team, DeptOf

VARIABLES
    ref, disk, job, scan, request, jobs, scans, deletes, lost, left,
    row, form, page, cache, saves, overlapped,
    enabled, plan, permission, assigned, onTeam, teamOff, euOnly, zeroOnly, rule, fallback,
    acts, reply, since,
    toggle, lock, post, visit, answers, last, commits,
    rowKind, stored, edit, named, aimed, deleted, written, crossed,
    saved, test, proven, typed, astray, stale, tests,
    accounts, departments, planned, groups, limits, invoices, asked, log, sent, adminPost, moved, steps

Files == INSTANCE MediaLibrary WITH req <- request
Brands == INSTANCE Branding WITH Config <- Design, Broken <- BrokenDesign, Pale <- PaleDesigns
Access == INSTANCE AccessRules
Features == INSTANCE FeatureToggles
Settings == INSTANCE SettingsRows WITH
    Request <- Form, kind <- rowKind, row <- stored, form <- edit, saves <- written
Server == INSTANCE SmtpSettings WITH
    Config <- ServerConfig, Request <- Tester, MaxActs <- MaxTests, req <- test, acts <- tests
Scope == INSTANCE DepartmentScope WITH
    User <- Account, MaxActs <- MaxSteps,
    users <- accounts, depts <- departments, teams <- groups, post <- adminPost, acts <- steps

ASSUME MediaAssumption == Files!MediaConstants
ASSUME BrandingAssumption == Brands!BrandingConstants
ASSUME AccessAssumption == Access!AccessConstants
ASSUME ToggleAssumption == Features!ToggleConstants
ASSUME RowAssumption == Settings!RowConstants
ASSUME SmtpAssumption == Server!SmtpConstants
ASSUME ScopeAssumption == Scope!ScopeConstants

-------------------------------------------------------------------------------
\* No file is lost, and none is left behind, but for what the two properties of the files
\* name; and a page is served the style sheet of the row it read.
AssetsSafe ==
    /\ Files!TypeOK /\ Files!MissingExplained /\ Files!LeftoversExplained
    /\ Brands!TypeOK /\ Brands!NothingStale

\* No model is asked that a rule forbade since the reply began.
AccessSafe == Access!AccessSafe

\* A form writes what it was opened for and nothing else: the switches of one form are in force
\* as a whole, no page writes a column back, and a server that is said to work was tried.
SettingsSafe ==
    /\ Features!TypeOK /\ Features!OneFormInForce /\ Features!NoEmbrace /\ Features!OneAnswer
    /\ Settings!TypeOK /\ Settings!OnlyOwnColumns /\ Settings!DeletedStays /\ Settings!NamedIsKept
    /\ Server!TypeOK /\ Server!VerifiedWasTried /\ Server!PasswordKept

\* What an Admin is shown is what the posts accept, with no department it is nothing, and the
\* reports count the rows of the pages.
ScopeSafe ==
    Scope!TypeOK /\ Scope!ListsAreActions /\ Scope!NothingWithoutDepartment /\ Scope!ReportsAgree

\* An Admin's post changes rows of the Admin's department.
WritesAtHome == Scope!WritesAtHome

-------------------------------------------------------------------------------
(* The people.                                                             *)

\* What a request has loaded and checked.  A member that a Manager removes is not the
\* manager of that team, so only an account that is out of sync can be a Manager.
Formed(q) ==
    /\ q.user \in User
    /\ IF q.kind = "add" THEN q.row = New ELSE q.row \in Row
    /\ q.kind = "add" => (q.role = "manager" => q.team # None)
    /\ q.kind = "role" => (q.role = "manager" <=> q.team # None)
    /\ q.kind \in {"department", "save", "remove"} => q.team = None
    /\ q.team = None => q.mgr = None
    /\ q.kind = "remove" /\ ~raced => q.row.role # "manager"

\* What an Admin with a department has asked for is about that department.
Scoped(q) ==
    q.by \in Dept =>
        /\ q.kind \in {"add", "role", "team", "save"}
        /\ q.kind = "add" => q.dept = q.by
        /\ q.kind \in {"add", "role"} => q.role \in {"user", "manager"}
        /\ q.kind # "add" => q.row.dept = q.by /\ q.row.role \in {"user", "manager"}
        /\ q.team # None => DeptOf[q.team] = q.by

Sound(q) == q = Idle \/ (q.kind # "none" /\ Formed(q) /\ Scoped(q))

\* A team is deleted with its department.
TeamsHaveDepartments == \A t \in Team : LiveTeam(t) => DeptOf[t] \in depts

PeopleInv ==
    /\ TypeOK
    /\ TeamsHaveDepartments
    /\ \A s \in Slot : Sound(req[s])
    /\ ManagerInSync

-------------------------------------------------------------------------------
\* What TypeOK says of the accounts, the teams and the departments.
RowsOK ==
    /\ users \in [User -> Row \cup {New, Gone}]
    /\ manager \in [Team -> User \cup {None, New, Gone}]
    /\ depts \subseteq Dept
    /\ \A u \in User : Live(u) =>
         /\ users[u].team = None \/ LiveTeam(users[u].team)
         /\ users[u].dept \in depts \cup {None}
    /\ \A t \in Team : manager[t] \in User => Live(manager[t])
    /\ TeamsHaveDepartments

LEMMA Apart ==
    /\ \A u \in User : u # None /\ u # New /\ u # Gone
    /\ \A t \in Team : t # None /\ t # New /\ t # Gone /\ DeptOf[t] \in Dept
    /\ \A d \in Dept : d # None /\ d # New /\ d # Gone
    /\ \A r \in Row : r # New /\ r # Gone
    /\ None # New /\ None # Gone /\ New # Gone
BY OrganizationAssumption

LEMMA RowFields ==
    /\ \A r \in Row : r.role \in Role /\ r.dept \in Dept \cup {None} /\ r.team \in Team \cup {None}
    /\ \A role \in Role, d \in Dept \cup {None}, t \in Team \cup {None} :
         [role |-> role, dept |-> d, team |-> t] \in Row
    /\ \A r \in Row, d \in Dept \cup {None}, t \in Team \cup {None} :
         /\ [r EXCEPT !.team = t] \in Row /\ [r EXCEPT !.dept = d] \in Row
         /\ [r EXCEPT !.team = t, !.dept = d] \in Row
BY DEF Row

LEMMA Unfold == PeopleInv =>
    /\ RowsOK /\ req \in [Slot -> Loaded] /\ served \in 0 .. MaxRequests /\ raced \in BOOLEAN
    /\ \A s \in Slot : Sound(req[s])
    /\ ManagerInSync
BY DEF PeopleInv, TypeOK, RowsOK

LEMMA Fold ==
    RowsOK' /\ req' \in [Slot -> Loaded] /\ served' \in 0 .. MaxRequests /\ raced' \in BOOLEAN
    /\ (\A s \in Slot : Sound(req[s]))' /\ ManagerInSync' => PeopleInv'
BY DEF PeopleInv, TypeOK, RowsOK

LEMMA IdleLoaded == Idle \in Loaded /\ Idle.kind = "none" /\ Idle.by = None
BY DEF Idle, Loaded, Role

LEMMA PeopleInit == Init => PeopleInv
<1> SUFFICES ASSUME Init PROVE PeopleInv
  OBVIOUS
<1>1. PICK a \in User, u \in User, t \in Team :
        /\ a # u
        /\ users = [x \in User |-> CASE x = a -> [role |-> "admin", dept |-> DeptOf[t], team |-> None]
                                     [] x = u -> [role |-> "user", dept |-> DeptOf[t], team |-> None]
                                     [] OTHER -> New]
        /\ manager = [x \in Team |-> IF x = t THEN None ELSE New]
  BY DEF Init
<1>2. /\ users \in [User -> Row \cup {New, Gone}]
      /\ \A x \in User : Live(x) => users[x].dept = DeptOf[t] /\ users[x].team = None /\ users[x].role # "manager"
  <2>1. [role |-> "admin", dept |-> DeptOf[t], team |-> None] \in Row
        /\ [role |-> "user", dept |-> DeptOf[t], team |-> None] \in Row
    BY Apart, RowFields DEF Role
  <2>2. \A x \in User :
          \/ users[x] = [role |-> "admin", dept |-> DeptOf[t], team |-> None]
          \/ users[x] = [role |-> "user", dept |-> DeptOf[t], team |-> None]
          \/ users[x] = New
    BY <1>1
  <2>3. QED
    BY <1>1, <2>1, <2>2 DEF Live
<1>3. depts = Dept /\ manager \in [Team -> User \cup {None, New, Gone}] /\ \A x \in Team : manager[x] \notin User
  BY <1>1, Apart DEF Init
<1>4. RowsOK
  BY <1>2, <1>3, Apart DEF RowsOK, TeamsHaveDepartments
<1>5. req \in [Slot -> Loaded] /\ \A s \in Slot : Sound(req[s])
  BY IdleLoaded DEF Init, Sound
<1>6. ManagerInSync
  BY <1>2, <1>3, Apart DEF ManagerInSync
<1>7. served \in 0 .. MaxRequests /\ raced \in BOOLEAN
  <2>1. MaxRequests \in Nat
    BY OrganizationAssumption
  <2>2. served = 0 /\ raced = FALSE
    BY DEF Init
  <2>3. 0 \in 0 .. MaxRequests
    BY <2>1
  <2>4. QED
    BY <2>2, <2>3
<1>8. QED
  BY <1>4, <1>5, <1>6, <1>7 DEF PeopleInv, TypeOK, RowsOK

-------------------------------------------------------------------------------
\* A request that loads changes no row, and what it has loaded is well formed.
LEMMA LoadKeeps ==
    ASSUME PeopleInv, NEW s \in FreeSlot, NEW q \in Loaded, Sound(q), Load(s, q)
    PROVE  PeopleInv'
<1>1. s \in Slot /\ served < MaxRequests
  BY DEF FreeSlot
<1>2. UNCHANGED <<users, manager, depts, raced>> /\ req' = [req EXCEPT ![s] = q] /\ served' = served + 1
  BY DEF Load
<1>3. RowsOK' /\ ManagerInSync'
  BY <1>2, Unfold DEF RowsOK, TeamsHaveDepartments, ManagerInSync, Live, LiveTeam
<1>4. req' \in [Slot -> Loaded]
  BY <1>1, <1>2, Unfold
<1>5. \A r \in Slot : Sound(req'[r])
  BY <1>1, <1>2, Unfold
<1>6. \A r \in Slot : Sound(req[r])'
  BY <1>2, <1>5 DEF Sound, Formed, Scoped
<1>7. served' \in 0 .. MaxRequests
  <2>1. MaxRequests \in Nat
    BY OrganizationAssumption
  <2>2. QED
    BY <1>1, <1>2, <2>1, Unfold
<1>8. raced' \in BOOLEAN
  BY <1>2, Unfold
<1>9. QED
  BY <1>3, <1>4, <1>6, <1>7, <1>8, Fold

\* The rows that a request reads are typed as the request keeps them.
LEMMA AboutTyped ==
    ASSUME NEW kind \in {"add", "role", "team", "department", "save", "remove"},
           NEW by \in Dept \cup {None}, NEW u \in User,
           RowsOK, users[u] # Gone
    PROVE  /\ About(kind, by, u) \in Loaded
           /\ About(kind, by, u).kind = kind /\ About(kind, by, u).by = by
           /\ About(kind, by, u).user = u /\ About(kind, by, u).row = users[u]
           /\ About(kind, by, u).team = None /\ About(kind, by, u).mgr = None
           /\ About(kind, by, u).dept = None /\ About(kind, by, u).role = "user"
<1>1. users[u] \in Row \cup {New, None}
  BY DEF RowsOK
<1>2. QED
  BY <1>1 DEF About, Idle, Loaded, Role

LEMMA WithTeamTyped ==
    ASSUME NEW q \in Loaded, NEW t \in Team \cup {None}, RowsOK, t # None => LiveTeam(t)
    PROVE  /\ WithTeam(q, t) \in Loaded
           /\ WithTeam(q, t).kind = q.kind /\ WithTeam(q, t).by = q.by /\ WithTeam(q, t).user = q.user
           /\ WithTeam(q, t).row = q.row /\ WithTeam(q, t).role = q.role /\ WithTeam(q, t).dept = q.dept
           /\ WithTeam(q, t).team = t
           /\ t = None => WithTeam(q, t).mgr = None
<1>1. t # None => manager[t] \in User \cup {None}
  BY DEF RowsOK, LiveTeam
<1>2. (IF t = None THEN None ELSE manager[t]) \in User \cup {None}
  BY <1>1
<1>3. QED
  BY <1>2 DEF WithTeam, Loaded

LEMMA ToldTyped ==
    ASSUME NEW q \in Loaded, NEW role \in Role, NEW d \in Dept \cup {None}
    PROVE  /\ Told(q, role, d) \in Loaded
           /\ Told(q, role, d).kind = q.kind /\ Told(q, role, d).by = q.by /\ Told(q, role, d).user = q.user
           /\ Told(q, role, d).row = q.row /\ Told(q, role, d).role = role /\ Told(q, role, d).dept = d
<1>1. Told(q, role, d) \in Loaded
  BY DEF Told, Loaded
<1>2. Told(q, role, d).role = role /\ Told(q, role, d).dept = d
  BY DEF Told, Loaded
<1>3. Told(q, role, d).kind = q.kind /\ Told(q, role, d).by = q.by
  BY DEF Told, Loaded
<1>4. Told(q, role, d).user = q.user /\ Told(q, role, d).row = q.row
  BY DEF Told, Loaded
<1>5. QED
  BY <1>1, <1>2, <1>3, <1>4

LEMMA AskersAreDepartments == ASSUME RowsOK PROVE Asking \subseteq Dept \cup {None}
BY RowFields DEF Asking, RowsOK, Live

LEMMA AskKeeps ==
    ASSUME PeopleInv, NEW s \in FreeSlot, NEW u \in User, NEW by \in Asking
    PROVE  /\ \A role \in Role, d \in Dept \cup {None}, t \in Team \cup {None} :
                AskAdd(s, by, u, role, d, t) \/ AskRole(s, by, u, role, d, t) => PeopleInv'
           /\ \A t \in Team \cup {None} : AskTeam(s, by, u, t) => PeopleInv'
           /\ AskSave(s, by, u) => PeopleInv'
<1>1. RowsOK /\ by \in Dept \cup {None}
  BY Unfold, AskersAreDepartments
<1>2. ASSUME InScope(by, u)
      PROVE  users[u] \in Row /\ users[u] # Gone
             /\ (by \in Dept => users[u].dept = by /\ users[u].role \in {"user", "manager"})
  BY <1>1, <1>2, Apart DEF InScope, Live, RowsOK
<1>3. ASSUME NEW t \in Team, TeamInScope(by, t)
      PROVE  LiveTeam(t) /\ (by \in Dept => DeptOf[t] = by)
  BY <1>3, Apart DEF TeamInScope
<1>4. ASSUME NEW role \in Role, NEW d \in Dept \cup {None}, NEW t \in Team \cup {None}, AskAdd(s, by, u, role, d, t)
      PROVE  PeopleInv'
  <2> DEFINE a == About("add", by, u)
             p == Told(a, role, d)
             q == WithTeam(p, t)
  <2>1. /\ users[u] = New /\ (t # None => TeamInScope(by, t)) /\ (role = "manager" => t # None)
        /\ Load(s, q)
        /\ (by \in Dept => role \in {"user", "manager"} /\ d = by)
    BY <1>4, Apart DEF AskAdd
  <2>2. users[u] # Gone
    BY <2>1, Apart
  <2>a. a \in Loaded /\ a.kind = "add" /\ a.by = by /\ a.user = u /\ a.row = New
    BY <1>1, <2>1, <2>2, AboutTyped
  <2> HIDE DEF a
  <2>3. p \in Loaded /\ p.kind = "add" /\ p.by = by /\ p.user = u /\ p.row = New /\ p.role = role /\ p.dept = d
    BY <2>a, ToldTyped
  <2> HIDE DEF p
  <2>4. /\ q \in Loaded /\ q.kind = "add" /\ q.by = by /\ q.user = u /\ q.row = New /\ q.role = role
        /\ q.dept = d /\ q.team = t /\ (t = None => q.mgr = None)
    BY <1>1, <1>3, <2>1, <2>3, WithTeamTyped
  <2> HIDE DEF q
  <2>5. Sound(q)
    BY <1>3, <2>1, <2>4, Apart DEF Sound, Formed, Scoped
  <2>6. QED
    BY <2>1, <2>4, <2>5, LoadKeeps
<1>5. ASSUME NEW role \in Role, NEW d \in Dept \cup {None}, NEW t \in Team \cup {None}, AskRole(s, by, u, role, d, t)
      PROVE  PeopleInv'
  <2> DEFINE a == About("role", by, u)
             p == Told(a, role, d)
             q == WithTeam(p, t)
  <2>1. /\ InScope(by, u) /\ (t # None => TeamInScope(by, t)) /\ (role = "manager" <=> t # None)
        /\ Load(s, q)
        /\ (by \in Dept => role \in {"user", "manager"})
    BY <1>5, Apart DEF AskRole
  <2>a. a \in Loaded /\ a.kind = "role" /\ a.by = by /\ a.user = u /\ a.row = users[u]
    BY <1>1, <1>2, <2>1, AboutTyped
  <2> HIDE DEF a
  <2>2. p \in Loaded /\ p.kind = "role" /\ p.by = by /\ p.user = u /\ p.row = users[u] /\ p.role = role /\ p.dept = d
    BY <2>a, ToldTyped
  <2> HIDE DEF p
  <2>3. /\ q \in Loaded /\ q.kind = "role" /\ q.by = by /\ q.user = u /\ q.row = users[u] /\ q.role = role
        /\ q.dept = d /\ q.team = t /\ (t = None => q.mgr = None)
    BY <1>1, <1>3, <2>1, <2>2, WithTeamTyped
  <2> HIDE DEF q
  <2>4. Sound(q)
    BY <1>2, <1>3, <2>1, <2>3, Apart DEF Sound, Formed, Scoped
  <2>5. QED
    BY <2>1, <2>3, <2>4, LoadKeeps
<1>6. ASSUME NEW t \in Team \cup {None}, AskTeam(s, by, u, t)
      PROVE  PeopleInv'
  <2> DEFINE p == About("team", by, u)
             q == WithTeam(p, t)
  <2>1. InScope(by, u) /\ (t # None => TeamInScope(by, t)) /\ Load(s, q)
    BY <1>6 DEF AskTeam
  <2>2. p \in Loaded /\ p.kind = "team" /\ p.by = by /\ p.user = u /\ p.row = users[u]
    BY <1>1, <1>2, <2>1, AboutTyped
  <2> HIDE DEF p
  <2>3. /\ q \in Loaded /\ q.kind = "team" /\ q.by = by /\ q.user = u /\ q.row = users[u]
        /\ q.team = t /\ (t = None => q.mgr = None)
    BY <1>1, <1>3, <2>1, <2>2, WithTeamTyped
  <2> HIDE DEF q
  <2>4. Sound(q)
    BY <1>2, <1>3, <2>1, <2>3 DEF Sound, Formed, Scoped
  <2>5. QED
    BY <2>1, <2>3, <2>4, LoadKeeps
<1>7. ASSUME AskSave(s, by, u)
      PROVE  PeopleInv'
  <2> DEFINE q == About("save", by, u)
  <2>1. InScope(by, u) /\ Load(s, q)
    BY <1>7 DEF AskSave
  <2>2. q \in Loaded /\ q.kind = "save" /\ q.by = by /\ q.user = u /\ q.row = users[u] /\ q.team = None /\ q.mgr = None
    BY <1>1, <1>2, <2>1, AboutTyped
  <2> HIDE DEF q
  <2>3. Sound(q)
    BY <1>2, <2>1, <2>2 DEF Sound, Formed, Scoped
  <2>4. QED
    BY <2>1, <2>2, <2>3, LoadKeeps
<1>8. QED
  BY <1>4, <1>5, <1>6, <1>7

\* Requests that no Admin with a department makes.
LEMMA AskFreelyKeeps ==
    ASSUME PeopleInv, NEW s \in FreeSlot, NEW u \in User
    PROVE  /\ \A d \in depts \cup {None} : AskDepartment(s, u, d) => PeopleInv'
           /\ \A m \in User : AskRemove(s, m, u) => PeopleInv'
<1>1. RowsOK /\ depts \subseteq Dept /\ (Live(u) => users[u] \in Row /\ users[u] # Gone)
  BY Unfold DEF RowsOK, Live
<1>2. ASSUME NEW d \in depts \cup {None}, AskDepartment(s, u, d)
      PROVE  PeopleInv'
  <2> DEFINE q == [About("department", None, u) EXCEPT !.dept = d]
  <2>1. Live(u) /\ Load(s, q)
    BY <1>2 DEF AskDepartment
  <2>2. /\ q \in Loaded /\ q.kind = "department" /\ q.by = None /\ q.user = u /\ q.row = users[u]
        /\ q.team = None /\ q.mgr = None
    BY <1>1, <2>1, AboutTyped DEF Loaded
  <2> HIDE DEF q
  <2>3. Sound(q)
    BY <1>1, <2>1, <2>2, Apart DEF Sound, Formed, Scoped
  <2>4. QED
    BY <2>1, <2>2, <2>3, LoadKeeps
<1>3. ASSUME NEW m \in User, AskRemove(s, m, u)
      PROVE  PeopleInv'
  <2> DEFINE q == About("remove", None, u)
  <2>1. Live(m) /\ Live(u) /\ u # m /\ users[u].team # None /\ manager[users[u].team] = m /\ Load(s, q)
    BY <1>3 DEF AskRemove
  <2>2. /\ q \in Loaded /\ q.kind = "remove" /\ q.by = None /\ q.user = u /\ q.row = users[u]
        /\ q.team = None /\ q.mgr = None
    BY <1>1, <2>1, AboutTyped
  <2> HIDE DEF q
  <2>3. ~raced => users[u].role # "manager"
    <3>1. users[u].team \in Team
      BY <1>1, <2>1, RowFields
    <3>2. QED
      BY <2>1, <3>1, Unfold DEF ManagerInSync
  <2>4. Sound(q)
    BY <1>1, <2>1, <2>2, <2>3, Apart DEF Sound, Formed, Scoped
  <2>5. QED
    BY <2>1, <2>2, <2>4, LoadKeeps
<1>4. QED
  BY <1>2, <1>3

-------------------------------------------------------------------------------
\* What a commit writes: the row r of the account u, and no team for m, who managed
\* the team that u takes.
Wrote(u, r, m) ==
    users' = [v \in User |-> IF v = u THEN r ELSE IF v = m THEN [users[v] EXCEPT !.team = None] ELSE users[v]]

\* No team comes or goes, and only u takes one.
ManagersKept(u) ==
    /\ manager' \in [Team -> User \cup {None, New, Gone}]
    /\ \A t \in Team : /\ LiveTeam(t)' <=> LiveTeam(t)
                       /\ manager'[t] \in User => manager'[t] \in {u, manager[t]}

\* The managers agree with the rows that Wrote describes.
Agreed(u, r, m) ==
    /\ \A t \in Team : manager'[t] = u <=> r.role = "manager" /\ r.team = t
    /\ \A v \in User \ {u}, t \in Team : Live(v) => (manager'[t] = v <=> manager[t] = v /\ v # m)

Takes(u, t) == manager' = [ReleaseOthers(u, t) EXCEPT ![t] = u]
Drops(u) == manager' = ReleaseOthers(u, None)

LEMMA TakesKeep ==
    ASSUME RowsOK, NEW u \in User, NEW t \in Team, LiveTeam(t), Takes(u, t)
    PROVE  ManagersKept(u)
BY Apart DEF RowsOK, Takes, ReleaseOthers, ManagersKept, LiveTeam

LEMMA DropsKeep ==
    ASSUME RowsOK, NEW u \in User, Drops(u)
    PROVE  ManagersKept(u)
BY Apart DEF RowsOK, Drops, ReleaseOthers, ManagersKept, LiveTeam

LEMMA TakesAgree ==
    ASSUME RowsOK, ManagerInSync, ~raced, NEW u \in User, NEW t \in Team, NEW r \in Row, Takes(u, t),
           r.role = "manager", r.team = t, NEW m,
           m = IF manager[t] \in User \ {u} THEN manager[t] ELSE None
    PROVE  Agreed(u, r, m)
<1>1. \A x \in Team : manager'[x] = IF x = t THEN u ELSE IF manager[x] = u THEN None ELSE manager[x]
  BY DEF RowsOK, Takes, ReleaseOthers
<1>2. \A x \in Team : manager'[x] = u <=> r.role = "manager" /\ r.team = x
  BY <1>1, Apart
<1>3. ASSUME NEW v \in User \ {u}, NEW x \in Team, Live(v)
      PROVE  manager'[x] = v <=> manager[x] = v /\ v # m
  <2>1. CASE x = t
    BY <1>1, <2>1
  <2>2. CASE x # t /\ v = m
    <3>1. manager[t] = v /\ users[v].team = t
      BY <2>2, <1>3, Apart DEF ManagerInSync
    <3>2. manager[x] # v
      BY <3>1, <2>2, <1>3 DEF ManagerInSync
    <3>3. QED
      BY <1>1, <2>2, <3>2, Apart
  <2>3. CASE x # t /\ v # m
    BY <1>1, <2>3, Apart
  <2>4. QED
    BY <2>1, <2>2, <2>3
<1>4. QED
  BY <1>2, <1>3 DEF Agreed

LEMMA DropsAgree ==
    ASSUME RowsOK, NEW u \in User, NEW r \in Row, Drops(u), r.role # "manager" \/ r.team = None
    PROVE  Agreed(u, r, None)
<1>1. \A x \in Team : manager'[x] = IF manager[x] = u THEN None ELSE manager[x]
  BY Apart DEF RowsOK, Drops, ReleaseOthers
<1>2. QED
  BY <1>1, Apart DEF Agreed

LEMMA KeepsAgree ==
    ASSUME RowsOK, ManagerInSync, ~raced, NEW u \in User, NEW r \in Row, manager' = manager,
           IF Live(u) THEN r.role = users[u].role /\ (r.role = "manager" => r.team = users[u].team)
                      ELSE r.role # "manager"
    PROVE  Agreed(u, r, None)
<1>1. \A t \in Team : manager[t] = u <=> r.role = "manager" /\ r.team = t
  <2>1. CASE Live(u)
    BY <2>1 DEF ManagerInSync
  <2>2. CASE ~Live(u)
    BY <2>2 DEF RowsOK
  <2>3. QED
    BY <2>1, <2>2
<1>2. QED
  BY <1>1, Apart DEF Agreed

\* Rows written like this still refer to what is there.
LEMMA RowsStay ==
    ASSUME RowsOK, UNCHANGED depts, NEW u \in User, NEW r \in Row, NEW m \in User \cup {None},
           Wrote(u, r, m), ManagersKept(u), m # None => Live(m),
           r.team = None \/ LiveTeam(r.team), r.dept \in depts \cup {None}
    PROVE  RowsOK'
<1>1. \A v \in User : users'[v] = IF v = u THEN r ELSE IF v = m THEN [users[v] EXCEPT !.team = None] ELSE users[v]
  BY DEF Wrote
<1>2. \A v \in User : Live(v) => users[v] \in Row
  BY DEF RowsOK, Live
<1>3. m \in User => [users[m] EXCEPT !.team = None] \in Row
  BY <1>2, Apart, RowFields
<1>4. m \in User => [users[m] EXCEPT !.team = None].team = None /\ [users[m] EXCEPT !.team = None].dept = users[m].dept
  BY <1>2, Apart DEF Row
<1>5. users' \in [User -> Row \cup {New, Gone}]
  BY <1>3, Apart DEF Wrote, RowsOK
<1>6. \A t \in Team : LiveTeam(t) => manager'[t] \notin {New, Gone}
  BY DEF ManagersKept, LiveTeam
<1>7. ASSUME NEW v \in User, Live(v)'
      PROVE  /\ users'[v].team = None \/ manager'[users'[v].team] \notin {New, Gone}
             /\ users'[v].dept \in depts \cup {None}
  <2>1. CASE v = u
    BY <2>1, <1>1, <1>6, RowFields
  <2>2. CASE v # u /\ v = m
    BY <2>2, <1>1, <1>4, Apart DEF RowsOK
  <2>3. CASE v # u /\ v # m
    <3>1. users'[v] = users[v] /\ Live(v)
      BY <2>3, <1>1, <1>7 DEF Live
    <3>2. users[v].team \in Team \cup {None}
      BY <3>1, <1>2, RowFields
    <3>3. QED
      BY <3>1, <3>2, <1>6 DEF RowsOK
  <2>4. QED
    BY <2>1, <2>2, <2>3
<1>8. ASSUME NEW t \in Team, manager'[t] \in User
      PROVE  users'[manager'[t]] \notin {New, Gone}
  <2> DEFINE v == manager'[t]
  <2>1. v \in User /\ v \in {u, manager[t]}
    BY <1>8 DEF ManagersKept
  <2>2. v # u => Live(v)
    BY <2>1 DEF RowsOK
  <2>3. users'[v] \notin {New, Gone}
    BY <2>1, <2>2, <1>1, <1>3, Apart DEF Live
  <2>4. QED
    BY <2>3
<1>9. TeamsHaveDepartments'
  BY DEF RowsOK, TeamsHaveDepartments, ManagersKept
<1>10. manager' \in [Team -> User \cup {None, New, Gone}] /\ depts' \subseteq Dept
  BY DEF RowsOK, ManagersKept
<1>11. QED
  BY <1>5, <1>7, <1>8, <1>9, <1>10 DEF RowsOK, Live, LiveTeam

\* The managers that agree with rows written like this are in sync with them.
LEMMA SyncStays ==
    ASSUME RowsOK, ManagerInSync, ~raced, NEW u \in User, NEW r \in Row, NEW m \in User \cup {None},
           Wrote(u, r, m), Agreed(u, r, m), m # u, m # None => Live(m)
    PROVE  ManagerInSync'
<1> SUFFICES ASSUME NEW t \in Team, NEW v \in User, Live(v)'
             PROVE  manager'[t] = v <=> users'[v].role = "manager" /\ users'[v].team = t
  BY DEF ManagerInSync
<1>1. users'[v] = IF v = u THEN r ELSE IF v = m THEN [users[v] EXCEPT !.team = None] ELSE users[v]
  BY DEF Wrote
<1>2. CASE v = u
  BY <1>1, <1>2 DEF Agreed
<1>3. CASE v = m
  <2>1. users[v] \in Row /\ Live(v)
    BY <1>3, Apart DEF RowsOK, Live
  <2>2. users'[v].team = None
    BY <2>1, <1>1, <1>3 DEF Row
  <2>3. manager'[t] # v
    BY <2>1, <1>3 DEF Agreed
  <2>4. QED
    BY <2>2, <2>3, Apart
<1>4. CASE v # u /\ v # m
  <2>1. users'[v] = users[v] /\ Live(v)
    BY <1>1, <1>4 DEF Live
  <2>2. QED
    BY <2>1, <1>4 DEF Agreed, ManagerInSync
<1>5. QED
  BY <1>2, <1>3, <1>4

-------------------------------------------------------------------------------
\* Every commit writes rows in this way, agrees with them unless what it loaded is
\* stale, and keeps an Admin within the department.
WritesWell(q) ==
    \E r \in Row, m \in User \cup {None} :
        /\ Wrote(q.user, r, m) /\ ManagersKept(q.user)
        /\ m # q.user /\ (m # None => m = q.mgr /\ Live(m))
        /\ r.team = None \/ LiveTeam(r.team)
        /\ r.dept \in depts \cup {None}
        /\ ~raced /\ ~Stale(q) => Agreed(q.user, r, m)
        /\ q.by \in Dept /\ ~Stale(q) => r.dept = q.by /\ r.role \in {"user", "manager"}

Previous(q) == IF q.mgr \in User \ {q.user} THEN q.mgr ELSE None

LEMMA PreviousWrote ==
    ASSUME RowsOK, NEW q, q.user \in User, NEW r, users' = [ReleasePrevious(q) EXCEPT ![q.user] = r]
    PROVE  Wrote(q.user, r, Previous(q))
<1>1. CASE q.mgr \in User \ {q.user}
  <2>1. ReleasePrevious(q) = [users EXCEPT ![q.mgr] = [users[q.mgr] EXCEPT !.team = None]]
    BY <1>1 DEF ReleasePrevious
  <2>2. QED
    BY <1>1, <2>1 DEF RowsOK, Wrote, Previous
<1>2. CASE q.mgr \notin User \ {q.user}
  BY <1>2, Apart DEF RowsOK, Wrote, Previous, ReleasePrevious
<1>3. QED
  BY <1>1, <1>2

LEMMA RowWrote ==
    ASSUME RowsOK, NEW u \in User, NEW r, users' = [users EXCEPT ![u] = r]
    PROVE  Wrote(u, r, None)
BY Apart DEF RowsOK, Wrote

LEMMA AddWrites ==
    ASSUME RowsOK, ManagerInSync, NEW q \in Loaded, q.kind = "add", Formed(q), Scoped(q), Possible(q), CommitAdd(q)
    PROVE  WritesWell(q)
<1> DEFINE p == [q EXCEPT !.mgr = IF q.role = "manager" THEN @ ELSE None]
           r == [role |-> q.role, dept |-> q.dept, team |-> q.team]
<1>1. q.user \in User /\ q.role \in Role /\ q.team \in Team \cup {None} /\ q.dept \in Dept \cup {None}
      /\ q.mgr \in User \cup {None}
  BY DEF Loaded, Formed
<1>2. p.user = q.user /\ p.mgr = IF q.role = "manager" THEN q.mgr ELSE None
  BY DEF Loaded
<1>3. users' = [ReleasePrevious(p) EXCEPT ![p.user] = r]
      /\ manager' = IF q.role = "manager" THEN TakeTeam(q) ELSE manager
  BY <1>2 DEF CommitAdd
<1> HIDE DEF p
<1>4. r \in Row /\ r.role = q.role /\ r.dept = q.dept /\ r.team = q.team
  BY <1>1, RowFields
<1> HIDE DEF r
<1>5. Wrote(q.user, r, Previous(p))
  BY <1>1, <1>2, <1>3, PreviousWrote
<1>6. /\ users[q.user] = New /\ ~Live(q.user) /\ (q.team # None => LiveTeam(q.team))
      /\ (q.mgr # None => Live(q.mgr)) /\ (q.dept # None => q.dept \in depts)
  BY DEF Possible, Live
<1>7. q.by \in Dept => r.dept = q.by /\ r.role \in {"user", "manager"}
  BY <1>4 DEF Scoped
<1>8. CASE q.role = "manager"
  <2>1. q.team \in Team /\ LiveTeam(q.team)
    BY <1>1, <1>6, <1>8 DEF Formed
  <2>2. Takes(q.user, q.team)
    BY <1>3, <1>8 DEF TakeTeam, Takes
  <2>3. ManagersKept(q.user)
    BY <1>1, <2>1, <2>2, TakesKeep
  <2>4. ~raced /\ ~Stale(q) => Agreed(q.user, r, Previous(p))
    <3>1. ~Stale(q) => q.mgr = manager[q.team]
      BY <2>1, Apart DEF Stale
    <3>2. ~Stale(q) => Previous(p) = IF manager[q.team] \in User \ {q.user} THEN manager[q.team] ELSE None
      BY <1>2, <1>8, <3>1 DEF Previous
    <3>3. QED
      BY <1>1, <1>4, <1>8, <2>1, <2>2, <3>2, TakesAgree
  <2>5. Previous(p) \in User \cup {None} /\ Previous(p) # q.user /\ (Previous(p) # None => Previous(p) = q.mgr /\ Live(q.mgr))
    BY <1>1, <1>2, <1>6, <1>8, Apart DEF Previous
  <2>6. QED
    BY <1>4, <1>5, <1>6, <1>7, <2>3, <2>4, <2>5 DEF WritesWell
<1>9. CASE q.role # "manager"
  <2>1. Previous(p) = None /\ None # q.user
    BY <1>1, <1>2, <1>9, Apart DEF Previous
  <2>2. manager' = manager
    BY <1>3, <1>9
  <2>3. ManagersKept(q.user)
    BY <2>2 DEF RowsOK, ManagersKept, LiveTeam
  <2>4. ~raced => Agreed(q.user, r, None)
    BY <1>1, <1>4, <1>6, <1>9, <2>2, KeepsAgree
  <2>5. QED
    BY <1>4, <1>5, <1>6, <1>7, <2>1, <2>3, <2>4 DEF WritesWell
<1>10. QED
  BY <1>8, <1>9

LEMMA RoleWrites ==
    ASSUME RowsOK, ManagerInSync, NEW q \in Loaded, q.kind = "role", Formed(q), Scoped(q), Possible(q), CommitRole(q)
    PROVE  WritesWell(q)
<1>1. q.user \in User /\ q.role \in Role /\ q.team \in Team \cup {None} /\ q.dept \in Dept \cup {None}
      /\ q.mgr \in User \cup {None}
  BY DEF Loaded, Formed
<1>2. q.row \in Row /\ q.row.role \in Role /\ q.row.dept \in Dept \cup {None} /\ q.row.team \in Team \cup {None}
  BY RowFields DEF Formed
<1>3. /\ q.team # None => LiveTeam(q.team)
      /\ q.mgr # None => Live(q.mgr)
      /\ q.dept # None => q.dept \in depts
      /\ q.row.team # None => LiveTeam(q.row.team)
      /\ q.row.dept \in depts \cup {None}
  BY DEF Possible
<1>4. q.by \in Dept => /\ q.role \in {"user", "manager"} /\ q.row.dept = q.by
                       /\ q.team # None => DeptOf[q.team] = q.by
  BY DEF Scoped
<1>5. CASE q.role = "manager"
  <2> DEFINE r == [role |-> "manager", dept |-> DeptOf[q.team], team |-> q.team]
  <2>1. q.team \in Team /\ LiveTeam(q.team) /\ q.team # None
    BY <1>1, <1>3, <1>5, Apart DEF Formed
  <2>2. r \in Row /\ r.role = "manager" /\ r.dept = DeptOf[q.team] /\ r.team = q.team
    BY <2>1, Apart, RowFields DEF Role
  <2>3. users' = [ReleasePrevious(q) EXCEPT ![q.user] = r] /\ Takes(q.user, q.team)
    BY <1>5 DEF CommitRole, TakeTeam, Takes
  <2> HIDE DEF r
  <2>4. Wrote(q.user, r, Previous(q)) /\ ManagersKept(q.user)
    BY <1>1, <2>1, <2>3, PreviousWrote, TakesKeep
  <2>5. ~raced /\ ~Stale(q) => Agreed(q.user, r, Previous(q))
    <3>1. ~Stale(q) => q.mgr = manager[q.team]
      BY <2>1 DEF Stale
    <3>2. QED
      BY <1>1, <2>1, <2>2, <2>3, <3>1, TakesAgree DEF Previous
  <2>6. Previous(q) \in User \cup {None} /\ Previous(q) # q.user /\ (Previous(q) # None => Previous(q) = q.mgr /\ Live(q.mgr))
    BY <1>1, <1>3, Apart DEF Previous
  <2>7. r.dept \in depts \cup {None}
    BY <2>1, <2>2 DEF RowsOK, TeamsHaveDepartments
  <2>8. QED
    BY <1>4, <2>1, <2>2, <2>4, <2>5, <2>6, <2>7 DEF WritesWell
<1>6. CASE q.role # "manager"
  <2> DEFINE r == [role |-> q.role,
                   dept |-> IF q.role = "admin" THEN q.dept ELSE q.row.dept,
                   team |-> IF q.row.role = "manager" THEN None ELSE q.row.team]
  <2>1. users' = [users EXCEPT ![q.user] = r]
        /\ manager' = IF q.row.role = "manager" THEN ReleaseOthers(q.user, None) ELSE manager
    BY <1>6 DEF CommitRole
  <2>2. /\ r \in Row /\ r.role = q.role /\ r.dept = (IF q.role = "admin" THEN q.dept ELSE q.row.dept)
        /\ r.team = IF q.row.role = "manager" THEN None ELSE q.row.team
    BY <1>1, <1>2, RowFields
  <2> HIDE DEF r
  <2>3. Wrote(q.user, r, None) /\ None # q.user
    BY <1>1, <2>1, RowWrote, Apart
  <2>4. (r.team = None \/ LiveTeam(r.team)) /\ r.dept \in depts \cup {None}
    BY <1>3, <2>2
  <2>5. q.by \in Dept => r.dept = q.by /\ r.role \in {"user", "manager"}
    BY <1>4, <2>2
  <2>6. ManagersKept(q.user) /\ (~raced /\ ~Stale(q) => Agreed(q.user, r, None))
    <3>1. CASE q.row.role = "manager"
      <4>1. Drops(q.user) /\ r.team = None
        BY <2>1, <2>2, <3>1 DEF Drops
      <4>2. QED
        BY <1>1, <2>2, <4>1, DropsKeep, DropsAgree
    <3>2. CASE q.row.role # "manager"
      <4>1. manager' = manager
        BY <2>1, <3>2
      <4>2. ManagersKept(q.user)
        BY <4>1 DEF RowsOK, ManagersKept, LiveTeam
      <4>3. ASSUME ~raced, ~Stale(q)
            PROVE  Agreed(q.user, r, None)
        <5>1. users[q.user] = q.row
          BY <4>3 DEF Stale
        <5>2. \A t \in Team : manager[t] # q.user
          <6>1. Live(q.user) /\ users[q.user].role # "manager"
            BY <1>2, <3>2, <5>1, Apart DEF Live
          <6>2. QED
            BY <1>1, <6>1, <4>3 DEF ManagerInSync
        <5>3. QED
          BY <1>6, <2>2, <4>1, <5>2, Apart DEF Agreed
      <4>4. QED
        BY <4>2, <4>3
    <3>3. QED
      BY <3>1, <3>2
  <2>7. QED
    BY <2>2, <2>3, <2>4, <2>5, <2>6 DEF WritesWell
<1>7. QED
  BY <1>5, <1>6

LEMMA MovedRow ==
    ASSUME NEW r \in Row, NEW t \in Team \cup {None}
    PROVE  /\ Moved(r, t) \in Row
           /\ Moved(r, t).role = r.role /\ Moved(r, t).team = t
           /\ Moved(r, t).dept = IF t = None THEN r.dept ELSE DeptOf[t]
<1> DEFINE d == IF t = None THEN r.dept ELSE DeptOf[t]
<1>1. d \in Dept \cup {None}
  BY Apart, RowFields
<1>2. Moved(r, t) = [r EXCEPT !.team = t, !.dept = d]
  BY DEF Moved, Row
<1> HIDE DEF d
<1>3. [r EXCEPT !.team = t, !.dept = d] \in Row
  BY <1>1, RowFields
<1>4. [r EXCEPT !.team = t, !.dept = d].role = r.role /\ [r EXCEPT !.team = t, !.dept = d].team = t
      /\ [r EXCEPT !.team = t, !.dept = d].dept = d
  BY DEF Row
<1>5. QED
  BY <1>2, <1>3, <1>4 DEF d

LEMMA TeamWrites ==
    ASSUME RowsOK, ManagerInSync, NEW q \in Loaded, q.kind = "team", Formed(q), Scoped(q), Possible(q), CommitTeam(q)
    PROVE  WritesWell(q)
<1> DEFINE u == q.user
           r == Moved(users[u], q.team)
<1>1. u \in User /\ q.team \in Team \cup {None} /\ q.mgr \in User \cup {None}
  BY DEF Loaded, Formed
<1>2. Live(u) /\ (q.team # None => LiveTeam(q.team)) /\ (q.mgr # None => Live(q.mgr))
  BY DEF Possible
<1>3. users[u] \in Row
  BY <1>1, <1>2 DEF RowsOK, Live
<1>4. /\ r \in Row /\ r.role = users[u].role /\ r.team = q.team
      /\ r.dept = IF q.team = None THEN users[u].dept ELSE DeptOf[q.team]
  BY <1>1, <1>3, MovedRow
<1>5. users' = IF q.row.role = "manager" THEN [ReleasePrevious(q) EXCEPT ![u] = Moved(@, q.team)]
                                         ELSE [users EXCEPT ![u] = r]
  BY DEF CommitTeam
<1>6. [ReleasePrevious(q) EXCEPT ![u] = Moved(@, q.team)] = [ReleasePrevious(q) EXCEPT ![u] = r]
  BY <1>1 DEF ReleasePrevious, RowsOK
<1>7. manager' = CASE q.row.role # "manager" -> manager
                   [] q.row.role = "manager" /\ q.team = None -> ReleaseOthers(u, None)
                   [] OTHER -> TakeTeam(q)
  BY DEF CommitTeam
<1>8. (r.team = None \/ LiveTeam(r.team)) /\ r.dept \in depts \cup {None}
  BY <1>1, <1>2, <1>4 DEF RowsOK, TeamsHaveDepartments
<1>9. ~Stale(q) => users[u] = q.row
  BY DEF Stale
<1>10. q.by \in Dept /\ ~Stale(q) => r.dept = q.by /\ r.role \in {"user", "manager"}
  BY <1>4, <1>9 DEF Scoped
<1> HIDE DEF r
<1>11. CASE q.row.role # "manager"
  <2>1. manager' = manager
    BY <1>7, <1>11
  <2>2. Wrote(u, r, None) /\ ManagersKept(u)
    BY <1>1, <1>5, <1>11, <2>1, RowWrote DEF RowsOK, ManagersKept, LiveTeam
  <2>3. ~raced /\ ~Stale(q) => Agreed(u, r, None)
    BY <1>1, <1>2, <1>4, <1>9, <1>11, <2>1, KeepsAgree
  <2>4. QED
    BY <1>1, <1>4, <1>8, <1>10, <2>2, <2>3, Apart DEF WritesWell
<1>12. CASE q.row.role = "manager" /\ q.team = None
  <2>1. Drops(u) /\ q.mgr = None
    BY <1>7, <1>12 DEF Drops, Formed
  <2>2. users' = [users EXCEPT ![u] = r]
    BY <1>5, <1>6, <1>12, <2>1, Apart DEF ReleasePrevious
  <2>3. Wrote(u, r, None) /\ ManagersKept(u) /\ Agreed(u, r, None)
    BY <1>1, <1>4, <1>12, <2>1, <2>2, RowWrote, DropsKeep, DropsAgree
  <2>4. QED
    BY <1>1, <1>4, <1>8, <1>10, <2>3, Apart DEF WritesWell
<1>13. CASE q.row.role = "manager" /\ q.team # None
  <2>1. q.team \in Team /\ LiveTeam(q.team) /\ Takes(u, q.team)
    BY <1>1, <1>2, <1>7, <1>13 DEF Takes, TakeTeam
  <2>2. Wrote(u, r, Previous(q)) /\ ManagersKept(u)
    BY <1>1, <1>5, <1>6, <1>13, <2>1, PreviousWrote, TakesKeep
  <2>3. ~raced /\ ~Stale(q) => Agreed(u, r, Previous(q))
    <3>1. ~Stale(q) => q.mgr = manager[q.team] /\ r.role = "manager"
      BY <1>4, <1>9, <1>13 DEF Stale
    <3>2. QED
      BY <1>1, <1>4, <2>1, <3>1, TakesAgree DEF Previous
  <2>4. Previous(q) \in User \cup {None} /\ Previous(q) # u /\ (Previous(q) # None => Previous(q) = q.mgr /\ Live(q.mgr))
    BY <1>1, <1>2, Apart DEF Previous
  <2>5. QED
    BY <1>4, <1>8, <1>10, <2>2, <2>3, <2>4 DEF WritesWell
<1>14. QED
  BY <1>11, <1>12, <1>13

\* A department given, a member removed, and a row saved as it was loaded.
LEMMA RestWrites ==
    ASSUME RowsOK, ManagerInSync, NEW q \in Loaded, q.kind \in {"department", "remove", "save"},
           Formed(q), Scoped(q), Possible(q), CommitRest(q)
    PROVE  WritesWell(q)
<1> DEFINE u == q.user
<1>1. u \in User /\ q.row \in Row /\ q.dept \in Dept \cup {None}
  BY DEF Loaded, Formed
<1>2. manager' = manager /\ ManagersKept(u)
  BY DEF CommitRest, RowsOK, ManagersKept, LiveTeam
<1>3. ~Stale(q) => users[u] = q.row /\ Live(u)
  BY <1>1, Apart DEF Stale, Live
<1>4. ASSUME NEW r \in Row, users' = [users EXCEPT ![u] = r],
             r.team = None \/ LiveTeam(r.team), r.dept \in depts \cup {None},
             ~raced /\ ~Stale(q) => r.role = q.row.role /\ (r.role = "manager" => r.team = q.row.team),
             q.by \in Dept => r.dept = q.by /\ r.role \in {"user", "manager"}
      PROVE  WritesWell(q)
  <2>1. Wrote(u, r, None)
    BY <1>1, <1>4, RowWrote
  <2>2. ~raced /\ ~Stale(q) => Agreed(u, r, None)
    BY <1>1, <1>2, <1>3, <1>4, KeepsAgree
  <2>3. QED
    BY <1>1, <1>2, <1>4, <2>1, <2>2, Apart DEF WritesWell
<1>5. ASSUME q.kind = "save"
      PROVE  WritesWell(q)
  <2>1. users' = [users EXCEPT ![u] = q.row]
    BY <1>5 DEF CommitRest
  <2>2. (q.row.team = None \/ LiveTeam(q.row.team)) /\ q.row.dept \in depts \cup {None}
    BY <1>5 DEF Possible
  <2>3. QED
    BY <1>1, <1>4, <2>1, <2>2, <1>5 DEF Scoped
<1>6. ASSUME q.kind # "save"
      PROVE  users[u] \in Row /\ q.by \notin Dept
             /\ (users[u].team = None \/ LiveTeam(users[u].team)) /\ users[u].dept \in depts \cup {None}
  BY <1>1, <1>6 DEF Possible, RowsOK, Live, Scoped
<1>7. ASSUME q.kind = "department"
      PROVE  WritesWell(q)
  <2> DEFINE r == [users[u] EXCEPT !.dept = q.dept]
  <2>1. users' = [users EXCEPT ![u] = r]
    BY <1>7 DEF CommitRest
  <2>2. r \in Row /\ r.role = users[u].role /\ r.team = users[u].team /\ r.dept = q.dept
    BY <1>1, <1>6, <1>7, RowFields DEF Row
  <2> HIDE DEF r
  <2>3. q.dept \in depts \cup {None}
    BY <1>1 DEF Possible
  <2>4. QED
    BY <1>3, <1>4, <1>6, <1>7, <2>1, <2>2, <2>3
<1>8. ASSUME q.kind = "remove"
      PROVE  WritesWell(q)
  <2> DEFINE r == [users[u] EXCEPT !.team = None]
  <2>1. users' = [users EXCEPT ![u] = r]
    BY <1>8 DEF CommitRest
  <2>2. r \in Row /\ r.role = users[u].role /\ r.team = None /\ r.dept = users[u].dept
    BY <1>6, <1>8, RowFields DEF Row
  <2> HIDE DEF r
  <2>3. ~raced => q.row.role # "manager"
    BY <1>8 DEF Formed
  <2>4. QED
    BY <1>3, <1>4, <1>6, <1>8, <2>1, <2>2, <2>3
<1>9. QED
  BY <1>5, <1>7, <1>8

LEMMA CommitWrites ==
    ASSUME PeopleInv, NEW s \in Slot, Commit(s)
    PROVE  WritesWell(req[s])
<1> DEFINE q == req[s]
<1>1. q \in Loaded /\ q # Idle /\ Sound(q) /\ RowsOK /\ ManagerInSync /\ Possible(q)
  BY Unfold DEF Commit
<1>2. q.kind \in {"add", "role", "team", "department", "save", "remove"} /\ Formed(q) /\ Scoped(q)
  BY <1>1 DEF Sound, Loaded
<1>3. (CASE q.kind = "add" -> CommitAdd(q)
         [] q.kind = "role" -> CommitRole(q)
         [] q.kind = "team" -> CommitTeam(q)
         [] OTHER -> CommitRest(q))
  BY DEF Commit
<1>4. CASE q.kind = "add"
  BY <1>1, <1>2, <1>3, <1>4, AddWrites
<1>5. CASE q.kind = "role"
  BY <1>1, <1>2, <1>3, <1>5, RoleWrites
<1>6. CASE q.kind = "team"
  BY <1>1, <1>2, <1>3, <1>6, TeamWrites
<1>7. CASE q.kind \in {"department", "remove", "save"}
  BY <1>1, <1>2, <1>3, <1>7, RestWrites
<1>8. QED
  BY <1>2, <1>4, <1>5, <1>6, <1>7

LEMMA SlotFreed ==
    ASSUME PeopleInv, NEW s \in Slot, req' = [req EXCEPT ![s] = Idle], raced => raced'
    PROVE  req' \in [Slot -> Loaded] /\ (\A r \in Slot : Sound(req[r]))'
<1>1. req' \in [Slot -> Loaded]
  BY Unfold, IdleLoaded
<1>2. \A r \in Slot : Sound(req[r])' \/ req'[r] = req[r]
  BY Unfold DEF Sound
<1>3. \A r \in Slot : req'[r] = Idle \/ (req'[r] = req[r] /\ Sound(req[r]))
  BY Unfold
<1>4. QED
  BY <1>1, <1>3 DEF Sound, Formed, Scoped

LEMMA CommitKeeps ==
    ASSUME PeopleInv, NEW s \in Slot, Commit(s)
    PROVE  PeopleInv'
<1> DEFINE q == req[s]
<1>1. /\ req' = [req EXCEPT ![s] = Idle] /\ raced' = (raced \/ Stale(q)) /\ UNCHANGED <<depts, served>>
  BY DEF Commit
<1>2. RowsOK /\ ManagerInSync /\ raced \in BOOLEAN /\ served \in 0 .. MaxRequests /\ q \in Loaded /\ Sound(q) /\ q # Idle
  BY Unfold DEF Commit
<1>3. q.user \in User
  BY <1>2 DEF Sound, Formed
<1>4. PICK r \in Row, m \in User \cup {None} :
        /\ Wrote(q.user, r, m) /\ ManagersKept(q.user)
        /\ m # q.user /\ (m # None => m = q.mgr /\ Live(m))
        /\ r.team = None \/ LiveTeam(r.team)
        /\ r.dept \in depts \cup {None}
        /\ ~raced /\ ~Stale(q) => Agreed(q.user, r, m)
  BY CommitWrites DEF WritesWell
<1>5. RowsOK'
  BY <1>1, <1>2, <1>3, <1>4, RowsStay
<1>6. ManagerInSync'
  <2>1. CASE raced \/ Stale(q)
    BY <1>1, <2>1 DEF ManagerInSync
  <2>2. CASE ~raced /\ ~Stale(q)
    BY <1>2, <1>3, <1>4, <2>2, SyncStays
  <2>3. QED
    BY <2>1, <2>2
<1>7. raced' \in BOOLEAN /\ served' \in 0 .. MaxRequests
  BY <1>1, <1>2
<1>8. req' \in [Slot -> Loaded] /\ (\A x \in Slot : Sound(req[x]))'
  BY <1>1, SlotFreed
<1>9. QED
  BY <1>5, <1>6, <1>7, <1>8, Fold

LEMMA FailKeeps ==
    ASSUME PeopleInv, NEW s \in Slot, Fail(s)
    PROVE  PeopleInv'
<1>1. req' = [req EXCEPT ![s] = Idle] /\ UNCHANGED <<users, manager, depts, served, raced>>
  BY DEF Fail
<1>2. req' \in [Slot -> Loaded] /\ (\A x \in Slot : Sound(req[x]))'
  BY <1>1, SlotFreed
<1>3. RowsOK' /\ ManagerInSync' /\ raced' \in BOOLEAN /\ served' \in 0 .. MaxRequests
  BY <1>1, Unfold DEF RowsOK, TeamsHaveDepartments, ManagerInSync, Live, LiveTeam
<1>4. QED
  BY <1>2, <1>3, Fold

-------------------------------------------------------------------------------
\* Deletions and additions change no request.
LEMMA DirectlyKeeps ==
    ASSUME PeopleInv, Directly, RowsOK', ManagerInSync'
    PROVE  PeopleInv'
<1>1. served < MaxRequests /\ served' = served + 1 /\ UNCHANGED <<req, raced>>
  BY DEF Directly
<1>2. served' \in 0 .. MaxRequests
  <2>1. MaxRequests \in Nat
    BY OrganizationAssumption
  <2>2. QED
    BY <1>1, <2>1, Unfold
<1>3. req' \in [Slot -> Loaded] /\ raced' \in BOOLEAN
  BY <1>1, Unfold
<1>4. (\A s \in Slot : Sound(req[s]))'
  BY <1>1, Unfold DEF Sound, Formed, Scoped
<1>5. QED
  BY <1>2, <1>3, <1>4, Fold

LEMMA DeleteUserKeeps ==
    ASSUME PeopleInv, NEW u \in User, DeleteUser(u)
    PROVE  PeopleInv'
<1>1. users' = [users EXCEPT ![u] = Gone] /\ Directly /\ UNCHANGED depts /\ raced' = raced
  BY DEF DeleteUser, Directly
<1>2. \A t \in Team : manager'[t] = IF manager[t] = u THEN None ELSE manager[t]
  BY Apart DEF DeleteUser, ReleaseOthers
<1>3. manager' \in [Team -> User \cup {None, New, Gone}]
  BY Unfold DEF RowsOK, DeleteUser, ReleaseOthers
<1>4. \A t \in Team : LiveTeam(t)' <=> LiveTeam(t)
  BY <1>2, Apart DEF LiveTeam
<1>5. \A v \in User : Live(v)' <=> Live(v) /\ v # u
  BY <1>1, Unfold DEF RowsOK, Live
<1>6. \A v \in User : Live(v)' => users'[v] = users[v] /\ Live(v)
  BY <1>1, <1>5, Unfold DEF RowsOK
<1>7. users' \in [User -> Row \cup {New, Gone}] /\ depts' \subseteq Dept
  BY <1>1, Unfold DEF RowsOK
<1>8. ASSUME NEW v \in User, Live(v)'
      PROVE  /\ users'[v].team = None \/ manager'[users'[v].team] \notin {New, Gone}
             /\ users'[v].dept \in depts' \cup {None}
  <2>1. users'[v] = users[v] /\ users[v] \in Row /\ Live(v)
    BY <1>6, <1>8, Unfold DEF RowsOK, Live
  <2>2. users[v].team \in Team \cup {None}
    BY <2>1, RowFields
  <2>3. QED
    BY <1>1, <1>4, <2>1, <2>2, Unfold DEF RowsOK, LiveTeam
<1>9. \A t \in Team : manager'[t] \in User => users'[manager'[t]] \notin {New, Gone}
  BY <1>1, <1>2, Apart, Unfold DEF RowsOK, Live
<1>10. TeamsHaveDepartments'
  BY <1>1, <1>4, Unfold DEF RowsOK, TeamsHaveDepartments
<1>11. RowsOK'
  BY <1>3, <1>7, <1>8, <1>9, <1>10 DEF RowsOK, Live, LiveTeam
<1>12. ManagerInSync'
  BY <1>1, <1>2, <1>5, <1>6, Apart, Unfold DEF ManagerInSync
<1>13. QED
  BY <1>1, <1>11, <1>12, DirectlyKeeps

\* Teams T go, and departments D with all of theirs; the people stay.
Go(T, D) ==
    /\ depts' = depts \ D
    /\ \A t \in Team : LiveTeam(t) /\ DeptOf[t] \in D => t \in T
    /\ manager' = [t \in Team |-> IF t \in T THEN Gone ELSE manager[t]]
    /\ users' = [u \in User |-> users'[u]]
    /\ \A u \in User :
         IF Live(u)
           THEN /\ users'[u] \in Row
                /\ users'[u].role = users[u].role
                /\ users'[u].team = IF users[u].team \in T THEN None ELSE users[u].team
                /\ users'[u].dept = IF users[u].dept \in D THEN None ELSE users[u].dept
           ELSE users'[u] = users[u]

LEMMA TeamsGo ==
    ASSUME PeopleInv, Directly, NEW T \in SUBSET Team, NEW D \in SUBSET Dept, Go(T, D)
    PROVE  PeopleInv'
<1> USE DEF Go
<1>1. RowsOK /\ ManagerInSync /\ raced' = raced
  BY Unfold DEF Directly
<1>2. users' \in [User -> Row \cup {New, Gone}]
  BY <1>1 DEF RowsOK
<1>3. \A u \in User : Live(u)' <=> Live(u)
  BY <1>1, Apart DEF Live
<1>4. ASSUME NEW u \in User, Live(u)'
      PROVE  /\ users'[u].team = None \/ manager'[users'[u].team] \notin {New, Gone}
             /\ users'[u].dept \in depts' \cup {None}
  <2>1. Live(u) /\ users[u] \in Row
    BY <1>1, <1>3, <1>4 DEF RowsOK, Live
  <2>2. users[u].team \in Team \cup {None} /\ users[u].dept \in depts \cup {None}
        /\ (users[u].team = None \/ LiveTeam(users[u].team))
    BY <1>1, <2>1, RowFields DEF RowsOK
  <2>3. users'[u].dept \in depts' \cup {None}
    BY <2>1, <2>2
  <2>4. users'[u].team = None \/ manager'[users'[u].team] \notin {New, Gone}
    BY <2>1, <2>2 DEF LiveTeam
  <2>5. QED
    BY <2>3, <2>4
<1>5. \A t \in Team : manager'[t] \in User => users'[manager'[t]] \notin {New, Gone}
  BY <1>1, <1>3, Apart DEF RowsOK, Live
<1>6. TeamsHaveDepartments'
  BY <1>1 DEF RowsOK, TeamsHaveDepartments, LiveTeam
<1>7. manager' \in [Team -> User \cup {None, New, Gone}] /\ depts' \subseteq Dept
  BY <1>1 DEF RowsOK
<1>8. RowsOK'
  BY <1>2, <1>4, <1>5, <1>6, <1>7 DEF RowsOK, Live, LiveTeam
<1>9. ManagerInSync'
  <2> SUFFICES ASSUME ~raced, NEW t \in Team, NEW u \in User, Live(u)
               PROVE  manager'[t] = u <=> users'[u].role = "manager" /\ users'[u].team = t
    BY <1>1, <1>3 DEF ManagerInSync
  <2>1. manager[t] = u <=> users[u].role = "manager" /\ users[u].team = t
    BY <1>1 DEF ManagerInSync
  <2>2. QED
    BY <2>1, Apart
<1>10. QED
  BY <1>8, <1>9, DirectlyKeeps

LEMMA WithoutTheirTeam ==
    ASSUME RowsOK, NEW T \in SUBSET Team, NEW u \in User
    PROVE  /\ Live(u) => /\ WithoutTeams(T)[u] \in Row
                         /\ WithoutTeams(T)[u].role = users[u].role /\ WithoutTeams(T)[u].dept = users[u].dept
                         /\ WithoutTeams(T)[u].team = IF users[u].team \in T THEN None ELSE users[u].team
           /\ ~Live(u) => WithoutTeams(T)[u] = users[u]
<1>1. Live(u) => users[u] \in Row
  BY DEF RowsOK, Live
<1>2. WithoutTeams(T)[u] = IF Live(u) /\ users[u].team \in T THEN [users[u] EXCEPT !.team = None] ELSE users[u]
  BY DEF WithoutTeams
<1>3. users[u] \in Row => /\ [users[u] EXCEPT !.team = None] \in Row
                          /\ [users[u] EXCEPT !.team = None].role = users[u].role
                          /\ [users[u] EXCEPT !.team = None].dept = users[u].dept
                          /\ [users[u] EXCEPT !.team = None].team = None
  BY RowFields DEF Row
<1>4. QED
  BY <1>1, <1>2, <1>3

LEMMA DeleteTeamKeeps ==
    ASSUME PeopleInv, NEW by, NEW t \in Team, DeleteTeam(by, t)
    PROVE  PeopleInv'
<1>1. LiveTeam(t) /\ Directly /\ UNCHANGED depts /\ users' = WithoutTeams({t})
      /\ manager' = [manager EXCEPT ![t] = Gone] /\ RowsOK
  BY Unfold DEF DeleteTeam, TeamInScope
<1>2. manager' = [x \in Team |-> IF x \in {t} THEN Gone ELSE manager[x]]
  BY <1>1 DEF RowsOK
<1>3. users' = [u \in User |-> users'[u]]
  BY <1>1 DEF WithoutTeams
<1>4. \A u \in User : IF Live(u)
         THEN /\ users'[u] \in Row
              /\ users'[u].role = users[u].role
              /\ users'[u].team = IF users[u].team \in {t} THEN None ELSE users[u].team
              /\ users'[u].dept = IF users[u].dept \in {} THEN None ELSE users[u].dept
         ELSE users'[u] = users[u]
  BY <1>1, WithoutTheirTeam
<1>5. Go({t}, {})
  BY <1>1, <1>2, <1>3, <1>4 DEF Go
<1>6. QED
  BY <1>1, <1>5, TeamsGo

LEMMA DeleteDepartmentKeeps ==
    ASSUME PeopleInv, NEW d \in Dept, DeleteDepartment(d)
    PROVE  PeopleInv'
<1> DEFINE teams == {t \in Team : LiveTeam(t) /\ DeptOf[t] = d}
<1>1. /\ Directly /\ depts' = depts \ {d} /\ manager' = [t \in Team |-> IF t \in teams THEN Gone ELSE manager[t]]
      /\ users' = [u \in User |-> IF Live(u) /\ users[u].dept = d
                                    THEN [WithoutTeams(teams)[u] EXCEPT !.dept = None] ELSE WithoutTeams(teams)[u]]
  BY DEF DeleteDepartment
<1>2. RowsOK /\ teams \in SUBSET Team
  BY Unfold
<1>3. \A t \in Team : LiveTeam(t) /\ DeptOf[t] \in {d} => t \in teams
  OBVIOUS
<1> HIDE DEF teams
<1>4. users' = [u \in User |-> users'[u]]
  BY <1>1
<1>5. ASSUME NEW u \in User
      PROVE  IF Live(u)
         THEN /\ users'[u] \in Row
              /\ users'[u].role = users[u].role
              /\ users'[u].team = IF users[u].team \in teams THEN None ELSE users[u].team
              /\ users'[u].dept = IF users[u].dept \in {d} THEN None ELSE users[u].dept
         ELSE users'[u] = users[u]
  <2> DEFINE w == WithoutTeams(teams)[u]
  <2>1. /\ Live(u) => /\ w \in Row /\ w.role = users[u].role /\ w.dept = users[u].dept
                      /\ w.team = IF users[u].team \in teams THEN None ELSE users[u].team
        /\ ~Live(u) => w = users[u]
    BY <1>2, WithoutTheirTeam
  <2>2. users'[u] = IF Live(u) /\ users[u].dept = d THEN [w EXCEPT !.dept = None] ELSE w
    BY <1>1
  <2> HIDE DEF w
  <2>3. w \in Row => /\ [w EXCEPT !.dept = None] \in Row /\ [w EXCEPT !.dept = None].role = w.role
                     /\ [w EXCEPT !.dept = None].team = w.team /\ [w EXCEPT !.dept = None].dept = None
    BY RowFields DEF Row
  <2>4. QED
    BY <2>1, <2>2, <2>3
<1>6. Go(teams, {d})
  BY <1>1, <1>3, <1>4, <1>5 DEF Go
<1>7. QED
  BY <1>1, <1>2, <1>6, TeamsGo

LEMMA AddTeamKeeps ==
    ASSUME PeopleInv, NEW by, NEW t \in Team, AddTeam(by, t)
    PROVE  PeopleInv'
<1>1. manager[t] = New /\ DeptOf[t] \in depts /\ Directly /\ manager' = [manager EXCEPT ![t] = None]
      /\ UNCHANGED <<users, depts>> /\ raced' = raced /\ RowsOK /\ ManagerInSync
  BY Unfold DEF AddTeam, Directly
<1>2. \A x \in Team : manager'[x] = IF x = t THEN None ELSE manager[x]
  BY <1>1 DEF RowsOK
<1>3. \A x \in Team : LiveTeam(x) => manager'[x] \notin {New, Gone}
  BY <1>1, <1>2 DEF LiveTeam
<1>4. ASSUME NEW u \in User, Live(u)
      PROVE  /\ users[u].team = None \/ manager'[users[u].team] \notin {New, Gone}
             /\ users[u].dept \in depts \cup {None} /\ users[u].team # t
  <2>1. users[u].team \in Team \cup {None} /\ (users[u].team = None \/ LiveTeam(users[u].team))
    BY <1>1, <1>4, RowFields DEF RowsOK, Live
  <2>2. users[u].team # t
    BY <1>1, <2>1, Apart DEF LiveTeam
  <2>3. QED
    BY <1>1, <1>3, <1>4, <2>1, <2>2 DEF RowsOK
<1>5. manager' \in [Team -> User \cup {None, New, Gone}]
      /\ \A x \in Team : manager'[x] \in User => users[manager'[x]] \notin {New, Gone}
  BY <1>1, <1>2, Apart DEF RowsOK, Live
<1>6. TeamsHaveDepartments'
  BY <1>1, <1>2 DEF RowsOK, TeamsHaveDepartments, LiveTeam
<1>7. RowsOK'
  BY <1>1, <1>4, <1>5, <1>6 DEF RowsOK, Live, LiveTeam
<1>8. ManagerInSync'
  BY <1>1, <1>2, <1>4, Apart DEF ManagerInSync, Live
<1>9. QED
  BY <1>1, <1>7, <1>8, DirectlyKeeps

-------------------------------------------------------------------------------
LEMMA PeopleStep == PeopleInv /\ [Next]_vars => PeopleInv'
<1> SUFFICES ASSUME PeopleInv, [Next]_vars PROVE PeopleInv'
  OBVIOUS
<1>1. ASSUME NEW s \in Slot, Commit(s) \/ Fail(s)
      PROVE  PeopleInv'
  BY <1>1, CommitKeeps, FailKeeps
<1>2. ASSUME NEW s \in FreeSlot, NEW u \in User, NEW by \in Asking,
             \/ \E role \in Role, d \in Dept \cup {None}, t \in Team \cup {None} :
                  AskAdd(s, by, u, role, d, t) \/ AskRole(s, by, u, role, d, t)
             \/ \E t \in Team \cup {None} : AskTeam(s, by, u, t)
             \/ AskSave(s, by, u)
      PROVE  PeopleInv'
  BY <1>2, AskKeeps
<1>3. ASSUME NEW s \in FreeSlot, NEW u \in User,
             (\E d \in depts \cup {None} : AskDepartment(s, u, d)) \/ \E m \in User : AskRemove(s, m, u)
      PROVE  PeopleInv'
  BY <1>3, AskFreelyKeeps
<1>4. ASSUME NEW u \in User, DeleteUser(u)
      PROVE  PeopleInv'
  BY <1>4, DeleteUserKeeps
<1>5. ASSUME NEW t \in Team, NEW by \in Asking, DeleteTeam(by, t) \/ AddTeam(by, t)
      PROVE  PeopleInv'
  BY <1>5, DeleteTeamKeeps, AddTeamKeeps
<1>6. ASSUME NEW d \in Dept, DeleteDepartment(d)
      PROVE  PeopleInv'
  BY <1>6, DeleteDepartmentKeeps
<1>7. CASE UNCHANGED vars
  BY <1>7 DEF vars, PeopleInv, TypeOK, TeamsHaveDepartments, Sound, Formed, Scoped, ManagerInSync, Live, LiveTeam
<1>8. QED
  BY <1>1, <1>2, <1>3, <1>4, <1>5, <1>6, <1>7 DEF Next

LEMMA PeopleInvariant == Spec => []PeopleInv
BY PeopleInit, PeopleStep, PTL DEF Spec

\* Nothing refers to an account, a team or a department that is gone, and unless two
\* requests wrote over each other, Team.manager and User.team agree.
THEOREM ManagersAgree == Spec => []PeopleSafe
<1>1. PeopleInv => PeopleSafe
  BY DEF PeopleInv, PeopleSafe
<1>2. QED
  BY <1>1, PeopleInvariant, PTL

\* A department's Admin changes users and managers of that department only, leaves
\* them there, and makes nobody an admin.
THEOREM AdminsStayWithin == Spec => WithinDepartment
<1> DEFINE Stays(s) ==
      LET q == req[s] IN
      (req'[s] = Idle /\ q.by \in Dept /\ ~Stale(q)) =>
        \A u \in User : users'[u] # users[u] =>
          \/ /\ u = q.user
             /\ Live(u) => users[u].dept = q.by /\ users[u].role \in {"user", "manager"}
             /\ users'[u].dept = q.by /\ users'[u].role \in {"user", "manager"}
          \/ u = q.mgr /\ users'[u] = [users[u] EXCEPT !.team = None]
<1>1. ASSUME PeopleInv, Next, NEW s \in Slot
      PROVE  Stays(s)
  <2> DEFINE q == req[s]
  <2> SUFFICES ASSUME req'[s] = Idle, q.by \in Dept, ~Stale(q), NEW u \in User, users'[u] # users[u]
               PROVE  \/ /\ u = q.user
                         /\ Live(u) => users[u].dept = q.by /\ users[u].role \in {"user", "manager"}
                         /\ users'[u].dept = q.by /\ users'[u].role \in {"user", "manager"}
                      \/ u = q.mgr /\ users'[u] = [users[u] EXCEPT !.team = None]
    OBVIOUS
  <2>1. RowsOK /\ req \in [Slot -> Loaded] /\ Sound(q) /\ q # Idle
    BY <1>1, Unfold, IdleLoaded, Apart
  <2>2. PICK x \in Slot : Commit(x)
    <3>1. ~UNCHANGED users /\ ~Directly
      BY <2>1 DEF Directly
    <3>2. \A x \in FreeSlot, y \in User, by \in Asking :
            /\ \A role \in Role, d \in Dept \cup {None}, t \in Team \cup {None} :
                 ~AskAdd(x, by, y, role, d, t) /\ ~AskRole(x, by, y, role, d, t)
            /\ \A t \in Team \cup {None} : ~AskTeam(x, by, y, t)
            /\ ~AskSave(x, by, y)
      BY <3>1 DEF AskAdd, AskRole, AskTeam, AskSave, Load
    <3>3. \A x \in FreeSlot, y \in User :
            /\ \A d \in depts \cup {None} : ~AskDepartment(x, y, d)
            /\ \A m \in User : ~AskRemove(x, m, y)
      BY <3>1 DEF AskDepartment, AskRemove, Load
    <3>4. /\ \A y \in User : ~DeleteUser(y)
          /\ \A t \in Team, by \in Asking : ~DeleteTeam(by, t) /\ ~AddTeam(by, t)
          /\ \A d \in Dept : ~DeleteDepartment(d)
      BY <3>1 DEF DeleteUser, DeleteTeam, AddTeam, DeleteDepartment
    <3>5. \A x \in Slot : ~Fail(x)
      BY <3>1 DEF Fail
    <3>6. QED
      BY <1>1, <3>2, <3>3, <3>4, <3>5 DEF Next
  <2>3. x = s
    BY <2>1, <2>2 DEF Commit
  <2>4. PICK r \in Row, m \in User \cup {None} :
          /\ Wrote(q.user, r, m) /\ (m # None => m = q.mgr)
          /\ r.dept = q.by /\ r.role \in {"user", "manager"}
    BY <1>1, <2>2, <2>3, CommitWrites DEF WritesWell
  <2>5. users[q.user] = q.row
    BY DEF Stale
  <2>6. Live(q.user) => users[q.user].dept = q.by /\ users[q.user].role \in {"user", "manager"}
    BY <2>1, <2>5 DEF Sound, Formed, Scoped, Live
  <2>7. users'[u] = IF u = q.user THEN r ELSE IF u = m THEN [users[u] EXCEPT !.team = None] ELSE users[u]
    BY <2>4 DEF Wrote
  <2>8. QED
    BY <2>4, <2>6, <2>7, Apart
<1>2. ASSUME PeopleInv, [Next]_vars
      PROVE  [\A s \in Slot : Stays(s)]_vars
  BY <1>1, <1>2
<1>3. QED
  BY <1>2, PeopleInvariant, PTL DEF Spec, WithinDepartment

-------------------------------------------------------------------------------
(* The uploaded files.                                                     *)

Jobs == [pc : {"idle", "stored", "unlink", "form", "store", "save"}, slot : Files!Slot,
         file : Files!FileOrNone, row : [Files!Branding -> Files!FileOrNone]]
Deletion == [pc : {"idle", "next", "exists", "delete"}, todo : SUBSET File, name : Files!FileOrNone,
             selected : 0 .. Cardinality(File), counts : [Files!Result -> 0 .. Cardinality(File)]]
InHand == IF request.pc \in {"exists", "delete"} THEN 1 ELSE 0

\* What a job holds at each of its steps, and in which directory it is.
JobHolds(j) ==
    /\ j \in Jobs
    /\ j.pc \in {"idle", "form", "store"} => j.file = None
    /\ j.pc \in {"idle", "stored", "unlink"} => j.row = Files!NoRow
    /\ j.pc = "stored" => j.file \in File /\ j.slot \notin Files!Branding /\ DirOf[j.file] = Files!Dir(j.slot)
    /\ j.pc = "unlink" => j.file \in File /\ DirOf[j.file] # "branding"
    /\ j.pc = "store" => j.slot \in Files!Branding
    /\ j.pc = "save" /\ j.file # None => j.slot \in Files!Branding /\ j.row[j.slot] = j.file /\ DirOf[j.file] = "branding"
    /\ \A b \in Files!Branding : j.row[b] # None => DirOf[j.row[b]] = "branding"

FilesTyped ==
    /\ ref \in [Files!Slot -> Files!FileOrNone] /\ disk \subseteq File
    /\ job \in [Worker -> Jobs] /\ \A w \in Worker : JobHolds(job[w])
    /\ scan \in [pc : {"idle", "walk"}, names : SUBSET File, cached : BOOLEAN, orphans : SUBSET File]
    /\ jobs \in 0 .. MaxJobs /\ scans \in 0 .. MaxScans /\ deletes \in 0 .. MaxDeletes
    /\ lost \subseteq File /\ left \subseteq File
    /\ \A s \in Files!Slot : ref[s] # None => DirOf[ref[s]] = Files!Dir(s)

\* Each name of a deletion is pending, in hand or counted once.
DeletionTyped ==
    /\ request \in Deletion
    /\ request.selected = Cardinality(request.todo) + InHand + request.counts["deleted"] + request.counts["referenced"]
                      + request.counts["missing"] + request.counts["failed"]
    /\ request.pc \in {"exists", "delete"} => request.name \in File
    /\ request.pc = "idle" => request.todo = {}

\* A file of which nobody lost sight is there for whoever refers to it or is about to; one
\* worker alone saves it or deletes it; and one that is being deleted has nobody else.
Present(f) ==
    /\ \A s \in Files!Asked : ref[s] = f => f \in disk
    /\ \A w \in Worker : (job[w].pc = "stored" /\ job[w].file = f) \/ job[w].row["logo"] = f => f \in disk
Single(f) ==
    \A w \in Worker : job[w].pc \in {"stored", "unlink"} /\ job[w].file = f =>
        /\ ref["message"] # f /\ ref["proof"] # f
        /\ \A v \in Worker \ {w} : job[v].file # f
Doomed(f) ==
    request.pc \in {"exists", "delete"} /\ request.name = f =>
        /\ \A s \in Files!Asked : ref[s] # f
        /\ \A w \in Worker : job[w].file # f /\ job[w].row["logo"] # f

InSight == \A f \in File \ lost : Present(f) /\ Single(f) /\ Doomed(f)

MediaInv == FilesTyped /\ DeletionTyped /\ InSight /\ Files!LeftoversExplained

\* The instance has its own copies of the operators on finite sets: they are the same.
LEMMA FileSets ==
    /\ \A S : Files!IsFiniteSet(S) <=> IsFiniteSet(S)
    /\ \A S : Files!Cardinality(S) = Cardinality(S)
<1>1. ASSUME NEW S PROVE Files!IsFiniteSet(S) <=> IsFiniteSet(S)
  BY DEF Files!IsFiniteSet, IsFiniteSet
<1>2. ASSUME NEW S PROVE Files!Cardinality(S) = Cardinality(S)
  BY DEF Files!Cardinality, Cardinality
<1>3. QED
  BY <1>1, <1>2

LEMMA MediaConsts ==
    /\ DirOf \in [File -> {"message", "proof", "branding"}] /\ IsFiniteSet(File) /\ None \notin File
    /\ MaxJobs \in Nat /\ MaxScans \in Nat /\ MaxDeletes \in Nat
BY MediaAssumption, FileSets DEF Files!MediaConstants

LEMMA FileSlots ==
    /\ Files!Slot = {"message", "proof", "logo", "custom"} /\ Files!Branding = {"logo", "custom"} /\ Files!Asked = {"message", "proof", "logo"}
    /\ Files!Dir("message") = "message" /\ Files!Dir("proof") = "proof" /\ Files!Dir("logo") = "branding" /\ Files!Dir("custom") = "branding"
BY DEF Files!Slot, Files!Branding, Files!Asked, Files!Dir

LEMMA IdleHolds == JobHolds(Files!Idle) /\ Files!Idle.pc = "idle" /\ Files!Idle.file = None /\ Files!Idle.row = Files!NoRow /\ Files!Idle.row["logo"] = None
<1>1. Files!NoRow \in [Files!Branding -> Files!FileOrNone] /\ \A b \in Files!Branding : Files!NoRow[b] = None
  BY DEF Files!NoRow, Files!FileOrNone
<1>2. QED
  BY <1>1, FileSlots DEF Files!Idle, JobHolds, Jobs, Files!FileOrNone

\* A worker moves on: what is to be shown is of the files.
LEMMA WorkerMoves ==
    ASSUME MediaInv, NEW w \in Worker, NEW j, JobHolds(j), job' = [job EXCEPT ![w] = j],
           ref' \in [Files!Slot -> Files!FileOrNone], disk' \subseteq File, lost' \subseteq File, left' \subseteq File, jobs' \in 0 .. MaxJobs,
           \A s \in Files!Slot : ref'[s] # None => DirOf[ref'[s]] = Files!Dir(s),
           UNCHANGED <<scan, request, scans, deletes>>, InSight', Files!LeftoversExplained'
    PROVE  MediaInv'
<1>1. job \in [Worker -> Jobs] /\ j \in Jobs
  BY DEF MediaInv, FilesTyped, JobHolds
<1>2. job' \in [Worker -> Jobs] /\ job'[w] = j /\ \A v \in Worker \ {w} : job'[v] = job[v]
  BY <1>1
<1>3. \A v \in Worker : JobHolds(job'[v])
  BY <1>2 DEF MediaInv, FilesTyped
<1>4. FilesTyped'
  BY <1>2, <1>3 DEF MediaInv, FilesTyped, JobHolds
<1>5. DeletionTyped'
  BY DEF MediaInv, DeletionTyped, InHand
<1>6. QED
  BY <1>4, <1>5 DEF MediaInv

\* What a file that is written means for those who refer to it.
LEMMA WrittenKeeps ==
    ASSUME MediaInv, NEW w \in Worker, NEW j, JobHolds(j), job' = [job EXCEPT ![w] = j],
           NEW f \in File, NEW s \in Files!Slot, Files!Written(f, s), j.file = f, job[w].file = None,
           j.row["logo"] \in {job[w].row["logo"], f},
           jobs' \in 0 .. MaxJobs, UNCHANGED <<ref, scan, request, scans, deletes>>
    PROVE  MediaInv'
<1>1. job' \in [Worker -> Jobs] /\ job'[w] = j /\ \A v \in Worker \ {w} : job'[v] = job[v]
  BY DEF MediaInv, FilesTyped, JobHolds
<1>2. disk' = disk \cup {f} /\ left' = left \ {f} /\ f \notin disk
      /\ lost' = IF Files!Held(f) THEN lost \cup {f} ELSE lost \ {f}
  BY DEF Files!Written
<1>3. ASSUME NEW g \in File \ lost' PROVE Present(g)' /\ Single(g)' /\ Doomed(g)'
  <2>1. CASE g # f
    <3>1. g \in File \ lost /\ Present(g) /\ Single(g) /\ Doomed(g)
      BY <1>2, <1>3, <2>1 DEF MediaInv, InSight
    <3>2. Present(g)'
      BY <1>1, <1>2, <2>1, <3>1 DEF Present
    <3>3. Single(g)'
      BY <1>1, <1>2, <2>1, <3>1 DEF Single
    <3>4. Doomed(g)'
      BY <1>1, <1>2, <2>1, <3>1 DEF Doomed
    <3>5. QED
      BY <3>2, <3>3, <3>4
  <2>2. CASE g = f
    <3>1. ~Files!Held(f)
      BY <1>2, <1>3, <2>2
    <3>2. /\ f # request.name /\ \A t \in Files!Slot : ref[t] # f
          /\ \A v \in Worker : job[v].file # f /\ \A b \in Files!Branding : job[v].row[b] # f
      BY <3>1 DEF Files!Held, Files!Pending
    <3>3. QED
      BY <1>1, <1>2, <2>2, <3>2, FileSlots DEF Present, Single, Doomed
  <2>3. QED
    BY <2>1, <2>2
<1>4. Files!LeftoversExplained'
  <2> SUFFICES ASSUME NEW g \in disk', g \notin {ref'[t] : t \in Files!Slot}, g \notin {job'[v].file : v \in Worker}
               PROVE  g \in left'
    BY DEF Files!LeftoversExplained
  <2>1. g # f /\ g \in disk
    BY <1>1, <1>2
  <2>2. g \notin {ref[t] : t \in Files!Slot} /\ \A v \in Worker \ {w} : job[v].file # g
    BY <1>1
  <2>3. g # job[w].file
    BY <2>1, MediaConsts DEF MediaInv, FilesTyped
  <2>4. QED
    BY <1>2, <2>1, <2>2, <2>3 DEF MediaInv, Files!LeftoversExplained
<1>5. disk' \subseteq File /\ lost' \subseteq File /\ left' \subseteq File
  BY <1>2 DEF MediaInv, FilesTyped
<1>6. QED
  BY <1>3, <1>4, <1>5, WorkerMoves DEF MediaInv, FilesTyped, InSight

LEMMA StoreKeeps == ASSUME MediaInv, NEW w \in Worker, Files!Store(w) PROVE MediaInv'
<1>1. PICK s \in Files!Slot \ Files!Branding, f \in File : Files!Written(f, s) /\ job' = [job EXCEPT ![w] = [Files!Idle EXCEPT !.pc = "stored", !.slot = s, !.file = f]]
  BY DEF Files!Store
<1> DEFINE j == [Files!Idle EXCEPT !.pc = "stored", !.slot = s, !.file = f]
<1>2. job[w].pc = "idle" /\ jobs' \in 0 .. MaxJobs /\ UNCHANGED <<ref, scan, request, scans, deletes>>
  BY MediaConsts DEF Files!Store, Files!Begin, MediaInv, FilesTyped
<1>3. job[w].file = None /\ job[w].row = Files!NoRow
  BY <1>2 DEF MediaInv, FilesTyped, JobHolds
<1>4. j.pc = "stored" /\ j.slot = s /\ j.file = f /\ j.row = Files!NoRow /\ j \in Jobs /\ Files!NoRow["logo"] = None
  BY IdleHolds, FileSlots DEF Files!Idle, JobHolds, Jobs, Files!FileOrNone
<1>5. JobHolds(j)
  BY <1>1, <1>4, FileSlots DEF JobHolds, Files!Written, Files!NoRow
<1> HIDE DEF j
<1>6. QED
  BY <1>1, <1>2, <1>3, <1>4, <1>5, WrittenKeeps DEF j

LEMMA StoreLogoKeeps == ASSUME MediaInv, NEW w \in Worker, Files!StoreLogo(w) PROVE MediaInv'
<1>1. PICK f \in File : Files!Written(f, job[w].slot)
        /\ job' = [job EXCEPT ![w].pc = "save", ![w].file = f, ![w].row[job[w].slot] = f]
  BY DEF Files!StoreLogo
<1>2. job[w].pc = "store" /\ jobs' = jobs /\ UNCHANGED <<ref, scan, request, scans, deletes>>
  BY DEF Files!StoreLogo
<1>3. job[w] \in Jobs /\ JobHolds(job[w]) /\ job[w].slot \in Files!Branding /\ job[w].slot \in Files!Slot /\ job[w].file = None
  BY <1>2, FileSlots DEF MediaInv, FilesTyped, JobHolds
<1> DEFINE j == [job[w] EXCEPT !.pc = "save", !.file = f, !.row[job[w].slot] = f]
<1>4. job' = [job EXCEPT ![w] = j]
  BY <1>1, <1>3 DEF MediaInv, FilesTyped
<1>5. DirOf[f] = "branding"
  BY <1>1, <1>3, FileSlots DEF Files!Written
<1>6. /\ j \in Jobs /\ j.pc = "save" /\ j.slot = job[w].slot /\ j.file = f
      /\ j.row \in [Files!Branding -> Files!FileOrNone] /\ j.row[job[w].slot] = f
      /\ \A b \in Files!Branding : j.row[b] \in {job[w].row[b], f}
  BY <1>3 DEF Jobs, Files!FileOrNone
<1> HIDE DEF j
<1>7. JobHolds(j)
  BY <1>3, <1>5, <1>6 DEF JobHolds, Jobs, Files!FileOrNone
<1>8. jobs' \in 0 .. MaxJobs
  BY <1>2 DEF MediaInv, FilesTyped
<1>9. QED
  BY <1>1, <1>2, <1>3, <1>4, <1>6, <1>7, <1>8, WrittenKeeps, FileSlots

LEMMA FileCommitKeeps == ASSUME MediaInv, NEW w \in Worker, Files!Commit(w) PROVE MediaInv'
<1> DEFINE s == job[w].slot
           f == job[w].file
<1>1. /\ job[w].pc = "stored" /\ ref' = [ref EXCEPT ![s] = f] /\ job' = [job EXCEPT ![w] = Files!Idle]
      /\ left' = (IF ref[s] # f /\ ref[s] # None THEN left \cup {ref[s]} ELSE left)
      /\ UNCHANGED <<disk, scan, request, jobs, scans, deletes, lost>>
  BY DEF Files!Commit, Files!Replaced, Files!End
<1>2. f \in File /\ s \in {"message", "proof"} /\ DirOf[f] = s /\ job[w].row = Files!NoRow
  BY <1>1, FileSlots DEF MediaInv, FilesTyped, JobHolds, Jobs
<1> HIDE DEF s, f
<1>3. ref' \in [Files!Slot -> Files!FileOrNone] /\ ref'[s] = f /\ \A t \in Files!Slot \ {s} : ref'[t] = ref[t]
  BY <1>1, <1>2, FileSlots DEF MediaInv, FilesTyped, Files!FileOrNone
<1>4. \A t \in Files!Slot : ref'[t] # None => DirOf[ref'[t]] = Files!Dir(t)
  BY <1>2, <1>3, FileSlots DEF MediaInv, FilesTyped
<1>5. job' \in [Worker -> Jobs] /\ job'[w] = Files!Idle /\ \A v \in Worker \ {w} : job'[v] = job[v]
  BY <1>1, IdleHolds DEF MediaInv, FilesTyped, JobHolds
<1>6. ASSUME NEW g \in File \ lost' PROVE Present(g)' /\ Single(g)' /\ Doomed(g)'
  <2>1. g \in File \ lost /\ Present(g) /\ Single(g) /\ Doomed(g)
    BY <1>1, <1>6 DEF MediaInv, InSight
  <2>2. Present(g)'
    BY <1>1, <1>2, <1>3, <1>5, <2>1, IdleHolds, MediaConsts, FileSlots DEF Present, f
  <2>3. Single(g)'
    BY <1>1, <1>2, <1>3, <1>5, <2>1, IdleHolds, MediaConsts, FileSlots DEF Single, f
  <2>4. Doomed(g)'
    BY <1>1, <1>2, <1>3, <1>5, <2>1, IdleHolds, MediaConsts, FileSlots DEF Doomed, f
  <2>5. QED
    BY <2>2, <2>3, <2>4
<1>7. Files!LeftoversExplained'
  <2> SUFFICES ASSUME NEW g \in disk', g \notin {ref'[t] : t \in Files!Slot}, g \notin {job'[v].file : v \in Worker}
               PROVE  g \in left'
    BY DEF Files!LeftoversExplained
  <2>1. g # f /\ \A v \in Worker \ {w} : job[v].file # g
    BY <1>2, <1>3, <1>5, FileSlots
  <2>2. CASE g = ref[s]
    BY <1>1, <2>1, <2>2, MediaConsts DEF MediaInv, FilesTyped
  <2>3. CASE g # ref[s]
    <3>1. g \notin {ref[t] : t \in Files!Slot} /\ g \notin {job[v].file : v \in Worker} /\ g \in disk
      BY <1>1, <1>3, <2>1, <2>3 DEF f
    <3>2. QED
      BY <1>1, <3>1 DEF MediaInv, Files!LeftoversExplained
  <2>4. QED
    BY <2>2, <2>3
<1>8. left' \subseteq File /\ disk' \subseteq File /\ lost' \subseteq File /\ jobs' \in 0 .. MaxJobs
  BY <1>1, <1>2, FileSlots DEF MediaInv, FilesTyped, Files!FileOrNone
<1>9. QED
  BY <1>1, <1>3, <1>4, <1>6, <1>7, <1>8, IdleHolds, WorkerMoves DEF InSight

\* What a worker's other steps do to the files: each of them refers to what it did, or to less.
LEMMA DieKeeps == ASSUME MediaInv, NEW w \in Worker, Files!Die(w) PROVE MediaInv'
<1>1. /\ job' = [job EXCEPT ![w] = Files!Idle] /\ UNCHANGED <<ref, disk, scan, request, jobs, scans, deletes, lost>>
      /\ left' = (IF job[w].file # None THEN left \cup {job[w].file} ELSE left)
  BY DEF Files!Die, Files!End
<1>2. job' \in [Worker -> Jobs] /\ job'[w] = Files!Idle /\ \A v \in Worker \ {w} : job'[v] = job[v]
  BY <1>1, IdleHolds DEF MediaInv, FilesTyped, JobHolds
<1>3. ASSUME NEW g \in File \ lost' PROVE Present(g)' /\ Single(g)' /\ Doomed(g)'
  <2>1. g \in File \ lost /\ Present(g) /\ Single(g) /\ Doomed(g)
    BY <1>1, <1>3 DEF MediaInv, InSight
  <2>2. QED
    BY <1>1, <1>2, <2>1, IdleHolds, MediaConsts, FileSlots DEF Present, Single, Doomed
<1>4. Files!LeftoversExplained'
  <2> SUFFICES ASSUME NEW g \in disk', g \notin {ref'[t] : t \in Files!Slot}, g \notin {job'[v].file : v \in Worker}
               PROVE  g \in left'
    BY DEF Files!LeftoversExplained
  <2>1. g \in File /\ g # None
    BY <1>1, MediaConsts DEF MediaInv, FilesTyped
  <2>2. CASE g = job[w].file
    BY <1>1, <2>1, <2>2
  <2>3. CASE g # job[w].file
    BY <1>1, <1>2, <2>3 DEF MediaInv, Files!LeftoversExplained
  <2>4. QED
    BY <2>2, <2>3
<1>5. left' \subseteq File
  BY <1>1 DEF MediaInv, FilesTyped, Jobs, Files!FileOrNone
<1>6. QED
  BY <1>1, <1>3, <1>4, <1>5, IdleHolds, WorkerMoves DEF InSight, MediaInv, FilesTyped

LEMMA DeleteRowKeeps == ASSUME MediaInv, NEW w \in Worker, Files!DeleteRow(w) PROVE MediaInv'
<1>1. PICK s \in Files!Slot \ Files!Branding : /\ ref[s] # None /\ ref' = [ref EXCEPT ![s] = None]
                                               /\ job' = [job EXCEPT ![w] = [Files!Idle EXCEPT !.pc = "unlink", !.file = ref[s]]]
  BY DEF Files!DeleteRow
<1> DEFINE f == ref[s]
           j == [Files!Idle EXCEPT !.pc = "unlink", !.file = f]
<1>2. job[w].pc = "idle" /\ jobs' \in 0 .. MaxJobs /\ UNCHANGED <<disk, scan, request, scans, deletes, lost, left>>
  BY MediaConsts DEF Files!DeleteRow, Files!Begin, MediaInv, FilesTyped, Files!history
<1>3. f \in File /\ s \in {"message", "proof"} /\ DirOf[f] = s /\ job[w].file = None
  BY <1>1, <1>2, FileSlots DEF MediaInv, FilesTyped, Files!FileOrNone, JobHolds
<1>4. j.pc = "unlink" /\ j.file = f /\ j.row = Files!NoRow /\ Files!NoRow["logo"] = None /\ j \in Jobs
  BY <1>3, IdleHolds, FileSlots DEF Files!Idle, JobHolds, Jobs, Files!FileOrNone
<1>5. JobHolds(j)
  BY <1>3, <1>4, FileSlots DEF JobHolds, Files!NoRow
<1> HIDE DEF f, j
<1>6. job' = [job EXCEPT ![w] = j]
  BY <1>1 DEF f, j
<1>7. job' \in [Worker -> Jobs] /\ job'[w] = j /\ \A v \in Worker \ {w} : job'[v] = job[v]
  BY <1>4, <1>6 DEF MediaInv, FilesTyped
<1>8. ref' \in [Files!Slot -> Files!FileOrNone] /\ ref'[s] = None /\ \A t \in Files!Slot \ {s} : ref'[t] = ref[t]
  BY <1>1, FileSlots DEF MediaInv, FilesTyped, Files!FileOrNone
<1>9. ASSUME NEW g \in File \ lost' PROVE Present(g)' /\ Single(g)' /\ Doomed(g)'
  <2>1. g \in File \ lost /\ Present(g) /\ Single(g) /\ Doomed(g)
    BY <1>2, <1>9 DEF MediaInv, InSight
  <2>2. Present(g)'
    BY <1>2, <1>4, <1>7, <1>8, <2>1, MediaConsts, FileSlots DEF Present
  <2>3. \A t \in Files!Slot \ {s} : ref[t] # f \/ t \in Files!Branding
    BY <1>3, FileSlots, MediaConsts DEF MediaInv, FilesTyped
  <2>4. Single(g)'
    <3> SUFFICES ASSUME NEW v \in Worker, job'[v].pc \in {"stored", "unlink"}, job'[v].file = g
                 PROVE  /\ ref'["message"] # g /\ ref'["proof"] # g
                        /\ \A u \in Worker \ {v} : job'[u].file # g
      BY DEF Single
    <3>1. CASE v = w
      <4>1. g = f
        BY <1>4, <1>7, <3>1
      <4>2. ref'["message"] # g /\ ref'["proof"] # g
        BY <1>3, <1>8, <2>3, <4>1, MediaConsts, FileSlots
      <4>3. \A u \in Worker \ {w} : job[u].file # f
        <5> SUFFICES ASSUME NEW u \in Worker \ {w}, job[u].file = f PROVE FALSE
          OBVIOUS
        <5>1. job[u].pc \in {"stored", "unlink"}
          BY <1>3, MediaConsts DEF MediaInv, FilesTyped, JobHolds, Jobs
        <5>2. QED
          BY <1>3, <2>1, <4>1, <5>1 DEF Single, f
      <4>4. QED
        BY <1>7, <3>1, <4>1, <4>2, <4>3
    <3>2. CASE v # w
      <4>1. job[v].pc \in {"stored", "unlink"} /\ job[v].file = g /\ ref["message"] # g /\ ref["proof"] # g
            /\ \A u \in Worker \ {v} : job[u].file # g
        BY <1>7, <2>1, <3>2 DEF Single
      <4>2. g # f
        BY <1>3, <4>1 DEF f
      <4>3. QED
        BY <1>4, <1>7, <1>8, <4>1, <4>2, MediaConsts, FileSlots
    <3>3. QED
      BY <3>1, <3>2
  <2>5. Doomed(g)'
    BY <1>2, <1>3, <1>4, <1>7, <1>8, <2>1, MediaConsts, FileSlots DEF Doomed, f
  <2>6. QED
    BY <2>2, <2>4, <2>5
<1>10. Files!LeftoversExplained'
  <2> SUFFICES ASSUME NEW g \in disk', g \notin {ref'[t] : t \in Files!Slot}, g \notin {job'[v].file : v \in Worker}
               PROVE  g \in left'
    BY DEF Files!LeftoversExplained
  <2>1. g # f /\ g # None /\ g \in disk
    BY <1>2, <1>4, <1>7, MediaConsts DEF MediaInv, FilesTyped
  <2>2. g \notin {ref[t] : t \in Files!Slot} /\ g \notin {job[v].file : v \in Worker}
    BY <1>3, <1>7, <1>8, <2>1 DEF f
  <2>3. QED
    BY <1>2, <2>1, <2>2 DEF MediaInv, Files!LeftoversExplained
<1>11. \A t \in Files!Slot : ref'[t] # None => DirOf[ref'[t]] = Files!Dir(t)
  BY <1>8, FileSlots DEF MediaInv, FilesTyped
<1>12. QED
  BY <1>2, <1>5, <1>6, <1>8, <1>9, <1>10, <1>11, WorkerMoves DEF InSight, MediaInv, FilesTyped

LEMMA RemoveFileKeeps == ASSUME MediaInv, NEW w \in Worker, Files!RemoveFile(w) PROVE MediaInv'
<1> DEFINE f == job[w].file
<1>1. /\ job[w].pc = "unlink" /\ disk' = disk \ {f} /\ job' = [job EXCEPT ![w] = Files!Idle]
      /\ UNCHANGED <<ref, scan, request, jobs, scans, deletes, lost, left>>
  BY DEF Files!RemoveFile, Files!End, Files!history
<1>2. f \in File /\ DirOf[f] # "branding" /\ job[w].row["logo"] = None
  BY <1>1, FileSlots DEF MediaInv, FilesTyped, JobHolds, Files!NoRow
<1>3. job' \in [Worker -> Jobs] /\ job'[w] = Files!Idle /\ \A v \in Worker \ {w} : job'[v] = job[v]
  BY <1>1, IdleHolds DEF MediaInv, FilesTyped, JobHolds
<1>4. ASSUME NEW g \in File \ lost' PROVE Present(g)' /\ Single(g)' /\ Doomed(g)'
  <2>1. g \in File \ lost /\ Present(g) /\ Single(g) /\ Doomed(g)
    BY <1>1, <1>4 DEF MediaInv, InSight
  <2>2. Single(g)' /\ Doomed(g)'
    BY <1>1, <1>3, <2>1, IdleHolds, MediaConsts, FileSlots DEF Single, Doomed
  <2>3. CASE g # f
    BY <1>1, <1>3, <2>1, <2>2, <2>3, IdleHolds, MediaConsts, FileSlots DEF Present
  <2>4. CASE g = f
    <3>1. \A s \in Files!Asked : ref[s] # f
      <4>1. ref["message"] # f /\ ref["proof"] # f
        BY <1>1, <2>1, <2>4 DEF Single
      <4>2. ref["logo"] # f
        BY <1>2, FileSlots, MediaConsts DEF MediaInv, FilesTyped
      <4>3. QED
        BY <4>1, <4>2, FileSlots
    <3>2. \A v \in Worker \ {w} : job[v].file # f /\ job[v].row["logo"] # f
      BY <1>1, <1>2, <2>1, <2>4, MediaConsts, FileSlots DEF Single, MediaInv, FilesTyped, JobHolds
    <3>3. Present(g)'
      BY <1>1, <1>2, <1>3, <2>4, <3>1, <3>2, IdleHolds, MediaConsts DEF Present
    <3>4. QED
      BY <2>2, <3>3
  <2>5. QED
    BY <2>3, <2>4
<1>5. Files!LeftoversExplained'
  <2> SUFFICES ASSUME NEW g \in disk', g \notin {ref'[t] : t \in Files!Slot}, g \notin {job'[v].file : v \in Worker}
               PROVE  g \in left'
    BY DEF Files!LeftoversExplained
  <2>1. g # f /\ g \in disk
    BY <1>1
  <2>2. QED
    BY <1>1, <1>3, <2>1 DEF MediaInv, Files!LeftoversExplained
<1>6. QED
  BY <1>1, <1>4, <1>5, IdleHolds, WorkerMoves DEF InSight, MediaInv, FilesTyped

LEMMA LoadFormKeeps == ASSUME MediaInv, NEW w \in Worker, Files!LoadForm(w) PROVE MediaInv'
<1> DEFINE j == [Files!Idle EXCEPT !.pc = "form", !.row = [b \in Files!Branding |-> ref[b]]]
<1>1. /\ job[w].pc = "idle" /\ jobs' \in 0 .. MaxJobs /\ job' = [job EXCEPT ![w] = j]
      /\ UNCHANGED <<ref, disk, scan, request, scans, deletes, lost, left>>
  BY MediaConsts DEF Files!LoadForm, Files!Begin, MediaInv, FilesTyped, Files!history
<1>2. job[w].file = None
  BY <1>1 DEF MediaInv, FilesTyped, JobHolds
<1>3. j \in Jobs /\ j.pc = "form" /\ j.file = None /\ \A b \in Files!Branding : j.row[b] = ref[b]
  BY IdleHolds, FileSlots DEF Files!Idle, JobHolds, Jobs, Files!FileOrNone, MediaInv, FilesTyped
<1>4. JobHolds(j)
  BY <1>3, FileSlots DEF JobHolds, MediaInv, FilesTyped
<1> HIDE DEF j
<1>5. job' \in [Worker -> Jobs] /\ job'[w] = j /\ \A v \in Worker \ {w} : job'[v] = job[v]
  BY <1>1, <1>3 DEF MediaInv, FilesTyped
<1>6. ASSUME NEW g \in File \ lost' PROVE Present(g)' /\ Single(g)' /\ Doomed(g)'
  <2>1. g \in File \ lost /\ Present(g) /\ Single(g) /\ Doomed(g)
    BY <1>1, <1>6 DEF MediaInv, InSight
  <2>2. QED
    BY <1>1, <1>3, <1>5, <2>1, MediaConsts, FileSlots DEF Present, Single, Doomed
<1>7. Files!LeftoversExplained'
  BY <1>1, <1>2, <1>3, <1>5 DEF MediaInv, Files!LeftoversExplained
<1>8. QED
  BY <1>1, <1>4, <1>6, <1>7, WorkerMoves DEF InSight, MediaInv, FilesTyped

\* A form goes on: it refers to no more than it did.
LEMMA FormKeeps ==
    ASSUME MediaInv, NEW w \in Worker, NEW j, JobHolds(j), job' = [job EXCEPT ![w] = j], job[w].pc = "form",
           j.pc \in {"store", "save"}, j.file = None, \A b \in Files!Branding : j.row[b] \in {job[w].row[b], None},
           NEW gone \in SUBSET File, disk' = disk \ gone, lost' = lost \cup gone,
           UNCHANGED <<ref, scan, request, jobs, scans, deletes, left>>
    PROVE  MediaInv'
<1>1. job[w].file = None
  BY DEF MediaInv, FilesTyped, JobHolds
<1>2. job' \in [Worker -> Jobs] /\ job'[w] = j /\ \A v \in Worker \ {w} : job'[v] = job[v]
  BY DEF MediaInv, FilesTyped, JobHolds
<1>3. ASSUME NEW g \in File \ lost' PROVE Present(g)' /\ Single(g)' /\ Doomed(g)'
  <2>1. g \in File \ lost /\ g \notin gone /\ Present(g) /\ Single(g) /\ Doomed(g)
    BY <1>3 DEF MediaInv, InSight
  <2>2. Present(g)'
    BY <1>2, <2>1, MediaConsts, FileSlots DEF Present
  <2>3. Single(g)' /\ Doomed(g)'
    BY <1>1, <1>2, <2>1, MediaConsts, FileSlots DEF Single, Doomed
  <2>4. QED
    BY <2>2, <2>3
<1>4. Files!LeftoversExplained'
  BY <1>1, <1>2 DEF MediaInv, Files!LeftoversExplained
<1>5. QED
  BY <1>3, <1>4, WorkerMoves DEF InSight, MediaInv, FilesTyped

LEMMA FormsKeep == ASSUME MediaInv, NEW w \in Worker, Files!ChangeText(w) \/ Files!RemoveLogo(w) \/ Files!ChooseLogo(w) PROVE MediaInv'
<1>1. job[w].pc = "form" /\ UNCHANGED <<ref, scan, request, jobs, scans, deletes, left>>
  BY DEF Files!ChangeText, Files!RemoveLogo, Files!ChooseLogo, Files!history
<1>2. job \in [Worker -> Jobs] /\ JobHolds(job[w]) /\ job[w] \in Jobs /\ job[w].file = None
  BY <1>1 DEF MediaInv, FilesTyped, JobHolds
<1>3. CASE Files!ChangeText(w)
  <2> DEFINE j == [job[w] EXCEPT !.pc = "save"]
  <2>1. job' = [job EXCEPT ![w] = j] /\ disk' = disk \ {} /\ lost' = lost \cup {}
    BY <1>2, <1>3 DEF Files!ChangeText, Files!Step, Files!history
  <2>2. JobHolds(j) /\ j.pc = "save" /\ j.file = None /\ j.row = job[w].row
    BY <1>2 DEF JobHolds, Jobs
  <2> HIDE DEF j
  <2>3. {} \in SUBSET File /\ \A b \in Files!Branding : j.row[b] \in {job[w].row[b], None}
    BY <2>2
  <2>4. QED
    BY <1>1, <2>1, <2>2, <2>3, FormKeeps
<1>4. CASE Files!RemoveLogo(w)
  <2>1. PICK b \in Files!Branding, next \in {"save", "store"} :
          /\ job[w].row[b] # None /\ disk' = disk \ {job[w].row[b]} /\ lost' = lost \cup {job[w].row[b]}
          /\ job' = [job EXCEPT ![w].pc = next, ![w].slot = b, ![w].row[b] = None]
    BY <1>4 DEF Files!RemoveLogo
  <2> DEFINE j == [job[w] EXCEPT !.pc = next, !.slot = b, !.row[b] = None]
  <2>2. job' = [job EXCEPT ![w] = j]
    BY <1>2, <2>1
  <2>3. /\ j \in Jobs /\ j.pc = next /\ j.slot = b /\ j.file = None /\ j.row \in [Files!Branding -> Files!FileOrNone]
        /\ j.row[b] = None /\ \A c \in Files!Branding \ {b} : j.row[c] = job[w].row[c]
    BY <1>2, FileSlots DEF Jobs, Files!FileOrNone
  <2> HIDE DEF j
  <2>4. JobHolds(j)
    BY <1>2, <2>3 DEF JobHolds
  <2>5. {job[w].row[b]} \in SUBSET File
    BY <1>2, <2>1 DEF Jobs, Files!FileOrNone
  <2>6. \A c \in Files!Branding : j.row[c] \in {job[w].row[c], None}
    BY <2>3
  <2>7. QED
    BY <1>1, <2>1, <2>2, <2>3, <2>4, <2>5, <2>6, FormKeeps
<1>5. CASE Files!ChooseLogo(w)
  <2>1. PICK b \in Files!Branding : job' = [job EXCEPT ![w].pc = "store", ![w].slot = b]
    BY <1>5 DEF Files!ChooseLogo
  <2> DEFINE j == [job[w] EXCEPT !.pc = "store", !.slot = b]
  <2>2. job' = [job EXCEPT ![w] = j] /\ disk' = disk \ {} /\ lost' = lost \cup {}
    BY <1>2, <1>5, <2>1 DEF Files!ChooseLogo, Files!history
  <2>3. JobHolds(j) /\ j.pc = "store" /\ j.file = None /\ j.row = job[w].row
    BY <1>2, FileSlots DEF JobHolds, Jobs
  <2> HIDE DEF j
  <2>4. {} \in SUBSET File /\ \A c \in Files!Branding : j.row[c] \in {job[w].row[c], None}
    BY <2>3
  <2>5. QED
    BY <1>1, <2>2, <2>3, <2>4, FormKeeps
<1>6. QED
  BY <1>3, <1>4, <1>5

LEMMA SaveRowKeeps == ASSUME MediaInv, NEW w \in Worker, Files!SaveRow(w) PROVE MediaInv'
<1> DEFINE old == {ref[b] : b \in {c \in Files!Branding : ref[c] \notin {None, job[w].row[c]}}}
<1>1. /\ job[w].pc = "save" /\ ref' = [s \in Files!Slot |-> IF s \in Files!Branding THEN job[w].row[s] ELSE ref[s]]
      /\ left' = left \cup old /\ job' = [job EXCEPT ![w] = Files!Idle]
      /\ UNCHANGED <<disk, scan, request, jobs, scans, deletes, lost>>
  BY DEF Files!SaveRow, Files!End
<1>2. job[w] \in Jobs /\ JobHolds(job[w])
  BY DEF MediaInv, FilesTyped
<1>3. ref' \in [Files!Slot -> Files!FileOrNone] /\ \A t \in Files!Slot : ref'[t] # None => DirOf[ref'[t]] = Files!Dir(t)
  BY <1>1, <1>2, FileSlots DEF MediaInv, FilesTyped, JobHolds, Jobs
<1>4. /\ ref'["message"] = ref["message"] /\ ref'["proof"] = ref["proof"]
      /\ \A b \in Files!Branding : ref'[b] = job[w].row[b]
  BY <1>1, FileSlots
<1>5. job' \in [Worker -> Jobs] /\ job'[w] = Files!Idle /\ \A v \in Worker \ {w} : job'[v] = job[v]
  BY <1>1, IdleHolds DEF MediaInv, FilesTyped, JobHolds
<1>6. ASSUME NEW g \in File \ lost' PROVE Present(g)' /\ Single(g)' /\ Doomed(g)'
  <2>1. g \in File \ lost /\ Present(g) /\ Single(g) /\ Doomed(g)
    BY <1>1, <1>6 DEF MediaInv, InSight
  <2>2. Present(g)'
    BY <1>1, <1>4, <1>5, <2>1, IdleHolds, MediaConsts, FileSlots DEF Present
  <2>3. Single(g)' /\ Doomed(g)'
    BY <1>1, <1>4, <1>5, <2>1, IdleHolds, MediaConsts, FileSlots DEF Single, Doomed
  <2>4. QED
    BY <2>2, <2>3
<1>7. Files!LeftoversExplained'
  <2> SUFFICES ASSUME NEW g \in disk', g \notin {ref'[t] : t \in Files!Slot}, g \notin {job'[v].file : v \in Worker}
               PROVE  g \in left'
    BY DEF Files!LeftoversExplained
  <2>1. g \in disk /\ g # None
    BY <1>1, MediaConsts DEF MediaInv, FilesTyped
  <2>2. g # job[w].file
    BY <1>1, <1>2, <1>4, <2>1, FileSlots DEF JobHolds
  <2>3. g \notin {job[v].file : v \in Worker}
    BY <1>5, <2>2
  <2>4. CASE g \in {ref[t] : t \in Files!Slot}
    <3>1. PICK b \in Files!Branding : g = ref[b]
      BY <1>4, <2>4, FileSlots
    <3>2. ref[b] \notin {None, job[w].row[b]}
      BY <1>4, <2>1, <3>1, FileSlots
    <3>3. QED
      BY <1>1, <3>1, <3>2
  <2>5. CASE g \notin {ref[t] : t \in Files!Slot}
    BY <1>1, <2>1, <2>3, <2>5 DEF MediaInv, Files!LeftoversExplained
  <2>6. QED
    BY <2>4, <2>5
<1>8. left' \subseteq File
  BY <1>1, FileSlots DEF MediaInv, FilesTyped, Files!FileOrNone
<1>9. QED
  BY <1>1, <1>3, <1>6, <1>7, <1>8, IdleHolds, WorkerMoves DEF InSight, MediaInv, FilesTyped

-------------------------------------------------------------------------------
\* The scan changes nothing but its own list.
LEMMA ScanKeeps == ASSUME MediaInv, Files!StartScan \/ Files!Walk PROVE MediaInv'
<1>1. UNCHANGED <<ref, disk, job, request, jobs, deletes, lost, left>>
  BY DEF Files!StartScan, Files!Walk, Files!history
<1>2. scans' \in 0 .. MaxScans
  BY MediaConsts DEF Files!StartScan, Files!Walk, MediaInv, FilesTyped
<1>3. Files!ReferencedNames \subseteq File /\ disk \ scan.names \subseteq File
  BY FileSlots DEF Files!ReferencedNames, MediaInv, FilesTyped, Files!FileOrNone
<1>4. scan' \in [pc : {"idle", "walk"}, names : SUBSET File, cached : BOOLEAN, orphans : SUBSET File]
  <2>1. CASE Files!StartScan
    BY <1>3, <2>1 DEF Files!StartScan, MediaInv, FilesTyped
  <2>2. CASE Files!Walk
    BY <1>3, <2>2 DEF Files!Walk
  <2>3. QED
    BY <2>1, <2>2
<1>5. FilesTyped' /\ DeletionTyped'
  BY <1>1, <1>2, <1>4 DEF MediaInv, FilesTyped, DeletionTyped, InHand
<1>6. InSight' /\ Files!LeftoversExplained'
  BY <1>1 DEF MediaInv, InSight, Present, Single, Doomed, Files!LeftoversExplained
<1>7. QED
  BY <1>5, <1>6 DEF MediaInv

\* A deletion goes on: its names are accounted for, and no file goes of which somebody
\* has not lost sight.
LEMMA DeletionMoves ==
    ASSUME MediaInv, NEW gone \in SUBSET File, disk' = disk \ gone, lost \subseteq lost', lost' \subseteq File,
           deletes' \in 0 .. MaxDeletes,
           scan' \in [pc : {"idle", "walk"}, names : SUBSET File, cached : BOOLEAN, orphans : SUBSET File],
           UNCHANGED <<ref, job, jobs, scans, left>>, DeletionTyped',
           \A f \in gone : /\ request.pc \in {"exists", "delete"} /\ request.name = f,
           \A f \in File \ lost' : Doomed(f)'
    PROVE  MediaInv'
<1>1. FilesTyped'
  BY DEF MediaInv, FilesTyped
<1>2. ASSUME NEW f \in File \ lost' PROVE Present(f)' /\ Single(f)'
  <2>1. f \in File \ lost /\ Present(f) /\ Single(f) /\ Doomed(f)
    BY <1>2 DEF MediaInv, InSight
  <2>2. Single(f)'
    BY <2>1 DEF Single
  <2>3. Present(f)'
    BY <2>1 DEF Present, Doomed
  <2>4. QED
    BY <2>2, <2>3
<1>3. Files!LeftoversExplained'
  BY DEF MediaInv, Files!LeftoversExplained
<1>4. QED
  BY <1>1, <1>2, <1>3 DEF MediaInv, InSight

LEMMA NoFileGoes ==
    ASSUME MediaInv, disk' = disk, lost \subseteq lost', lost' \subseteq File, deletes' \in 0 .. MaxDeletes,
           scan' \in [pc : {"idle", "walk"}, names : SUBSET File, cached : BOOLEAN, orphans : SUBSET File],
           UNCHANGED <<ref, job, jobs, scans, left>>, DeletionTyped', \A f \in File \ lost' : Doomed(f)'
    PROVE  MediaInv'
<1>1. {} \in SUBSET File /\ disk' = disk \ {}
  OBVIOUS
<1>2. QED
  BY <1>1, DeletionMoves

LEMMA SumOfCounts ==
    ASSUME DeletionTyped PROVE
    /\ Cardinality(request.todo) \in Nat /\ IsFiniteSet(request.todo)
    /\ \A r \in Files!Result : request.counts[r] \in Nat
    /\ \A r \in Files!Result : Cardinality(request.todo) + InHand + request.counts[r] <= request.selected
    /\ Cardinality(File) \in Nat /\ request.selected \in 0 .. Cardinality(File)
<1>1. IsFiniteSet(request.todo) /\ Cardinality(request.todo) \in Nat /\ Cardinality(File) \in Nat
  BY MediaConsts, FS_Subset, FS_CardinalityType DEF DeletionTyped, Deletion
<1>2. InHand \in {0, 1} /\ Files!Result = {"deleted", "referenced", "missing", "failed"}
  BY DEF InHand, Files!Result
<1>3. \A r \in Files!Result : request.counts[r] \in Nat
  BY <1>1 DEF DeletionTyped, Deletion
<1>4. QED
  BY <1>1, <1>2, <1>3 DEF DeletionTyped, Deletion

LEMMA BegunKeeps == ASSUME MediaInv, NEW names \in SUBSET scan.orphans, Files!Begun(names) PROVE MediaInv'
<1>1. /\ request' = [pc |-> "next", todo |-> names, name |-> None, selected |-> Cardinality(names), counts |-> Files!NoCounts]
      /\ UNCHANGED <<ref, disk, job, scan, jobs, scans, lost, left>> /\ deletes' \in 0 .. MaxDeletes
  BY MediaConsts, FileSets DEF Files!Begun, Files!history, MediaInv, FilesTyped
<1>2. names \subseteq File /\ IsFiniteSet(names) /\ Cardinality(names) <= Cardinality(File)
      /\ Cardinality(names) \in Nat /\ Cardinality(File) \in Nat
  BY MediaConsts, FS_Subset, FS_CardinalityType DEF MediaInv, FilesTyped
<1>3. DeletionTyped'
  BY <1>1, <1>2 DEF DeletionTyped, Deletion, InHand, Files!NoCounts, Files!Result, Files!FileOrNone
<1>4. \A f \in File \ lost' : Doomed(f)'
  BY <1>1 DEF Doomed
<1>5. QED
  BY <1>1, <1>3, <1>4, NoFileGoes DEF MediaInv, FilesTyped

\* A name is counted: what was in hand is no more.
LEMMA CountedTyped ==
    ASSUME MediaInv, NEW r \in Files!Result, NEW todo \in SUBSET request.todo,
           Cardinality(todo) + 1 = Cardinality(request.todo) + InHand,
           request' = [Files!Counted(r) EXCEPT !.todo = todo]
    PROVE  DeletionTyped' /\ \A f \in File : Doomed(f)'
<1>1. request \in Deletion /\ DeletionTyped
  BY DEF MediaInv, DeletionTyped
<1>2. /\ request'.pc = "next" /\ request'.name = None /\ request'.todo = todo /\ request'.selected = request.selected
      /\ request'.counts = [request.counts EXCEPT ![r] = @ + 1]
  BY <1>1 DEF Files!Counted, Deletion
<1>3. Cardinality(todo) \in Nat /\ request.counts[r] + 1 \in 0 .. Cardinality(File)
  <2>1. Cardinality(todo) \in Nat
    BY <1>1, SumOfCounts, FS_Subset, FS_CardinalityType
  <2>2. QED
    BY <1>1, <2>1, SumOfCounts DEF InHand
<1>4. request' \in Deletion
  BY <1>1, <1>3 DEF Files!Counted, Deletion, Files!FileOrNone
<1>5. request'.counts["deleted"] + request'.counts["referenced"] + request'.counts["missing"] + request'.counts["failed"]
       = request.counts["deleted"] + request.counts["referenced"] + request.counts["missing"] + request.counts["failed"] + 1
  BY <1>1, <1>2, SumOfCounts DEF Deletion, Files!Result
<1>6. DeletionTyped'
  <2>1. InHand' = 0 /\ InHand \in {0, 1}
    BY <1>2 DEF InHand
  <2>2. /\ \A k \in Files!Result : request.counts[k] \in Nat
        /\ Cardinality(request.todo) \in Nat /\ request.selected \in Nat
    <3>1. Cardinality(File) \in Nat /\ \A k \in Files!Result : request.counts[k] \in Nat
      BY <1>1, SumOfCounts
    <3>2. QED
      BY <1>1, <3>1, SumOfCounts DEF Deletion
  <2>3. request.selected = Cardinality(request.todo) + InHand + request.counts["deleted"] + request.counts["referenced"]
                       + request.counts["missing"] + request.counts["failed"]
    BY <1>1 DEF DeletionTyped
  <2> DEFINE of(c) == c["deleted"] + c["referenced"] + c["missing"] + c["failed"]
  <2>4. of(request.counts) \in Nat /\ of(request'.counts) = of(request.counts) + 1
    BY <1>5, <2>2 DEF Files!Result
  <2>5. request.selected = Cardinality(request.todo) + InHand + of(request.counts)
    BY <2>1, <2>2, <2>3 DEF Files!Result
  <2> HIDE DEF of
  <2>6. request'.selected = Cardinality(request'.todo) + InHand' + of(request'.counts)
    BY <1>2, <1>3, <2>1, <2>2, <2>4, <2>5
  <2>7. \A k \in Files!Result : request'.counts[k] \in Nat
    BY <1>1, <1>2, <1>4, <2>2 DEF Deletion
  <2>8. QED
    BY <1>2, <1>3, <1>4, <2>1, <2>6, <2>7 DEF DeletionTyped, of, Files!Result
<1>7. QED
  BY <1>2, <1>6 DEF Doomed

LEMMA TakeNameKeeps == ASSUME MediaInv, Files!TakeName PROVE MediaInv'
<1>1. PICK f \in request.todo :
        /\ request' = (IF Files!IsReferenced(f) THEN [Files!Counted("referenced") EXCEPT !.todo = @ \ {f}]
                   ELSE [request EXCEPT !.pc = "exists", !.todo = @ \ {f}, !.name = f])
        /\ lost' = (IF ~Files!IsReferenced(f) /\ Files!Pending(f) THEN lost \cup {f} ELSE lost)
  BY DEF Files!TakeName
<1>2. request.pc = "next" /\ UNCHANGED <<ref, disk, job, scan, jobs, scans, deletes, left>>
  BY DEF Files!TakeName
<1>3. request \in Deletion /\ DeletionTyped /\ f \in File /\ IsFiniteSet(request.todo)
  BY SumOfCounts DEF MediaInv, DeletionTyped, Deletion
<1>4. Cardinality(request.todo \ {f}) = Cardinality(request.todo) - 1
  BY <1>3, FS_RemoveElement
<1>5. CASE Files!IsReferenced(f)
  <2>1. request' = [Files!Counted("referenced") EXCEPT !.todo = request.todo \ {f}] /\ lost' = lost
    BY <1>1, <1>3, <1>5 DEF Files!Counted, Deletion
  <2>2. Cardinality(request.todo \ {f}) + 1 = Cardinality(request.todo) + InHand
    BY <1>2, <1>3, <1>4, SumOfCounts DEF InHand
  <2>3. DeletionTyped' /\ \A g \in File : Doomed(g)'
    BY <2>1, <2>2, CountedTyped DEF Files!Result
  <2>4. QED
    BY <1>2, <2>1, <2>3, NoFileGoes DEF MediaInv, FilesTyped
<1>6. CASE ~Files!IsReferenced(f)
  <2>1. request' = [request EXCEPT !.pc = "exists", !.todo = @ \ {f}, !.name = f]
        /\ lost' = IF Files!Pending(f) THEN lost \cup {f} ELSE lost
    BY <1>1, <1>6
  <2>2. /\ request' \in Deletion /\ request'.pc = "exists" /\ request'.name = f /\ request'.todo = request.todo \ {f}
        /\ request'.selected = request.selected /\ request'.counts = request.counts
    BY <1>3, <2>1 DEF Deletion, Files!FileOrNone
  <2>3. DeletionTyped'
    BY <1>2, <1>3, <1>4, <2>2, SumOfCounts DEF DeletionTyped, InHand, Files!Result
  <2>4. ASSUME NEW g \in File \ lost' PROVE Doomed(g)'
    <3>1. CASE g # f
      BY <2>2, <3>1 DEF Doomed
    <3>2. CASE g = f
      <4>1. ~Files!Pending(f) /\ f # None
        BY <1>3, <2>1, <2>4, <3>2, MediaConsts
      <4>2. \A s \in Files!Asked : ref[s] # f
        BY <1>6, <4>1 DEF Files!IsReferenced, Files!ReferencedNames
      <4>3. \A w \in Worker : job[w].file # f /\ job[w].row["logo"] # f
        BY <4>1, FileSlots DEF Files!Pending
      <4>4. QED
        BY <1>2, <3>2, <4>2, <4>3 DEF Doomed
    <3>3. QED
      BY <3>1, <3>2
  <2>5. disk' = disk /\ lost \subseteq lost' /\ lost' \subseteq File
    BY <1>2, <1>3, <2>1 DEF MediaInv, FilesTyped
  <2>6. QED
    BY <1>2, <2>3, <2>4, <2>5, NoFileGoes DEF MediaInv, FilesTyped
<1>7. QED
  BY <1>5, <1>6

LEMMA DeleteStepsKeep == ASSUME MediaInv, Files!Exists \/ Files!Delete \/ Files!EndDelete PROVE MediaInv'
<1>1. UNCHANGED <<ref, job, jobs, scans, deletes, lost, left>>
  BY DEF Files!Exists, Files!Delete, Files!EndDelete, Files!history
<1>2. request \in Deletion /\ DeletionTyped
  BY DEF MediaInv, DeletionTyped
<1>3. ASSUME NEW r \in Files!Result, request.pc \in {"exists", "delete"}, request' = Files!Counted(r)
      PROVE  DeletionTyped' /\ \A g \in File : Doomed(g)'
  <2>1. request' = [Files!Counted(r) EXCEPT !.todo = request.todo]
    BY <1>2, <1>3 DEF Files!Counted, Deletion
  <2>2. Cardinality(request.todo) + 1 = Cardinality(request.todo) + InHand
    BY <1>3 DEF InHand
  <2>3. QED
    BY <2>1, <2>2, CountedTyped
<1>4. CASE Files!Exists
  <2>1. request.pc = "exists" /\ disk' = disk /\ scan' = scan
        /\ request' = IF request.name \in disk THEN [request EXCEPT !.pc = "delete"] ELSE Files!Counted("missing")
    BY <1>4 DEF Files!Exists, Files!history
  <2>2. DeletionTyped' /\ \A g \in File \ lost' : Doomed(g)'
    <3>1. CASE request.name \in disk
      <4>1. /\ request' \in Deletion /\ request'.pc = "delete" /\ request'.name = request.name /\ request'.todo = request.todo
            /\ request'.selected = request.selected /\ request'.counts = request.counts
        BY <1>2, <2>1, <3>1 DEF Deletion
      <4>2. DeletionTyped'
        BY <1>2, <2>1, <4>1 DEF DeletionTyped, InHand
      <4>3. \A g \in File \ lost' : Doomed(g)'
        BY <1>1, <2>1, <4>1 DEF MediaInv, InSight, Doomed
      <4>4. QED
        BY <4>2, <4>3
    <3>2. CASE request.name \notin disk
      BY <1>3, <2>1, <3>2 DEF Files!Result
    <3>3. QED
      BY <3>1, <3>2
  <2>3. QED
    BY <1>1, <2>1, <2>2, NoFileGoes DEF MediaInv, FilesTyped
<1>5. CASE Files!Delete
  <2>1. request.pc = "delete" /\ scan' = scan
        /\ \/ disk' = disk \ {request.name} /\ request' = Files!Counted("deleted")
           \/ disk' = disk \ {} /\ request' = Files!Counted("failed")
    BY <1>5 DEF Files!Delete, Files!history
  <2>2. DeletionTyped' /\ \A g \in File : Doomed(g)'
    BY <1>3, <2>1 DEF Files!Result
  <2>3. request.name \in File
    BY <1>2, <2>1 DEF DeletionTyped
  <2>4. PICK gone \in {{request.name}, {}} : disk' = disk \ gone
    BY <2>1
  <2>5. gone \in SUBSET File /\ \A f \in gone : request.name = f
    BY <2>3, <2>4
  <2>6. QED
    BY <1>1, <2>1, <2>2, <2>4, <2>5, DeletionMoves DEF MediaInv, FilesTyped
<1>6. CASE Files!EndDelete
  <2>1. /\ request.todo = {} /\ disk' = disk
        /\ request' = [request EXCEPT !.pc = "idle", !.name = None, !.selected = 0, !.counts = Files!NoCounts]
        /\ scan' = IF request.counts["deleted"] > 0 THEN [scan EXCEPT !.cached = FALSE, !.orphans = {}] ELSE scan
    BY <1>6 DEF Files!EndDelete, Files!history
  <2>2. Files!NoCounts \in [Files!Result -> 0 .. Cardinality(File)] /\ \A r \in Files!Result : Files!NoCounts[r] = 0
    BY <1>2, SumOfCounts DEF Files!NoCounts
  <2>3. /\ request' \in Deletion /\ request'.pc = "idle" /\ request'.todo = {} /\ request'.selected = 0 /\ request'.counts = Files!NoCounts
    <3>1. 0 \in 0 .. Cardinality(File)
      BY <1>2, SumOfCounts
    <3>2. QED
      BY <1>2, <2>1, <2>2, <3>1 DEF Deletion, Files!FileOrNone
  <2>4. DeletionTyped'
    BY <2>2, <2>3, FS_EmptySet DEF DeletionTyped, InHand, Files!Result
  <2>5. scan' \in [pc : {"idle", "walk"}, names : SUBSET File, cached : BOOLEAN, orphans : SUBSET File]
    BY <2>1 DEF MediaInv, FilesTyped
  <2>6. \A g \in File \ lost' : Doomed(g)'
    BY <2>3 DEF Doomed
  <2>7. QED
    BY <1>1, <2>1, <2>4, <2>5, <2>6, NoFileGoes DEF MediaInv, FilesTyped
<1>7. QED
  BY <1>4, <1>5, <1>6

LEMMA MediaBegins == ASSUME Files!Init PROVE MediaInv
<1>1. Cardinality(File) \in Nat
  BY MediaConsts, FS_CardinalityType
<1>2. FilesTyped
  BY IdleHolds, MediaConsts, FileSlots DEF Files!Init, FilesTyped, Files!FileOrNone, JobHolds
<1>3. DeletionTyped
  BY <1>1, FS_EmptySet DEF Files!Init, DeletionTyped, Deletion, InHand, Files!NoCounts, Files!Result,
     Files!FileOrNone
<1>4. InSight /\ Files!LeftoversExplained
  BY IdleHolds, MediaConsts, FileSlots DEF Files!Init, InSight, Present, Single, Doomed,
     Files!LeftoversExplained
<1>5. QED
  BY <1>2, <1>3, <1>4 DEF MediaInv

LEMMA MediaInvStep == MediaInv /\ [Files!Next]_Files!vars => MediaInv'
<1> SUFFICES ASSUME MediaInv, [Files!Next]_Files!vars PROVE MediaInv'
  OBVIOUS
<1>1. ASSUME NEW w \in Worker, Files!Work(w) PROVE MediaInv'
  BY <1>1, StoreKeeps, FileCommitKeeps, DieKeeps, DeleteRowKeeps, RemoveFileKeeps, LoadFormKeeps,
     FormsKeep,
     StoreLogoKeeps, SaveRowKeeps DEF Files!Work
<1>2. CASE Files!DeleteOne \/ Files!DeleteMany
  <2>1. PICK names \in SUBSET scan.orphans : Files!Begun(names)
    BY <1>2 DEF Files!DeleteOne, Files!DeleteMany
  <2>2. QED
    BY <2>1, BegunKeeps
<1>3. CASE UNCHANGED Files!vars
  BY <1>3 DEF Files!vars, MediaInv, FilesTyped, DeletionTyped, InHand, InSight, Present, Single,
     Doomed, Files!LeftoversExplained
<1>4. QED
  BY <1>1, <1>2, <1>3, ScanKeeps, TakeNameKeeps, DeleteStepsKeep DEF Files!Next

LEMMA MediaSafe == MediaInv => Files!TypeOK /\ Files!MissingExplained /\ Files!LeftoversExplained
<1> SUFFICES ASSUME MediaInv PROVE Files!TypeOK /\ Files!MissingExplained
  BY DEF MediaInv
<1>1. Files!TypeOK
  <2>1. request.pc \in {"idle", "next", "exists", "delete"} /\ request.todo \subseteq File /\ request.counts \in [Files!Result -> 0 .. Cardinality(File)]
    BY DEF MediaInv, DeletionTyped, Deletion
  <2>2. QED
    BY <2>1, FileSets DEF Files!TypeOK, MediaInv, FilesTyped, DeletionTyped, InHand, Jobs
<1>2. Files!MissingExplained
  BY FileSlots DEF Files!MissingExplained, MediaInv, FilesTyped, InSight, Present, Files!FileOrNone
<1>3. QED
  BY <1>1, <1>2

LEMMA FilesAreSafe == Files!Spec => [](Files!TypeOK /\ Files!MissingExplained /\ Files!LeftoversExplained)
BY MediaBegins, MediaInvStep, MediaSafe, PTL DEF Files!Spec

-------------------------------------------------------------------------------
(* The branding.                                                           *)

\* The rows that a style sheet may be asked for.
InUse == {row} \cup ({page[r].row : r \in Reader} \ {None})

\* A version is one row's, and no later one than the row's that is committed.
OneRowEach == \A x, y \in InUse : x.version <= row.version /\ (x.version = y.version => x = y)

\* What is cached for a row in use is its style sheet.
CacheTells ==
    \A k \in Brands!Preset \X Brands!Version : cache[k] # None =>
        k[2] <= row.version /\ \A x \in InUse : Brands!CacheKey(x) = k => cache[k] = Brands!Brand(x)

\* A page has looked up the style sheet of the row it read.
PagesOf == \A r \in Reader : page[r].css # None => page[r].row # None /\ page[r].css[1] = Brands!Brand(page[r].row)[1]

BrandingInv ==
    /\ Brands!TypeOK /\ PagesOf
    /\ row.version <= saves + 1 /\ \A a \in Admin : form[a] # None => form[a].version <= saves + 1
    /\ ~ overlapped => OneRowEach /\ CacheTells /\ Brands!NothingStale

PageRecords == [row : Brands!Row \cup {None}, css : Brands!Css \cup {None}, cached : BOOLEAN]

LEMMA BrandTyped == ASSUME NEW r \in Brands!Row
                    PROVE  Brands!Brand(r) \in Brands!Css /\ Brands!Brand(r)[1] \in Brands!Preset /\ Brands!CacheKey(r) \in Brands!Preset \X Brands!Version
                           /\ Brands!CacheKey(r)[1] = Brands!Brand(r)[1] /\ Brands!CacheKey(r)[2] = r.version
<1>1. Brands!Brand(r) \in Brands!Css /\ Brands!Brand(r)[1] \in Brands!Preset
  BY DEF Brands!Brand, Brands!Css, Brands!Row, Brands!Preset
<1>2. QED
  BY <1>1 DEF Brands!CacheKey, Brands!Row

LEMMA BrandingBegins == ASSUME Brands!Init PROVE BrandingInv
<1>1. row \in Brands!Row /\ row.version = 1 /\ saves = 0 /\ ~overlapped /\ 1 \in Brands!Version
  BY BrandingAssumption DEF Brands!Init, Brands!Row, Brands!Preset, Brands!Version,
     Brands!BrandingConstants
<1>2. /\ \A r \in Reader : page[r].row = None /\ page[r].css = None
      /\ page \in [Reader -> PageRecords]
  BY DEF Brands!Init, Brands!NoPage, PageRecords
<1>3. InUse = {row}
  BY <1>2 DEF InUse
<1>4. Brands!TypeOK
  <2>1. saves \in 0 .. MaxSaves
    BY <1>1, BrandingAssumption DEF Brands!BrandingConstants
  <2>2. \A k \in Brands!Preset \X Brands!Version : cache[k] = None
    BY DEF Brands!Init
  <2>3. form \in [Admin -> Brands!Row \cup {None}] /\ cache \in [Brands!Preset \X Brands!Version -> Brands!Css \cup {None}]
        /\ DOMAIN cache = Brands!Preset \X Brands!Version /\ overlapped \in BOOLEAN
    BY DEF Brands!Init
  <2>4. QED
    BY <1>1, <1>2, <2>1, <2>2, <2>3 DEF Brands!TypeOK, PageRecords
<1>5. OneRowEach /\ CacheTells /\ Brands!NothingStale /\ PagesOf
  BY <1>1, <1>2, <1>3 DEF Brands!Init, OneRowEach, CacheTells, Brands!NothingStale, PagesOf
<1>6. QED
  BY <1>1, <1>4, <1>5 DEF Brands!Init, BrandingInv

LEMMA BrandFormKeeps == ASSUME BrandingInv, NEW a \in Admin, Brands!LoadForm(a) \/ Brands!Refuse(a) PROVE BrandingInv'
<1>1. UNCHANGED <<row, page, cache, saves, overlapped>> /\ form' \in [Admin -> Brands!Row \cup {None}]
  BY DEF Brands!LoadForm, Brands!Refuse, BrandingInv, Brands!TypeOK
<1>2. \A b \in Admin : form'[b] # None => form'[b].version <= saves + 1
  BY DEF Brands!LoadForm, Brands!Refuse, BrandingInv, Brands!TypeOK
<1>3. InUse' = InUse /\ PagesOf'
  BY <1>1 DEF InUse, BrandingInv, PagesOf
<1>4. Brands!TypeOK'
  BY <1>1 DEF BrandingInv, Brands!TypeOK
<1>5. ~overlapped' => OneRowEach' /\ CacheTells' /\ Brands!NothingStale'
  BY <1>1, <1>3 DEF BrandingInv, OneRowEach, CacheTells, Brands!NothingStale
<1>6. QED
  BY <1>1, <1>2, <1>3, <1>4, <1>5 DEF BrandingInv

\* A save that saves what is committed opens a version that nothing has asked for yet.
LEMMA SaveWrites ==
    ASSUME BrandingInv, NEW a \in Admin, form[a] # None, NEW r \in Brands!Row, r.version = form[a].version, Brands!Save(a, r)
    PROVE  BrandingInv'
<1>1. /\ saves < MaxSaves /\ saves' = saves + 1 /\ row' = Brands!Bumped(r) /\ overlapped' = (overlapped \/ row # form[a])
      /\ form' = [form EXCEPT ![a] = None] /\ UNCHANGED <<page, cache>>
  BY DEF Brands!Save
<1>2. /\ form[a] \in Brands!Row /\ form[a].version \in Nat /\ form[a].version <= saves + 1 /\ form[a].version >= 1
      /\ saves \in Nat /\ MaxSaves \in Nat /\ row \in Brands!Row /\ row.version \in Nat
  BY BrandingAssumption DEF BrandingInv, Brands!TypeOK, Brands!BrandingConstants, Brands!Row,
     Brands!Version
<1>3. /\ row' \in Brands!Row /\ row'.version = form[a].version + 1 /\ row'.version <= saves' + 1
  <2>1. r.version + 1 \in Brands!Version
    BY <1>1, <1>2 DEF Brands!Version
  <2>2. QED
    BY <1>1, <1>2, <2>1 DEF Brands!Bumped, Brands!Row
<1>4. /\ form' \in [Admin -> Brands!Row \cup {None}] /\ saves' \in 0 .. MaxSaves
      /\ \A b \in Admin : form'[b] # None => form'[b].version <= saves' + 1
  <2>1. ASSUME NEW b \in Admin, form'[b] # None PROVE form'[b].version <= saves' + 1
    <3>1. form'[b] = form[b] /\ form[b] \in Brands!Row
      BY <1>1, <2>1 DEF BrandingInv, Brands!TypeOK
    <3>2. form[b].version \in Nat /\ form[b].version <= saves + 1
      BY <2>1, <3>1 DEF BrandingInv, Brands!Row, Brands!Version
    <3>3. QED
      BY <1>1, <1>2, <3>1, <3>2
  <2>2. QED
    BY <1>1, <1>2, <2>1 DEF BrandingInv, Brands!TypeOK
<1>5. Brands!TypeOK' /\ PagesOf'
  <2>1. overlapped' \in BOOLEAN
    BY <1>1
  <2>2. QED
    BY <1>1, <1>3, <1>4, <2>1 DEF BrandingInv, Brands!TypeOK, PagesOf
<1>6. ASSUME ~overlapped' PROVE OneRowEach' /\ CacheTells' /\ Brands!NothingStale'
  <2>1. ~overlapped /\ form[a] = row
    BY <1>1, <1>6
  <2>2. row'.version = row.version + 1
    BY <1>3, <2>1
  <2>3. InUse' \subseteq {row'} \cup InUse
    BY <1>1 DEF InUse
  <2>4. \A x \in InUse : x \in Brands!Row /\ x.version \in Nat /\ x.version <= row.version
    BY <1>2, <2>1 DEF InUse, BrandingInv, Brands!TypeOK, OneRowEach, Brands!Row, Brands!Version
  <2>5. OneRowEach'
    <3>1. ASSUME NEW x \in InUse', NEW y \in InUse' PROVE x.version <= row'.version /\ (x.version = y.version => x = y)
      <4>1. CASE x = row' /\ y = row'
        BY <1>2, <2>2, <4>1
      <4>2. CASE x = row' /\ y \in InUse
        BY <1>2, <2>2, <2>4, <4>2
      <4>3. CASE x \in InUse /\ y = row'
        BY <1>2, <2>2, <2>4, <4>3
      <4>4. CASE x \in InUse /\ y \in InUse
        BY <1>2, <2>1, <2>2, <2>4, <4>4 DEF BrandingInv, OneRowEach
      <4>5. QED
        BY <2>3, <4>1, <4>2, <4>3, <4>4
    <3>2. QED
      BY <3>1 DEF OneRowEach
  <2>6. CacheTells'
    <3>1. ASSUME NEW k \in Brands!Preset \X Brands!Version, cache'[k] # None
          PROVE  k[2] <= row'.version /\ \A x \in InUse' : Brands!CacheKey(x) = k => cache'[k] = Brands!Brand(x)
      <4>1. k[2] <= row.version /\ k[2] \in Nat /\ \A x \in InUse : Brands!CacheKey(x) = k => cache[k] = Brands!Brand(x)
        BY <1>1, <2>1, <3>1 DEF BrandingInv, CacheTells, Brands!Version
      <4>2. Brands!CacheKey(row')[2] = row'.version
        BY <1>3, BrandTyped
      <4>3. Brands!CacheKey(row') # k
        BY <1>2, <2>2, <4>1, <4>2
      <4>4. QED
        BY <1>1, <1>2, <2>2, <2>3, <4>1, <4>3
    <3>2. QED
      BY <3>1 DEF CacheTells
  <2>7. Brands!NothingStale'
    BY <1>1, <2>1 DEF BrandingInv, Brands!NothingStale
  <2>8. QED
    BY <2>5, <2>6, <2>7
<1>7. QED
  BY <1>3, <1>4, <1>5, <1>6 DEF BrandingInv

LEMMA FormsSave ==
    ASSUME BrandingInv, NEW a \in Admin, Brands!ApplyPreset(a) \/ Brands!ApplyCustom(a) \/ Brands!ResetCustom(a) \/ Brands!SaveIdentity(a)
    PROVE  BrandingInv'
<1>1. form[a] # None /\ form[a] \in Brands!Row
  BY DEF Brands!ApplyPreset, Brands!ApplyCustom, Brands!ResetCustom, Brands!SaveIdentity, BrandingInv,
     Brands!TypeOK
<1>2. CASE Brands!ApplyPreset(a)
  <2>1. PICK p \in Brands!Preset \ {"custom"} : Brands!Save(a, [form[a] EXCEPT !.preset = p])
    BY <1>2 DEF Brands!ApplyPreset
  <2>2. [form[a] EXCEPT !.preset = p] \in Brands!Row /\ [form[a] EXCEPT !.preset = p].version = form[a].version
    BY <1>1 DEF Brands!Row
  <2>3. QED
    BY <1>1, <2>1, <2>2, SaveWrites
<1>3. CASE Brands!ApplyCustom(a)
  <2>1. PICK c \in Design : Brands!Save(a, [form[a] EXCEPT !.preset = "custom", !.config = c])
    BY <1>3 DEF Brands!ApplyCustom
  <2>2. /\ [form[a] EXCEPT !.preset = "custom", !.config = c] \in Brands!Row
        /\ [form[a] EXCEPT !.preset = "custom", !.config = c].version = form[a].version
    BY <1>1 DEF Brands!Row, Brands!Preset
  <2>3. QED
    BY <1>1, <2>1, <2>2, SaveWrites
<1>4. CASE Brands!ResetCustom(a)
  <2> DEFINE r == [form[a] EXCEPT !.config = None, !.preset = IF @ = "custom" THEN "branding_1" ELSE @]
  <2>1. Brands!Save(a, r)
    BY <1>4 DEF Brands!ResetCustom
  <2>2. r \in Brands!Row /\ r.version = form[a].version
    BY <1>1 DEF Brands!Row, Brands!Preset
  <2>3. QED
    BY <1>1, <2>1, <2>2, SaveWrites
<1>5. CASE Brands!SaveIdentity(a)
  BY <1>1, <1>5, SaveWrites DEF Brands!SaveIdentity
<1>6. QED
  BY <1>2, <1>3, <1>4, <1>5

-------------------------------------------------------------------------------
\* A page goes on, with a row that is in use already.
LEMMA PagesMove ==
    ASSUME BrandingInv, UNCHANGED <<row, form, saves, overlapped>>,
           page' \in [Reader -> PageRecords], cache' \in [Brands!Preset \X Brands!Version -> Brands!Css \cup {None}],
           \A k \in Brands!Preset \X Brands!Version : cache'[k] # None => cache'[k][1] = k[1],
           PagesOf', InUse' \subseteq InUse,
           ~ overlapped => CacheTells' /\ Brands!NothingStale'
    PROVE  BrandingInv'
<1>1. Brands!TypeOK'
  BY DEF BrandingInv, Brands!TypeOK, PageRecords
<1>2. ~overlapped' => OneRowEach'
  BY DEF BrandingInv, OneRowEach
<1>3. QED
  BY <1>1, <1>2 DEF BrandingInv

LEMMA ReadRowKeeps == ASSUME BrandingInv, NEW r \in Reader, Brands!ReadRow(r) PROVE BrandingInv'
<1>1. /\ page[r] = Brands!NoPage /\ page' = [page EXCEPT ![r].row = row] /\ UNCHANGED <<row, form, cache, saves, overlapped>>
  BY DEF Brands!ReadRow
<1>2. page \in [Reader -> PageRecords] /\ row \in Brands!Row
  BY DEF BrandingInv, Brands!TypeOK, PageRecords
<1>3. /\ page' \in [Reader -> PageRecords] /\ page'[r].row = row /\ page'[r].css = None
      /\ \A s \in Reader \ {r} : page'[s] = page[s]
  <2>1. page[r].row = None /\ page[r].css = None
    BY <1>1 DEF Brands!NoPage
  <2>2. page' \in [Reader -> PageRecords]
    BY <1>1, <1>2 DEF PageRecords
  <2>3. QED
    BY <1>1, <1>2, <2>1, <2>2 DEF PageRecords
<1>4. InUse' \subseteq InUse
  BY <1>1, <1>3 DEF InUse
<1>5. PagesOf'
  BY <1>3 DEF PagesOf, BrandingInv
<1>6. ~overlapped => CacheTells' /\ Brands!NothingStale'
  BY <1>1, <1>3, <1>4 DEF BrandingInv, CacheTells, Brands!NothingStale
<1>7. QED
  BY <1>1, <1>3, <1>4, <1>5, <1>6, PagesMove DEF BrandingInv, Brands!TypeOK

LEMMA StyleLookupKeeps == ASSUME BrandingInv, NEW r \in Reader, Brands!Lookup(r) PROVE BrandingInv'
<1> DEFINE x == page[r].row
           hit == cache[Brands!CacheKey(x)]
           css == IF hit # None THEN hit ELSE Brands!Brand(x)
<1>1. /\ x # None /\ page' = [page EXCEPT ![r].cached = (hit # None), ![r].css = css]
      /\ UNCHANGED <<row, form, cache, saves, overlapped>>
  BY DEF Brands!Lookup
<1>2. page \in [Reader -> PageRecords] /\ x \in Brands!Row
  BY <1>1 DEF BrandingInv, Brands!TypeOK, PageRecords
<1>3. /\ Brands!CacheKey(x) \in Brands!Preset \X Brands!Version /\ hit \in Brands!Css \cup {None} /\ Brands!Brand(x) \in Brands!Css
      /\ Brands!CacheKey(x)[1] = Brands!Brand(x)[1]
  BY <1>2, BrandTyped DEF BrandingInv, Brands!TypeOK
<1>4. css \in Brands!Css /\ css[1] = Brands!Brand(x)[1]
  BY <1>3 DEF BrandingInv, Brands!TypeOK
<1> HIDE DEF css, hit
<1>5. /\ page' \in [Reader -> PageRecords] /\ page'[r].row = x /\ page'[r].css = css
      /\ \A s \in Reader \ {r} : page'[s] = page[s]
  BY <1>1, <1>2, <1>4 DEF PageRecords
<1>6. InUse' \subseteq InUse
  BY <1>1, <1>5 DEF InUse
<1>7. PagesOf'
  BY <1>1, <1>4, <1>5 DEF PagesOf, BrandingInv
<1>8. ASSUME ~overlapped PROVE CacheTells' /\ Brands!NothingStale'
  <2>1. CacheTells'
    BY <1>1, <1>6, <1>8 DEF BrandingInv, CacheTells
  <2>2. x \in InUse
    BY <1>1 DEF InUse
  <2>3. css = Brands!Brand(x)
    BY <1>3, <1>8, <2>2 DEF BrandingInv, CacheTells, css, hit
  <2>4. QED
    BY <1>5, <1>8, <2>1, <2>3 DEF BrandingInv, Brands!NothingStale
<1>9. QED
  BY <1>1, <1>5, <1>6, <1>7, <1>8, PagesMove DEF BrandingInv, Brands!TypeOK

LEMMA ServeKeeps == ASSUME BrandingInv, NEW r \in Reader, Brands!Serve(r) PROVE BrandingInv'
<1> DEFINE x == page[r].row
<1>1. /\ page[r].css # None /\ page' = [page EXCEPT ![r] = Brands!NoPage]
      /\ cache' = (IF page[r].cached THEN cache ELSE [cache EXCEPT ![Brands!CacheKey(x)] = page[r].css])
      /\ UNCHANGED <<row, form, saves, overlapped>>
  BY DEF Brands!Serve
<1>2. /\ page \in [Reader -> PageRecords] /\ x \in Brands!Row /\ page[r].css \in Brands!Css /\ page[r].css[1] = Brands!Brand(x)[1]
      /\ cache \in [Brands!Preset \X Brands!Version -> Brands!Css \cup {None}]
  BY <1>1 DEF BrandingInv, Brands!TypeOK, PageRecords, PagesOf
<1>3. Brands!CacheKey(x) \in Brands!Preset \X Brands!Version /\ Brands!CacheKey(x)[1] = Brands!Brand(x)[1] /\ Brands!CacheKey(x)[2] = x.version
  BY <1>2, BrandTyped
<1>4. /\ page' \in [Reader -> PageRecords] /\ page'[r].row = None /\ page'[r].css = None
      /\ \A s \in Reader \ {r} : page'[s] = page[s]
  <2>1. Brands!NoPage \in PageRecords
    BY DEF Brands!NoPage, PageRecords
  <2>2. QED
    BY <1>1, <1>2, <2>1 DEF Brands!NoPage
<1>5. /\ cache' \in [Brands!Preset \X Brands!Version -> Brands!Css \cup {None}]
      /\ \A k \in Brands!Preset \X Brands!Version : cache'[k] = cache[k] \/ (k = Brands!CacheKey(x) /\ cache'[k] = page[r].css)
  BY <1>1, <1>2, <1>3
<1>6. \A k \in Brands!Preset \X Brands!Version : cache'[k] # None => cache'[k][1] = k[1]
  BY <1>2, <1>3, <1>5 DEF BrandingInv, Brands!TypeOK
<1>7. InUse' \subseteq InUse
  BY <1>1, <1>4 DEF InUse
<1>8. PagesOf'
  BY <1>4 DEF PagesOf, BrandingInv
<1>9. ASSUME ~overlapped PROVE CacheTells' /\ Brands!NothingStale'
  <2>1. page[r].css = Brands!Brand(x) /\ x \in InUse
    BY <1>1, <1>2, <1>9, BrandingAssumption DEF BrandingInv, Brands!NothingStale, InUse,
       Brands!BrandingConstants
  <2>2. ASSUME NEW k \in Brands!Preset \X Brands!Version, cache'[k] # None
        PROVE  k[2] <= row.version /\ \A y \in InUse : Brands!CacheKey(y) = k => cache'[k] = Brands!Brand(y)
    <3>1. CASE cache'[k] = cache[k]
      BY <1>9, <2>2, <3>1 DEF BrandingInv, CacheTells
    <3>2. CASE k = Brands!CacheKey(x) /\ cache'[k] = page[r].css
      <4>1. k[2] = x.version /\ x.version <= row.version
        BY <1>3, <1>9, <2>1, <3>2 DEF BrandingInv, OneRowEach
      <4>2. ASSUME NEW y \in InUse, Brands!CacheKey(y) = k PROVE y = x
        <5>1. y \in Brands!Row
          BY DEF InUse, BrandingInv, Brands!TypeOK
        <5>2. y.version = x.version
          BY <1>3, <3>2, <4>2, <5>1, BrandTyped
        <5>3. QED
          BY <1>9, <2>1, <5>2 DEF BrandingInv, OneRowEach
      <4>3. QED
        BY <2>1, <3>2, <4>1, <4>2
    <3>3. QED
      BY <1>5, <3>1, <3>2
  <2>3. CacheTells'
    BY <1>1, <1>7, <2>2 DEF CacheTells
  <2>4. Brands!NothingStale'
    BY <1>4, <1>9 DEF BrandingInv, Brands!NothingStale
  <2>5. QED
    BY <2>3, <2>4
<1>10. QED
  BY <1>1, <1>4, <1>5, <1>6, <1>7, <1>8, <1>9, PagesMove

LEMMA EvictKeeps == ASSUME BrandingInv, Brands!Evict PROVE BrandingInv'
<1>1. UNCHANGED <<row, form, page, saves, overlapped>> /\ cache \in [Brands!Preset \X Brands!Version -> Brands!Css \cup {None}]
  BY DEF Brands!Evict, BrandingInv, Brands!TypeOK
<1>2. /\ cache' \in [Brands!Preset \X Brands!Version -> Brands!Css \cup {None}]
      /\ \A k \in Brands!Preset \X Brands!Version : cache'[k] # None => cache'[k] = cache[k]
  BY <1>1 DEF Brands!Evict
<1>3. \A k \in Brands!Preset \X Brands!Version : cache'[k] # None => cache'[k][1] = k[1]
  BY <1>1, <1>2 DEF BrandingInv, Brands!TypeOK
<1>4. InUse' = InUse /\ PagesOf'
  BY <1>1 DEF InUse, PagesOf, BrandingInv
<1>5. ~overlapped => CacheTells' /\ Brands!NothingStale'
  BY <1>1, <1>2, <1>4 DEF BrandingInv, CacheTells, Brands!NothingStale
<1>6. QED
  BY <1>1, <1>2, <1>3, <1>4, <1>5, PagesMove DEF BrandingInv, Brands!TypeOK, PageRecords

LEMMA BrandingInvStep == BrandingInv /\ [Brands!Next]_Brands!vars => BrandingInv'
<1> SUFFICES ASSUME BrandingInv, [Brands!Next]_Brands!vars PROVE BrandingInv'
  OBVIOUS
<1>1. CASE UNCHANGED Brands!vars
  <2>1. InUse' = InUse
    BY <1>1 DEF Brands!vars, InUse
  <2>2. QED
    BY <1>1, <2>1 DEF Brands!vars, BrandingInv, Brands!TypeOK, PagesOf, OneRowEach, CacheTells,
       Brands!NothingStale
<1>2. QED
  BY <1>1, BrandFormKeeps, FormsSave, ReadRowKeeps, StyleLookupKeeps, ServeKeeps, EvictKeeps
     DEF Brands!Next

LEMMA NothingStaleServed == Brands!Spec => [](Brands!TypeOK /\ Brands!NothingStale)
<1>1. BrandingInv => Brands!TypeOK /\ Brands!NothingStale
  BY DEF BrandingInv, Brands!NothingStale
<1>2. QED
  BY <1>1, BrandingBegins, BrandingInvStep, PTL DEF Brands!Spec

-------------------------------------------------------------------------------
(* What a role may see.                                                    *)

\* A post has the rows locked that it has written, and those only.
PostHolds(p) ==
    /\ post[p].form = None => post[p].done = 0
    /\ \A n \in 1 .. post[p].done : lock[Feature[n]] = p
    /\ \A k \in Features!Keys : lock[k] = p => \E n \in 1 .. post[p].done : Feature[n] = k

\* What a request has been told is in its cache; a SuperAdmin's has none.
VisitTells(v) ==
    /\ visit[v].super => visit[v].cache = [k \in {} |-> TRUE] /\ \A a \in answers[v] : a[2]
    /\ ~ visit[v].super => \A a \in answers[v] : a[1] \in DOMAIN visit[v].cache /\ visit[v].cache[a[1]] = a[2]

Visits == [open : BOOLEAN, super : BOOLEAN, cache : UNION {[D -> BOOLEAN] : D \in SUBSET Features!Keys}]

TogglesInv ==
    /\ Features!TypeOK /\ Features!OneFormInForce
    /\ post \in [Post -> [form : [Features!Keys -> BOOLEAN] \cup {None}, done : 0 .. Len(Feature)]]
    /\ visit \in [Visit -> Visits] /\ answers \in [Visit -> SUBSET (Features!Keys \X BOOLEAN)]
    /\ last \in [Features!Keys -> BOOLEAN] \cup {None}
    /\ \A p \in Post : PostHolds(p)
    /\ \A v \in Visit : VisitTells(v)

LEMMA ToggleConsts ==
    /\ Len(Feature) \in Nat /\ Len(Feature) > 0 /\ DOMAIN Feature = 1 .. Len(Feature)
    /\ Features!Keys = {Feature[n] : n \in 1 .. Len(Feature)}
    /\ \A m, n \in 1 .. Len(Feature) : Feature[m] = Feature[n] => m = n
    /\ None \notin Post /\ None \notin BOOLEAN /\ None \notin [Features!Keys -> BOOLEAN]
BY ToggleAssumption DEF Features!ToggleConstants, Features!Keys, Features!ToSet

LEMMA TogglesBegin == ASSUME Features!Init PROVE TogglesInv
<1>1. [k \in {} |-> TRUE] \in UNION {[D -> BOOLEAN] : D \in SUBSET Features!Keys}
  <2>1. {} \in SUBSET Features!Keys /\ [k \in {} |-> TRUE] \in [{} -> BOOLEAN]
    OBVIOUS
  <2>2. QED
    BY <2>1
<1>2. Features!NoVisit \in Visits /\ DOMAIN Features!NoVisit.cache = {} /\ ~Features!NoVisit.super
  BY <1>1 DEF Features!NoVisit, Visits
<1>3. post \in [Post -> [form : [Features!Keys -> BOOLEAN] \cup {None}, done : 0 .. Len(Feature)]]
  BY ToggleConsts DEF Features!Init, Features!NoPost
<1>4. \A p \in Post : PostHolds(p)
  BY ToggleConsts DEF Features!Init, Features!NoPost, PostHolds
<1>5. \A v \in Visit : VisitTells(v)
  BY <1>2 DEF Features!Init, VisitTells
<1>6. visit \in [Visit -> Visits] /\ answers \in [Visit -> SUBSET (Features!Keys \X BOOLEAN)]
  BY <1>2 DEF Features!Init
<1>7. Features!TypeOK
  BY <1>2, <1>3, ToggleConsts DEF Features!Init, Features!TypeOK, Features!NoPost
<1>8. QED
  BY <1>3, <1>4, <1>5, <1>6, <1>7 DEF Features!Init, TogglesInv, Features!OneFormInForce

\* The posts go on; the requests of users do not see it.
LEMMA PostsMove ==
    ASSUME TogglesInv, UNCHANGED <<visit, answers>>, Features!OneFormInForce',
           post' \in [Post -> [form : [Features!Keys -> BOOLEAN] \cup {None}, done : 0 .. Len(Feature)]],
           toggle' \in [Features!Keys -> BOOLEAN \cup {None}], lock' \in [Features!Keys -> Post \cup {None}],
           last' \in [Features!Keys -> BOOLEAN] \cup {None}, \A p \in Post : PostHolds(p)'
    PROVE  TogglesInv'
<1>1. Features!TypeOK'
  BY DEF TogglesInv, Features!TypeOK
<1>2. QED
  BY <1>1 DEF TogglesInv, VisitTells

LEMMA PostSubmitKeeps == ASSUME TogglesInv, NEW p \in Post, NEW boxes \in [Features!Keys -> BOOLEAN], Features!Submit(p, boxes) PROVE TogglesInv'
<1>1. /\ post[p] = Features!NoPost /\ post' = [post EXCEPT ![p].form = boxes]
      /\ UNCHANGED <<toggle, lock, visit, answers, last, commits>>
  BY DEF Features!Submit
<1>2. /\ post' \in [Post -> [form : [Features!Keys -> BOOLEAN] \cup {None}, done : 0 .. Len(Feature)]]
      /\ \A q \in Post : post'[q].done = post[q].done /\ (q # p => post'[q] = post[q]) /\ post'[p].form = boxes
  BY <1>1 DEF TogglesInv
<1>3. \A q \in Post : PostHolds(q)'
  BY <1>1, <1>2, ToggleConsts DEF TogglesInv, PostHolds
<1>4. QED
  BY <1>1, <1>2, <1>3, PostsMove DEF TogglesInv, Features!TypeOK, Features!OneFormInForce

LEMMA SaveNextKeeps == ASSUME TogglesInv, NEW p \in Post, Features!SaveNext(p) PROVE TogglesInv'
<1> DEFINE d == post[p].done
           k == Feature[d + 1]
<1>1. /\ post[p].form # None /\ d < Len(Feature) /\ lock[k] = None /\ lock' = [lock EXCEPT ![k] = p]
      /\ post' = [post EXCEPT ![p].done = d + 1] /\ UNCHANGED <<toggle, visit, answers, last, commits>>
  BY DEF Features!SaveNext, Features!SaveRow, Features!Nth, TogglesInv
<1>2. d \in 0 .. Len(Feature) /\ d + 1 \in 1 .. Len(Feature) /\ k \in Features!Keys
  <2>1. post[p] \in [form : [Features!Keys -> BOOLEAN] \cup {None}, done : 0 .. Len(Feature)]
    BY DEF TogglesInv
  <2>2. d \in 0 .. Len(Feature)
    BY <2>1
  <2>3. d + 1 \in 1 .. Len(Feature)
    BY <1>1, <2>2, ToggleConsts
  <2>4. QED
    BY <2>2, <2>3, ToggleConsts
<1>3. /\ post' \in [Post -> [form : [Features!Keys -> BOOLEAN] \cup {None}, done : 0 .. Len(Feature)]]
      /\ post'[p].done = d + 1 /\ post'[p].form = post[p].form /\ \A q \in Post \ {p} : post'[q] = post[q]
  <2>1. d + 1 \in 0 .. Len(Feature)
    BY <1>2, ToggleConsts
  <2> HIDE DEF d
  <2>2. QED
    BY <1>1, <2>1 DEF TogglesInv
<1>4. lock' \in [Features!Keys -> Post \cup {None}] /\ lock'[k] = p /\ \A l \in Features!Keys \ {k} : lock'[l] = lock[l]
  BY <1>1, <1>2 DEF TogglesInv, Features!TypeOK
<1> HIDE DEF d, k
<1>5. ASSUME NEW q \in Post PROVE PostHolds(q)'
  <2>1. CASE q = p
    <3>1. post'[p].form = None => post'[p].done = 0
      BY <1>1, <1>3
    <3>2. ASSUME NEW n \in 1 .. d + 1 PROVE lock'[Feature[n]] = p
      <4>1. CASE n = d + 1
        BY <1>4, <4>1 DEF k
      <4>2. CASE n # d + 1
        <5>1. n \in 1 .. d /\ Feature[n] \in Features!Keys
          BY <1>2, <4>2, ToggleConsts
        <5>2. lock[Feature[n]] = p
          BY <5>1 DEF TogglesInv, PostHolds, d
        <5>3. QED
          BY <1>1, <1>4, <5>1, <5>2, ToggleConsts
      <4>3. QED
        BY <4>1, <4>2
    <3>3. ASSUME NEW l \in Features!Keys, lock'[l] = p PROVE \E n \in 1 .. d + 1 : Feature[n] = l
      <4>1. CASE l = k
        BY <1>2, <4>1 DEF k
      <4>2. CASE l # k
        <5>1. PICK n \in 1 .. d : Feature[n] = l
          BY <1>4, <3>3, <4>2 DEF TogglesInv, PostHolds, d
        <5>2. n \in 1 .. d + 1
          BY <1>2
        <5>3. QED
          BY <5>1, <5>2
      <4>3. QED
        BY <4>1, <4>2
    <3>4. QED
      BY <1>3, <2>1, <3>1, <3>2, <3>3 DEF PostHolds
  <2>2. CASE q # p
    <3>1. post'[q] = post[q] /\ PostHolds(q) /\ post[q].done \in 0 .. Len(Feature)
      BY <1>3, <2>2 DEF TogglesInv
    <3>2. ASSUME NEW n \in 1 .. post[q].done PROVE lock'[Feature[n]] = q
      <4>1. lock[Feature[n]] = q /\ Feature[n] \in Features!Keys
        BY <3>1, ToggleConsts DEF PostHolds
      <4>2. QED
        BY <1>1, <1>4, <4>1, ToggleConsts
    <3>3. ASSUME NEW l \in Features!Keys, lock'[l] = q PROVE \E n \in 1 .. post[q].done : Feature[n] = l
      BY <1>4, <2>2, <3>1, <3>3 DEF PostHolds
    <3>4. QED
      BY <3>1, <3>2, <3>3 DEF PostHolds
  <2>3. QED
    BY <2>1, <2>2
<1>6. QED
  BY <1>1, <1>3, <1>4, <1>5, PostsMove DEF TogglesInv, Features!TypeOK, Features!OneFormInForce

\* A post ends, and its locks with it: the others hold what they held.
LEMMA ReleaseHolds ==
    ASSUME TogglesInv, NEW p \in Post, Features!Release(p), post' = [post EXCEPT ![p] = Features!NoPost]
    PROVE  /\ lock' \in [Features!Keys -> Post \cup {None}] /\ \A q \in Post : PostHolds(q)'
           /\ post' \in [Post -> [form : [Features!Keys -> BOOLEAN] \cup {None}, done : 0 .. Len(Feature)]]
<1>1. \A k \in Features!Keys : lock'[k] = IF lock[k] = p THEN None ELSE lock[k]
  BY DEF Features!Release
<1>2. lock' \in [Features!Keys -> Post \cup {None}]
  BY DEF Features!Release, TogglesInv, Features!TypeOK
<1>3. post' \in [Post -> [form : [Features!Keys -> BOOLEAN] \cup {None}, done : 0 .. Len(Feature)]]
      /\ post'[p].form = None /\ post'[p].done = 0 /\ \A q \in Post \ {p} : post'[q] = post[q]
  <2>1. Features!NoPost \in [form : [Features!Keys -> BOOLEAN] \cup {None}, done : 0 .. Len(Feature)] /\ Features!NoPost.form = None /\ Features!NoPost.done = 0
    BY ToggleConsts DEF Features!NoPost
  <2>2. QED
    BY <2>1 DEF TogglesInv
<1>4. ASSUME NEW q \in Post PROVE PostHolds(q)'
  <2>1. CASE q = p
    BY <1>1, <1>3, <2>1, ToggleConsts DEF PostHolds
  <2>2. CASE q # p
    <3>1. post'[q] = post[q] /\ PostHolds(q) /\ post[q].done \in 0 .. Len(Feature)
      BY <1>3, <2>2 DEF TogglesInv
    <3>2. \A n \in 1 .. post[q].done : Feature[n] \in Features!Keys
      BY <3>1, ToggleConsts
    <3>3. QED
      BY <1>1, <2>2, <3>1, <3>2, ToggleConsts DEF PostHolds
  <2>3. QED
    BY <2>1, <2>2
<1>5. QED
  BY <1>2, <1>3, <1>4

LEMMA PostEnds == ASSUME TogglesInv, NEW p \in Post, Features!Commit(p) \/ Features!Abort(p) PROVE TogglesInv'
<1>1. Features!Release(p) /\ post' = [post EXCEPT ![p] = Features!NoPost] /\ UNCHANGED <<visit, answers>>
  BY DEF Features!Commit, Features!Abort
<1>2. CASE Features!Commit(p)
  <2>1. /\ post[p].done = Len(Feature) /\ last' = post[p].form
        /\ toggle' = [k \in Features!Keys |-> IF lock[k] = p THEN post[p].form[k] ELSE toggle[k]]
    BY <1>2 DEF Features!Commit
  <2>2. post[p].form \in [Features!Keys -> BOOLEAN] /\ post[p].form # None
    <3>1. PostHolds(p) /\ post[p] \in [form : [Features!Keys -> BOOLEAN] \cup {None}, done : 0 .. Len(Feature)]
      BY DEF TogglesInv
    <3>2. post[p].form # None
      BY <2>1, <3>1, ToggleConsts DEF PostHolds
    <3>3. QED
      BY <3>1, <3>2
  <2>3. \A k \in Features!Keys : lock[k] = p
    BY <2>1, ToggleConsts DEF TogglesInv, PostHolds
  <2>4. toggle' = post[p].form
    BY <2>1, <2>2, <2>3
  <2>5. Features!OneFormInForce'
    BY <2>1, <2>2, <2>4 DEF Features!OneFormInForce
  <2>6. toggle' \in [Features!Keys -> BOOLEAN \cup {None}]
    BY <2>2, <2>4
  <2>7. QED
    BY <1>1, <2>1, <2>2, <2>5, <2>6, ReleaseHolds, PostsMove
<1>3. CASE Features!Abort(p)
  BY <1>1, <1>3, ReleaseHolds, PostsMove DEF Features!Abort, TogglesInv, Features!TypeOK,
     Features!OneFormInForce
<1>4. QED
  BY <1>2, <1>3

-------------------------------------------------------------------------------
\* A request goes on; the posts do not see it.
LEMMA VisitMoves ==
    ASSUME TogglesInv, UNCHANGED <<toggle, lock, post, last>>, NEW v \in Visit, NEW j \in Visits, NEW told \in SUBSET (Features!Keys \X BOOLEAN),
           visit' = [visit EXCEPT ![v] = j], answers' = [answers EXCEPT ![v] = told],
           j.super => j.cache = [k \in {} |-> TRUE] /\ \A a \in told : a[2],
           ~ j.super => \A a \in told : a[1] \in DOMAIN j.cache /\ j.cache[a[1]] = a[2]
    PROVE  TogglesInv'
<1>1. /\ visit' \in [Visit -> Visits] /\ answers' \in [Visit -> SUBSET (Features!Keys \X BOOLEAN)]
      /\ visit'[v] = j /\ answers'[v] = told /\ \A w \in Visit \ {v} : visit'[w] = visit[w] /\ answers'[w] = answers[w]
  BY DEF TogglesInv
<1>2. \A w \in Visit : VisitTells(w)'
  <2> SUFFICES ASSUME NEW w \in Visit PROVE VisitTells(w)'
    OBVIOUS
  <2>1. CASE w = v
    BY <1>1, <2>1 DEF VisitTells
  <2>2. CASE w # v
    BY <1>1, <2>2 DEF VisitTells, TogglesInv
  <2>3. QED
    BY <2>1, <2>2
<1>3. \A w \in Visit : DOMAIN visit'[w].cache \subseteq Features!Keys /\ answers'[w] \subseteq Features!Keys \X BOOLEAN
  <2> SUFFICES ASSUME NEW w \in Visit PROVE DOMAIN visit'[w].cache \subseteq Features!Keys /\ answers'[w] \subseteq Features!Keys \X BOOLEAN
    OBVIOUS
  <2>1. visit'[w].cache \in UNION {[D -> BOOLEAN] : D \in SUBSET Features!Keys}
    BY <1>1 DEF Visits
  <2>2. QED
    BY <1>1, <2>1
<1>4. Features!TypeOK'
  BY <1>3 DEF TogglesInv, Features!TypeOK
<1>5. QED
  BY <1>1, <1>2, <1>4 DEF TogglesInv, Features!OneFormInForce, PostHolds

LEMMA EmptyCache == [k \in {} |-> TRUE] \in UNION {[D -> BOOLEAN] : D \in SUBSET Features!Keys}
<1>1. {} \in SUBSET Features!Keys /\ [k \in {} |-> TRUE] \in [{} -> BOOLEAN]
  OBVIOUS
<1>2. QED
  BY <1>1

LEMMA ComesAndGoes ==
    ASSUME TogglesInv, NEW v \in Visit, Features!Leave(v) \/ \E super \in BOOLEAN : Features!Arrive(v, super)
    PROVE  TogglesInv'
<1>1. PICK j \in {Features!NoVisit} \cup {[Features!NoVisit EXCEPT !.open = TRUE, !.super = super] : super \in BOOLEAN} :
        visit' = [visit EXCEPT ![v] = j]
  BY DEF Features!Leave, Features!Arrive
<1>2. j \in Visits /\ j.cache = [k \in {} |-> TRUE]
  <2>1. CASE j = Features!NoVisit
    BY <2>1, EmptyCache DEF Features!NoVisit, Visits
  <2>2. ASSUME NEW super \in BOOLEAN, j = [Features!NoVisit EXCEPT !.open = TRUE, !.super = super]
        PROVE  j \in Visits /\ j.cache = [k \in {} |-> TRUE]
    <3>1. j = [open |-> TRUE, super |-> super, cache |-> [k \in {} |-> TRUE]]
      BY <2>2 DEF Features!NoVisit
    <3>2. QED
      BY <3>1, EmptyCache DEF Visits
  <2>3. QED
    BY <1>1, <2>1, <2>2
<1>3. answers' = [answers EXCEPT ![v] = {}] /\ UNCHANGED <<toggle, lock, post, last>> /\ {} \in SUBSET (Features!Keys \X BOOLEAN)
  BY DEF Features!Leave, Features!Arrive
<1>4. QED
  BY <1>1, <1>2, <1>3, VisitMoves

LEMMA QuestionKeeps == ASSUME TogglesInv, NEW v \in Visit, NEW k \in Features!Keys, Features!Ask(v, k) PROVE TogglesInv'
<1> DEFINE old == visit[v].cache
           ans == Features!Answer(v, k)
           told == answers[v] \cup {<<k, ans>>}
<1>1. /\ UNCHANGED <<toggle, lock, post, last>> /\ answers' = [answers EXCEPT ![v] = told]
      /\ visit' = (IF visit[v].super THEN visit
                   ELSE [visit EXCEPT ![v].cache = [j \in {k} \cup DOMAIN old |-> IF j = k THEN ans ELSE old[j]]])
  BY DEF Features!Ask, TogglesInv
<1>2. visit[v] \in Visits /\ VisitTells(v) /\ answers[v] \in SUBSET (Features!Keys \X BOOLEAN)
  BY DEF TogglesInv
<1>3. PICK D \in SUBSET Features!Keys : old \in [D -> BOOLEAN]
  BY <1>2 DEF Visits
<1>4. ans \in BOOLEAN
  BY <1>2, <1>3 DEF Features!Answer, Features!Visible, Visits
<1>5. told \in SUBSET (Features!Keys \X BOOLEAN)
  BY <1>2, <1>4
<1>6. CASE visit[v].super
  <2>1. visit' = [visit EXCEPT ![v] = visit[v]]
    BY <1>1, <1>6 DEF TogglesInv
  <2>2. ans = TRUE /\ old = [j \in {} |-> TRUE] /\ \A a \in told : a[2]
    <3>1. ans = TRUE
      BY <1>6 DEF Features!Answer
    <3>2. old = [j \in {} |-> TRUE] /\ \A a \in answers[v] : a[2]
      BY <1>2, <1>6 DEF VisitTells
    <3> HIDE DEF ans
    <3>3. ASSUME NEW a \in told PROVE a[2] = TRUE
      <4>1. CASE a \in answers[v]
        <5>1. a[2] /\ a[2] \in BOOLEAN
          BY <1>2, <3>2, <4>1
        <5>2. QED
          BY <5>1
      <4>2. CASE a = <<k, ans>>
        BY <3>1, <4>2
      <4>3. QED
        BY <4>1, <4>2
    <3>4. \A a \in told : a[2]
      BY <3>3
    <3>5. QED
      BY <3>1, <3>2, <3>4
  <2>3. QED
    BY <1>1, <1>2, <1>5, <1>6, <2>1, <2>2, VisitMoves
<1>7. CASE ~ visit[v].super
  <2> DEFINE new == [j \in {k} \cup DOMAIN old |-> IF j = k THEN ans ELSE old[j]]
             w == [visit[v] EXCEPT !.cache = new]
  <2>1. visit' = [visit EXCEPT ![v] = w]
    BY <1>1, <1>7 DEF TogglesInv
  <2>2. new \in [{k} \cup D -> BOOLEAN] /\ {k} \cup D \in SUBSET Features!Keys
    BY <1>3, <1>4
  <2>3. new \in UNION {[E -> BOOLEAN] : E \in SUBSET Features!Keys}
    BY <2>2
  <2>4. DOMAIN new = {k} \cup D /\ new[k] = ans /\ \A j \in D \ {k} : new[j] = old[j]
    BY <1>3
  <2>5. k \in D => ans = old[k]
    BY <1>3, <1>7 DEF Features!Answer
  <2> HIDE DEF new
  <2>6. w \in Visits /\ w.super = FALSE /\ w.cache = new
    BY <1>2, <1>7, <2>3 DEF Visits
  <2> HIDE DEF w, ans
  <2>7. \A a \in told : a[1] \in DOMAIN new /\ new[a[1]] = a[2]
    <3> SUFFICES ASSUME NEW a \in told PROVE a[1] \in DOMAIN new /\ new[a[1]] = a[2]
      OBVIOUS
    <3>1. CASE a = <<k, ans>>
      BY <2>4, <3>1
    <3>2. CASE a # <<k, ans>>
      BY <1>2, <1>3, <1>7, <2>4, <2>5, <3>2 DEF VisitTells
    <3>3. QED
      BY <3>1, <3>2
  <2>8. QED
    BY <1>1, <1>5, <2>1, <2>6, <2>7, VisitMoves
<1>8. QED
  BY <1>6, <1>7

LEMMA TogglesInvStep == TogglesInv /\ [Features!Next]_Features!vars => TogglesInv'
<1> SUFFICES ASSUME TogglesInv, [Features!Next]_Features!vars PROVE TogglesInv'
  OBVIOUS
<1>1. CASE UNCHANGED Features!vars
  BY <1>1 DEF Features!vars, TogglesInv, Features!TypeOK, Features!OneFormInForce, PostHolds, VisitTells
<1>2. QED
  BY <1>1, PostSubmitKeeps, SaveNextKeeps, PostEnds, ComesAndGoes, QuestionKeeps DEF Features!Next

\* The rows are locked in one order, so of two posts one has all that the other is waiting for.
LEMMA TogglesSafe == TogglesInv => Features!TypeOK /\ Features!OneFormInForce /\ Features!NoEmbrace /\ Features!OneAnswer
<1> SUFFICES ASSUME TogglesInv PROVE Features!NoEmbrace /\ Features!OneAnswer
  BY DEF TogglesInv
<1>1. ASSUME NEW p \in Post, NEW q \in Post, Features!WaitsFor(p, q) PROVE post[p].done + 1 <= post[q].done
  <2>1. post[p].done < Len(Feature) /\ lock[Feature[post[p].done + 1]] = q
    BY <1>1 DEF Features!WaitsFor, Features!Nth
  <2>2. post[p].done \in 0 .. Len(Feature) /\ post[q].done \in 0 .. Len(Feature) /\ PostHolds(q)
    BY DEF TogglesInv
  <2>3. post[p].done + 1 \in 1 .. Len(Feature) /\ Feature[post[p].done + 1] \in Features!Keys
    BY <2>1, <2>2, ToggleConsts
  <2>4. PICK n \in 1 .. post[q].done : Feature[n] = Feature[post[p].done + 1]
    BY <2>1, <2>2, <2>3 DEF PostHolds
  <2>5. n = post[p].done + 1
    BY <2>2, <2>3, <2>4, ToggleConsts
  <2>6. QED
    BY <2>2, <2>5
<1>2. Features!NoEmbrace
  <2> SUFFICES ASSUME NEW p \in Post, NEW q \in Post, Features!WaitsFor(p, q), Features!WaitsFor(q, p) PROVE FALSE
    BY DEF Features!NoEmbrace
  <2>1. post[p].done \in 0 .. Len(Feature) /\ post[q].done \in 0 .. Len(Feature) /\ Len(Feature) \in Nat
    BY ToggleConsts DEF TogglesInv
  <2>2. post[p].done + 1 <= post[q].done /\ post[q].done + 1 <= post[p].done
    BY <1>1
  <2>3. QED
    BY <2>1, <2>2
<1>3. Features!OneAnswer
  <2> SUFFICES ASSUME NEW v \in Visit
               PROVE  /\ \A a, b \in answers[v] : a[1] = b[1] => a[2] = b[2]
                      /\ visit[v].super => \A a \in answers[v] : a[2]
    BY DEF Features!OneAnswer
  <2>1. VisitTells(v) /\ answers[v] \subseteq Features!Keys \X BOOLEAN
    BY DEF TogglesInv
  <2>2. CASE visit[v].super
    BY <2>1, <2>2 DEF VisitTells
  <2>3. CASE ~visit[v].super
    BY <2>1, <2>3 DEF VisitTells
  <2>4. QED
    BY <2>2, <2>3
<1>4. QED
  BY <1>2, <1>3

LEMMA FeaturesAreSafe == Features!Spec => [](Features!TypeOK /\ Features!OneFormInForce /\ Features!NoEmbrace /\ Features!OneAnswer)
BY TogglesBegin, TogglesInvStep, TogglesSafe, PTL DEF Features!Spec

-------------------------------------------------------------------------------
(* The switches and small forms.                                           *)

\* Only the models are named, and are deleted after a check; a reply that was saved since
\* the check has crossed the deletion.
FormRecord == [does : {"nothing", "save", "delete"}, columns : SUBSET Column, values : Settings!Stored \cup {None}]
RowsInv ==
    /\ Settings!TypeOK /\ Settings!OnlyOwnColumns /\ Settings!DeletedStays /\ Settings!NamedIsKept
    /\ edit \in [Form -> FormRecord]
    /\ named => rowKind = "model"
    /\ \A q \in Form : edit[q].does = "delete" => rowKind = "model" /\ (named => crossed)

LEMMA RowConsts == {Gate, Trait, Offer} \subseteq Column /\ None \notin Settings!Stored
BY RowAssumption DEF Settings!RowConstants, Settings!Stored

LEMMA IdleForm == Settings!Idle \in FormRecord /\ Settings!Idle.does = "nothing"
BY DEF Settings!Idle, FormRecord

LEMMA RowsBegin == ASSUME Settings!Init PROVE RowsInv
<1>1. stored \in Settings!Stored /\ stored # None
  BY RowConsts DEF Settings!Init, Settings!Stored
<1>2. QED
  BY <1>1, IdleForm DEF Settings!Init, RowsInv, Settings!TypeOK, Settings!OnlyOwnColumns,
     Settings!DeletedStays, Settings!NamedIsKept

\* A request moves on, and the row stays or is changed as it should.
LEMMA FormMoves ==
    ASSUME RowsInv, NEW q \in Form, NEW j \in FormRecord, edit' = [edit EXCEPT ![q] = j], UNCHANGED rowKind,
           j.does = "save" => j.values \in Settings!Stored, j.does = "delete" => rowKind = "model" /\ (named => crossed),
           stored' \in Settings!Stored \cup {None}, aimed' \in Settings!Stored, UNCHANGED <<named, crossed>>,
           Settings!OnlyOwnColumns', Settings!DeletedStays', Settings!NamedIsKept'
    PROVE  RowsInv'
<1>1. edit' \in [Form -> FormRecord] /\ edit'[q] = j /\ \A p \in Form \ {q} : edit'[p] = edit[p]
  BY DEF RowsInv
<1>2. Settings!TypeOK'
  <2> SUFFICES ASSUME NEW p \in Form
               PROVE  /\ edit'[p].does \in {"nothing", "save", "delete"}
                      /\ edit'[p].does = "save" => edit'[p].values \in Settings!Stored /\ edit'[p].columns \subseteq Column
    BY DEF RowsInv, Settings!TypeOK
  <2>1. edit'[p].does = "save" => edit'[p].values \in Settings!Stored
    BY <1>1 DEF RowsInv, Settings!TypeOK
  <2>2. QED
    BY <1>1, <2>1 DEF FormRecord
<1>3. QED
  BY <1>1, <1>2 DEF RowsInv

LEMMA EditLoadKeeps ==
    ASSUME RowsInv, NEW q \in Form, NEW columns \in SUBSET Column, NEW values \in Settings!Stored, Settings!Load(q, columns, values)
    PROVE  RowsInv'
<1> DEFINE j == [does |-> "save", columns |-> columns, values |-> values]
<1>1. edit' = [edit EXCEPT ![q] = j] /\ UNCHANGED <<rowKind, stored, named, aimed, deleted, written, crossed>>
  BY DEF Settings!Load
<1>2. j \in FormRecord
  BY DEF FormRecord
<1>3. Settings!OnlyOwnColumns' /\ Settings!DeletedStays' /\ Settings!NamedIsKept'
  BY <1>1 DEF RowsInv, Settings!OnlyOwnColumns, Settings!DeletedStays, Settings!NamedIsKept
<1>4. QED
  BY <1>1, <1>2, <1>3, FormMoves DEF RowsInv, Settings!TypeOK

LEMMA FlipKeeps == ASSUME RowsInv, NEW q \in Form, NEW c \in Column, Settings!Flip(q, c) PROVE RowsInv'
<1>1. stored \in Settings!Stored
  BY DEF Settings!Flip, RowsInv, Settings!TypeOK
<1>2. [stored EXCEPT ![c] = ~ @] \in Settings!Stored /\ {c} \in SUBSET Column
  BY <1>1 DEF Settings!Stored
<1>3. QED
  BY <1>2, EditLoadKeeps DEF Settings!Flip

LEMMA FillKeeps ==
    ASSUME RowsInv, NEW q \in Form, NEW columns \in SUBSET Column, NEW values \in Settings!Stored, Settings!Fill(q, columns, values)
    PROVE  RowsInv'
<1>1. stored \in Settings!Stored
  BY DEF Settings!Fill, RowsInv, Settings!TypeOK
<1>2. [c \in Column |-> IF c \in columns THEN values[c] ELSE stored[c]] \in Settings!Stored
  BY <1>1 DEF Settings!Stored
<1>3. QED
  BY <1>2, EditLoadKeeps DEF Settings!Fill

LEMMA EditsLoad ==
    ASSUME RowsInv, NEW q \in Form, NEW v \in Settings!Stored,
           \/ Settings!ToggleCompliance(q) \/ Settings!ToggleSecurity(q) \/ Settings!ToggleActive(q) \/ Settings!ToggleModel(q)
           \/ Settings!ToggleOffer(q) \/ Settings!ToggleTrait(q) \/ Settings!DisableOffered(q) \/ Settings!ToggleTraining(q)
           \/ Settings!ChangeEmail(q, v) \/ Settings!PriceModel(q, v) \/ Settings!UpdatePii(q, v) \/ Settings!PostRule(q, v)
           \/ Settings!UpdateRegion(q, v) \/ Settings!UpdateRetention(q, v) \/ Settings!UpdateDepartment(q, v) \/ Settings!UpdateProviderRegion(q, v)
    PROVE  RowsInv'
<1>1. /\ Gate \in Column /\ Trait \in Column /\ Offer \in Column
      /\ {Gate} \in SUBSET Column /\ {Trait} \in SUBSET Column /\ {Offer} \in SUBSET Column
      /\ {Gate, Trait} \in SUBSET Column /\ Column \in SUBSET Column
  BY RowConsts
<1>2. CASE \E c \in Column : Settings!Flip(q, c)
  BY <1>2, FlipKeeps
<1>3. CASE \E columns \in SUBSET Column : Settings!Fill(q, columns, v)
  BY <1>3, FillKeeps
<1>4. QED
  BY <1>1, <1>2, <1>3 DEF Settings!ToggleCompliance, Settings!ToggleSecurity, Settings!ToggleActive,
     Settings!ToggleModel, Settings!ToggleOffer, Settings!ToggleTrait,
     Settings!DisableOffered, Settings!ToggleTraining, Settings!ChangeEmail, Settings!PriceModel,
     Settings!UpdatePii, Settings!PostRule, Settings!UpdateRegion, Settings!UpdateRetention,
     Settings!UpdateDepartment, Settings!UpdateProviderRegion

\* What was loaded with the row is not written back: the row keeps what it was given.
LEMMA SaveKeeps == ASSUME RowsInv, NEW q \in Form, Settings!Save(q) PROVE RowsInv'
<1> DEFINE new == edit[q].values
           columns == edit[q].columns
           over(old) == [c \in Column |-> IF c \in columns THEN new[c] ELSE old[c]]
<1>1. /\ edit[q].does = "save" /\ edit' = [edit EXCEPT ![q] = Settings!Idle] /\ UNCHANGED <<rowKind, named, deleted, crossed>>
      /\ IF stored = None /\ ~ Settings!Inserts THEN UNCHANGED <<stored, aimed>>
         ELSE /\ stored' = (IF stored = None THEN new ELSE over(stored))
              /\ aimed' = (IF stored = None THEN new ELSE over(aimed))
  BY DEF Settings!Save, Settings!Updated
<1>2. new \in Settings!Stored /\ columns \subseteq Column /\ stored \in Settings!Stored \cup {None} /\ aimed \in Settings!Stored
  BY <1>1 DEF RowsInv, Settings!TypeOK
<1>3. \A old \in Settings!Stored : over(old) \in Settings!Stored
  BY <1>2 DEF Settings!Stored
<1>4. stored' \in Settings!Stored \cup {None} /\ aimed' \in Settings!Stored
  BY <1>1, <1>2, <1>3
<1>5. Settings!OnlyOwnColumns'
  BY <1>1, <1>2 DEF RowsInv, Settings!OnlyOwnColumns
<1>6. Settings!DeletedStays'
  BY <1>1, <1>2 DEF RowsInv, Settings!DeletedStays, Settings!Inserts
<1>7. Settings!NamedIsKept'
  BY <1>1, <1>2, <1>3, RowConsts DEF RowsInv, Settings!NamedIsKept
<1>8. QED
  BY <1>1, <1>4, <1>5, <1>6, <1>7, FormMoves, IdleForm

LEMMA DeletionsKeep ==
    ASSUME RowsInv, Settings!DeleteDepartment \/ Settings!DeleteRule \/ Settings!SaveReply \/ \E q \in Form : Settings!CheckModel(q) \/ Settings!DeleteModel(q)
    PROVE  RowsInv'
<1>1. CASE Settings!DeleteDepartment \/ Settings!DeleteRule
  BY <1>1 DEF Settings!DeleteDepartment, Settings!DeleteRule, Settings!Remove, RowsInv,
     Settings!TypeOK, Settings!OnlyOwnColumns, Settings!DeletedStays, Settings!NamedIsKept
<1>2. CASE Settings!SaveReply
  BY <1>2 DEF Settings!SaveReply, RowsInv, Settings!TypeOK, Settings!OnlyOwnColumns,
     Settings!DeletedStays, Settings!NamedIsKept
<1>3. ASSUME NEW q \in Form, Settings!CheckModel(q) PROVE RowsInv'
  <2> DEFINE j == [edit[q] EXCEPT !.does = "delete"]
  <2>1. edit' = [edit EXCEPT ![q] = j] /\ UNCHANGED <<rowKind, stored, named, aimed, deleted, written, crossed>>
        /\ rowKind = "model" /\ ~named
    BY <1>3 DEF Settings!CheckModel, Settings!Unused, RowsInv
  <2>2. j \in FormRecord /\ j.does = "delete"
    BY DEF FormRecord, RowsInv
  <2> HIDE DEF j
  <2>3. Settings!OnlyOwnColumns' /\ Settings!DeletedStays' /\ Settings!NamedIsKept'
    BY <2>1 DEF RowsInv, Settings!OnlyOwnColumns, Settings!DeletedStays, Settings!NamedIsKept
  <2>4. QED
    BY <2>1, <2>2, <2>3, FormMoves DEF RowsInv, Settings!TypeOK
<1>4. ASSUME NEW q \in Form, Settings!DeleteModel(q) PROVE RowsInv'
  <2>1. /\ edit[q].does = "delete" /\ edit' = [edit EXCEPT ![q] = Settings!Idle] /\ stored' = None
        /\ UNCHANGED <<rowKind, named, aimed, written, crossed>>
    BY <1>4 DEF Settings!DeleteModel, Settings!Remove
  <2>2. Settings!OnlyOwnColumns' /\ Settings!DeletedStays' /\ Settings!NamedIsKept'
    BY <2>1 DEF RowsInv, Settings!OnlyOwnColumns, Settings!DeletedStays, Settings!NamedIsKept
  <2>3. QED
    BY <2>1, <2>2, FormMoves, IdleForm DEF RowsInv, Settings!TypeOK
<1>5. QED
  BY <1>1, <1>2, <1>3, <1>4

LEMMA RowsInvStep == RowsInv /\ [Settings!Next]_Settings!vars => RowsInv'
<1> SUFFICES ASSUME RowsInv, [Settings!Next]_Settings!vars PROVE RowsInv'
  OBVIOUS
<1>1. \E v \in Settings!Stored : TRUE
  BY DEF RowsInv, Settings!TypeOK
<1>2. CASE UNCHANGED Settings!vars
  BY <1>2 DEF Settings!vars, RowsInv, Settings!TypeOK, Settings!OnlyOwnColumns, Settings!DeletedStays,
     Settings!NamedIsKept
<1>3. QED
  BY <1>1, <1>2, EditsLoad, SaveKeeps, DeletionsKeep DEF Settings!Next

LEMMA RowsAreSafe == Settings!Spec => [](Settings!TypeOK /\ Settings!OnlyOwnColumns /\ Settings!DeletedStays /\ Settings!NamedIsKept)
<1>1. RowsInv => Settings!TypeOK /\ Settings!OnlyOwnColumns /\ Settings!DeletedStays /\ Settings!NamedIsKept
  BY DEF RowsInv
<1>2. QED
  BY <1>1, RowsBegin, RowsInvStep, PTL DEF Settings!Spec

-------------------------------------------------------------------------------
(* The mail server's settings.                                             *)

\* A test that was accepted has proven what it tried; a form knows the row it was opened on.
TestInv ==
    /\ Server!TypeOK /\ Server!VerifiedWasTried /\ Server!PasswordKept
    /\ test \in [Tester -> [pc : {"idle", "save", "connect", "accepted", "refused"}, config : ServerConfig \cup {None},
                            password : Password \cup {None}, row : Server!Saved \cup {None}]]
    /\ \A r \in Tester : /\ test[r].pc = "save" => test[r].config \in ServerConfig
                         /\ test[r].pc = "accepted" => <<test[r].config, test[r].password>> \in proven

LEMMA TestBegins == ASSUME Server!Init PROVE TestInv
BY SmtpAssumption DEF Server!Init, TestInv, Server!TypeOK, Server!Saved, Server!Status, Server!Idle,
   Server!VerifiedWasTried, Server!PasswordKept, Server!SmtpConstants

\* One request goes on, whatever that means for the row.
LEMMA TestMoves ==
    ASSUME TestInv, NEW r \in Tester, NEW j, test' = [test EXCEPT ![r] = j],
           j \in [pc : {"idle", "save", "connect", "accepted", "refused"}, config : ServerConfig \cup {None},
                  password : Password \cup {None}, row : Server!Saved \cup {None}],
           j.pc # "idle" => j.row \in Server!Saved, j.pc = "save" => j.config \in ServerConfig,
           j.pc = "accepted" => <<j.config, j.password>> \in proven',
           saved' \in Server!Saved, typed' \in Password \cup {None}, tests' \in 0 .. MaxTests,
           proven \subseteq proven', proven' \subseteq Working, Server!VerifiedWasTried', Server!PasswordKept'
    PROVE  TestInv'
<1>1. /\ test' \in [Tester -> [pc : {"idle", "save", "connect", "accepted", "refused"}, config : ServerConfig \cup {None},
                               password : Password \cup {None}, row : Server!Saved \cup {None}]]
      /\ test'[r] = j /\ \A q \in Tester \ {r} : test'[q] = test[q]
  BY DEF TestInv
<1>2. Server!TypeOK'
  BY <1>1 DEF TestInv, Server!TypeOK
<1>3. QED
  BY <1>1, <1>2 DEF TestInv

LEMMA IdleTest ==
    Server!Idle \in [pc : {"idle", "save", "connect", "accepted", "refused"}, config : ServerConfig \cup {None},
              password : Password \cup {None}, row : Server!Saved \cup {None}] /\ Server!Idle.pc = "idle"
BY DEF Server!Idle

LEMMA TestLoadKeeps ==
    ASSUME TestInv, NEW r \in Tester, NEW pc \in {"save", "connect"}, NEW config \in ServerConfig,
           NEW password \in Password \cup {None}, Server!Load(r, pc, config, password)
    PROVE  TestInv'
<1> DEFINE j == [pc |-> pc, config |-> config, password |-> password, row |-> saved]
<1>1. /\ test' = [test EXCEPT ![r] = j] /\ UNCHANGED <<saved, proven, typed, astray, stale>> /\ tests' \in 0 .. MaxTests
  BY SmtpAssumption DEF Server!Load, TestInv, Server!TypeOK, Server!SmtpConstants
<1>2. saved \in Server!Saved /\ typed \in Password \cup {None} /\ proven \subseteq Working
  BY DEF TestInv, Server!TypeOK
<1>3. Server!VerifiedWasTried' /\ Server!PasswordKept'
  BY <1>1 DEF TestInv, Server!VerifiedWasTried, Server!PasswordKept
<1>4. j \in [pc : {"idle", "save", "connect", "accepted", "refused"}, config : ServerConfig \cup {None},
             password : Password \cup {None}, row : Server!Saved \cup {None}]
  BY <1>2
<1>5. QED
  BY <1>1, <1>2, <1>3, <1>4, TestMoves

\* A form that was opened on the row as it is writes it back with what was typed.
LEMMA ServerSaveKeeps == ASSUME TestInv, NEW r \in Tester, Server!Save(r) PROVE TestInv'
<1> DEFINE q == test[r]
<1>1. /\ q.pc = "save" /\ test' = [test EXCEPT ![r] = Server!Idle] /\ UNCHANGED <<proven, tests>>
      /\ saved' = [config |-> q.config, password |-> Server!PasswordAfter(q), status |-> Server!StatusAfter(q)]
      /\ typed' = (IF q.password = None THEN typed ELSE q.password)
      /\ stale' = (stale \/ q.row # saved) /\ astray' = (astray \/ q.row # saved)
  BY DEF Server!Save
<1>2. q.config \in ServerConfig /\ q.password \in Password \cup {None} /\ q.row \in Server!Saved
  BY <1>1 DEF TestInv, Server!TypeOK
<1>3. saved' \in Server!Saved /\ typed' \in Password \cup {None}
  BY <1>1, <1>2 DEF Server!Saved, Server!Status, Server!PasswordAfter, Server!StatusAfter, TestInv,
     Server!TypeOK
<1>4. Server!VerifiedWasTried'
  <2> SUFFICES ASSUME saved'.status = "connected", ~astray' PROVE <<saved'.config, saved'.password>> \in proven
    BY <1>1 DEF Server!VerifiedWasTried
  <2>1. q.row = saved /\ ~astray
    BY <1>1
  <2>2. q.row.status = "connected" /\ q.row.config = q.config /\ q.password = None
    BY <1>1, <1>2 DEF Server!StatusAfter, Server!Changed
  <2>3. saved'.config = saved.config /\ saved'.password = saved.password
    BY <1>1, <2>1, <2>2 DEF Server!PasswordAfter
  <2>4. QED
    BY <2>1, <2>2, <2>3 DEF TestInv, Server!VerifiedWasTried
<1>5. Server!PasswordKept'
  BY <1>1 DEF Server!PasswordKept, Server!PasswordAfter, TestInv
<1>6. QED
  BY <1>1, <1>3, <1>4, <1>5, TestMoves, IdleTest DEF TestInv, Server!TypeOK

LEMMA ConnectKeeps == ASSUME TestInv, NEW r \in Tester, Server!Connect(r) PROVE TestInv'
<1>1. PICK pc \in {"accepted", "refused"} :
        /\ test' = [test EXCEPT ![r].pc = pc]
        /\ IF pc = "accepted" THEN /\ <<test[r].config, test[r].password>> \in Working
                                   /\ proven' = proven \cup {<<test[r].config, test[r].password>>}
           ELSE UNCHANGED proven
  BY DEF Server!Connect
<1> DEFINE j == [test[r] EXCEPT !.pc = pc]
<1>2. test[r].pc = "connect" /\ test' = [test EXCEPT ![r] = j] /\ UNCHANGED <<saved, typed, astray, stale, tests>>
  BY <1>1 DEF Server!Connect, TestInv
<1>3. /\ j \in [pc : {"idle", "save", "connect", "accepted", "refused"}, config : ServerConfig \cup {None},
                password : Password \cup {None}, row : Server!Saved \cup {None}]
      /\ j.pc = pc /\ j.config = test[r].config /\ j.password = test[r].password /\ j.row = test[r].row /\ j.row \in Server!Saved
  BY <1>2 DEF TestInv, Server!TypeOK
<1> HIDE DEF j
<1>4. proven \subseteq proven' /\ proven' \subseteq Working
  BY <1>1 DEF TestInv, Server!TypeOK
<1>5. Server!VerifiedWasTried' /\ Server!PasswordKept'
  BY <1>2, <1>4 DEF TestInv, Server!VerifiedWasTried, Server!PasswordKept
<1>6. QED
  BY <1>1, <1>2, <1>3, <1>4, <1>5, TestMoves DEF TestInv, Server!TypeOK

LEMMA MarkKeeps == ASSUME TestInv, NEW r \in Tester, Server!Mark(r) PROVE TestInv'
<1> DEFINE q == test[r]
<1>1. /\ q.pc \in {"accepted", "refused"} /\ test' = [test EXCEPT ![r] = Server!Idle] /\ UNCHANGED <<proven, typed, stale, tests>>
      /\ saved' = [saved EXCEPT !.status = IF q.pc = "accepted" THEN "connected" ELSE "failed"]
      /\ astray' = (q.pc = "accepted" /\ <<q.config, q.password>> # <<saved.config, saved.password>>)
  BY DEF Server!Mark
<1>2. /\ saved' \in Server!Saved /\ saved'.config = saved.config /\ saved'.password = saved.password
      /\ saved'.status = (IF q.pc = "accepted" THEN "connected" ELSE "failed")
  BY <1>1 DEF TestInv, Server!TypeOK, Server!Saved, Server!Status
<1>3. Server!VerifiedWasTried'
  <2> SUFFICES ASSUME saved'.status = "connected", ~astray' PROVE <<saved'.config, saved'.password>> \in proven'
    BY DEF Server!VerifiedWasTried
  <2>1. q.pc = "accepted" /\ <<q.config, q.password>> \in proven
    BY <1>2 DEF TestInv
  <2>2. ~(q.pc = "accepted" /\ <<q.config, q.password>> # <<saved.config, saved.password>>)
    BY <1>1
  <2>3. QED
    BY <1>1, <1>2, <2>1, <2>2
<1>4. Server!PasswordKept'
  BY <1>1, <1>2 DEF TestInv, Server!PasswordKept
<1>5. QED
  BY <1>1, <1>2, <1>3, <1>4, TestMoves, IdleTest DEF TestInv, Server!TypeOK

LEMMA TestInvStep == TestInv /\ [Server!Next]_Server!vars => TestInv'
<1> SUFFICES ASSUME TestInv, [Server!Next]_Server!vars PROVE TestInv'
  OBVIOUS
<1>1. ASSUME NEW r \in Tester, NEW c \in ServerConfig, NEW p \in Password \cup {None}, Server!OpenSave(r, c, p) \/ Server!OpenTest(r, c, p)
      PROVE  TestInv'
  <2>1. saved.password \in Password \cup {None}
    BY DEF TestInv, Server!TypeOK, Server!Saved
  <2>2. QED
    BY <1>1, <2>1, TestLoadKeeps DEF Server!OpenSave, Server!OpenTest
<1>2. ASSUME NEW r \in Tester, Server!Abandon(r) PROVE TestInv'
  <2>1. test' = [test EXCEPT ![r] = Server!Idle] /\ UNCHANGED <<saved, proven, typed, astray, stale, tests>>
    BY <1>2 DEF Server!Abandon
  <2>2. Server!VerifiedWasTried' /\ Server!PasswordKept'
    BY <2>1 DEF TestInv, Server!VerifiedWasTried, Server!PasswordKept
  <2>3. QED
    BY <2>1, <2>2, TestMoves, IdleTest DEF TestInv, Server!TypeOK
<1>3. CASE UNCHANGED Server!vars
  BY <1>3 DEF Server!vars, TestInv, Server!TypeOK, Server!VerifiedWasTried, Server!PasswordKept
<1>4. QED
  BY <1>1, <1>2, <1>3, ServerSaveKeeps, ConnectKeeps, MarkKeeps DEF Server!Next

LEMMA ServerIsSafe == Server!Spec => [](Server!TypeOK /\ Server!VerifiedWasTried /\ Server!PasswordKept)
<1>1. TestInv => Server!TypeOK /\ Server!VerifiedWasTried /\ Server!PasswordKept
  BY DEF TestInv
<1>2. QED
  BY <1>1, TestBegins, TestInvStep, PTL DEF Server!Spec

-------------------------------------------------------------------------------
(* The departments, and what their Admins see and post.                    *)

Billing == [dept : Dept \cup {None}, to : Account]

Posts == [kind : {"limit", "no limit", "invoice", "team", "no team", "resolve"}, row : Limit \cup Invoice \cup Team,
          to : Account \cup Dept \cup Billing \cup {None}, by : Account, dept : Dept]

\* A post is about rows of its kind.
RowFits(q) ==
    /\ q.kind \in {"limit", "no limit"} => q.row \in Limit
    /\ q.kind = "invoice" => q.row \in Invoice /\ q.to \in Billing
    /\ q.kind \in {"team", "no team"} => q.row \in Team
    /\ q.kind = "resolve" => q.row \in Invoice

\* What the post has checked of its department is still so while nobody has moved.
IsOurs(q) ==
    /\ q.kind = "limit" => Scope!About(q.to) = q.dept
    /\ q.kind \in {"limit", "no limit"} => limits[q.row] = None \/ Scope!About(limits[q.row]) = q.dept
    /\ q.kind = "invoice" => q.to.dept \in {q.dept, None}
    /\ q.kind \in {"team", "no team"} => DeptOf[q.row] = q.dept
    /\ q.kind = "resolve" => invoices[q.row].dept = q.dept

ScopeTyped ==
    /\ Scope!TypeOK
    /\ limits \in [Limit -> Account \cup Dept \cup {None}]
    /\ invoices \in [Invoice -> Billing \cup {None}]
    /\ groups \subseteq Team
    /\ \A u \in Account : sent[u] <= steps

ScopeInv ==
    /\ ScopeTyped
    /\ adminPost # None => adminPost \in Posts /\ RowFits(adminPost)
    /\ adminPost # None /\ ~moved => IsOurs(adminPost)

\* The instance has its own copy of Cardinality: it is the same.
LEMMA ScopeSets == \A S : Scope!Cardinality(S) = Cardinality(S)
BY DEF Scope!Cardinality, Cardinality

LEMMA ScopeConsts ==
    /\ DeptOf \in [Team -> Dept] /\ MaxSteps \in Nat
    /\ None \notin Account /\ None \notin Dept /\ None \notin Limit /\ None \notin Invoice
    /\ None \notin Billing
    /\ \A d \in Dept : d \notin Account
BY ScopeAssumption DEF Scope!ScopeConstants, Billing

\* A page and a post ask the same in different words.
LEMMA ListsAgree ==
    ASSUME ScopeTyped
    PROVE  Scope!ListsAreActions
<1> SUFFICES ASSUME NEW a \in Scope!Admins
             PROVE  /\ Scope!UsersListed(a) \cap (Account \ Scope!Admins) = {u \in Account : Scope!MayManage(a, u)}
                    /\ Scope!InvoicesListed(a) = {i \in Invoice : Scope!MayHandle(a, i)}
                    /\ Scope!InvoicesListed(a) = {i \in Scope!Made : a \in Scope!Managers(i)}
                    /\ \A i \in Scope!Made : Scope!MayView(a, i) => i \in Scope!InvoicesListed(a) \/ invoices[i].to = a
                    /\ Scope!RefundsListed(a) = {i \in asked : Scope!MayHandle(a, i)}
                    /\ Scope!Recipients(a) = {u \in Account : Scope!MayBill(a, u)}
                    /\ Scope!TeamsListed(a) = {t \in Team : Scope!MayBillTeam(a, t)}
                    /\ Scope!DeptsListed(a) = {d \in Dept : Scope!MaySet(a, d)}
                    /\ \A l \in Scope!LimitsListed(a) : Scope!UsersListed(a) \cup Scope!DeptsListed(a) = {x \in Account \cup Dept : Scope!MayLimit(a, l, x)}
  BY DEF Scope!ListsAreActions
<1> USE DEF ScopeTyped, Scope!TypeOK
<1>1. a \in Account /\ accounts[a].role = "admin"
  BY DEF Scope!Admins
<1>2. Scope!Home = [u \in Account |-> accounts[u].dept] /\ Scope!Ours(a) = accounts[a].dept
  BY DEF Scope!Home, Scope!Ours
<1>3. \A u \in Account : accounts[u].role \in {"user", "admin"} /\ accounts[u].dept \in departments \cup {None} /\ Scope!Home[u] = accounts[u].dept
  BY <1>2
<1>4. departments \subseteq Dept /\ None \notin departments /\ (Scope!Ours(a) # None => Scope!Ours(a) \in departments)
  BY <1>1, <1>2, <1>3, ScopeConsts
<1>5. Scope!UsersListed(a) = {u \in Account : Scope!Ours(a) # None /\ accounts[u].dept = Scope!Ours(a)}
  BY <1>3 DEF Scope!UsersListed, Scope!OfDepartment
<1>6. Scope!UsersListed(a) \cap (Account \ Scope!Admins) = {u \in Account : Scope!MayManage(a, u)}
  BY <1>3, <1>5 DEF Scope!Admins, Scope!MayManage
<1>7. Scope!Made \subseteq Invoice /\ \A i \in Scope!Made : invoices[i].dept \in departments \cup {None} /\ Scope!Billed[i] = invoices[i].dept
  BY DEF Scope!Made, Scope!Billed
<1>8. Scope!InvoicesListed(a) = {i \in Invoice : Scope!MayHandle(a, i)}
  BY <1>7 DEF Scope!InvoicesListed, Scope!MayHandle
<1>9. Scope!InvoicesListed(a) = {i \in Scope!Made : a \in Scope!Managers(i)}
  BY <1>7 DEF Scope!InvoicesListed, Scope!Managers
<1>10. \A i \in Scope!Made : Scope!MayView(a, i) => i \in Scope!InvoicesListed(a) \/ invoices[i].to = a
  BY <1>7 DEF Scope!MayView, Scope!InvoicesListed, Scope!MayHandle
<1>11. Scope!RefundsListed(a) = {i \in asked : Scope!MayHandle(a, i)}
  BY <1>7, <1>8 DEF Scope!RefundsListed
<1>12. Scope!Recipients(a) = {u \in Account : Scope!MayBill(a, u)}
  BY DEF Scope!Recipients, Scope!MayBill
<1>13. Scope!TeamsListed(a) = {t \in Team : Scope!MayBillTeam(a, t)}
  <2>1. \A t \in groups : DeptOf[t] \in departments
    OBVIOUS
  <2>2. QED
    BY <1>4, <2>1 DEF Scope!TeamsListed, Scope!OfDepartment, Scope!MayBillTeam
<1>14. Scope!DeptsListed(a) = {d \in Dept : Scope!MaySet(a, d)}
  BY <1>4 DEF Scope!DeptsListed, Scope!MaySet
<1>15. ASSUME NEW l \in Scope!LimitsListed(a)
       PROVE  Scope!UsersListed(a) \cup Scope!DeptsListed(a) = {x \in Account \cup Dept : Scope!MayLimit(a, l, x)}
  <2>1. Scope!Ours(a) # None /\ Scope!Ours(a) \in departments
    BY <1>4 DEF Scope!LimitsListed
  <2>2. \A u \in Account : Scope!About(u) = accounts[u].dept
    BY DEF Scope!About
  <2>3. \A d \in Dept : Scope!About(d) = d
    BY ScopeConsts DEF Scope!About
  <2>4. \A x : Scope!MayLimit(a, l, x) <=> x \in Account \cup departments /\ Scope!About(x) = Scope!Ours(a)
    BY <2>1 DEF Scope!MayLimit
  <2>5. \A x \in Account : x \in Scope!UsersListed(a) \cup Scope!DeptsListed(a) <=> Scope!MayLimit(a, l, x)
    BY <1>4, <1>5, <2>1, <2>2, <2>4, ScopeConsts DEF Scope!DeptsListed
  <2>6. \A x \in Dept : x \in Scope!UsersListed(a) \cup Scope!DeptsListed(a) <=> Scope!MayLimit(a, l, x)
    BY <1>4, <1>5, <2>1, <2>3, <2>4, ScopeConsts DEF Scope!DeptsListed
  <2>7. Scope!UsersListed(a) \cup Scope!DeptsListed(a) \subseteq Account \cup Dept
    BY <1>4, <1>5 DEF Scope!DeptsListed
  <2>8. QED
    BY <2>5, <2>6, <2>7
<1>16. QED
  BY <1>6, <1>8, <1>9, <1>10, <1>11, <1>12, <1>13, <1>14, <1>15

LEMMA NothingListed ==
    ASSUME ScopeTyped
    PROVE  Scope!NothingWithoutDepartment
<1> SUFFICES ASSUME NEW a \in Scope!Admins, Scope!Ours(a) = None
             PROVE  /\ {} = UNION {Scope!UsersListed(a), Scope!TeamsListed(a), Scope!InvoicesListed(a), Scope!LimitsListed(a), Scope!LogListed(a),
                                   Scope!AnswersListed(a), Scope!DeptsListed(a), Scope!Recipients(a)}
                    /\ \A i \in Scope!Made : ~ Scope!MayHandle(a, i)
                    /\ \A u \in Account : ~ Scope!MayManage(a, u) /\ ~ Scope!MayBill(a, u)
  BY DEF Scope!NothingWithoutDepartment
<1>1. \A S, f : Scope!OfDepartment(a, S, f) = {}
  BY DEF Scope!OfDepartment
<1>2. Scope!UsersListed(a) = {} /\ Scope!TeamsListed(a) = {} /\ Scope!Recipients(a) = {}
  BY <1>1 DEF Scope!UsersListed, Scope!TeamsListed, Scope!Recipients
<1>3. Scope!InvoicesListed(a) = {} /\ Scope!LimitsListed(a) = {} /\ Scope!LogListed(a) = {}
  BY DEF Scope!InvoicesListed, Scope!LimitsListed, Scope!LogListed
<1>4. Scope!AnswersListed(a) = {}
  BY <1>1 DEF Scope!AnswersListed, Scope!AnswersOf
<1>5. Scope!DeptsListed(a) = {}
  BY ScopeConsts DEF Scope!DeptsListed, ScopeTyped, Scope!TypeOK
<1>6. QED
  BY <1>2, <1>3, <1>4, <1>5 DEF Scope!MayHandle, Scope!MayManage, Scope!MayBill

\* The rows of a table's users are as many as its counts add up to.
LEMMA TableTotal ==
    ASSUME ScopeTyped, NEW a
    PROVE  Scope!Total(Scope!UsageTable(a)) = Cardinality(Scope!AnswersListed(a))
<1> DEFINE A == Scope!AnswersListed(a)
           D == {m[1] : m \in A}
<1>1. \A m : m \in A <=> \E u \in Scope!OfDepartment(a, Account, Scope!Home), n \in 1 .. MaxSteps : m = <<u, n>> /\ u \in Account /\ n <= sent[u]
  BY DEF Scope!AnswersListed, Scope!AnswersOf, Scope!OfDepartment
<1>2. D \subseteq Account /\ \A m \in A : m[1] \in D
  BY <1>1
<1>3. ASSUME NEW u \in D
      PROVE  Scope!UsageTable(a)[u] = sent[u] /\ {m \in A : m[1] = u} = {u} \X (1 .. sent[u])
  <2>1. u \in Account /\ sent[u] \in Nat /\ sent[u] <= MaxSteps /\ MaxSteps \in Nat
    BY <1>2, ScopeConsts DEF ScopeTyped, Scope!TypeOK
  <2>2. u \in Scope!OfDepartment(a, Account, Scope!Home)
    BY <1>1
  <2>3. {m \in A : m[1] = u} = {u} \X (1 .. sent[u])
    <3>1. ASSUME NEW m, m \in A, m[1] = u PROVE m \in {u} \X (1 .. sent[u])
      BY <1>1, <2>1, <3>1
    <3>2. ASSUME NEW m \in {u} \X (1 .. sent[u]) PROVE m \in A /\ m[1] = u
      <4>1. PICK n \in 1 .. sent[u] : m = <<u, n>>
        OBVIOUS
      <4>2. n \in 1 .. MaxSteps /\ n <= sent[u]
        BY <2>1
      <4>3. QED
        BY <1>1, <2>1, <2>2, <4>1, <4>2
    <3>3. QED
      BY <3>1, <3>2
  <2>4. Cardinality({u} \X (1 .. sent[u])) = sent[u]
    <3>1. IsFiniteSet({u}) /\ Cardinality({u}) = 1
      BY FS_Singleton
    <3>2. 1 \in Int /\ sent[u] \in Int
      BY <2>1
    <3>3. IsFiniteSet(1 .. sent[u]) /\ Cardinality(1 .. sent[u]) = IF 1 > sent[u] THEN 0 ELSE sent[u] - 1 + 1
      BY <3>2, FS_Interval
    <3>4. PICK k \in Nat : k = sent[u]
      BY <2>1
    <3>5. (IF 1 > k THEN 0 ELSE k - 1 + 1) = k
      OBVIOUS
    <3>6. Cardinality(1 .. sent[u]) = sent[u]
      BY <3>3, <3>4, <3>5
    <3>7. Cardinality({u} \X (1 .. sent[u])) = Cardinality({u}) * Cardinality(1 .. sent[u])
      BY <3>1, <3>3, FS_Product
    <3>8. 1 * k = k
      OBVIOUS
    <3>9. QED
      BY <3>1, <3>4, <3>6, <3>7, <3>8
  <2>5. Scope!UsageTable(a)[u] = Cardinality({m \in A : m[1] = u})
    BY ScopeSets DEF Scope!UsageTable
  <2>6. QED
    BY <2>3, <2>4, <2>5
<1>4. DOMAIN Scope!UsageTable(a) = D
  BY ScopeSets DEF Scope!UsageTable
<1>5. UNION {{u} \X (1 .. Scope!UsageTable(a)[u]) : u \in DOMAIN Scope!UsageTable(a)} = A
  <2> DEFINE T == UNION {{u} \X (1 .. Scope!UsageTable(a)[u]) : u \in DOMAIN Scope!UsageTable(a)}
  <2>1. \A m : m \in T <=> \E u \in D : m \in {u} \X (1 .. sent[u])
    BY <1>3, <1>4
  <2> HIDE DEF A, D, T
  <2>2. ASSUME NEW m \in T PROVE m \in A
    BY <1>3, <2>1
  <2>3. ASSUME NEW m \in A PROVE m \in T
    BY <1>2, <1>3, <2>1
  <2>4. QED
    BY <2>2, <2>3 DEF T
<1>6. QED
  BY <1>5, ScopeSets DEF Scope!Total

LEMMA ReportsMatch ==
    ASSUME ScopeTyped
    PROVE  Scope!ReportsAgree
<1> SUFFICES ASSUME NEW a \in Scope!Admins, Scope!Ours(a) # None
             PROVE  /\ Cardinality(Scope!AnswersListed(a)) = Scope!MonthlySummary[Scope!Ours(a)]
                    /\ Scope!Total(Scope!UsageTable(a)) = Scope!MonthlySummary[Scope!Ours(a)]
                    /\ Scope!ReportUsers(a) = Scope!UsersListed(a) /\ Scope!ReportInvoices(a) = Scope!InvoicesListed(a)
                    /\ Scope!ReportAnswers(a) = Scope!MonthlySummary[Scope!Ours(a)]
  BY ScopeSets DEF Scope!ReportsAgree
<1>1. a \in Account
  BY DEF Scope!Admins
<1>2. Scope!Ours(a) \in departments
  BY <1>1 DEF Scope!Ours, ScopeTyped, Scope!TypeOK
<1>3. Scope!OfDepartment(a, Account, Scope!Home) = {u \in Account : Scope!Home[u] = Scope!Ours(a)}
  BY DEF Scope!OfDepartment
<1>4. Scope!ReportUsers(a) = Scope!UsersListed(a) /\ Scope!ReportUsers(a) = {u \in Account : Scope!Home[u] = Scope!Ours(a)}
  BY <1>3 DEF Scope!ReportUsers, Scope!UsersListed
<1>5. Scope!MonthlySummary[Scope!Ours(a)] = Cardinality(Scope!AnswersOf({u \in Account : Scope!Home[u] = Scope!Ours(a)}))
  BY <1>2, ScopeSets DEF Scope!MonthlySummary
<1>6. Scope!ReportInvoices(a) = Scope!InvoicesListed(a)
  BY DEF Scope!ReportInvoices, Scope!InvoicesListed
<1>7. QED
  BY <1>3, <1>4, <1>5, <1>6, TableTotal, ScopeSets DEF Scope!AnswersListed, Scope!ReportAnswers

-------------------------------------------------------------------------------
(* What a post has checked.                                                *)

LEMMA ScopeStarts ==
    Scope!Init => ScopeInv
<1> SUFFICES ASSUME Scope!Init PROVE ScopeInv
  OBVIOUS
<1> USE DEF Scope!Init
<1>1. Scope!Made = {}
  BY DEF Scope!Made
<1>2. \A t \in groups : DeptOf[t] \in departments
  BY ScopeConsts
<1>3. log \subseteq [by : Account, about : Account \cup {None}] /\ sent \in [Account -> Nat] /\ steps \in 0 .. MaxSteps
  BY ScopeConsts
<1>4. \A u \in Account : sent[u] <= steps
  OBVIOUS
<1>5. limits \in [Limit -> Account \cup Dept \cup {None}] /\ limits \in [Limit -> Account \cup departments \cup {None}]
  OBVIOUS
<1>6. invoices \in [Invoice -> Billing \cup {None}]
  OBVIOUS
<1>7. accounts \in [Account -> [role : {"user", "admin"}, dept : departments \cup {None}]]
  OBVIOUS
<1>8. Scope!TypeOK
  BY <1>1, <1>2, <1>3, <1>5, <1>7 DEF Scope!TypeOK
<1>9. QED
  BY <1>4, <1>5, <1>6, <1>8 DEF ScopeInv, ScopeTyped

LEMMA RowsStand ==
    ASSUME ScopeTyped, UNCHANGED <<Scope!world, Scope!rows>>, steps' \in 0 .. MaxSteps, steps' = steps + 1 \/ steps' = steps, moved' \in BOOLEAN
    PROVE  ScopeTyped'
<1> USE DEF ScopeTyped, Scope!TypeOK, Scope!world, Scope!rows
<1>1. Scope!Made' = Scope!Made
  BY DEF Scope!Made
<1>2. \A u \in Account : sent'[u] \in Nat /\ sent'[u] = sent[u]
  OBVIOUS
<1>3. PICK c \in Nat : c = steps'
  OBVIOUS
<1>4. \A u \in Account : sent[u] <= c
  BY <1>2, <1>3
<1>5. (\A u \in Account : sent[u] <= steps)'
  BY <1>2, <1>3, <1>4
<1>6. (\A i \in Scope!Made : invoices[i].dept \in departments \cup {None} /\ invoices[i].to \in Account)' /\ (asked \subseteq Scope!Made)'
  BY <1>1
<1>7. QED
  BY <1>5, <1>6

LEMMA LoadHolds ==
    ASSUME ScopeInv, NEW a \in Account, NEW kind, NEW what, NEW to, Scope!Load(a, Scope!Filed(kind, what, to)),
           Scope!Ours(a) # None, what \in Limit \cup Invoice \cup Team, to \in Account \cup Dept \cup Billing \cup {None},
           kind \in {"limit", "no limit", "invoice", "team", "no team", "resolve"},
           NEW q, q = [Scope!Filed(kind, what, to) EXCEPT !.by = a, !.dept = Scope!Ours(a)], RowFits(q), IsOurs(q)
    PROVE  ScopeInv'
<1>1. ScopeTyped /\ Scope!Ours(a) \in Dept
  BY DEF ScopeInv, ScopeTyped, Scope!TypeOK, Scope!Ours
<1>2. adminPost' = q /\ UNCHANGED <<Scope!world, Scope!rows>> /\ steps' = steps + 1 /\ steps < MaxSteps /\ moved' = FALSE
  BY DEF Scope!Load
<1>3. steps' \in 0 .. MaxSteps
  <2>1. steps \in 0 .. MaxSteps /\ MaxSteps \in Nat
    BY <1>1, ScopeConsts DEF ScopeTyped, Scope!TypeOK
  <2>2. steps < MaxSteps
    BY <1>2
  <2>4. steps + 1 \in 0 .. MaxSteps
    BY ONLY <2>1, <2>2
  <2>3. QED
    BY <1>2, <2>4
<1>4. ScopeTyped'
  BY <1>1, <1>2, <1>3, RowsStand
<1>5. q \in Posts
  BY ONLY <1>1, a \in Account, kind \in {"limit", "no limit", "invoice", "team", "no team", "resolve"},
          what \in Limit \cup Invoice \cup Team, to \in Account \cup Dept \cup Billing \cup {None},
          q = [Scope!Filed(kind, what, to) EXCEPT !.by = a, !.dept = Scope!Ours(a)] DEF Scope!Filed, Posts
<1>6. RowFits(adminPost)'
  BY <1>2 DEF RowFits
<1>7. \A x : Scope!About(x)' = Scope!About(x)
  BY <1>2 DEF Scope!About, Scope!world
<1>8. IsOurs(adminPost)'
  BY <1>2, <1>7 DEF IsOurs, Scope!rows, Scope!world
<1>9. QED
  BY <1>2, <1>4, <1>5, <1>6, <1>8 DEF ScopeInv

\* Every form an Admin may send is about rows of the Admin's department.
LEMMA AsksHold ==
    ASSUME ScopeInv, NEW a \in Account,
           \/ \E l \in Limit : Scope!AskNoLimit(a, l) \/ \E x \in Account \cup Dept : Scope!AskLimit(a, l, x)
           \/ \E i \in Invoice : Scope!AskResolve(a, i) \/ \E u \in Account : Scope!AskInvoice(a, i, u)
                                                             \/ \E t \in Team : Scope!AskTeamInvoice(a, i, t, u)
           \/ \E t \in Team : Scope!AskTeam(a, t) \/ Scope!AskNoTeam(a, t)
    PROVE  ScopeInv'
<1>1. /\ accounts[a].dept \in departments \cup {None} /\ Scope!Ours(a) = accounts[a].dept /\ departments \subseteq Dept
      /\ \A u \in Account : Scope!Home[u] = accounts[u].dept /\ Scope!Home[u] \in departments \cup {None}
  BY DEF ScopeInv, ScopeTyped, Scope!TypeOK, Scope!Ours, Scope!Home
<1>2. ASSUME NEW l \in Limit, Scope!AskNoLimit(a, l) PROVE ScopeInv'
  <2> DEFINE q == [Scope!Filed("no limit", l, None) EXCEPT !.by = a, !.dept = Scope!Ours(a)]
  <2>1. Scope!Ours(a) # None /\ Scope!About(limits[l]) = Scope!Ours(a) /\ Scope!Load(a, Scope!Filed("no limit", l, None))
    BY <1>2 DEF Scope!AskNoLimit, Scope!LimitsListed
  <2>2. q.kind = "no limit" /\ q.row = l /\ q.dept = Scope!Ours(a)
    BY DEF Scope!Filed
  <2>3. RowFits(q) /\ IsOurs(q)
    BY <2>1, <2>2 DEF RowFits, IsOurs
  <2> HIDE DEF q
  <2>4. QED
    BY <2>1, <2>3, LoadHolds DEF q
<1>3. ASSUME NEW l \in Limit, NEW x \in Account \cup Dept, Scope!AskLimit(a, l, x) PROVE ScopeInv'
  <2> DEFINE q == [Scope!Filed("limit", l, x) EXCEPT !.by = a, !.dept = Scope!Ours(a)]
  <2>1. /\ Scope!Ours(a) # None /\ (limits[l] = None \/ Scope!About(limits[l]) = Scope!Ours(a)) /\ Scope!About(x) = Scope!Ours(a)
        /\ Scope!Load(a, Scope!Filed("limit", l, x))
    BY <1>3 DEF Scope!AskLimit, Scope!MayLimit, Scope!LimitsListed
  <2>2. q.kind = "limit" /\ q.row = l /\ q.dept = Scope!Ours(a) /\ q.to = x
    BY DEF Scope!Filed
  <2>3. RowFits(q) /\ IsOurs(q)
    BY <2>1, <2>2 DEF RowFits, IsOurs
  <2> HIDE DEF q
  <2>4. QED
    BY <2>1, <2>3, LoadHolds DEF q
<1>4. ASSUME NEW i \in Invoice, Scope!AskResolve(a, i) PROVE ScopeInv'
  <2> DEFINE q == [Scope!Filed("resolve", i, None) EXCEPT !.by = a, !.dept = Scope!Ours(a)]
  <2>1. Scope!Ours(a) # None /\ invoices[i].dept = Scope!Ours(a) /\ Scope!Load(a, Scope!Filed("resolve", i, None))
    BY <1>4 DEF Scope!AskResolve, Scope!MayHandle
  <2>2. q.kind = "resolve" /\ q.row = i /\ q.dept = Scope!Ours(a)
    BY DEF Scope!Filed
  <2>3. RowFits(q) /\ IsOurs(q)
    BY <2>1, <2>2 DEF RowFits, IsOurs
  <2> HIDE DEF q
  <2>4. QED
    BY <2>1, <2>3, LoadHolds DEF q
<1>5. ASSUME NEW i \in Invoice, NEW u \in Account, Scope!AskInvoice(a, i, u) PROVE ScopeInv'
  <2> DEFINE b == [dept |-> IF Scope!Home[u] \in planned THEN Scope!Home[u] ELSE None, to |-> u]
             q == [Scope!Filed("invoice", i, b) EXCEPT !.by = a, !.dept = Scope!Ours(a)]
  <2>1. Scope!Ours(a) # None /\ Scope!Home[u] = Scope!Ours(a) /\ Scope!Load(a, Scope!Filed("invoice", i, b))
    BY <1>5 DEF Scope!AskInvoice, Scope!MayBill
  <2>2. b \in Billing /\ b.dept \in {Scope!Ours(a), None}
    BY <1>1, <2>1 DEF Billing
  <2> HIDE DEF b
  <2>3. q.kind = "invoice" /\ q.row = i /\ q.dept = Scope!Ours(a) /\ q.to = b
    BY DEF Scope!Filed
  <2>4. RowFits(q) /\ IsOurs(q)
    BY <2>2, <2>3 DEF RowFits, IsOurs
  <2> HIDE DEF q
  <2>5. QED
    BY <2>1, <2>2, <2>4, LoadHolds DEF q
<1>6. ASSUME NEW i \in Invoice, NEW t \in Team, NEW u \in Account, Scope!AskTeamInvoice(a, i, t, u) PROVE ScopeInv'
  <2> DEFINE b == [dept |-> DeptOf[t], to |-> u]
             q == [Scope!Filed("invoice", i, b) EXCEPT !.by = a, !.dept = Scope!Ours(a)]
  <2>1. DeptOf[t] = Scope!Ours(a) /\ Scope!Load(a, Scope!Filed("invoice", i, b))
    BY <1>6 DEF Scope!AskTeamInvoice, Scope!MayBillTeam
  <2>2. DeptOf[t] \in Dept /\ Scope!Ours(a) # None /\ b \in Billing /\ b.dept = Scope!Ours(a)
    BY <2>1, ScopeConsts DEF Billing
  <2> HIDE DEF b
  <2>3. q.kind = "invoice" /\ q.row = i /\ q.dept = Scope!Ours(a) /\ q.to = b
    BY DEF Scope!Filed
  <2>4. RowFits(q) /\ IsOurs(q)
    BY <2>2, <2>3 DEF RowFits, IsOurs
  <2> HIDE DEF q
  <2>5. QED
    BY <2>1, <2>2, <2>4, LoadHolds DEF q
<1>7. ASSUME NEW t \in Team, NEW kind \in {"team", "no team"}, Scope!Load(a, Scope!Filed(kind, t, None)), DeptOf[t] = Scope!Ours(a) PROVE ScopeInv'
  <2> DEFINE q == [Scope!Filed(kind, t, None) EXCEPT !.by = a, !.dept = Scope!Ours(a)]
  <2>1. Scope!Ours(a) # None
    BY <1>7, ScopeConsts
  <2>2. q.kind = kind /\ q.row = t /\ q.dept = Scope!Ours(a)
    BY DEF Scope!Filed
  <2>3. RowFits(q) /\ IsOurs(q)
    BY <1>7, <2>2 DEF RowFits, IsOurs
  <2> HIDE DEF q
  <2>4. QED
    BY <1>7, <2>1, <2>3, LoadHolds DEF q
<1>8. ASSUME NEW t \in Team, Scope!AskTeam(a, t) \/ Scope!AskNoTeam(a, t) PROVE ScopeInv'
  <2>1. CASE Scope!AskTeam(a, t)
    BY <1>7, <2>1 DEF Scope!AskTeam, Scope!MaySet
  <2>2. CASE Scope!AskNoTeam(a, t)
    BY <1>7, <2>2 DEF Scope!AskNoTeam, Scope!MayDeleteTeam, Scope!TeamsListed, Scope!OfDepartment
  <2>3. QED
    BY <1>8, <2>1, <2>2
<1>9. QED
  BY <1>2, <1>3, <1>4, <1>5, <1>6, <1>8

\* The part of the type that only the rows can disturb.
RowsTyped ==
    /\ limits \in [Limit -> Account \cup departments \cup {None}]
    /\ invoices \in [Invoice -> Billing \cup {None}]
    /\ \A i \in Scope!Made : invoices[i].dept \in departments \cup {None}
    /\ asked \subseteq Scope!Made /\ log \subseteq [by : Account, about : Account \cup {None}]

LEMMA RowsAre ==
    ASSUME ScopeTyped
    PROVE  RowsTyped
BY DEF ScopeTyped, Scope!TypeOK, RowsTyped

LEMMA RowsAreTyped ==
    ASSUME RowsTyped, departments \subseteq Dept
    PROVE  /\ limits \in [Limit -> Account \cup Dept \cup {None}]
           /\ \A i \in Scope!Made : invoices[i].dept \in departments \cup {None} /\ invoices[i].to \in Account
BY DEF RowsTyped, Scope!Made, Billing

\* What is written stays a limit, an invoice or a team of the departments there are.
LEMMA WriteHolds ==
    ASSUME ScopeInv, Scope!Write
    PROVE  ScopeInv'
<1> DEFINE q == adminPost
<1>1. adminPost # None /\ adminPost' = None /\ UNCHANGED <<accounts, departments, planned, sent, moved, steps>>
  BY DEF Scope!Write
<1>2. q \in Posts /\ RowFits(q) /\ ScopeTyped /\ RowsTyped
  BY <1>1, RowsAre DEF ScopeInv
<1>3. departments \subseteq Dept /\ groups \subseteq Team
  BY <1>2 DEF ScopeTyped, Scope!TypeOK
<1>4. ASSUME Scope!Written(None) PROVE log' \subseteq [by : Account, about : Account \cup {None}]
  <2>1. q.by \in Account
    BY <1>2 DEF Posts
  <2>2. [by |-> q.by, about |-> None] \in [by : Account, about : Account \cup {None}]
    BY <2>1
  <2>3. QED
    BY <1>2, <1>4, <2>2 DEF Scope!Written, RowsTyped
<1>5. RowsTyped' /\ groups' \subseteq Team /\ (\A t \in groups' : DeptOf[t] \in departments)
  <2>1. \A t \in groups : DeptOf[t] \in departments
    BY <1>2 DEF ScopeTyped, Scope!TypeOK
  <2>2. CASE Scope!SaveLimit
    <3>1. q.row \in Limit /\ q.to \in Account \cup departments /\ limits' = [limits EXCEPT ![q.row] = q.to]
      BY <1>2, <2>2 DEF Scope!SaveLimit, RowFits
    <3>2. limits' \in [Limit -> Account \cup departments \cup {None}]
      BY <1>2, <3>1 DEF RowsTyped
    <3>3. UNCHANGED <<invoices, asked, groups>> /\ log' \subseteq [by : Account, about : Account \cup {None}]
      BY <1>4, <2>2 DEF Scope!SaveLimit
    <3>4. QED
      BY <1>1, <1>2, <1>3, <2>1, <3>2, <3>3 DEF RowsTyped, Scope!Made
  <2>3. CASE Scope!DropLimit
    <3>1. limits' \in [Limit -> Account \cup departments \cup {None}]
      BY <1>2, <2>3 DEF Scope!DropLimit, RowsTyped
    <3>2. UNCHANGED <<invoices, asked, groups>> /\ log' \subseteq [by : Account, about : Account \cup {None}]
      BY <1>4, <2>3 DEF Scope!DropLimit
    <3>3. QED
      BY <1>1, <1>2, <1>3, <2>1, <3>1, <3>2 DEF RowsTyped, Scope!Made
  <2>4. CASE Scope!SaveInvoice
    <3>1. q.row \in Invoice /\ q.to \in Billing /\ q.to.dept \in departments \cup {None} /\ invoices' = [invoices EXCEPT ![q.row] = q.to]
      BY <1>2, <2>4 DEF Scope!SaveInvoice, RowFits
    <3>2. invoices' \in [Invoice -> Billing \cup {None}] /\ q.to # None
      BY <1>2, <3>1, ScopeConsts DEF RowsTyped
    <3>3. \A i \in Invoice : invoices'[i] = IF i = q.row THEN q.to ELSE invoices[i]
      BY <1>2, <3>1 DEF RowsTyped
    <3>4. Scope!Made' = Scope!Made \cup {q.row}
      BY <3>1, <3>2, <3>3 DEF Scope!Made
    <3>5. \A i \in Scope!Made' : invoices'[i].dept \in departments \cup {None}
      BY <1>2, <3>1, <3>3, <3>4 DEF RowsTyped, Scope!Made
    <3>6. UNCHANGED <<limits, asked, groups>> /\ log' \subseteq [by : Account, about : Account \cup {None}]
      BY <1>4, <2>4 DEF Scope!SaveInvoice
    <3>7. QED
      BY <1>1, <1>2, <1>3, <2>1, <3>2, <3>4, <3>5, <3>6 DEF RowsTyped
  <2>5. CASE Scope!SaveTeam
    <3>1. q.row \in Team /\ DeptOf[q.row] \in departments /\ (groups' = groups \cup {q.row} \/ groups' = groups \ {q.row})
      BY <1>2, <2>5 DEF Scope!SaveTeam, RowFits
    <3>2. UNCHANGED <<limits, invoices, asked>> /\ log' \subseteq [by : Account, about : Account \cup {None}]
      BY <1>4, <2>5 DEF Scope!SaveTeam
    <3>3. QED
      BY <1>1, <1>2, <1>3, <2>1, <3>1, <3>2 DEF RowsTyped, Scope!Made
  <2>6. CASE Scope!Resolve
    <3>1. asked' \subseteq asked /\ UNCHANGED <<limits, invoices, groups>> /\ log' \subseteq [by : Account, about : Account \cup {None}]
      BY <1>4, <2>6 DEF Scope!Resolve
    <3>2. QED
      BY <1>1, <1>2, <1>3, <2>1, <3>1 DEF RowsTyped, Scope!Made
  <2>7. QED
    BY <2>2, <2>3, <2>4, <2>5, <2>6 DEF Scope!Write
<1>6. (RowsTyped /\ departments \subseteq Dept)'
  BY <1>1, <1>3, <1>5
<1>7. /\ (limits \in [Limit -> Account \cup Dept \cup {None}])'
      /\ (\A i \in Scope!Made : invoices[i].dept \in departments \cup {None} /\ invoices[i].to \in Account)'
  BY <1>6, RowsAreTyped, PTL
<1>8. ScopeTyped'
  <2> USE <1>1, <1>2, <1>3, <1>5, <1>6, <1>7
  <2>1. (accounts \in [Account -> [role : {"user", "admin"}, dept : departments \cup {None}]] /\ planned \subseteq departments)'
    BY DEF ScopeTyped, Scope!TypeOK
  <2>2. (sent \in [Account -> Nat] /\ moved \in BOOLEAN /\ steps \in 0 .. MaxSteps /\ \A u \in Account : sent[u] <= steps)'
    BY DEF ScopeTyped, Scope!TypeOK
  <2>3. Scope!TypeOK'
    BY <2>1, <2>2 DEF Scope!TypeOK, RowsTyped
  <2>4. QED
    BY <2>2, <2>3 DEF ScopeTyped, RowsTyped
<1>9. QED
  BY <1>1, <1>8 DEF ScopeInv

LEMMA ActMade ==
    ASSUME ScopeTyped, Scope!Act
    PROVE  /\ steps' = steps + 1 /\ steps' \in 0 .. MaxSteps
           /\ \A u \in Account : sent[u] \in Nat /\ sent[u] <= steps
<1>1. steps \in 0 .. MaxSteps /\ MaxSteps \in Nat /\ steps < MaxSteps /\ steps' = steps + 1
  BY ScopeConsts DEF ScopeTyped, Scope!TypeOK, Scope!Act
<1>2. steps + 1 \in 0 .. MaxSteps
  BY ONLY <1>1
<1>3. QED
  BY <1>1, <1>2 DEF ScopeTyped, Scope!TypeOK

LEMMA SentBounded ==
    ASSUME ScopeTyped, Scope!Act, UNCHANGED sent
    PROVE  (sent \in [Account -> Nat] /\ steps \in 0 .. MaxSteps /\ \A u \in Account : sent[u] <= steps)'
<1>1. PICK c \in Nat : c = steps' /\ c = steps + 1
  BY ActMade DEF ScopeTyped, Scope!TypeOK
<1>2. \A u \in Account : sent[u] <= c
  BY <1>1, ActMade DEF ScopeTyped, Scope!TypeOK
<1>3. (\A u \in Account : sent[u] <= steps)'
  BY <1>1, <1>2
<1>4. QED
  BY <1>3, ActMade DEF ScopeTyped, Scope!TypeOK

LEMMA MoveHolds ==
    ASSUME ScopeInv, NEW u \in Account, NEW r \in [role : {"user", "admin"}, dept : departments \cup {None}], Scope!Move(u, r)
    PROVE  ScopeInv'
<1>1. ScopeTyped /\ Scope!Act /\ UNCHANGED <<departments, planned, groups, Scope!rows, adminPost>> /\ moved' = TRUE /\ accounts' = [accounts EXCEPT ![u] = r]
  BY DEF ScopeInv, Scope!Move
<1>2. (sent \in [Account -> Nat] /\ steps \in 0 .. MaxSteps /\ \A x \in Account : sent[x] <= steps)'
  BY <1>1, SentBounded DEF Scope!rows
<1>3. (accounts \in [Account -> [role : {"user", "admin"}, dept : departments \cup {None}]])'
  BY <1>1 DEF ScopeTyped, Scope!TypeOK
<1>4. Scope!Made' = Scope!Made
  BY <1>1 DEF Scope!Made, Scope!rows
<1>5. Scope!TypeOK'
  BY <1>1, <1>2, <1>3, <1>4 DEF ScopeTyped, Scope!TypeOK, Scope!rows
<1>6. ScopeTyped'
  BY <1>1, <1>2, <1>5 DEF ScopeTyped, Scope!rows
<1>7. QED
  BY <1>1, <1>6 DEF ScopeInv, RowFits

LEMMA DeleteHolds ==
    ASSUME ScopeInv, NEW d \in Dept, Scope!DeleteDepartment(d)
    PROVE  ScopeInv'
<1>1. /\ ScopeTyped /\ Scope!Act /\ UNCHANGED <<asked, log, sent, adminPost>> /\ moved' = TRUE
      /\ departments' = departments \ {d} /\ planned' = planned \ {d} /\ groups' = {t \in groups : DeptOf[t] # d}
  BY DEF ScopeInv, Scope!DeleteDepartment
<1>2. (sent \in [Account -> Nat] /\ steps \in 0 .. MaxSteps /\ \A x \in Account : sent[x] <= steps)'
  BY <1>1, SentBounded
<1>3. accounts' \in [Account -> [role : {"user", "admin"}, dept : departments' \cup {None}]]
  <2>1. accounts' = [u \in Account |-> IF Scope!Home[u] = d THEN [accounts[u] EXCEPT !.dept = None] ELSE accounts[u]]
    BY DEF Scope!DeleteDepartment
  <2>2. ASSUME NEW u \in Account PROVE accounts'[u] \in [role : {"user", "admin"}, dept : departments' \cup {None}]
    <3>1. accounts[u] \in [role : {"user", "admin"}, dept : departments \cup {None}] /\ Scope!Home[u] = accounts[u].dept
      BY <1>1 DEF ScopeTyped, Scope!TypeOK, Scope!Home
    <3>2. CASE Scope!Home[u] = d
      BY <1>1, <2>1, <3>1, <3>2
    <3>3. CASE Scope!Home[u] # d
      BY <1>1, <2>1, <3>1, <3>3
    <3>4. QED
      BY <3>2, <3>3
  <2>3. QED
    BY <2>1, <2>2
<1>4. limits' \in [Limit -> Account \cup departments' \cup {None}]
  BY <1>1 DEF Scope!DeleteDepartment, ScopeTyped, Scope!TypeOK
<1>5. \A i \in Invoice : /\ invoices'[i] \in Billing \cup {None} /\ (invoices'[i] # None <=> invoices[i] # None)
                         /\ invoices[i] # None => invoices'[i].dept \in departments' \cup {None}
  <2>1. \A i \in Invoice : invoices'[i] = IF i \in Scope!Made /\ invoices[i].dept = d THEN [invoices[i] EXCEPT !.dept = None] ELSE invoices[i]
    BY DEF Scope!DeleteDepartment
  <2>2. ASSUME NEW i \in Invoice
        PROVE  /\ invoices'[i] \in Billing \cup {None} /\ (invoices'[i] # None <=> invoices[i] # None)
               /\ invoices[i] # None => invoices'[i].dept \in departments' \cup {None}
    <3>1. CASE i \notin Scope!Made
      BY <1>1, <2>1, <3>1 DEF Scope!Made
    <3>2. CASE i \in Scope!Made /\ invoices[i].dept # d
      BY <1>1, <2>1, <3>2 DEF Scope!Made, ScopeTyped, Scope!TypeOK
    <3>3. CASE i \in Scope!Made /\ invoices[i].dept = d
      <4>1. invoices[i] \in Billing /\ invoices'[i] = [invoices[i] EXCEPT !.dept = None]
        BY <1>1, <2>1, <3>3 DEF Scope!Made, ScopeTyped
      <4>2. invoices'[i] \in Billing /\ invoices'[i].dept = None
        BY <4>1 DEF Billing
      <4>3. QED
        BY <3>3, <4>2, ScopeConsts DEF Scope!Made
    <3>4. QED
      BY <3>1, <3>2, <3>3
  <2>3. QED
    BY <2>2
<1>6. invoices' \in [Invoice -> Billing \cup {None}]
  BY <1>5 DEF Scope!DeleteDepartment
<1>7. Scope!Made' = Scope!Made
  BY <1>5 DEF Scope!Made
<1>8. RowsTyped'
  BY <1>1, <1>4, <1>5, <1>6, <1>7 DEF RowsTyped, Scope!Made, ScopeTyped, Scope!TypeOK
<1>9. (RowsTyped /\ departments \subseteq Dept)'
  BY <1>1, <1>8 DEF ScopeTyped, Scope!TypeOK
<1>10. /\ (limits \in [Limit -> Account \cup Dept \cup {None}])'
       /\ (\A i \in Scope!Made : invoices[i].dept \in departments \cup {None} /\ invoices[i].to \in Account)'
  BY <1>9, RowsAreTyped, PTL
<1>11. planned' \subseteq departments' /\ groups' \subseteq Team /\ \A t \in groups' : DeptOf[t] \in departments'
  BY <1>1 DEF ScopeTyped, Scope!TypeOK
<1>12. Scope!TypeOK'
  BY <1>1, <1>2, <1>3, <1>9, <1>10, <1>11 DEF Scope!TypeOK, RowsTyped
<1>13. ScopeTyped'
  BY <1>2, <1>9, <1>10, <1>11, <1>12 DEF ScopeTyped, RowsTyped
<1>14. QED
  BY <1>1, <1>13 DEF ScopeInv, RowFits

LEMMA AskRefundHolds ==
    ASSUME ScopeInv, NEW i \in Invoice, Scope!AskRefund(i)
    PROVE  ScopeInv'
<1>1. /\ ScopeTyped /\ Scope!Act /\ UNCHANGED <<Scope!world, limits, invoices, log, sent, adminPost, moved>>
      /\ i \in Scope!Made /\ asked' = asked \cup {i}
  BY DEF ScopeInv, Scope!AskRefund
<1>2. (sent \in [Account -> Nat] /\ steps \in 0 .. MaxSteps /\ \A x \in Account : sent[x] <= steps)'
  BY <1>1, SentBounded
<1>3. Scope!Made' = Scope!Made
  BY <1>1 DEF Scope!Made
<1>4. Scope!TypeOK'
  BY <1>1, <1>2, <1>3 DEF ScopeTyped, Scope!TypeOK, Scope!world
<1>5. ScopeTyped'
  BY <1>1, <1>2, <1>4 DEF ScopeTyped, Scope!world
<1>6. \A x : Scope!About(x)' = Scope!About(x)
  BY <1>1 DEF Scope!About, Scope!world
<1>7. QED
  BY <1>1, <1>5, <1>6 DEF ScopeInv, RowFits, IsOurs

LEMMA AnswerHolds ==
    ASSUME ScopeInv, NEW u \in Account, Scope!Answer(u)
    PROVE  ScopeInv'
<1>1. /\ ScopeTyped /\ Scope!Act /\ UNCHANGED <<Scope!world, limits, invoices, asked, log, adminPost, moved>>
      /\ sent' = [sent EXCEPT ![u] = @ + 1]
  BY DEF ScopeInv, Scope!Answer
<1>2. PICK c \in Nat : c = steps' /\ c = steps + 1
  BY <1>1, ActMade DEF ScopeTyped, Scope!TypeOK
<1>3. sent' \in [Account -> Nat]
  BY <1>1 DEF ScopeTyped, Scope!TypeOK
<1>4. ASSUME NEW x \in Account PROVE sent'[x] <= c
  <2>1. PICK n \in Nat : n = sent[x] /\ n <= steps /\ steps \in Nat
    BY <1>1, ActMade DEF ScopeTyped, Scope!TypeOK
  <2>2. n + 1 <= c /\ n <= c
    BY <1>2, <2>1
  <2>3. sent'[x] = n \/ sent'[x] = n + 1
    BY <1>1, <2>1 DEF ScopeTyped, Scope!TypeOK
  <2>4. QED
    BY <2>2, <2>3
<1>5. (\A x \in Account : sent[x] <= steps)'
  BY <1>2, <1>4
<1>6. Scope!Made' = Scope!Made
  BY <1>1 DEF Scope!Made
<1>7. steps' \in 0 .. MaxSteps
  BY <1>1, ActMade
<1>8. Scope!TypeOK'
  BY <1>1, <1>3, <1>6, <1>7 DEF ScopeTyped, Scope!TypeOK, Scope!world
<1>9. ScopeTyped'
  BY <1>1, <1>5, <1>8 DEF ScopeTyped, Scope!world
<1>10. \A x : Scope!About(x)' = Scope!About(x)
  BY <1>1 DEF Scope!About, Scope!world
<1>11. QED
  BY <1>1, <1>9, <1>10 DEF ScopeInv, RowFits, IsOurs

LEMMA StandHolds ==
    ASSUME ScopeInv, Scope!Fail \/ UNCHANGED Scope!vars
    PROVE  ScopeInv'
<1>1. ScopeTyped /\ UNCHANGED <<Scope!world, Scope!rows, moved, steps>> /\ (adminPost' = None \/ adminPost' = adminPost)
  BY DEF ScopeInv, Scope!Fail, Scope!vars
<1>2. ScopeTyped'
  BY <1>1, RowsStand DEF ScopeTyped, Scope!TypeOK
<1>3. \A x : Scope!About(x)' = Scope!About(x)
  BY <1>1 DEF Scope!About, Scope!world
<1>4. QED
  BY <1>1, <1>2, <1>3 DEF ScopeInv, RowFits, IsOurs, Scope!rows

LEMMA ScopeStep ==
    ScopeInv /\ [Scope!Next]_Scope!vars => ScopeInv'
<1> SUFFICES ASSUME ScopeInv, [Scope!Next]_Scope!vars PROVE ScopeInv'
  OBVIOUS
<1>1. CASE Scope!Write \/ Scope!Fail
  BY <1>1, WriteHolds, StandHolds
<1>2. ASSUME NEW a \in Account,
             \/ \E l \in Limit : Scope!AskNoLimit(a, l) \/ \E x \in Account \cup Dept : Scope!AskLimit(a, l, x)
             \/ \E i \in Invoice : Scope!AskResolve(a, i) \/ \E u \in Account : Scope!AskInvoice(a, i, u)
                                                               \/ \E t \in Team : Scope!AskTeamInvoice(a, i, t, u)
             \/ \E t \in Team : Scope!AskTeam(a, t) \/ Scope!AskNoTeam(a, t)
      PROVE  ScopeInv'
  BY <1>2, AsksHold
<1>3. ASSUME NEW a \in Account, NEW r \in {"user", "admin"}, NEW d \in departments \cup {None}, Scope!Move(a, [role |-> r, dept |-> d])
      PROVE  ScopeInv'
  BY <1>3, MoveHolds
<1>4. ASSUME NEW a \in Account, Scope!Answer(a) PROVE ScopeInv'
  BY <1>4, AnswerHolds
<1>5. ASSUME NEW d \in Dept, Scope!DeleteDepartment(d) PROVE ScopeInv'
  BY <1>5, DeleteHolds
<1>6. ASSUME NEW i \in Invoice, Scope!AskRefund(i) PROVE ScopeInv'
  BY <1>6, AskRefundHolds
<1>7. CASE UNCHANGED Scope!vars
  BY <1>7, StandHolds
<1>8. QED
  BY <1>1, <1>2, <1>3, <1>4, <1>5, <1>6, <1>7 DEF Scope!Next

LEMMA ScopeInvariant ==
    Scope!Spec => []ScopeInv
BY ScopeStarts, ScopeStep, PTL DEF Scope!Spec

-------------------------------------------------------------------------------
(* The models.                                                             *)

\* A model that stays in the choice was let pass by three of the filters, one that
\* is a candidate by all four, since the reply began; and what a filter lets pass now is
\* part of what it has let pass.
Facets == {"zero", "allowed", "region", "enabled"}

Cleared == since["zero"] \cap since["allowed"] \cap since["region"]

AccessInv ==
    /\ Access!TypeOK
    /\ \A f \in Facets : Access!Filters[f] \subseteq since[f]
    /\ reply.passed # None => reply.passed \subseteq Cleared
    /\ reply.eu # None => Access!Region(reply.eu) \subseteq since["region"]
    /\ Access!Range(reply.candidates) \cup reply.told \subseteq Cleared \cap since["enabled"]
    /\ reply.research => reply.told \subseteq Claude
    /\ reply.pc = "idle" => reply = Access!NoReply
    /\ reply.pc = "tiers" /\ reply.passed # None => reply.left # <<>>

\* The instance has its own copies of the operators on finite sets: they are the same.
LEMMA AccessSets == \A S : Access!Cardinality(S) = Cardinality(S) /\ (Access!IsFiniteSet(S) <=> IsFiniteSet(S))
BY DEF Access!Cardinality, Cardinality, Access!IsFiniteSet, IsFiniteSet

LEMMA FacetsAre ==
    /\ DOMAIN Access!Filters = Facets /\ Access!Filters["zero"] = Access!Zero /\ Access!Filters["allowed"] = Access!Allowed(reply.team)
    /\ Access!Filters["region"] = Access!Region(euOnly) /\ Access!Filters["enabled"] = enabled
BY DEF Access!Filters, Facets

LEMMA FacetsNext ==
    /\ DOMAIN Access!Filters' = Facets /\ Access!Filters'["zero"] = Access!Zero' /\ Access!Filters'["allowed"] = Access!Allowed(reply.team)'
    /\ Access!Filters'["region"] = Access!Region(euOnly)' /\ Access!Filters'["enabled"] = enabled'
BY DEF Access!Filters, Facets

LEMMA FiltersTyped == ASSUME Access!AccessConstants, Access!RulesOK PROVE \A f \in Facets : Access!Filters[f] \subseteq Model
<1>1. Access!Zero \subseteq Model /\ Access!Region(euOnly) \subseteq Model /\ enabled \subseteq Model
  BY DEF Access!Zero, Access!Region, Access!RulesOK, Access!AccessConstants
<1>2. Access!Allowed(reply.team) \subseteq Model
  <2>1. plan # None => plan \subseteq Model
    BY DEF Access!RulesOK, Access!AccessConstants
  <2>2. Access!With("allow") \subseteq Model /\ assigned \subseteq Model
    BY DEF Access!With, Access!RulesOK
  <2>3. QED
    BY <2>1, <2>2 DEF Access!Allowed
<1>3. QED
  BY <1>1, <1>2, FacetsAre DEF Facets

LEMMA FiltersTypedNext == ASSUME Access!AccessConstants, Access!RulesOK' PROVE \A f \in Facets : Access!Filters'[f] \subseteq Model
<1>1. Access!Zero' \subseteq Model /\ Access!Region(euOnly)' \subseteq Model /\ enabled' \subseteq Model
  BY DEF Access!Zero, Access!Region, Access!RulesOK, Access!AccessConstants
<1>2. Access!Allowed(reply.team)' \subseteq Model
  <2>1. plan' # None => plan' \subseteq Model
    BY DEF Access!RulesOK, Access!AccessConstants
  <2>2. Access!With("allow")' \subseteq Model /\ assigned' \subseteq Model
    BY DEF Access!With, Access!RulesOK
  <2>3. QED
    BY <2>1, <2>2 DEF Access!Allowed
<1>3. QED
  BY <1>1, <1>2, FacetsNext DEF Facets

LEMMA NoReplyIs ==
    /\ Access!NoReply \in Access!Replies /\ Access!NoReply.pc = "idle" /\ Access!NoReply.eu = None /\ Access!NoReply.passed = None
    /\ Access!NoReply.told = {} /\ Access!NoReply.candidates = <<>> /\ Access!NoReply.research = FALSE
BY DEF Access!NoReply, Access!Replies

LEMMA NoRange == Access!Range(<<>>) = {}
BY DEF Access!Range

\* The history: what a filter lets pass is in it, and it grows while a reply is made.
LEMMA NoteGrows ==
    ASSUME Access!AccessConstants, AccessInv, Access!RulesOK', acts' \in 0 .. MaxActs, reply' \in Access!Replies, Access!Note
    PROVE  /\ Access!TypeOK'
           /\ \A f \in Facets : Access!Filters'[f] \subseteq since'[f]
           /\ reply.pc # "idle" /\ reply'.pc # "idle" => \A f \in Facets : since[f] \subseteq since'[f]
<1>1. DOMAIN since = Facets /\ \A f \in Facets : since[f] \subseteq Model
  BY DEF AccessInv, Access!TypeOK, Facets
<1>2. \A f \in Facets : Access!Filters'[f] \subseteq Model
  BY FiltersTypedNext
<1>3. CASE reply.pc = "idle" \/ reply'.pc = "idle"
  <2>1. since' = Access!Filters'
    BY <1>3 DEF Access!Note
  <2>2. Access!Filters' \in [Facets -> SUBSET Model]
    <3>1. Access!Filters' = [f \in Facets |-> Access!Filters'[f]]
      BY DEF Access!Filters, Facets
    <3>2. QED
      BY <1>2, <3>1
  <2>3. QED
    BY <1>3, <2>1, <2>2 DEF Access!TypeOK, Facets
<1>4. CASE ~(reply.pc = "idle" \/ reply'.pc = "idle")
  <2>1. since' = [f \in Facets |-> since[f] \cup Access!Filters'[f]]
    BY <1>1, <1>4 DEF Access!Note
  <2>2. since' \in [Facets -> SUBSET Model]
    BY <1>1, <1>2, <2>1
  <2>3. \A f \in Facets : since'[f] = since[f] \cup Access!Filters'[f]
    BY <2>1
  <2>4. QED
    BY <2>2, <2>3 DEF Access!TypeOK, Facets
<1>5. QED
  BY <1>3, <1>4

LEMMA ClearedGrows ==
    ASSUME \A f \in Facets : since[f] \subseteq since'[f]
    PROVE  Cleared \subseteq Cleared' /\ since["enabled"] \subseteq since'["enabled"] /\ since["region"] \subseteq since'["region"]
BY DEF Cleared, Facets

\* Steps of administrators.
LEMMA ActKeeps ==
    ASSUME Access!AccessConstants, AccessInv, Access!RulesOK', acts' \in 0 .. MaxActs, UNCHANGED reply, Access!Note
    PROVE  AccessInv'
<1>1. reply \in Access!Replies
  BY DEF AccessInv, Access!TypeOK
<1>2. Access!TypeOK' /\ \A f \in Facets : Access!Filters'[f] \subseteq since'[f]
  BY <1>1, NoteGrows
<1>3. CASE reply.pc = "idle"
  <2>1. reply = Access!NoReply
    BY <1>3 DEF AccessInv
  <2>2. QED
    BY <1>2, <1>3, <2>1, NoReplyIs, NoRange DEF AccessInv
<1>4. CASE reply.pc # "idle"
  <2>1. /\ Cleared \subseteq Cleared' /\ since["enabled"] \subseteq since'["enabled"]
        /\ since["region"] \subseteq since'["region"]
    BY <1>1, <1>4, NoteGrows, ClearedGrows
  <2>2. reply'.passed # None => reply'.passed \subseteq Cleared'
    BY <2>1 DEF AccessInv
  <2>3. reply'.eu # None => Access!Region(reply.eu)' \subseteq since'["region"]
    BY <2>1 DEF AccessInv, Access!Region
  <2>4. Access!Range(reply'.candidates) \cup reply'.told \subseteq Cleared' \cap since'["enabled"]
    BY <2>1 DEF AccessInv
  <2>5. QED
    BY <1>2, <1>4, <2>2, <2>3, <2>4 DEF AccessInv
<1>5. QED
  BY <1>3, <1>4

LEMMA ActsKeep ==
    ASSUME Access!AccessConstants, AccessInv, Access!Note,
           \/ \E m \in Model : \/ Access!ToggleProviderModel(m) \/ Access!TogglePermission(m) \/ Access!ToggleAssigned(m)
                               \/ Access!ToggleTeamModel(m) \/ Access!SetRule(m) \/ Access!SetFallback(m)
           \/ \E p \in Plans : Access!ChangePlan(p)
           \/ Access!RemoveMember \/ Access!ClearOverrides \/ Access!SetRegion \/ Access!ToggleZeroRetention
           \/ Access!SetRule(None) \/ Access!SetFallback(None)
    PROVE  AccessInv'
<1>1. Access!RulesOK /\ acts \in 0 .. MaxActs /\ MaxActs \in Nat
  BY DEF AccessInv, Access!TypeOK, Access!AccessConstants
<1>2. Access!Act
  BY DEF Access!ToggleProviderModel, Access!TogglePermission, Access!ToggleAssigned,
     Access!ToggleTeamModel, Access!SetRule, Access!SetFallback,
         Access!ChangePlan, Access!RemoveMember, Access!ClearOverrides, Access!SetRegion,
         Access!ToggleZeroRetention
<1>3. acts' \in 0 .. MaxActs /\ UNCHANGED reply
  BY <1>1, <1>2 DEF Access!Act
<1>4. Access!RulesOK'
  <2>1. CASE \E m \in Model : Access!ToggleProviderModel(m) \/ Access!ToggleAssigned(m) \/ Access!ToggleTeamModel(m)
    <3>1. \A S \in SUBSET Model, m \in Model : Access!Flip(S, m) \subseteq Model
      BY DEF Access!Flip
    <3>2. QED
      BY <1>1, <2>1, <3>1 DEF Access!ToggleProviderModel, Access!ToggleAssigned,
         Access!ToggleTeamModel, Access!RulesOK
  <2>2. CASE \E m \in Model : Access!TogglePermission(m)
    BY <1>1, <2>2 DEF Access!TogglePermission, Access!RulesOK
  <2>3. CASE \E m \in Model \cup {None} : Access!SetRule(m) \/ Access!SetFallback(m)
    BY <1>1, <2>3 DEF Access!SetRule, Access!SetFallback, Access!RulesOK
  <2>4. CASE \E p \in Plans : Access!ChangePlan(p)
    BY <1>1, <2>4 DEF Access!ChangePlan, Access!RulesOK
  <2>5. CASE Access!RemoveMember \/ Access!SetRegion \/ Access!ToggleZeroRetention
    BY <1>1, <2>5 DEF Access!RemoveMember, Access!SetRegion, Access!ToggleZeroRetention, Access!RulesOK
  <2>6. CASE Access!ClearOverrides
    BY <1>1, <2>6 DEF Access!ClearOverrides, Access!RulesOK
  <2>7. QED
    BY <2>1, <2>2, <2>3, <2>4, <2>5, <2>6
<1>5. QED
  BY <1>3, <1>4, ActKeeps

\* The reply goes on as r.
LEMMA ReplyKeeps ==
    ASSUME Access!AccessConstants, AccessInv, Access!Note, NEW r \in Access!Replies, Access!Reply(r),
           reply.pc # "idle", r.pc # "idle",
           r.eu = None \/ r.eu = reply.eu \/ r.eu = euOnly,
           r.passed # None => r.passed \subseteq Cleared,
           Access!Range(r.candidates) \cup r.told \subseteq Cleared \cap since["enabled"],
           r.research => r.told \subseteq Claude,
           r.pc = "tiers" /\ r.passed # None => r.left # <<>>
    PROVE  AccessInv'
<1>1. reply' = r /\ UNCHANGED <<enabled, plan, permission, assigned, onTeam, teamOff, euOnly, zeroOnly, rule, fallback, acts>>
  BY DEF Access!Reply, Access!rules
<1>2. Access!RulesOK' /\ acts' \in 0 .. MaxActs
  BY <1>1 DEF AccessInv, Access!TypeOK, Access!RulesOK
<1>3. Access!TypeOK' /\ (\A f \in Facets : Access!Filters'[f] \subseteq since'[f]) /\ \A f \in Facets : since[f] \subseteq since'[f]
  BY <1>1, <1>2, NoteGrows
<1>4. /\ Cleared \subseteq Cleared' /\ since["enabled"] \subseteq since'["enabled"]
      /\ since["region"] \subseteq since'["region"]
  BY <1>3, ClearedGrows
<1>5. r.eu # None => Access!Region(r.eu) \subseteq since'["region"]
  <2>1. Access!Region(euOnly) \subseteq since["region"]
    BY FacetsAre DEF AccessInv, Facets
  <2>2. reply.eu # None => Access!Region(reply.eu) \subseteq since["region"]
    BY DEF AccessInv
  <2>3. QED
    BY <1>4, <2>1, <2>2
<1>6. r.passed # None => r.passed \subseteq Cleared'
  BY <1>4
<1>7. Access!Range(r.candidates) \cup r.told \subseteq Cleared' \cap since'["enabled"]
  BY <1>4
<1>8. Access!Region(reply.eu)' = Access!Region(r.eu)
  BY <1>1 DEF Access!Region
<1>9. QED
  BY <1>1, <1>3, <1>5, <1>6, <1>7, <1>8 DEF AccessInv

\* The reply ends, or begins.
LEMMA FreshKeeps ==
    ASSUME Access!AccessConstants, AccessInv, Access!Note, NEW r \in Access!Replies, Access!Reply(r),
           r.eu = None, r.passed = None, r.told = {}, r.candidates = <<>>,
           r.pc = "idle" => r = Access!NoReply
    PROVE  AccessInv'
<1>1. reply' = r /\ UNCHANGED <<enabled, plan, permission, assigned, onTeam, teamOff, euOnly, zeroOnly, rule, fallback, acts>>
  BY DEF Access!Reply, Access!rules
<1>2. Access!RulesOK' /\ acts' \in 0 .. MaxActs
  BY <1>1 DEF AccessInv, Access!TypeOK, Access!RulesOK
<1>3. Access!TypeOK' /\ \A f \in Facets : Access!Filters'[f] \subseteq since'[f]
  BY <1>1, <1>2, NoteGrows
<1>4. QED
  BY <1>1, <1>3, NoRange DEF AccessInv

LEMMA EndKeeps == ASSUME Access!AccessConstants, AccessInv, Access!Note, Access!Reply(Access!NoReply) PROVE AccessInv'
BY NoReplyIs, FreshKeeps

LEMMA BeginKeeps ==
    ASSUME Access!AccessConstants, AccessInv, Access!Note, NEW want \in Model \cup {None}, NEW research \in BOOLEAN,
           Access!Begin(want, research)
    PROVE  AccessInv'
<1> DEFINE pc == IF want = None THEN "rule" ELSE "manual"
           r == [Access!NoReply EXCEPT !.pc = pc, !.want = want, !.research = research, !.team = onTeam]
<1>1. onTeam \in BOOLEAN
  BY DEF AccessInv, Access!TypeOK, Access!RulesOK
<1>2. Access!Reply(r)
  BY DEF Access!Begin
<1>3. pc \in {"idle", "manual", "rule", "classify", "tiers", "budget", "ask"} /\ pc # "idle"
  OBVIOUS
<1> HIDE DEF pc
<1>4. r \in Access!Replies
  BY <1>1, <1>3, NoReplyIs DEF Access!Replies
<1>5. r.pc = pc /\ r.eu = None /\ r.passed = None /\ r.told = {} /\ r.candidates = <<>>
  BY NoReplyIs DEF Access!Replies
<1> HIDE DEF r
<1>6. QED
  BY <1>2, <1>3, <1>4, <1>5, FreshKeeps

\* The reply as it is looked at by the steps.
LEMMA ReplyTyped ==
    ASSUME AccessInv
    PROVE  /\ reply \in Access!Replies /\ reply.research \in BOOLEAN /\ reply.candidates \in Seq(Model)
           /\ reply.told \subseteq Model /\ reply.want \in Model \cup {None} /\ reply.target \in Model \cup {None}
           /\ reply.left \in Seq({"economy", "default", "premium"})
           /\ reply.passed \in {None} \cup SUBSET Model /\ enabled \subseteq Model
           /\ rule \in Model \cup {None} /\ fallback \in Model \cup {None} /\ euOnly \in BOOLEAN
           /\ reply.eu \in {None} \cup BOOLEAN
<1>1. reply \in Access!Replies
  BY DEF AccessInv, Access!TypeOK
<1>2. /\ reply.research \in BOOLEAN /\ reply.candidates \in Seq(Model)
      /\ reply.told \subseteq Model /\ reply.want \in Model \cup {None} /\ reply.target \in Model \cup {None}
      /\ reply.left \in Seq({"economy", "default", "premium"})
  BY <1>1 DEF Access!Replies
<1>3. reply.passed \in {None} \cup SUBSET Model /\ reply.eu \in {None} \cup BOOLEAN
  BY <1>1 DEF Access!Replies
<1>4. enabled \subseteq Model /\ rule \in Model \cup {None} /\ fallback \in Model \cup {None} /\ euOnly \in BOOLEAN
  BY DEF AccessInv, Access!TypeOK, Access!RulesOK
<1>5. QED
  BY <1>1, <1>2, <1>3, <1>4

\* What stays after the rows were read passes the filters, and with the last of them all.
LEMMA VisibleIsCleared ==
    ASSUME AccessInv, reply.passed # None
    PROVE  Access!Visible \subseteq Cleared \cap since["enabled"] /\ Access!Visible \subseteq Model
<1>1. enabled \subseteq since["enabled"]
  BY FacetsAre DEF AccessInv, Facets
<1>2. reply.passed \subseteq Cleared
  BY DEF AccessInv
<1>3. enabled \subseteq Model
  BY ReplyTyped
<1>4. QED
  BY <1>1, <1>2, <1>3 DEF Access!Visible

LEMMA LookKeeps == ASSUME Access!AccessConstants, AccessInv, Access!Note, Access!Look PROVE AccessInv'
<1> DEFINE eu == IF reply.eu = None THEN euOnly ELSE reply.eu
           passed == Access!Zero \cap Access!Allowed(reply.team) \cap Access!Region(eu)
           target == CASE reply.pc = "manual" -> reply.want
                       [] reply.pc = "rule" -> rule
                       [] reply.pc = "budget" -> fallback
                       [] OTHER -> None
           r == [reply EXCEPT !.eu = eu, !.passed = passed, !.target = target]
<1>1. Access!Reply(r)
  BY DEF Access!Look
<1>2. reply.pc \in {"manual", "rule", "tiers", "budget"} /\ (reply.pc = "tiers" => reply.left # <<>>)
  BY DEF Access!Look
<1>3. eu \in BOOLEAN /\ target \in Model \cup {None}
  BY ReplyTyped
<1>4. passed \subseteq Model
  BY FiltersTyped, FacetsAre DEF AccessInv, Access!TypeOK, Facets
<1>5. passed \subseteq Cleared
  <2>1. Access!Zero \subseteq since["zero"] /\ Access!Allowed(reply.team) \subseteq since["allowed"] /\ Access!Region(euOnly) \subseteq since["region"]
    BY FacetsAre DEF AccessInv, Facets
  <2>2. Access!Region(eu) \subseteq since["region"]
    BY <2>1 DEF AccessInv
  <2>3. QED
    BY <2>1, <2>2 DEF Cleared
<1>6. eu = reply.eu \/ eu = euOnly
  OBVIOUS
<1> HIDE DEF eu, passed, target
<1>7. r \in Access!Replies
  BY <1>3, <1>4, ReplyTyped DEF Access!Replies
<1>8. /\ r.pc = reply.pc /\ r.eu = eu /\ r.passed = passed /\ r.candidates = reply.candidates
      /\ r.told = reply.told /\ r.research = reply.research /\ r.left = reply.left
  BY ReplyTyped DEF Access!Replies
<1> HIDE DEF r
<1>9. Access!Range(r.candidates) \cup r.told \subseteq Cleared \cap since["enabled"] /\ (r.research => r.told \subseteq Claude)
  BY <1>8 DEF AccessInv
<1>10. QED
  BY <1>1, <1>2, <1>5, <1>6, <1>7, <1>8, <1>9, ReplyKeeps

\* The next station of a reply, with the candidates it has from then on.
LEMMA GoKeeps ==
    ASSUME Access!AccessConstants, AccessInv, Access!Note, reply.pc # "idle",
           NEW pc \in {"rule", "classify", "budget", "ask"},
           NEW candidates \in Seq(Model), Access!Range(candidates) \subseteq Cleared \cap since["enabled"],
           Access!Go(pc, candidates)
    PROVE  AccessInv'
<1> DEFINE r == [reply EXCEPT !.pc = pc, !.passed = None, !.target = None, !.candidates = candidates]
<1>1. Access!Reply(r)
  BY DEF Access!Go
<1>2. r \in Access!Replies
  BY ReplyTyped DEF Access!Replies
<1>3. /\ r.pc = pc /\ r.eu = reply.eu /\ r.passed = None /\ r.candidates = candidates
      /\ r.told = reply.told /\ r.research = reply.research
  BY ReplyTyped DEF Access!Replies
<1> HIDE DEF r
<1>4. Access!Range(r.candidates) \cup r.told \subseteq Cleared \cap since["enabled"] /\ (r.research => r.told \subseteq Claude)
  BY <1>3 DEF AccessInv
<1>5. QED
  BY <1>1, <1>2, <1>3, <1>4, ReplyKeeps

LEMMA OneModel == ASSUME NEW m \in Model PROVE <<m>> \in Seq(Model) /\ Access!Range(<<m>>) = {m}
BY DEF Access!Range

LEMMA NoModels == <<>> \in Seq(Model)
OBVIOUS

LEMMA TakeManualKeeps == ASSUME Access!AccessConstants, AccessInv, Access!Note, Access!TakeManual PROVE AccessInv'
<1>1. reply.pc # "idle" /\ reply.passed # None
  BY DEF Access!TakeManual
<1>2. CASE reply.target \in Access!Visible
  <2>1. reply.target \in Model /\ reply.target \in Cleared \cap since["enabled"]
    BY <1>1, <1>2, VisibleIsCleared
  <2>2. Access!Go("budget", <<reply.target>>)
    BY <1>2 DEF Access!TakeManual
  <2>3. QED
    BY <1>1, <2>1, <2>2, OneModel, GoKeeps
<1>3. CASE reply.target \notin Access!Visible
  <2>1. Access!Go("rule", <<>>)
    BY <1>3 DEF Access!TakeManual
  <2>2. QED
    BY <1>1, <2>1, NoModels, NoRange, GoKeeps
<1>4. QED
  BY <1>2, <1>3

LEMMA TakeRuleKeeps == ASSUME Access!AccessConstants, AccessInv, Access!Note, Access!TakeRule \/ Access!NoRule PROVE AccessInv'
<1>1. reply.pc # "idle"
  BY DEF Access!TakeRule, Access!NoRule
<1>2. CASE reply.passed # None /\ reply.target \in Access!Visible /\ Access!Go("budget", <<reply.target>>)
  <2>1. reply.target \in Model /\ reply.target \in Cleared \cap since["enabled"]
    BY <1>2, VisibleIsCleared
  <2>2. QED
    BY <1>1, <1>2, <2>1, OneModel, GoKeeps
<1>3. CASE Access!Go("classify", <<>>)
  BY <1>1, <1>3, NoModels, NoRange, GoKeeps
<1>4. QED
  BY <1>2, <1>3 DEF Access!TakeRule, Access!NoRule

LEMMA ClassifyKeeps == ASSUME Access!AccessConstants, AccessInv, Access!Note, Access!Classify PROVE AccessInv'
<1> DEFINE cheap == Access!InTier(enabled \cap Access!Zero, "economy")
<1>1. PICK order \in Access!Orders, m \in cheap \cup {None} :
        Access!Reply([reply EXCEPT !.pc = "tiers", !.left = order, !.classifier = m])
  BY DEF Access!Classify
<1>2. m \in Model \cup {None}
  BY ReplyTyped DEF Access!InTier
<1>3. order \in Seq({"economy", "default", "premium"}) /\ order # <<>>
  <2> DEFINE T == {"economy", "default", "premium"}
  <2>1. "economy" \in T /\ "default" \in T /\ "premium" \in T
    OBVIOUS
  <2> HIDE DEF T
  <2>2. <<"economy", "default", "premium">> \in Seq(T) \ {<<>>} /\ <<"default", "economy", "premium">> \in Seq(T) \ {<<>>}
        /\ <<"premium", "economy", "default">> \in Seq(T) \ {<<>>}
    BY <2>1
  <2>3. QED
    BY <2>2 DEF Access!Orders, T
<1> DEFINE r == [reply EXCEPT !.pc = "tiers", !.left = order, !.classifier = m]
<1>4. r \in Access!Replies
  BY <1>2, <1>3, ReplyTyped DEF Access!Replies
<1>5. /\ r.pc = "tiers" /\ r.eu = reply.eu /\ r.passed = reply.passed /\ r.candidates = reply.candidates
      /\ r.told = reply.told /\ r.research = reply.research /\ r.left = order
  BY ReplyTyped DEF Access!Replies
<1>6. Access!Reply(r)
  BY <1>1
<1> HIDE DEF r
<1>7. /\ Access!Range(r.candidates) \cup r.told \subseteq Cleared \cap since["enabled"] /\ (r.research => r.told \subseteq Claude)
      /\ (r.passed # None => r.passed \subseteq Cleared)
  BY <1>5 DEF AccessInv
<1>8. reply.pc # "idle"
  BY DEF Access!Classify
<1>9. QED
  BY <1>3, <1>4, <1>5, <1>6, <1>7, <1>8, ReplyKeeps

LEMMA RangeOfBoth ==
    ASSUME NEW S, NEW s \in Seq(S), NEW u \in Seq(S)
    PROVE  s \o u \in Seq(S) /\ Access!Range(s \o u) \subseteq Access!Range(s) \cup Access!Range(u)
<1>1. s \o u \in Seq(S) /\ Len(s \o u) = Len(s) + Len(u)
  OBVIOUS
<1>2. ASSUME NEW i \in 1 .. Len(s) + Len(u)
      PROVE  (s \o u)[i] \in Access!Range(s) \cup Access!Range(u)
  <2>1. CASE i <= Len(s)
    BY <1>2, <2>1 DEF Access!Range
  <2>2. CASE i > Len(s)
    <3>1. (s \o u)[i] = u[i - Len(s)] /\ i - Len(s) \in 1 .. Len(u)
      BY <1>2, <2>2
    <3>2. QED
      BY <3>1 DEF Access!Range
  <2>3. QED
    BY <1>2, <2>1, <2>2
<1>3. DOMAIN (s \o u) = 1 .. Len(s) + Len(u)
  BY <1>1
<1>4. QED
  BY <1>1, <1>2, <1>3 DEF Access!Range

LEMMA TakeTierKeeps == ASSUME Access!AccessConstants, AccessInv, Access!Note, Access!TakeTier PROVE AccessInv'
<1> DEFINE V == Access!InTier(Access!Visible, Head(reply.left))
<1>1. reply.pc = "tiers" /\ reply.passed # None
  BY DEF Access!TakeTier
<1>2. PICK s \in Access!ByPrice(V) :
        Access!Reply([reply EXCEPT !.passed = None, !.left = Tail(@), !.candidates = @ \o s])
  BY DEF Access!TakeTier
<1>3. V \subseteq Model /\ V \subseteq Cleared \cap since["enabled"] /\ IsFiniteSet(V)
  <2>1. V \subseteq Access!Visible
    BY DEF Access!InTier
  <2>2. V \subseteq Model /\ V \subseteq Cleared \cap since["enabled"]
    BY <1>1, <2>1, VisibleIsCleared
  <2>3. QED
    BY <2>2, AccessSets, FS_Subset DEF Access!AccessConstants
<1> HIDE DEF V
<1>4. s \in Seq(Model) /\ Access!Range(s) \subseteq V
  <2>1. Cardinality(V) \in Nat /\ s \in [1 .. Cardinality(V) -> V]
    BY <1>3, AccessSets, FS_CardinalityType DEF Access!ByPrice
  <2>2. Access!Range(s) \subseteq V
    BY <2>1 DEF Access!Range
  <2>3. s \in Seq(V)
    BY <2>1
  <2>4. QED
    BY <1>3, <2>2, <2>3
<1> DEFINE more == reply.candidates \o s
           rest == Tail(reply.left)
           r == [reply EXCEPT !.passed = None, !.left = rest, !.candidates = more]
<1>5. more \in Seq(Model) /\ Access!Range(more) \subseteq Access!Range(reply.candidates) \cup Access!Range(s)
  BY <1>4, ReplyTyped, RangeOfBoth
<1>6. rest \in Seq({"economy", "default", "premium"})
  <2>1. reply.left # <<>> /\ reply.left \in Seq({"economy", "default", "premium"})
    BY <1>1, ReplyTyped DEF AccessInv
  <2>2. QED
    BY <2>1
<1>7. Access!Reply(r)
  BY <1>2
<1> HIDE DEF more, rest
<1>8. r \in Access!Replies
  BY <1>5, <1>6, ReplyTyped DEF Access!Replies
<1>9. /\ r.pc = reply.pc /\ r.eu = reply.eu /\ r.passed = None /\ r.candidates = more
      /\ r.told = reply.told /\ r.research = reply.research
  BY ReplyTyped DEF Access!Replies
<1> HIDE DEF r
<1>10. Access!Range(r.candidates) \cup r.told \subseteq Cleared \cap since["enabled"] /\ (r.research => r.told \subseteq Claude)
  BY <1>3, <1>4, <1>5, <1>9 DEF AccessInv
<1>11. QED
  BY <1>1, <1>7, <1>8, <1>9, <1>10, ReplyKeeps

LEMMA AskedKeeps ==
    ASSUME Access!AccessConstants, AccessInv, Access!Note, reply.pc # "idle",
           NEW candidates \in Seq(Model), Access!Range(candidates) \subseteq Cleared \cap since["enabled"], Access!Ask(candidates)
    PROVE  AccessInv'
BY EndKeeps, GoKeeps DEF Access!Ask

LEMMA CandidatesCleared ==
    ASSUME AccessInv
    PROVE  reply.candidates \in Seq(Model) /\ Access!Range(reply.candidates) \subseteq Cleared \cap since["enabled"]
BY ReplyTyped DEF AccessInv

LEMMA TakeFallbackKeeps ==
    ASSUME Access!AccessConstants, AccessInv, Access!Note, Access!TakeFallback \/ Access!NoFallback \/ Access!NoMoreTiers PROVE AccessInv'
<1>1. CASE Access!TakeFallback
  <2>1. reply.pc # "idle" /\ reply.passed # None
    BY <1>1 DEF Access!TakeFallback
  <2>2. CASE reply.target \in Access!Visible
    <3>1. reply.target \in Model /\ reply.target \in Cleared \cap since["enabled"]
      BY <2>1, <2>2, VisibleIsCleared
    <3>2. Access!Ask(<<reply.target>>)
      BY <1>1, <2>2 DEF Access!TakeFallback
    <3>3. QED
      BY <2>1, <3>1, <3>2, OneModel, AskedKeeps
  <2>3. CASE reply.target \notin Access!Visible
    <3>1. Access!Ask(reply.candidates)
      BY <1>1, <2>3 DEF Access!TakeFallback
    <3>2. QED
      BY <2>1, <3>1, CandidatesCleared, AskedKeeps
  <2>4. QED
    BY <2>2, <2>3
<1>2. CASE Access!NoFallback
  <2>1. reply.pc # "idle" /\ Access!Ask(reply.candidates)
    BY <1>2 DEF Access!NoFallback
  <2>2. QED
    BY <2>1, CandidatesCleared, AskedKeeps
<1>3. CASE Access!NoMoreTiers
  <2>1. reply.pc # "idle" /\ (Access!Reply(Access!NoReply) \/ Access!Go("budget", reply.candidates))
    BY <1>3 DEF Access!NoMoreTiers
  <2>2. QED
    BY <2>1, CandidatesCleared, EndKeeps, GoKeeps
<1>4. QED
  BY <1>1, <1>2, <1>3

LEMMA CallKeeps == ASSUME Access!AccessConstants, AccessInv, Access!Note, Access!Call PROVE AccessInv'
<1> DEFINE now == {Head(reply.candidates)} \cap Access!MayBeAsked
           told == reply.told \cup now
           rest == Tail(reply.candidates)
           r == [reply EXCEPT !.told = told, !.candidates = rest]
<1>1. reply.pc = "ask" /\ reply.candidates # <<>> /\ Access!Reply(r)
  BY DEF Access!Call
<1>2. Head(reply.candidates) \in Access!Range(reply.candidates) /\ rest \in Seq(Model) /\ Access!Range(rest) \subseteq Access!Range(reply.candidates)
  <2>1. reply.candidates \in Seq(Model) /\ reply.candidates # <<>>
    BY <1>1, ReplyTyped
  <2>2. Len(reply.candidates) \in Nat \ {0} /\ Head(reply.candidates) = reply.candidates[1]
    BY <2>1
  <2>3. rest \in Seq(Model) /\ Len(rest) = Len(reply.candidates) - 1
        /\ \A i \in 1 .. Len(rest) : rest[i] = reply.candidates[i + 1]
    BY <2>1
  <2>4. QED
    BY <2>1, <2>2, <2>3 DEF Access!Range
<1>3. Access!Range(reply.candidates) \subseteq Cleared \cap since["enabled"] /\ reply.told \subseteq Cleared \cap since["enabled"]
  BY DEF AccessInv
<1>4. Access!Range(reply.candidates) \subseteq Model
  BY ReplyTyped DEF Access!Range
<1>5. now \subseteq Model /\ now \subseteq Cleared \cap since["enabled"] /\ (reply.research => now \subseteq Claude)
  BY <1>2, <1>3, <1>4 DEF Access!MayBeAsked
<1> HIDE DEF now, rest
<1>6. told \subseteq Model /\ told \subseteq Cleared \cap since["enabled"] /\ (reply.research => told \subseteq Claude)
  BY <1>3, <1>5, ReplyTyped DEF AccessInv
<1> HIDE DEF told
<1>7. r \in Access!Replies
  BY <1>2, <1>6, ReplyTyped DEF Access!Replies
<1>8. /\ r.pc = reply.pc /\ r.eu = reply.eu /\ r.passed = reply.passed /\ r.candidates = rest
      /\ r.told = told /\ r.research = reply.research
  BY ReplyTyped DEF Access!Replies
<1> HIDE DEF r
<1>9. /\ Access!Range(r.candidates) \cup r.told \subseteq Cleared \cap since["enabled"] /\ (r.research => r.told \subseteq Claude)
      /\ (r.passed # None => r.passed \subseteq Cleared)
  BY <1>2, <1>3, <1>6, <1>8 DEF AccessInv
<1>10. QED
  BY <1>1, <1>7, <1>8, <1>9, ReplyKeeps

LEMMA AccessInvInit == ASSUME Access!AccessConstants, Access!Init PROVE AccessInv
<1>1. Access!RulesOK /\ acts \in 0 .. MaxActs
  <2>1. enabled \cup assigned \cup teamOff \subseteq Model /\ plan \in Plans \cup {None}
    BY DEF Access!Init
  <2>2. permission \in [Model -> {"none", "allow", "deny"}]
    BY DEF Access!Init
  <2>3. {rule, fallback} \subseteq Model \cup {None} /\ acts \in 0 .. MaxActs
    BY DEF Access!Init, Access!AccessConstants
  <2>4. euOnly \in BOOLEAN /\ zeroOnly \in BOOLEAN /\ onTeam \in BOOLEAN
    BY DEF Access!Init
  <2>5. QED
    BY <2>1, <2>2, <2>3, <2>4 DEF Access!RulesOK
<1>2. reply = Access!NoReply /\ since = Access!Filters
  BY DEF Access!Init
<1>3. \A f \in Facets : Access!Filters[f] \subseteq Model
  BY <1>1, FiltersTyped
<1>4. Access!Filters = [f \in Facets |-> Access!Filters[f]]
  BY DEF Access!Filters, Facets
<1>5. since \in [Facets -> SUBSET Model] /\ \A f \in Facets : Access!Filters[f] \subseteq since[f]
  BY <1>2, <1>3, <1>4
<1>6. Access!TypeOK
  BY <1>1, <1>2, <1>5, NoReplyIs DEF Access!TypeOK, Facets
<1>7. QED
  BY <1>2, <1>5, <1>6, NoReplyIs, NoRange DEF AccessInv

LEMMA AccessInvStep == ASSUME Access!AccessConstants, AccessInv, [Access!Next]_Access!vars PROVE AccessInv'
<1>1. ASSUME UNCHANGED Access!vars
      PROVE  AccessInv'
  BY <1>1 DEF Access!vars, Access!rules, AccessInv, Access!TypeOK, Access!RulesOK, Access!Filters,
     Access!Zero, Access!Allowed, Access!With, Access!Region, Cleared
<1>2. ASSUME Access!Step, Access!Note
      PROVE  AccessInv'
  <2>1. ASSUME Access!Finish
        PROVE  AccessInv'
    BY <1>2, <2>1, EndKeeps DEF Access!Finish
  <2>2. QED
    BY <1>2, <2>1, ActsKeep, BeginKeeps, LookKeeps, TakeManualKeeps, TakeRuleKeeps, ClassifyKeeps,
       TakeTierKeeps,
       TakeFallbackKeeps, CallKeeps DEF Access!Step
<1>3. QED
  BY <1>1, <1>2 DEF Access!Next

\* Whatever the administrators change while a reply is made, and whichever path picked the
\* model (the URL, a rule, the tiers, the plan's fallback): a provider is only sent a message
\* whose model each of the rules has let pass since the reply began, and in research mode
\* only Claude is.
LEMMA AskedOnlyWhatWasAllowed == ASSUME Access!AccessConstants PROVE Access!Spec => []Access!AccessSafe
<1>1. Access!Init => AccessInv
  BY AccessInvInit
<1>2. AccessInv /\ [Access!Next]_Access!vars => AccessInv'
  BY AccessInvStep
<1>3. AccessInv => Access!AccessSafe
  <2> SUFFICES ASSUME AccessInv PROVE Access!AccessSafe
    OBVIOUS
  <2>2. Access!TypeOK
    BY DEF AccessInv
  <2>3. since \in [Facets -> SUBSET Model]
    BY <2>2 DEF Access!TypeOK, Facets
  <2>4. DOMAIN since = Facets
    BY <2>3
  <2>5. reply.told \subseteq Cleared \cap since["enabled"] /\ (reply.research => reply.told \subseteq Claude)
    BY DEF AccessInv
  <2>6. \A f \in Facets : reply.told \subseteq since[f]
    BY <2>5 DEF Cleared, Facets
  <2>7. QED
    BY <2>2, <2>4, <2>5, <2>6 DEF Access!AccessSafe, Access!AskedWasAllowed, Access!ResearchIsClaude
<1>4. QED
  BY <1>1, <1>2, <1>3, PTL DEF Access!Spec

-------------------------------------------------------------------------------
(* The properties.                                                         *)

LEMMA PagesTell ==
    Scope!Spec => [](Scope!TypeOK /\ Scope!ListsAreActions /\ Scope!NothingWithoutDepartment /\ Scope!ReportsAgree)
<1>1. ScopeInv => Scope!TypeOK /\ Scope!ListsAreActions /\ Scope!NothingWithoutDepartment /\ Scope!ReportsAgree
  BY ListsAgree, NothingListed, ReportsMatch DEF ScopeInv, ScopeTyped
<1>2. QED
  BY <1>1, ScopeInvariant, PTL

\* The write of a post changes rows of the department it has checked.
LEMMA WriteAtHome ==
    ASSUME ScopeInv, adminPost # None, adminPost' = None, ~ moved, [Scope!Next]_Scope!vars
    PROVE  /\ \A l \in Limit : limits'[l] # limits[l] => {Scope!About(limits[l]), Scope!About(limits'[l])} \subseteq {adminPost.dept, None}
           /\ \A i \in Invoice : invoices'[i] # invoices[i] => invoices'[i].dept \in {adminPost.dept, None}
           /\ \A t \in (groups' \ groups) \cup (groups \ groups') : DeptOf[t] = adminPost.dept
           /\ \A i \in asked \ asked' : invoices[i].dept = adminPost.dept
<1>1. Scope!Write \/ Scope!Fail
  BY DEF Scope!Next, Scope!AskNoLimit, Scope!AskLimit, Scope!AskInvoice, Scope!AskTeamInvoice,
     Scope!AskResolve, Scope!AskTeam, Scope!AskNoTeam, Scope!Load,
         Scope!Move, Scope!Answer, Scope!DeleteDepartment, Scope!AskRefund, Scope!vars, Scope!rows
<1>2. RowFits(adminPost) /\ IsOurs(adminPost) /\ RowsTyped
  BY RowsAre DEF ScopeInv
<1>3. Scope!About(None) = None
  BY ScopeConsts DEF Scope!About
<1>4. CASE Scope!Fail
  BY <1>4 DEF Scope!Fail, Scope!world, Scope!rows
<1>5. CASE Scope!Write /\ Scope!SaveLimit
  <2>1. /\ adminPost.row \in Limit /\ limits' = [limits EXCEPT ![adminPost.row] = adminPost.to] /\ UNCHANGED <<invoices, asked, groups>>
        /\ Scope!About(adminPost.to) = adminPost.dept /\ (limits[adminPost.row] = None \/ Scope!About(limits[adminPost.row]) = adminPost.dept)
    BY <1>2, <1>5 DEF Scope!SaveLimit, RowFits, IsOurs
  <2>2. \A l \in Limit : limits'[l] # limits[l] => l = adminPost.row /\ limits'[l] = adminPost.to
    BY <1>2, <2>1 DEF RowsTyped
  <2>3. QED
    BY <1>3, <2>1, <2>2
<1>6. CASE Scope!Write /\ Scope!DropLimit
  <2>1. /\ adminPost.row \in Limit /\ limits' = [limits EXCEPT ![adminPost.row] = None] /\ UNCHANGED <<invoices, asked, groups>>
        /\ limits[adminPost.row] = None \/ Scope!About(limits[adminPost.row]) = adminPost.dept
    BY <1>2, <1>6 DEF Scope!DropLimit, RowFits, IsOurs
  <2>2. \A l \in Limit : limits'[l] # limits[l] => l = adminPost.row /\ limits'[l] = None
    BY <1>2, <2>1 DEF RowsTyped
  <2>3. QED
    BY <1>3, <2>1, <2>2
<1>7. CASE Scope!Write /\ Scope!SaveInvoice
  <2>1. /\ invoices' = [invoices EXCEPT ![adminPost.row] = adminPost.to] /\ UNCHANGED <<limits, asked, groups>>
        /\ adminPost.to.dept \in {adminPost.dept, None}
    BY <1>2, <1>7 DEF Scope!SaveInvoice, IsOurs
  <2>2. \A i \in Invoice : invoices'[i] # invoices[i] => invoices'[i] = adminPost.to
    BY <1>2, <2>1 DEF RowsTyped
  <2>3. QED
    BY <2>1, <2>2
<1>8. CASE Scope!Write /\ Scope!SaveTeam
  BY <1>2, <1>8 DEF Scope!SaveTeam, IsOurs
<1>9. CASE Scope!Write /\ Scope!Resolve
  BY <1>2, <1>9 DEF Scope!Resolve, IsOurs
<1>10. QED
  BY <1>1, <1>4, <1>5, <1>6, <1>7, <1>8, <1>9 DEF Scope!Write

LEMMA PostsStayHome ==
    Scope!Spec => Scope!WritesAtHome
<1>1. ScopeInv /\ [Scope!Next]_Scope!vars =>
        [adminPost # None /\ adminPost' = None /\ ~ moved =>
         /\ \A l \in Limit : limits'[l] # limits[l] => {Scope!About(limits[l]), Scope!About(limits'[l])} \subseteq {adminPost.dept, None}
         /\ \A i \in Invoice : invoices'[i] # invoices[i] => invoices'[i].dept \in {adminPost.dept, None}
         /\ \A t \in (groups' \ groups) \cup (groups \ groups') : DeptOf[t] = adminPost.dept
         /\ \A i \in asked \ asked' : invoices[i].dept = adminPost.dept]_Scope!vars
  BY WriteAtHome
<1>2. QED
  BY <1>1, ScopeInvariant, PTL DEF Scope!Spec, Scope!WritesAtHome

-------------------------------------------------------------------------------
(* What is proved of them.                                                 *)

\* Whatever uploads, deletions, branding forms and scans run at once, a file that a column
\* refers to is missing, and one that nothing refers to is left behind, only where the code
\* loses sight of it; and no page is served another row's style sheet while no form overwrites
\* another.
THEOREM AssetsAreSafe == Files!Spec /\ Brands!Spec => []AssetsSafe
<1>1. /\ Files!TypeOK /\ Files!MissingExplained /\ Files!LeftoversExplained
      /\ Brands!TypeOK /\ Brands!NothingStale
      => AssetsSafe
  BY DEF AssetsSafe
<1>2. QED
  BY <1>1, FilesAreSafe, NothingStaleServed, PTL

\* However the rules change while a reply picks its model, none is asked that every reading
\* of them forbade.
THEOREM AccessIsSafe == Access!Spec => []AccessSafe
BY AccessAssumption, AskedOnlyWhatWasAllowed DEF AccessSafe

\* However the posts of the settings pages overlap, each is in force as a whole and writes its
\* own columns only, they never wait for each other, and a verified mail server was tried.
THEOREM SettingsAreSafe == Features!Spec /\ Settings!Spec /\ Server!Spec => []SettingsSafe
<1>1. /\ Features!TypeOK /\ Features!OneFormInForce /\ Features!NoEmbrace /\ Features!OneAnswer
      /\ Settings!TypeOK /\ Settings!OnlyOwnColumns /\ Settings!DeletedStays /\ Settings!NamedIsKept
      /\ Server!TypeOK /\ Server!VerifiedWasTried /\ Server!PasswordKept
      => SettingsSafe
  BY DEF SettingsSafe
<1>2. QED
  BY <1>1, FeaturesAreSafe, RowsAreSafe, ServerIsSafe, PTL

\* For every set of people, departments, teams, limits and invoices: the pages list what the
\* posts accept, however people move and departments go, nothing is listed for an Admin
\* without a department, and the counts of the reports are those of the pages.
THEOREM PagesAreScoped == Scope!Spec => []ScopeSafe
BY PagesTell, PTL DEF ScopeSafe

\* A post that nobody moves under changes rows of the department it was checked for.
THEOREM PostsAreScoped == Scope!Spec => WritesAtHome
BY PostsStayHome DEF WritesAtHome
===============================================================================
