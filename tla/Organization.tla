----------------------------- MODULE Organization -----------------------------
(***************************************************************************)
(* Accounts, teams and departments as the admin pages change them          *)
(* (governance/views.py).  A request loads the rows it is about without a   *)
(* lock and commits later, in one transaction, what it computed from them. *)
(* SuperAdmins are outside; an Admin is a row, and reaches a department.   *)
(***************************************************************************)
EXTENDS Naturals, FiniteSets

CONSTANTS
    User, Team, Dept,
    DeptOf,               \* [Team -> Dept], set when a team is created
    Slots,                \* bound: requests under way at once
    MaxRequests,          \* bound: requests in a run
    None,                 \* no team, no department, no manager
    New, Gone             \* a row not created yet, a row deleted


VARIABLES
    users,                \* the accounts
    manager,              \* Team.manager
    depts,                \* the departments there are
    req,                  \* the request in each slot, with the rows it loaded
    served,               \* requests so far
    raced                 \* history: a request has committed over rows changed since it loaded them

vars == <<users, manager, depts, req, served, raced>>

Slot == 1 .. Slots
Role == {"user", "manager", "admin", "superadmin"}
Row == [role : Role, dept : Dept \cup {None}, team : Team \cup {None}]

\* A row that is not there is no row, and no team, department or account either.
ASSUME OrganizationAssumption ==
    /\ DeptOf \in [Team -> Dept] /\ Slots \in Nat /\ MaxRequests \in Nat
    /\ {None, New, Gone} \cap (User \cup Team \cup Dept) = {}
    /\ None \notin {New, Gone} /\ New # Gone /\ {New, Gone} \cap Row = {}

Live(u) == users[u] \notin {New, Gone}
LiveTeam(t) == manager[t] \notin {New, Gone}

Idle == [kind |-> "none", by |-> None, user |-> None, row |-> None, role |-> "user",
         team |-> None, mgr |-> None, dept |-> None]

\* What a request has read: who asks, the row it is about and the one it was told of.
Loaded == [kind : {"none", "add", "role", "team", "department", "save", "remove"},
           by : Dept \cup {None}, user : User \cup {None}, row : Row \cup {New, None}, role : Role,
           team : Team \cup {None}, mgr : User \cup {None}, dept : Dept \cup {None}]

TypeOK ==
    /\ users \in [User -> Row \cup {New, Gone}]
    /\ manager \in [Team -> User \cup {None, New, Gone}]
    /\ depts \subseteq Dept /\ served \in 0 .. MaxRequests /\ raced \in BOOLEAN
    /\ req \in [Slot -> Loaded]
    \* No row names a team, a department or a manager that is not there.
    /\ \A u \in User : Live(u) =>
         /\ users[u].team = None \/ LiveTeam(users[u].team)
         /\ users[u].dept \in depts \cup {None}
    /\ \A t \in Team : manager[t] \in User => Live(manager[t])

Init ==
    /\ \E a, u \in User, t \in Team :
         /\ a # u
         /\ users = [x \in User |-> CASE x = a -> [role |-> "admin", dept |-> DeptOf[t], team |-> None]
                                      [] x = u -> [role |-> "user", dept |-> DeptOf[t], team |-> None]
                                      [] OTHER -> New]
         /\ manager = [x \in Team |-> IF x = t THEN None ELSE New]
    /\ depts = Dept
    /\ req = [s \in Slot |-> Idle] /\ served = 0 /\ raced = FALSE

-------------------------------------------------------------------------------
\* Who asks: a SuperAdmin (None), or an Admin with a department (_is_scoped_admin).
Asking == {None} \cup {users[a].dept : a \in {x \in User : Live(x) /\ users[x].role = "admin"}}

\* Mutant: the target's own role is not looked at.
InDepartmentOnly(by, u) == Live(u) /\ by \in {None, users[u].dept}

\* _get_scoped_user_or_403
InScope(by, u) ==
    Live(u) /\ (by # None => users[u].dept = by /\ users[u].role \in {"user", "manager"})

\* Mutant: teams are not scoped.
AnyTeam(by, t) == LiveTeam(t)

\* _scope_teams
TeamInScope(by, t) == LiveTeam(t) /\ by \in {None, DeptOf[t]}

\* A request takes the first free slot.
FreeSlot == {s \in Slot : served < MaxRequests /\ req[s] = Idle /\ \A r \in 1 .. s - 1 : req[r] # Idle}

Load(s, q) ==
    /\ req' = [req EXCEPT ![s] = q]
    /\ served' = served + 1
    /\ UNCHANGED <<users, manager, depts, raced>>

About(kind, by, u) == [Idle EXCEPT !.kind = kind, !.by = by, !.user = u, !.row = users[u]]
Told(q, role, d) == [q EXCEPT !.role = role, !.dept = d]
WithTeam(q, t) == [q EXCEPT !.team = t, !.mgr = IF t = None THEN None ELSE manager[t]]

\* add_user: a scoped Admin adds users and managers to the department.
AskAdd(s, by, u, role, d, t) ==
    /\ users[u] = New
    /\ role \in (IF by = None THEN Role ELSE {"user", "manager"})
    /\ IF by = None THEN d \in depts \cup {None} ELSE d = by
    /\ t # None => TeamInScope(by, t)
    /\ role = "manager" => t # None
    /\ Load(s, WithTeam(Told(About("add", by, u), role, d), t))

\* change_user_role, confirmed: a Manager needs a team, an Admin a department.
AskRole(s, by, u, role, d, t) ==
    /\ InScope(by, u)
    /\ role \in (IF by = None THEN Role ELSE {"user", "manager"})
    /\ IF role = "manager" THEN t # None /\ TeamInScope(by, t) ELSE t = None
    /\ IF role = "admin" THEN d \in depts ELSE d = None
    /\ Load(s, WithTeam(Told(About("role", by, u), role, d), t))

AskTeam(s, by, u, t) ==
    /\ InScope(by, u) /\ (t # None => TeamInScope(by, t))
    /\ Load(s, WithTeam(About("team", by, u), t))

AskDepartment(s, u, d) ==
    Live(u) /\ Load(s, [About("department", None, u) EXCEPT !.dept = d])

\* Forms that save every column of the row: a password reset, the user's own profile.
AskSave(s, by, u) == InScope(by, u) /\ Load(s, About("save", by, u))

\* remove_team_member: a Manager, of a member of the team they manage.
AskRemove(s, m, u) ==
    /\ Live(m) /\ users[m].role = "manager" /\ Live(u) /\ u # m
    /\ users[u].team # None /\ manager[users[u].team] = m
    /\ Load(s, About("remove", None, u))

-------------------------------------------------------------------------------
\* Mutant: the team the user managed before keeps its manager.
KeepOthers(u, t) == manager

\* Team.objects.filter(manager=target).exclude(pk=team.pk).update(manager=None)
ReleaseOthers(u, t) == [x \in Team |-> IF manager[x] = u /\ x # t THEN None ELSE manager[x]]

\* Mutant: whoever managed the team keeps it as their own.
KeepPrevious(q) == users

\* The team's previous manager, as loaded, is left without a team.
ReleasePrevious(q) ==
    IF q.mgr \in User \ {q.user} THEN [users EXCEPT ![q.mgr].team = None] ELSE users

TakeTeam(q) == [ReleaseOthers(q.user, q.team) EXCEPT ![q.team] = q.user]

CommitAdd(q) ==
    /\ users' = [ReleasePrevious([q EXCEPT !.mgr = IF q.role = "manager" THEN @ ELSE None])
                   EXCEPT ![q.user] = [role |-> q.role, dept |-> q.dept, team |-> q.team]]
    /\ manager' = IF q.role = "manager" THEN TakeTeam(q) ELSE manager

CommitRole(q) ==
    IF q.role = "manager"
      THEN /\ users' = [ReleasePrevious(q) EXCEPT ![q.user] =
                          [role |-> "manager", dept |-> DeptOf[q.team], team |-> q.team]]
           /\ manager' = TakeTeam(q)
      ELSE LET released == q.row.role = "manager" IN
           /\ users' = [users EXCEPT ![q.user] =
                          [role |-> q.role,
                           dept |-> IF q.role = "admin" THEN q.dept ELSE q.row.dept,
                           team |-> IF released THEN None ELSE q.row.team]]
           /\ manager' = IF released THEN ReleaseOthers(q.user, None) ELSE manager

\* A team brings its department with it.
Moved(row, t) == [row EXCEPT !.team = t, !.dept = IF t = None THEN @ ELSE DeptOf[t]]

CommitTeam(q) ==
    LET manages == q.row.role = "manager"
        others == IF manages THEN ReleasePrevious(q) ELSE users
    IN  /\ users' = [others EXCEPT ![q.user] = Moved(@, q.team)]
        /\ manager' = CASE ~manages -> manager
                        [] manages /\ q.team = None -> ReleaseOthers(q.user, None)
                        [] OTHER -> TakeTeam(q)

CommitRest(q) ==
    /\ users' = [users EXCEPT ![q.user] =
                   CASE q.kind = "department" -> [@ EXCEPT !.dept = q.dept]
                     [] q.kind = "remove" -> [@ EXCEPT !.team = None]
                     [] q.kind = "save" -> q.row]
    /\ UNCHANGED manager

\* The rows the request writes or refers to are there: a save with update_fields
\* needs its row, a save of the whole row creates it again, foreign keys must hold.
Possible(q) ==
    /\ q.kind = "add" => users[q.user] = New
    /\ q.kind \in {"team", "department", "remove"} => Live(q.user)
    /\ q.team # None => LiveTeam(q.team)
    /\ q.mgr # None => Live(q.mgr)
    /\ q.dept # None => q.dept \in depts
    /\ q.kind \in {"role", "save"} =>
         /\ q.row.team # None => LiveTeam(q.row.team)
         /\ q.row.dept \in depts \cup {None}

Stale(q) == users[q.user] # q.row \/ (q.team # None /\ manager[q.team] # q.mgr)

Commit(s) ==
    LET q == req[s] IN
    /\ q # Idle /\ Possible(q)
    /\ CASE q.kind = "add" -> CommitAdd(q)
         [] q.kind = "role" -> CommitRole(q)
         [] q.kind = "team" -> CommitTeam(q)
         [] OTHER -> CommitRest(q)
    /\ req' = [req EXCEPT ![s] = Idle]
    /\ raced' = (raced \/ Stale(q))
    /\ UNCHANGED <<depts, served>>

\* The transaction is rolled back, or the worker dies.
Fail(s) ==
    /\ req[s] # Idle
    /\ req' = [req EXCEPT ![s] = Idle]
    /\ UNCHANGED <<users, manager, depts, served, raced>>

-------------------------------------------------------------------------------
\* Deletions and additions work on the current rows only.
Directly == served < MaxRequests /\ served' = served + 1 /\ UNCHANGED <<req, raced>>

DeleteUser(u) ==
    /\ Live(u) /\ Directly
    /\ users' = [users EXCEPT ![u] = Gone]
    /\ manager' = ReleaseOthers(u, None)
    /\ UNCHANGED depts

WithoutTeams(T) == [u \in User |-> IF Live(u) /\ users[u].team \in T THEN [users[u] EXCEPT !.team = None] ELSE users[u]]

DeleteTeam(by, t) ==
    /\ TeamInScope(by, t) /\ Directly
    /\ users' = WithoutTeams({t})
    /\ manager' = [manager EXCEPT ![t] = Gone]
    /\ UNCHANGED depts

\* Its teams go with it; its people stay, without department and team.
DeleteDepartment(d) ==
    LET teams == {t \in Team : LiveTeam(t) /\ DeptOf[t] = d}
        others == WithoutTeams(teams)
    IN  /\ d \in depts /\ Directly
        /\ depts' = depts \ {d}
        /\ manager' = [t \in Team |-> IF t \in teams THEN Gone ELSE manager[t]]
        /\ users' = [u \in User |-> IF Live(u) /\ users[u].dept = d THEN [others[u] EXCEPT !.dept = None] ELSE others[u]]

AddTeam(by, t) ==
    /\ manager[t] = New /\ DeptOf[t] \in depts /\ by \in {None, DeptOf[t]} /\ Directly
    /\ manager' = [manager EXCEPT ![t] = None]
    /\ UNCHANGED <<users, depts>>

Next ==
    \/ \E s \in Slot : Commit(s) \/ Fail(s)
    \/ \E s \in FreeSlot, u \in User :
         \/ \E by \in Asking :
              \/ \E role \in Role, d \in Dept \cup {None}, t \in Team \cup {None} :
                   AskAdd(s, by, u, role, d, t) \/ AskRole(s, by, u, role, d, t)
              \/ \E t \in Team \cup {None} : AskTeam(s, by, u, t)
              \/ AskSave(s, by, u)
         \/ \E d \in depts \cup {None} : AskDepartment(s, u, d)
         \/ \E m \in User : AskRemove(s, m, u)
    \/ \E u \in User : DeleteUser(u)
    \/ \E t \in Team : \E by \in Asking : DeleteTeam(by, t) \/ AddTeam(by, t)
    \/ \E d \in Dept : DeleteDepartment(d)

Spec == Init /\ [][Next]_vars

-------------------------------------------------------------------------------
\* Team.manager is "kept in sync with that user's `team` field": unless two requests
\* wrote over each other, whoever manages a team is a Manager who belongs to it, and
\* a Manager who belongs to a team manages it, whatever was promoted, moved or deleted.
ManagerInSync ==
    ~raced => \A t \in Team, u \in User :
                Live(u) => (manager[t] = u <=> users[u].role = "manager" /\ users[u].team = t)

\* What is there refers to what is there, and Team.manager and User.team agree.
PeopleSafe == TypeOK /\ ManagerInSync

\* A scoped Admin works within one department: with fresh rows, whoever a request of
\* theirs changes was a user or manager of that department and still is one, except
\* that the former manager of a team given to another loses it.
WithinDepartment ==
    [][\A s \in Slot : LET q == req[s] IN
         (req'[s] = Idle /\ q.by \in Dept /\ ~Stale(q)) =>
           \A u \in User : users'[u] # users[u] =>
             \/ /\ u = q.user
                /\ Live(u) => users[u].dept = q.by /\ users[u].role \in {"user", "manager"}
                /\ users'[u].dept = q.by /\ users'[u].role \in {"user", "manager"}
             \/ u = q.mgr /\ users'[u] = [users[u] EXCEPT !.team = None]]_vars
===============================================================================
