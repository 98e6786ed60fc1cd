--------------------------- MODULE DepartmentScope ---------------------------
(***************************************************************************)
(* What an Admin sees and what an Admin may change (governance/views.py,   *)
(* billing/views.py).  Every page lists rows by a query of its own and     *)
(* every form checks the row it is about again, while SuperAdmins move     *)
(* people between departments and delete departments.  A post checks when  *)
(* it loads its rows and writes later.                                     *)
(***************************************************************************)
EXTENDS Naturals, FiniteSets

CONSTANTS
    User, Dept, Team, Limit, Invoice,
    DeptOf,               \* [Team -> Dept], set when a team is created
    MaxActs,              \* bound: changes by SuperAdmins, posts by Admins and answers
    None                  \* no department, a row that is not there, no request

ScopeConstants ==
    /\ DeptOf \in [Team -> Dept] /\ MaxActs \in Nat
    /\ None \notin UNION {User, Dept, Team, Limit, Invoice, [dept : Dept \cup {None}, to : User]}
    /\ User \cap Dept = {}

VARIABLES
    users,                \* role and department of each account ("user": Managers too)
    depts, planned,       \* the departments there are, those that have a plan
    teams,                \* the teams there are
    limits,               \* what each usage limit is about: a user or a department
    invoices,             \* the department an invoice is billed to, and its recipient
    asked,                \* the invoices with a refund request that waits
    log,                  \* the audit log: who did it, which user it is about
    sent,                 \* the answers each user got
    post,                 \* the Admin's post under way, with the department it checked
    moved,                \* history: people or departments have changed since
    acts

world == <<users, depts, planned, teams>>
rows == <<limits, invoices, asked, log, sent>>
vars == <<world, rows, post, moved, acts>>

Made == {i \in Invoice : invoices[i] # None}

TypeOK ==
    /\ users \in [User -> [role : {"user", "admin"}, dept : depts \cup {None}]]
    /\ planned \subseteq depts /\ depts \subseteq Dept /\ \A t \in teams : DeptOf[t] \in depts
    /\ limits \in [Limit -> User \cup depts \cup {None}]
    /\ \A i \in Made : invoices[i].dept \in depts \cup {None} /\ invoices[i].to \in User
    /\ asked \subseteq Made /\ log \subseteq [by : User, about : User \cup {None}]
    /\ sent \in [User -> Nat] /\ moved \in BOOLEAN /\ acts \in 0 .. MaxActs

Init ==
    /\ users \in [User -> [role : {"user", "admin"}, dept : Dept \cup {None}]]
    /\ depts = Dept /\ planned \in SUBSET Dept /\ teams = Team
    /\ limits = [l \in Limit |-> None] /\ invoices = [i \in Invoice |-> None]
    /\ asked = {} /\ log = {} /\ sent = [u \in User |-> 0]
    /\ post = None /\ moved = FALSE /\ acts = 0

-------------------------------------------------------------------------------
(* What the pages list.  An Admin without a department has nothing.        *)

Admins == {u \in User : users[u].role = "admin"}
Ours(a) == users[a].dept

\* Mutant: no department is a department like the others.
OfDepartmentAny(a, S, f) == {x \in S : f[x] = Ours(a)}

\* _scope_users, _scope_teams, _scope_by_user_department
OfDepartment(a, S, f) == {x \in S : Ours(a) # None /\ f[x] = Ours(a)}

Home == [u \in User |-> users[u].dept]
Billed == [i \in Made |-> invoices[i].dept]
About(x) == IF x \in User THEN users[x].dept ELSE x

UsersListed(a) == OfDepartment(a, User, Home)
TeamsListed(a) == OfDepartment(a, teams, DeptOf)
InvoicesListed(a) == {i \in Made : Ours(a) # None /\ Billed[i] = Ours(a)}
RefundsListed(a) == asked \cap InvoicesListed(a)
Recipients(a) == {u \in User : Ours(a) # None /\ Home[u] = Ours(a)}
DeptsListed(a) == depts \cap {Ours(a)}
LimitsListed(a) == {l \in Limit : Ours(a) # None /\ About(limits[l]) = Ours(a)}

\* By somebody of the department, or about somebody of it.
LogListed(a) == {e \in log : Ours(a) # None /\ Ours(a) \in {About(e.by), About(e.about)}}

\* _filtered_assistant_messages, the table of the page and the rows of its exports
AnswersOf(S) == {m \in User \X (1 .. MaxActs) : m[1] \in S /\ m[2] <= sent[m[1]]}
AnswersListed(a) == AnswersOf(OfDepartment(a, User, Home))
UsageTable(a) == [u \in {m[1] : m \in AnswersListed(a)} |-> Cardinality({m \in AnswersListed(a) : m[1] = u})]
MonthlySummary == [d \in depts \cup {None} |-> Cardinality(AnswersOf({u \in User : Home[u] = d}))]

\* reports.py filters by department_id alone: no department is one like the others there.
ReportUsers(a) == {u \in User : Home[u] = Ours(a)}
ReportInvoices(a) == {i \in Made : Billed[i] = Ours(a)}
ReportAnswers(a) == Cardinality(AnswersOf(ReportUsers(a)))

-------------------------------------------------------------------------------
(* What the posts accept, each by a check of its own.                      *)

\* _get_scoped_user_or_403
MayManage(a, u) == Ours(a) # None /\ Home[u] = Ours(a) /\ users[u].role = "user"

\* Mutant: None matches None.
MayHandleAny(a, i) == i \in Made /\ invoices[i].dept = Ours(a)

\* _get_scoped_invoice_or_403, _get_scoped_refund_request_or_403
MayHandle(a, i) == i \in Made /\ invoices[i].dept # None /\ invoices[i].dept = Ours(a)
MayView(u, i) == invoices[i].to = u \/ (u \in Admins /\ MayHandle(u, i))
MayEmail(u, i) == MayView(u, i) /\ u \in Admins
Managers(i) == {a \in Admins : invoices[i].dept # None /\ Ours(a) = invoices[i].dept}

MayBill(a, u) == Home[u] # None /\ Home[u] = Ours(a)
MayBillTeam(a, t) == t \in teams /\ DeptOf[t] = Ours(a)
MayDeleteTeam(a, t) == t \in TeamsListed(a)
MaySet(a, d) == d \in depts /\ d = Ours(a)

\* Mutant: the limit that is changed may be anybody's.
MayLimitAny(a, l, x) == x \in User \cup depts /\ Ours(a) # None /\ About(x) = Ours(a)

\* LimitFormView.post: the limit as it is, and what it shall be about.
MayLimit(a, l, x) ==
    /\ limits[l] = None \/ l \in LimitsListed(a)
    /\ x \in User \cup depts /\ Ours(a) # None /\ About(x) = Ours(a)

-------------------------------------------------------------------------------
(* Posts by Admins.                                                        *)

Load(a, p) ==
    /\ post = None /\ acts < MaxActs /\ a \in Admins
    /\ post' = [p EXCEPT !.by = a, !.dept = Ours(a)]
    /\ acts' = acts + 1 /\ moved' = FALSE
    /\ UNCHANGED <<world, rows>>

Filed(kind, row, to) == [kind |-> kind, row |-> row, to |-> to, by |-> None, dept |-> None]

AskLimit(a, l, x) == MayLimit(a, l, x) /\ Load(a, Filed("limit", l, x))
AskNoLimit(a, l) == l \in LimitsListed(a) /\ Load(a, Filed("no limit", l, None))

\* generate_invoice: billed to the department if it has a plan, to nobody's otherwise.
AskInvoice(a, i, u) ==
    /\ i \notin Made /\ MayBill(a, u)
    /\ Load(a, Filed("invoice", i, [dept |-> IF Home[u] \in planned THEN Home[u] ELSE None, to |-> u]))

\* generate_team_invoice: to the team's manager, who may be of any department.
AskTeamInvoice(a, i, t, u) ==
    /\ i \notin Made /\ MayBillTeam(a, t) /\ DeptOf[t] \in planned
    /\ Load(a, Filed("invoice", i, [dept |-> DeptOf[t], to |-> u]))

AskNoTeam(a, t) == MayDeleteTeam(a, t) /\ Load(a, Filed("no team", t, None))
AskTeam(a, t) == t \notin teams /\ MaySet(a, DeptOf[t]) /\ Load(a, Filed("team", t, None))

\* resolve_refund_request
AskResolve(a, i) == i \in asked /\ MayHandle(a, i) /\ Load(a, Filed("resolve", i, None))

Written(about) == log' = log \cup {[by |-> post.by, about |-> about]}

\* The write, unless what it is about has gone meanwhile (the request then fails).
SaveLimit ==
    /\ post.kind = "limit"
    /\ post.to \in User \cup depts
    /\ limits' = [limits EXCEPT ![post.row] = post.to]
    /\ Written(None) /\ UNCHANGED <<invoices, asked, teams>>

DropLimit ==
    /\ post.kind = "no limit" /\ limits' = [limits EXCEPT ![post.row] = None]
    /\ Written(None) /\ UNCHANGED <<invoices, asked, teams>>

SaveInvoice ==
    /\ post.kind = "invoice" /\ post.to.dept \in depts \cup {None}
    /\ invoices' = [invoices EXCEPT ![post.row] = post.to]
    /\ Written(None) /\ UNCHANGED <<limits, asked, teams>>

SaveTeam ==
    /\ post.kind \in {"team", "no team"} /\ DeptOf[post.row] \in depts
    /\ teams' = IF post.kind = "team" THEN teams \cup {post.row} ELSE teams \ {post.row}
    /\ Written(None) /\ UNCHANGED <<limits, invoices, asked>>

Resolve ==
    /\ post.kind = "resolve" /\ asked' = asked \ {post.row}
    /\ Written(None) /\ UNCHANGED <<limits, invoices, teams>>

Write ==
    /\ post # None /\ post' = None
    /\ SaveLimit \/ DropLimit \/ SaveInvoice \/ SaveTeam \/ Resolve
    /\ UNCHANGED <<users, depts, planned, sent, moved, acts>>

Fail == post # None /\ post' = None /\ UNCHANGED <<world, rows, moved, acts>>

-------------------------------------------------------------------------------
(* SuperAdmins and everybody's own requests.                               *)

Act == acts < MaxActs /\ acts' = acts + 1

\* change_user_department and change_user_role, and update_department
Move(u, r) ==
    /\ Act /\ users[u] # r /\ users' = [users EXCEPT ![u] = r] /\ moved' = TRUE
    /\ UNCHANGED <<depts, planned, teams, rows, post>>

\* delete_department: its teams and limits go, its people and its invoices have none.
DeleteDepartment(d) ==
    /\ Act /\ d \in depts /\ depts' = depts \ {d} /\ planned' = planned \ {d}
    /\ teams' = {t \in teams : DeptOf[t] # d}
    /\ users' = [u \in User |-> IF Home[u] = d THEN [users[u] EXCEPT !.dept = None] ELSE users[u]]
    /\ limits' = [l \in Limit |-> IF limits[l] = d THEN None ELSE limits[l]]
    /\ invoices' = [i \in Invoice |-> IF i \in Made /\ invoices[i].dept = d
                                        THEN [invoices[i] EXCEPT !.dept = None] ELSE invoices[i]]
    /\ moved' = TRUE /\ UNCHANGED <<asked, log, sent, post>>

\* request_refund and an answer in the chat
AskRefund(i) == Act /\ i \in Made \ asked /\ asked' = asked \cup {i}
                /\ UNCHANGED <<world, limits, invoices, log, sent, post, moved>>
Answer(u) == Act /\ sent' = [sent EXCEPT ![u] = @ + 1]
             /\ UNCHANGED <<world, limits, invoices, asked, log, post, moved>>

Next ==
    \/ Write \/ Fail
    \/ \E a \in User :
         \/ \E l \in Limit : AskNoLimit(a, l) \/ \E x \in User \cup Dept : AskLimit(a, l, x)
         \/ \E i \in Invoice : AskResolve(a, i) \/ \E u \in User : AskInvoice(a, i, u)
                               \/ \E t \in Team : AskTeamInvoice(a, i, t, u)
         \/ \E t \in Team : AskTeam(a, t) \/ AskNoTeam(a, t)
         \/ \E r \in {"user", "admin"}, d \in depts \cup {None} : Move(a, [role |-> r, dept |-> d])
         \/ Answer(a)
    \/ \E d \in Dept : DeleteDepartment(d)
    \/ \E i \in Invoice : AskRefund(i)

Spec == Init /\ [][Next]_vars

-------------------------------------------------------------------------------
(* Properties.                                                             *)

\* A page lists what its posts accept: the invoices, refunds, teams, recipients and limit
\* targets of the list are those that the action then takes, and an invoice's managers are
\* those who find it in their list (but for the recipient, who may open it).
ListsAreActions ==
    \A a \in Admins :
      /\ UsersListed(a) \cap (User \ Admins) = {u \in User : MayManage(a, u)}
      /\ InvoicesListed(a) = {i \in Invoice : MayHandle(a, i)}
      /\ InvoicesListed(a) = {i \in Made : a \in Managers(i)}
      /\ \A i \in Made : MayView(a, i) => i \in InvoicesListed(a) \/ invoices[i].to = a
      /\ RefundsListed(a) = {i \in asked : MayHandle(a, i)}
      /\ Recipients(a) = {u \in User : MayBill(a, u)}
      /\ TeamsListed(a) = {t \in Team : MayBillTeam(a, t)}
      /\ DeptsListed(a) = {d \in Dept : MaySet(a, d)}
      /\ \A l \in LimitsListed(a) : UsersListed(a) \cup DeptsListed(a) = {x \in User \cup Dept : MayLimit(a, l, x)}

\* An Admin whose department is gone, or who never had one, reaches nothing: not the rows
\* of people without a department, nor the invoices a deleted department leaves.
NothingWithoutDepartment ==
    \A a \in Admins : Ours(a) = None =>
      /\ {} = UNION {UsersListed(a), TeamsListed(a), InvoicesListed(a), LimitsListed(a), LogListed(a),
                     AnswersListed(a), DeptsListed(a), Recipients(a)}
      /\ \A i \in Made : ~ MayHandle(a, i)
      /\ \A u \in User : ~ MayManage(a, u) /\ ~ MayBill(a, u)

\* Unless people or departments move while the post is under way, all it changes is of the
\* department of the Admin who posts, before and after.
WritesAtHome ==
    [][post # None /\ post' = None /\ ~ moved =>
         /\ \A l \in Limit : limits'[l] # limits[l] => {About(limits[l]), About(limits'[l])} \subseteq {post.dept, None}
         /\ \A i \in Invoice : invoices'[i] # invoices[i] => invoices'[i].dept \in {post.dept, None}
         /\ \A t \in (teams' \ teams) \cup (teams \ teams') : DeptOf[t] = post.dept
         /\ \A i \in asked \ asked' : invoices[i].dept = post.dept]_vars

\* What the counts of a table add up to: the points under it.
Total(table) == Cardinality(UNION {{u} \X (1 .. table[u]) : u \in DOMAIN table})

\* The exports have the rows the table counts, an Admin's table adds up to the line of the
\* department in the summary over all departments, and the reports on revenue, usage and
\* growth, which filter on their own, are about the rows of the Admin's other pages.  An Admin without a
\* department is excepted: the reports compare None as a department, which the lists do not.
ReportsAgree ==
    \A a \in Admins : Ours(a) # None =>
      /\ Cardinality(AnswersListed(a)) = MonthlySummary[Ours(a)]
      /\ Total(UsageTable(a)) = MonthlySummary[Ours(a)]
      /\ ReportUsers(a) = UsersListed(a) /\ ReportInvoices(a) = InvoicesListed(a)
      /\ ReportAnswers(a) = MonthlySummary[Ours(a)]
===============================================================================
