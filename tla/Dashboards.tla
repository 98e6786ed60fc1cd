------------------------------ MODULE Dashboards ------------------------------
(***************************************************************************)
(* The start page of a SuperAdmin, an Admin and a Manager                  *)
(* (governance/dashboards.py, DashboardView and ManagerDashboardView): it  *)
(* counts what waits, query by query, makes one item of each problem and   *)
(* links to the pages that list it, while the rows and the people change.  *)
(* Requests for another plan are asked for and resolved here as well.      *)
(***************************************************************************)
EXTENDS Integers, Sequences, FiniteSets, SequencesExt

CONSTANTS
    User, Dept,
    MaxTurns,             \* bound: what changes
    None                  \* no department, no page

DashboardConstants == None \notin Dept /\ MaxTurns \in Nat /\ IsFiniteSet(User) /\ IsFiniteSet(Dept)

VARIABLES
    people,               \* role and department of each account
    team,                 \* the members of the team, None if nobody manages one
    asks,                 \* the UpgradeRequest of each user: its status
    due,                  \* invoices by department: those to verify, those with a refund request
    near, locked,         \* who is over 80 %, who was locked out
    page,                 \* the start page that is being made
    stirred,              \* history: something has changed since it was asked for
    turns

world == <<people, team, asks, due, near, locked>>
vars == <<world, page, stirred, turns>>

Roles == {"user", "manager", "admin", "superadmin"}
Place == Dept \cup {None}
Asked == {"none", "pending", "approved", "dismissed"}

\* What each page counts, in this order.
Reads == [superadmin |-> <<"usage80", "upgrades", "verification", "refunds", "lockouts", "recent">>,
          admin |-> <<"usage80", "upgrades", "verification", "refunds", "lockouts", "recent">>,
          manager |-> <<"usage80", "exists", "members">>]
Kinds == UNION {Range(Reads[r]) : r \in DOMAIN Reads}

TypeOK ==
    /\ people \in [User -> [role : Roles, dept : Place]] /\ asks \in [User -> Asked]
    /\ due \in [{"verification", "refunds"} -> SUBSET Place] /\ near \cup locked \subseteq User
    /\ team = None \/ team \subseteq User
    /\ page # None => page.role \in DOMAIN Reads /\ page.n \in [Kinds -> Nat] /\ page.step <= 7
    /\ stirred \in BOOLEAN /\ turns \in 0 .. MaxTurns

Init ==
    /\ people \in [User -> [role : Roles, dept : Place]] /\ team \in {None, {}, User}
    /\ asks = [u \in User |-> "none"] /\ due = [k \in {"verification", "refunds"} |-> {}]
    /\ near = {} /\ locked = {} /\ page = None /\ stirred = FALSE /\ turns = 0

-------------------------------------------------------------------------------
(* What a viewer's page counts; the viewer is as the request has loaded    *)
(* the account.                                                            *)

Pending == {u \in User : asks[u] = "pending"}

\* Mutant: None is a department.
OursAny(v) == {u \in User : v.role = "superadmin" \/ people[u].dept = v.dept}

\* _scope_users, _scope_by_user_department, and the audit log by whom it is about
Ours(v) == {u \in User : v.role = "superadmin" \/ (v.dept # None /\ people[u].dept = v.dept)}

\* scoped_invoices
OurPlaces(v) == IF v.role = "superadmin" THEN Place ELSE {v.dept} \ {None}

Members == IF team = None THEN {} ELSE team

RefundsFound(v) == due.refunds \cap OurPlaces(v)
LockoutsFound(v) == locked \cap Ours(v)
UpgradesFound(v) == Pending \cap Ours(v)
NearFound(v) == near \cap (IF v.role = "manager" THEN Members ELSE Ours(v))

Counted(v, kind) ==
    CASE kind = "usage80" -> NearFound(v)
      [] kind \in {"upgrades", "recent"} -> UpgradesFound(v)
      [] kind = "verification" -> due.verification \cap OurPlaces(v)
      [] kind = "refunds" -> RefundsFound(v)
      [] kind = "lockouts" -> LockoutsFound(v)
      [] kind \in {"exists", "members"} -> Members

\* What the page behind a link lists, by the checks of its own posts.
MayResolve(v, u) == v.role = "superadmin" \/ (v.role = "admin" /\ v.dept # None /\ people[u].dept = v.dept)
MayHandle(v, p) == v.role = "superadmin" \/ (v.role = "admin" /\ p # None /\ p = v.dept)

Listed(v, kind) ==
    CASE kind = "upgrades" -> {u \in Pending : MayResolve(v, u)}
      [] kind \in {"verification", "refunds"} -> {p \in due[kind] : MayHandle(v, p)}
      [] kind = "lockouts" -> {u \in locked : MayResolve(v, u)}

-------------------------------------------------------------------------------
(* The items that need attention and the tiles.                            *)

Item(key, n) == [key |-> key, n |-> n]

\* Of the readings that other components make: the maintenance window, a critical condition,
\* unread notifications that ask for something, which of their two pages Admins are not
\* shown (the features upgrade_requests and limits).
Elsewhere == [window : {"none", "scheduled", "active"}, alarm : BOOLEAN, noted : BOOLEAN,
              hidden : SUBSET {"upgrades", "usage80"}]

\* Mutant: every problem is listed where it is found.
AddAlways(items, item) == Append(items, item)

\* Attention.add: a key is only added once.
Add(items, item) == IF \E i \in DOMAIN items : items[i].key = item.key THEN items ELSE Append(items, item)

AddIf(items, on, item) == IF on THEN Add(items, item) ELSE items
AddWaiting(items, p, key) == AddIf(items, p.n[key] > 0, Item(key, p.n[key]))
AddShown(items, p, e, key) == IF key \in e.hidden THEN items ELSE AddWaiting(items, p, key)

\* The three that superadmin_dashboard and admin_dashboard list first, and the two they list then.
AddBilling(items, p) == AddWaiting(AddWaiting(AddWaiting(items, p, "lockouts"), p, "verification"), p, "refunds")
AddPeople(items, p) == AddWaiting(AddWaiting(items, p, "upgrades"), p, "usage80")

\* superadmin_dashboard: an active window is found twice.
SuperAdminItems(p, e) ==
    LET system == AddIf(AddIf(<<>>, e.alarm, Item("db", 1)), e.window = "active", Item("maintenance", 1)) IN
    AddIf(AddPeople(AddBilling(system, p), p), e.window # "none", Item("maintenance", 1))

\* admin_dashboard: not of the pages that are hidden from Admins.
AdminItems(p, e) ==
    LET billing == AddBilling(AddIf(<<>>, e.window = "active", Item("maintenance", 1)), p)
        waiting == AddShown(AddShown(billing, p, e, "upgrades"), p, e, "usage80") IN
    AddIf(waiting, e.noted, Item("notifications", 1))

\* manager_dashboard
ManagerItems(p, e) ==
    LET own == AddIf(AddWaiting(<<>>, p, "usage80"), e.noted, Item("notifications", 1)) IN
    AddIf(AddIf(own, p.unmanaged, Item("noteam", 0)), ~ p.unmanaged /\ p.n.exists = 0, Item("nomembers", 0))

Items(p, e) ==
    CASE p.role = "superadmin" -> SuperAdminItems(p, e)
      [] p.role = "admin" -> AdminItems(p, e)
      [] p.role = "manager" -> ManagerItems(p, e)

\* Mutant: as many as the page of requests lists by now.
ApprovalsNow(p, e) ==
    p.n.verification + p.n.refunds
      + (IF "upgrades" \in e.hidden THEN 0 ELSE Cardinality(Counted(p, "upgrades")))

\* admin_dashboard: the tile of pending approvals
Approvals(p, e) == p.n.verification + p.n.refunds + (IF "upgrades" \in e.hidden THEN 0 ELSE p.n.upgrades)

-------------------------------------------------------------------------------
(* Making the page.                                                        *)

Open(u) ==
    /\ page = None /\ people[u].role # "user"
    /\ page' = [by |-> u, role |-> people[u].role, dept |-> people[u].dept, step |-> 1,
                unmanaged |-> team = None, n |-> [k \in Kinds |-> 0]]
    /\ stirred' = FALSE /\ UNCHANGED <<world, turns>>

Done == page # None /\ page.step > Len(Reads[page.role])

Read ==
    /\ page # None /\ ~ Done
    /\ LET kind == Reads[page.role][page.step] IN
       page' = [page EXCEPT !.n[kind] = Cardinality(Counted(page, kind)), !.step = @ + 1]
    /\ UNCHANGED <<world, stirred, turns>>

Show == Done /\ page' = None /\ UNCHANGED <<world, stirred, turns>>

-------------------------------------------------------------------------------
(* What changes.                                                           *)

Turn == turns < MaxTurns /\ turns' = turns + 1 /\ stirred' = TRUE /\ UNCHANGED page

\* change_user_role, change_user_department
Move(u, r) ==
    /\ Turn /\ people[u] # r /\ people' = [people EXCEPT ![u] = r]
    /\ UNCHANGED <<team, asks, due, near, locked>>

\* request_upgrade, request_plan_access
AskUpgrade(u) ==
    /\ Turn /\ asks[u] = "none" /\ asks' = [asks EXCEPT ![u] = "pending"]
    /\ UNCHANGED <<people, team, due, near, locked>>

\* resolve_upgrade_request does not ask for the status.
Resolve(a, u, status) ==
    /\ Turn /\ asks[u] # "none" /\ MayResolve(people[a], u)
    /\ asks' = [asks EXCEPT ![u] = status]
    /\ UNCHANGED <<people, team, due, near, locked>>

\* A proof or a refund request comes in, or is decided.
ComeOrGo(kind, p) ==
    /\ Turn /\ due' = [due EXCEPT ![kind] = (@ \ {p}) \cup ({p} \ @)]
    /\ UNCHANGED <<people, team, asks, near, locked>>

\* Somebody uses a lot, is locked out, joins a team or leaves it.
Use(u) == Turn /\ near' = (near \ {u}) \cup ({u} \ near) /\ UNCHANGED <<people, team, asks, due, locked>>
LockOut(u) == Turn /\ locked' = locked \cup {u} /\ UNCHANGED <<people, team, asks, due, near>>
JoinOrLeave(u) ==
    /\ Turn /\ team # None /\ team' = (team \ {u}) \cup ({u} \ team)
    /\ UNCHANGED <<people, asks, due, near, locked>>

Next ==
    \/ Read \/ Show
    \/ \E u \in User :
         \/ Open(u) \/ AskUpgrade(u) \/ Use(u) \/ LockOut(u) \/ JoinOrLeave(u)
         \/ \E r \in Roles, d \in Place : Move(u, [role |-> r, dept |-> d])
         \/ \E a \in User, s \in {"approved", "dismissed"} : Resolve(a, u, s)
    \/ \E k \in {"verification", "refunds"}, p \in Place : ComeOrGo(k, p)

Spec == Init /\ [][Next]_vars

-------------------------------------------------------------------------------
(* Properties.                                                             *)

Viewer == people[page.by]
Keys(items) == {items[i].key : i \in DOMAIN items}

\* The problems there are.
Waiting(p, K) == {k \in K : p.n[k] > 0}
If(on, key) == IF on THEN {key} ELSE {}
Billing == {"lockouts", "verification", "refunds"}

Problems(p, e) ==
    CASE p.role = "superadmin" -> Waiting(p, Billing \cup {"upgrades", "usage80"})
                                    \cup If(e.alarm, "db") \cup If(e.window # "none", "maintenance")
      [] p.role = "admin" -> Waiting(p, Billing \cup ({"upgrades", "usage80"} \ e.hidden))
                               \cup If(e.window = "active", "maintenance") \cup If(e.noted, "notifications")
      [] p.role = "manager" -> Waiting(p, {"usage80"}) \cup If(e.noted, "notifications")
                                 \cup If(p.unmanaged, "noteam") \cup If(~ p.unmanaged /\ p.n.exists = 0, "nomembers")

\* "a dashboard can never show more than the page it links to": unless something changed while
\* it was made, each number is that of the rows the linked page lists to the same viewer and
\* takes posts about.
CountsWhatIsListed ==
    Done /\ page.role \in {"admin", "superadmin"} /\ ~ stirred =>
      /\ \A k \in {"upgrades", "verification", "refunds", "lockouts"} : page.n[k] = Cardinality(Listed(Viewer, k))
      /\ page.n.recent = page.n.upgrades

\* "One underlying problem becomes ONE item": no key twice, whatever is found in two places, and
\* none that is left out.
OneItemPerProblem ==
    Done => \A e \in Elsewhere :
      LET items == Items(page, e) IN
      Len(items) = Cardinality(Keys(items)) /\ Keys(items) = Problems(page, e)

\* How many the item of a key speaks of.
Told(items, key) ==
    LET at == {i \in DOMAIN items : items[i].key = key} IN
    IF at = {} THEN 0 ELSE items[CHOOSE i \in at : TRUE].n

\* The tile of pending approvals is the sum of the items below it, also when rows change while
\* the page is made; and a page with a team without members says so in both places, unless
\* the team changed meanwhile.
TilesAddUp ==
    Done => \A e \in Elsewhere :
      LET items == Items(page, e) IN
      /\ page.role = "admin" =>
           Approvals(page, e) = Told(items, "verification") + Told(items, "refunds") + Told(items, "upgrades")
      /\ page.role = "manager" /\ ~ stirred => (page.n.members = 0 <=> Keys(items) \cap {"noteam", "nomembers"} # {})
===============================================================================
