----------------------------- MODULE UsageLimits -----------------------------
(***************************************************************************)
(* The monthly token cap of one person and everybody who reads it: the     *)
(* gate that refuses a message and the person's own widget                 *)
(* (governance/limits.py), and two pages that count who is over 80 %, the  *)
(* overview of an Admin (governance/views.py) and the team of a Manager    *)
(* (governance/dashboards.py), which read every row in batches.  Limits    *)
(* are rows without a unique target: one may be added to another.          *)
(***************************************************************************)
EXTENDS Integers, Sequences, FiniteSets, FiniteSetsExt

CONSTANTS
    Dept,
    Cap,                  \* the caps that are set, in tokens
    Mark,                 \* bound: the amounts that are used up to
    MaxRows, MaxChanges,  \* bounds: limits made, changes
    None,                 \* no row, no department, no page
    Blank                 \* a row without this cap, or no plan

UsageConstants ==
    /\ Cap \subseteq Nat /\ 0 \in Mark /\ Mark \subseteq Nat /\ {MaxRows, MaxChanges} \subseteq Nat
    /\ "person" \notin Dept /\ None \notin Dept \cup {"person"}

VARIABLES
    limits,               \* UsageLimit by primary key: what it is about, its cap
    homeDept,             \* the person's department
    planCap,              \* the cap of the person's plan
    used,                 \* the tokens of this month
    look,                 \* the page that is being counted
    changes

world == <<limits, homeDept, planCap, used>>
vars == <<world, look, changes>>

Target == {"person"} \cup Dept
Of(x) == {i \in DOMAIN limits : limits[i] # None /\ limits[i].about = x}

TypeOK ==
    /\ Len(limits) <= MaxRows
    /\ \A i \in DOMAIN limits : limits[i] \in [about : Target, cap : Cap \cup {Blank}] \cup {None}
    /\ homeDept \in Dept \cup {None} /\ planCap \in Cap \cup {Blank} /\ used \in Mark
    /\ look # None => look.page \in {"overview", "team"}

Init ==
    /\ limits = <<>> /\ homeDept \in Dept \cup {None} /\ planCap \in Cap \cup {Blank}
    /\ used \in Mark /\ look = None /\ changes = 0

-------------------------------------------------------------------------------
(* Which row governs.                                                      *)

\* "Precedence: personal UsageLimit > department UsageLimit > the user's Plan".
Governing(personal, department, plan) ==
    IF personal # None THEN personal ELSE IF department # None THEN department ELSE plan

\* Mutant: a row without this cap does not count.
FirstCap(S) ==
    LET capped == {i \in S : limits[i].cap # Blank} IN
    IF capped = {} THEN None ELSE limits[Min(capped)].cap

\* first() of rows without an order is the one with the lowest key.
First(S) == IF S = {} THEN None ELSE limits[Min(S)].cap

\* _effective_limit
Effective == Governing(First(Of("person")), IF homeDept = None THEN None ELSE First(Of(homeDept)), planCap)

-------------------------------------------------------------------------------
(* What is made of it.                                                     *)

\* Python's round(): to the nearest, halves to the even one.
Rounded(n, d) ==
    LET q == n \div d
        r == 2 * (n % d) IN
    IF r > d \/ (r = d /\ q % 2 = 1) THEN q + 1 ELSE q

\* _metric
Percent(n, cap) == IF cap = 0 THEN 0 ELSE Min({100, Rounded(100 * n, cap)})

\* Mutant: reached is passed.
LevelPassed(n, cap) ==
    LET pct == Percent(n, cap) IN
    IF pct > 100 THEN "danger" ELSE IF pct > 80 THEN "warn" ELSE "ok"

Level(n, cap) ==
    LET pct == Percent(n, cap) IN
    IF pct >= 100 THEN "danger" ELSE IF pct >= 80 THEN "warn" ELSE "ok"

\* check_usage_limits
Refuses(n, cap) == cap # Blank /\ n >= cap

\* get_usage_status
Widget(n, cap) == IF cap = Blank THEN "ok" ELSE Level(n, cap)

\* Mutant: more than 80 % is over.
OverPassed(page, n, cap) ==
    /\ cap # Blank
    /\ IF page = "overview" THEN Percent(n, cap) > 80 ELSE cap # 0 /\ 100 * n >= 80 * cap

\* _org_usage_overview rounds; members_over_limit does not, and passes over a cap of 0.
Over(page, n, cap) ==
    /\ cap # Blank
    /\ IF page = "overview" THEN Percent(n, cap) >= 80 ELSE cap # 0 /\ 100 * n >= 80 * cap

-------------------------------------------------------------------------------
(* A page counts: people, personal limits, departments' limits, tokens,    *)
(* and plans, which a team's page reads with the people.                   *)

Order == [overview |-> <<"personal", "department", "used", "plan", "done">>,
          team |-> <<"personal", "department", "used", "done">>]

StartLook(p) ==
    /\ look = None
    /\ look' = [page |-> p, step |-> 1, dept |-> homeDept, personal |-> None, department |-> None,
                plan |-> planCap, used |-> 0, before |-> Over(p, used, Effective), stirred |-> 0,
                twice |-> \E x \in Target : Cardinality(Of(x)) > 1]
    /\ UNCHANGED <<world, changes>>

At(step) == look # None /\ Order[look.page][look.step] = step
Note(field, value) ==
    /\ look' = [look EXCEPT !.step = @ + 1, ![field] = value]
    /\ UNCHANGED <<world, changes>>

\* A dict keeps the last row it is given; rows come in no order.
Batch(S) == IF S = {} THEN {None} ELSE {limits[i].cap : i \in S}

ReadPersonal == At("personal") /\ \E c \in Batch(Of("person")) : Note("personal", c)
ReadDepartment == At("department") /\ \E c \in Batch(Of(look.dept)) : Note("department", c)
ReadUsed == At("used") /\ Note("used", used)
ReadPlan == At("plan") /\ Note("plan", planCap)
Show == At("done") /\ look' = None /\ UNCHANGED <<world, changes>>

Counted == Over(look.page, look.used, Governing(look.personal, look.department, look.plan))

-------------------------------------------------------------------------------
(* What changes meanwhile; a limit that gets another target changes twice.  *)

Stir(n) ==
    /\ changes < MaxChanges /\ changes' = changes + 1
    /\ look' = IF look = None THEN None
               ELSE [look EXCEPT !.stirred = @ + n, !.twice = @ \/ \E x \in Target : Cardinality(Of(x)') > 1]

\* LimitFormView.post, on a new limit and on one there is; nothing keeps a second row away.
AddLimit(x, c) ==
    /\ Len(limits) < MaxRows /\ limits' = Append(limits, [about |-> x, cap |-> c])
    /\ UNCHANGED <<homeDept, planCap, used>> /\ Stir(1)

EditLimit(i, x, c) ==
    /\ limits[i] # None /\ limits' = [limits EXCEPT ![i] = [about |-> x, cap |-> c]]
    /\ UNCHANGED <<homeDept, planCap, used>> /\ Stir(IF x = limits[i].about THEN 1 ELSE 2)

DeleteLimit(i) ==
    /\ limits[i] # None /\ limits' = [limits EXCEPT ![i] = None]
    /\ UNCHANGED <<homeDept, planCap, used>> /\ Stir(1)

\* clear_user_overrides: the first row, if there is one.
ClearOverrides == Of("person") # {} /\ DeleteLimit(Min(Of("person")))

ChangeDepartment(d) ==
    /\ d # homeDept /\ homeDept' = d
    /\ UNCHANGED <<limits, planCap, used>> /\ Stir(1)

ChangePlan(c) ==
    /\ c # planCap /\ planCap' = c
    /\ UNCHANGED <<limits, homeDept, used>> /\ Stir(1)

\* A reply that the gate has let through may end beyond the cap.
Answer(n) ==
    /\ ~ Refuses(used, Effective) /\ n > used /\ used' = n
    /\ UNCHANGED <<limits, homeDept, planCap>> /\ Stir(1)

NewMonth == used # 0 /\ used' = 0 /\ UNCHANGED <<limits, homeDept, planCap>> /\ Stir(1)

Next ==
    \/ \E p \in DOMAIN Order : StartLook(p)
    \/ ReadPersonal \/ ReadDepartment \/ ReadUsed \/ ReadPlan \/ Show
    \/ \E x \in Target, c \in Cap \cup {Blank} : AddLimit(x, c) \/ \E i \in DOMAIN limits : EditLimit(i, x, c)
    \/ \E i \in DOMAIN limits : DeleteLimit(i)
    \/ ClearOverrides
    \/ \E d \in Dept \cup {None} : ChangeDepartment(d)
    \/ \E c \in Cap \cup {Blank} : ChangePlan(c)
    \/ \E n \in Mark : Answer(n)
    \/ NewMonth

Spec == Init /\ [][Next]_vars

-------------------------------------------------------------------------------
(* Properties.                                                             *)

\* Whoever the gate refuses has been told so: the widget shows a limit as reached when it is,
\* and not earlier than rounding makes it.  A cap of 0 is shown as nothing used.
WidgetTellsOfTheGate ==
    /\ Refuses(used, Effective) /\ Effective # 0 => Widget(used, Effective) = "danger"
    /\ Widget(used, Effective) = "danger" => 200 * used >= 199 * Effective

\* "Same precedence as the limits themselves": a page that counts in batches counts the person
\* by the limit the gate obeys before or after the one change it is crossed by, unless two rows
\* are about the same target, or one changed its target between the reads.
CountedByTheGate ==
    At("done") /\ look.stirred <= 1 /\ ~ look.twice
        => Counted \in {look.before, Over(look.page, used, Effective)}

\* The two counts differ by rounding alone.
CountsAgree ==
    /\ Over("team", used, Effective) => Over("overview", used, Effective)
    /\ Over("overview", used, Effective) /\ ~ Over("team", used, Effective) => 1000 * used >= 795 * Effective
===============================================================================
