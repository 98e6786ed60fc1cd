------------------------------ MODULE PagesProofs ------------------------------
(***************************************************************************)
(* The pages of a plan, the limits of a person and the start pages, for    *)
(* every set of models, departments and people and any number of requests: *)
(* a page writes what it shows, whoever counts goes by the limit the gate  *)
(* obeys, and a start page lists each problem once with the number its     *)
(* page lists.  Each component has its own variables.                      *)
(***************************************************************************)
EXTENDS Integers, Sequences, FiniteSetTheorems, WellFoundedInduction, TLAPS

CONSTANTS
    None,
    Model, Claude, Request, MaxPosts,               \* of the pages of a plan
    Dept, Cap, Mark, MaxRows, MaxChanges, Blank,    \* of the limits
    User, MaxTurns                                  \* of the start pages, and Dept

VARIABLES
    plan, allowed, connected, req, aimed, undone, torn, uncapped, posts,
    usageLimits, homeDept, planCap, used, look, changes,
    people, team, asks, dueAt, near, locked, page, stirred, turns

Plans == INSTANCE PlanSettings
Usage == INSTANCE UsageLimits WITH limits <- usageLimits
Start == INSTANCE Dashboards WITH due <- dueAt

ASSUME PlanAssumption == Plans!PlanConstants
ASSUME UsageAssumption == Usage!UsageConstants
ASSUME DashboardAssumption == Start!DashboardConstants

-------------------------------------------------------------------------------
\* Each page of a plan changes what it shows, and a switch that needs a model or a cap has it,
\* unless two of them crossed; the pages that count who nears a limit go by the limit the gate
\* obeys; and a start page counts what the pages it links to list.
PagesSafe ==
    /\ Plans!TypeOK /\ Plans!ResearchHasModel /\ Plans!PagesKeepApart /\ Plans!AutoHasCap
    /\ Usage!TypeOK /\ Usage!WidgetTellsOfTheGate /\ Usage!CountedByTheGate /\ Usage!CountsAgree
    /\ Start!TypeOK /\ Start!CountsWhatIsListed /\ Start!OneItemPerProblem /\ Start!TilesAddUp

-------------------------------------------------------------------------------
(* The pages of a plan.                                                    *)

PageNames == {"plan", "budget", "capability"}

\* The columns a page writes back as it has read them.
Back(form) == Plans!Saved[form] \ Plans!Shown[form]

PostTyped(q) ==
    /\ DOMAIN q = {"page", "pc", "row", "models", "old", "found", "stale"}
    /\ q.page \in PageNames /\ q.pc \in {"look", "read", "save", "write"}
    /\ q.models \subseteq Model /\ q.old \subseteq Model
    /\ q.row \in [Plans!Saved[q.page] -> BOOLEAN]
    /\ q.page = "budget" => q.pc = "save"
    /\ q.page = "plan" => q.pc # "save"

\* The row is still to be saved.
RowPending(q) == q.page = "capability" => q.pc = "save"

\* What a page has read is what is stored, or it is marked as out of date.
PostTells(q) ==
    /\ RowPending(q) => \A c \in Back(q.page) : c \in q.stale \/ q.row[c] = plan[c]
    /\ q.page = "budget" /\ q.row["auto"] => plan["cap"] \/ "cap" \in q.stale
    /\ q.page = "capability" /\ ~RowPending(q) => "research" \in q.stale \/ plan["research"] = q.row["research"]
    /\ q.pc = "write" => "models" \in q.stale \/ q.old = allowed
    /\ q.pc \in {"read", "write"} /\ q.page # "budget" /\ q.row["research"] /\ q.found => Claude \in q.models

PostOK(r) == req[r] = Plans!Idle \/ (PostTyped(req[r]) /\ PostTells(req[r]))

PlanInv ==
    /\ plan \in Plans!Rows /\ aimed \in Plans!Rows /\ allowed \subseteq Model /\ undone \subseteq Plans!Columns
    /\ torn \in BOOLEAN /\ uncapped \in BOOLEAN /\ connected \in BOOLEAN
    /\ posts \in 0 .. MaxPosts
    /\ DOMAIN req = Request
    /\ \A r \in Request : PostOK(r)
    /\ Plans!ResearchHasModel /\ Plans!PagesKeepApart /\ Plans!AutoHasCap

LEMMA PagesAre ==
    /\ Plans!Pages = PageNames
    /\ Plans!Saved["plan"] = Plans!Columns /\ Plans!Saved["budget"] = {"auto"} /\ Plans!Saved["capability"] = {"research", "tools"}
    /\ Plans!Shown["plan"] = {"cap", "research", "tools"} /\ Plans!Shown["budget"] = {"auto"} /\ Plans!Shown["capability"] = {"research"}
    /\ Back("plan") = {"auto"} /\ Back("budget") = {} /\ Back("capability") = {"tools"}
    /\ Plans!Watched["plan"] = {"auto", "research", "models"} /\ Plans!Watched["budget"] = {"cap"}
    /\ Plans!Watched["capability"] = {"research", "tools", "models"}
BY DEF Plans!Pages, PageNames, Plans!Saved, Plans!Shown, Plans!Watched, Back, Plans!Columns

LEMMA IdleIs ==
    /\ Plans!Idle.page = None /\ Plans!Idle.pc = "idle" /\ Plans!Idle.models = {} /\ Plans!Idle.old = {} /\ Plans!Idle.found = TRUE /\ Plans!Idle.stale = {}
    /\ None \notin PageNames
BY PlanAssumption DEF Plans!Idle, Plans!PlanConstants, PageNames

LEMMA PlanTyped == PlanInv => Plans!TypeOK
<1> SUFFICES ASSUME PlanInv, NEW r \in Request
             PROVE  /\ req[r].pc \in {"idle", "look", "read", "save", "write"}
                    /\ req[r].pc # "idle" => req[r].page \in Plans!Pages /\ req[r].row \in [Plans!Saved[req[r].page] -> BOOLEAN]
                    /\ req[r].models \cup req[r].old \subseteq Model
  BY DEF PlanInv, Plans!TypeOK
<1>1. CASE req[r] = Plans!Idle
  BY <1>1, IdleIs
<1>2. CASE PostTyped(req[r])
  BY <1>2, PagesAre DEF PostTyped
<1>3. QED
  BY <1>1, <1>2 DEF PlanInv, PostOK

LEMMA PlanInit == Plans!Init => PlanInv
<1> SUFFICES ASSUME Plans!Init PROVE PlanInv
  OBVIOUS
<1>1. plan \in Plans!Rows /\ aimed = plan /\ ~plan["research"] /\ ~plan["auto"] /\ plan.research = FALSE /\ plan.auto = FALSE
  BY DEF Plans!Init, Plans!Rows, Plans!Columns
<1>2. posts \in 0 .. MaxPosts
  BY PlanAssumption DEF Plans!Init, Plans!PlanConstants
<1>3. Plans!ResearchHasModel /\ Plans!PagesKeepApart /\ Plans!AutoHasCap
  BY <1>1 DEF Plans!ResearchHasModel, Plans!PagesKeepApart, Plans!AutoHasCap
<1>4. QED
  BY <1>1, <1>2, <1>3 DEF Plans!Init, PlanInv, PostOK

\* A page that is opened holds what it has read.
LEMMA PlanOpen ==
    ASSUME PlanInv, NEW r \in Request, NEW p \in PageNames, NEW row \in Plans!Rows, NEW models \in SUBSET Model,
           NEW pc \in {"look", "save"}, p = "plan" <=> pc = "look",
           \A c \in Back(p) : row[c] = plan[c], p = "budget" /\ row["auto"] => plan["cap"],
           Plans!Open(r, p, row, models, pc)
    PROVE  PlanInv'
<1> DEFINE q == [Plans!Idle EXCEPT !.page = p, !.pc = pc, !.models = models, !.row = [c \in Plans!Saved[p] |-> row[c]]]
<1>1. req' = [req EXCEPT ![r] = q] /\ posts' = posts + 1 /\ posts < MaxPosts
      /\ UNCHANGED <<plan, allowed, connected, aimed, undone, torn, uncapped>>
  BY DEF Plans!Open
<1>2. /\ DOMAIN q = {"page", "pc", "row", "models", "old", "found", "stale"}
      /\ q.page = p /\ q.pc = pc /\ q.row = [c \in Plans!Saved[p] |-> row[c]] /\ q.models = models /\ q.old = {}
      /\ q.stale = {}
  BY DEF Plans!Idle
<1> HIDE DEF q
<1>3. Plans!Saved[p] \subseteq Plans!Columns
  BY PagesAre DEF PageNames, Plans!Columns
<1>4. q.row \in [Plans!Saved[p] -> BOOLEAN] /\ \A c \in Plans!Saved[p] : q.row[c] = row[c]
  BY <1>2, <1>3 DEF Plans!Rows
<1>5. PostTyped(q)
  BY <1>2, <1>4 DEF PostTyped, PageNames
<1>6. PostTells(q)
  <2>1. \A c \in Back(p) : q.row[c] = plan[c]
    BY <1>4 DEF Back
  <2>2. p = "budget" => "auto" \in Plans!Saved[p]
    BY PagesAre
  <2>3. q.pc \notin {"read", "write"}
    BY <1>2
  <2>4. q.page = "capability" => q.pc = "save"
    BY <1>2 DEF PageNames
  <2>5. q.page = "budget" /\ q.row["auto"] => plan["cap"]
    BY <1>2, <1>4, <2>2
  <2>6. QED
    BY <1>2, <2>1, <2>3, <2>4, <2>5 DEF PostTells, RowPending
<1>7. ASSUME NEW s \in Request PROVE PostOK(s)'
  <2>1. CASE s = r
    <3>1. req'[s] = q
      BY <1>1, <2>1 DEF PlanInv
    <3>2. QED
      BY <1>1, <1>5, <1>6, <3>1 DEF PostOK, PostTells
  <2>2. CASE s # r
    <3>1. req'[s] = req[s]
      BY <1>1, <2>2 DEF PlanInv
    <3>2. QED
      BY <1>1, <3>1 DEF PlanInv, PostOK, PostTells
  <2>3. QED
    BY <2>1, <2>2
<1>8. posts' \in 0 .. MaxPosts
  BY <1>1, PlanAssumption DEF Plans!PlanConstants, PlanInv
<1>9. DOMAIN req' = Request
  BY <1>1 DEF PlanInv
<1>10. Plans!ResearchHasModel' /\ Plans!PagesKeepApart' /\ Plans!AutoHasCap'
  BY <1>1 DEF PlanInv, Plans!ResearchHasModel, Plans!PagesKeepApart, Plans!AutoHasCap
<1>11. QED
  BY <1>1, <1>7, <1>8, <1>9, <1>10 DEF PlanInv

\* A step of one request that changes nothing else.
LEMMA PlanMine ==
    ASSUME PlanInv, NEW r \in Request, req' \in [Request -> {req'[s] : s \in Request}],
           \A s \in Request \ {r} : req'[s] = req[s],
           req'[r] = Plans!Idle \/ (PostTyped(req'[r]) /\ PostTells(req[r])'),
           UNCHANGED <<plan, allowed, aimed, undone, torn, uncapped, posts>>, connected' \in BOOLEAN
    PROVE  PlanInv'
<1>1. ASSUME NEW s \in Request PROVE PostOK(s)'
  <2>1. CASE s = r
    BY <2>1 DEF PostOK
  <2>2. CASE s # r
    <3>1. req'[s] = req[s]
      BY <2>2
    <3>2. QED
      BY <3>1 DEF PlanInv, PostOK, PostTells
  <2>3. QED
    BY <2>1, <2>2
<1>2. Plans!ResearchHasModel' /\ Plans!PagesKeepApart' /\ Plans!AutoHasCap'
  BY DEF PlanInv, Plans!ResearchHasModel, Plans!PagesKeepApart, Plans!AutoHasCap
<1>3. QED
  BY <1>1, <1>2 DEF PlanInv

LEMMA PlanLook ==
    ASSUME PlanInv, NEW r \in Request, Plans!Look(r) PROVE PlanInv'
<1> DEFINE q == req[r]
           base == IF q.page = "plan" THEN q.models ELSE allowed
           n == [q EXCEPT !.models = base \cup Plans!Needed(r), !.pc = "read", !.found = (q.row.research => connected)]
<1>1. /\ req' = [req EXCEPT ![r] = n] /\ q.pc = "look"
      /\ UNCHANGED <<plan, allowed, connected, aimed, undone, torn, uncapped, posts>>
  BY DEF Plans!Look
<1>2. PostTyped(q) /\ PostTells(q)
  BY <1>1, IdleIs DEF PlanInv, PostOK
<1>3. /\ DOMAIN n = DOMAIN q /\ n.page = q.page /\ n.pc = "read" /\ n.row = q.row /\ n.models = base \cup Plans!Needed(r)
      /\ n.old = q.old /\ n.stale = q.stale /\ n.found = (q.row.research => connected)
  BY <1>2 DEF PostTyped
<1>4. base \cup Plans!Needed(r) \subseteq Model
  BY <1>2, PlanAssumption DEF PostTyped, PlanInv, Plans!Needed, Plans!PlanConstants
<1>5. q.row.research /\ connected => Claude \in base \cup Plans!Needed(r)
  BY DEF Plans!Needed
<1> HIDE DEF n, base
<1>6. PostTyped(n)
  BY <1>1, <1>2, <1>3, <1>4 DEF PostTyped
<1>7. n.row["research"] /\ n.found => Claude \in n.models
  <2>1. q.row.research = q.row["research"]
    OBVIOUS
  <2>2. QED
    BY <1>3, <1>5, <2>1
<1>8. PostTells(n)
  <2>1. n.pc = "read" /\ q.pc = "look"
    BY <1>1, <1>3
  <2>2. RowPending(n) => RowPending(q)
    BY <1>3, <2>1 DEF RowPending
  <2>3. ~RowPending(n) => ~RowPending(q)
    BY <1>3, <2>1 DEF RowPending
  <2>4. QED
    BY <1>2, <1>3, <1>7, <2>1, <2>2, <2>3 DEF PostTells
<1>9. req'[r] = n /\ PostTells(req'[r])
  BY <1>1, <1>8 DEF PlanInv
<1>10. QED
  BY <1>1, <1>6, <1>9, PlanMine DEF PlanInv, PostTells

LEMMA PlanReadOld ==
    ASSUME PlanInv, NEW r \in Request, Plans!ReadOld(r) PROVE PlanInv'
<1> DEFINE q == req[r]
           n == [q EXCEPT !.old = allowed, !.pc = "write"]
<1>1. /\ req' = [req EXCEPT ![r] = n] /\ q.pc = "read"
      /\ UNCHANGED <<plan, allowed, connected, aimed, undone, torn, uncapped, posts>>
  BY DEF Plans!ReadOld
<1>2. PostTyped(q) /\ PostTells(q)
  BY <1>1, IdleIs DEF PlanInv, PostOK
<1>3. /\ DOMAIN n = DOMAIN q /\ n.page = q.page /\ n.pc = "write" /\ n.row = q.row /\ n.models = q.models
      /\ n.old = allowed /\ n.stale = q.stale /\ n.found = q.found
  BY <1>2 DEF PostTyped
<1> HIDE DEF n
<1>4. PostTyped(n)
  BY <1>1, <1>2, <1>3 DEF PostTyped, PlanInv
<1>5. PostTells(n)
  BY <1>1, <1>2, <1>3 DEF PostTells, RowPending
<1>6. req'[r] = n
  BY <1>1 DEF PlanInv
<1>7. QED
  BY <1>1, <1>4, <1>5, <1>6, PlanMine DEF PlanInv, PostTells

LEMMA PlanAbandon ==
    ASSUME PlanInv, NEW r \in Request, Plans!Abandon(r) PROVE PlanInv'
<1>1. /\ req' = [req EXCEPT ![r] = Plans!Idle]
      /\ UNCHANGED <<plan, allowed, connected, aimed, undone, torn, uncapped, posts>>
  BY DEF Plans!Abandon
<1>2. QED
  BY <1>1, PlanMine DEF PlanInv

-------------------------------------------------------------------------------
\* The others hear of a save: what they still hold of it is marked.
LEMMA PlanOutdated ==
    ASSUME PlanInv, NEW r \in Request, NEW columns, NEW then, Plans!Outdate(r, columns, then),
           columns \subseteq Plans!Columns \cup {"models"},
           plan' \in Plans!Rows, \A c \in Plans!Columns \ columns : plan'[c] = plan[c],
           "models" \in columns \/ allowed' = allowed
    PROVE  DOMAIN req' = Request /\ req'[r] = then /\ \A s \in Request \ {r} : PostOK(s)'
<1>1. req' = [s \in Request |-> IF s = r THEN then
                               ELSE IF req[s] = Plans!Idle THEN Plans!Idle
                               ELSE [req[s] EXCEPT !.stale = @ \cup (columns \cap Plans!Watched[req[s].page])]]
  BY DEF Plans!Outdate
<1>2. ASSUME NEW s \in Request, s # r, req[s] # Plans!Idle PROVE PostOK(s)'
  <2> DEFINE q == req[s]
             n == [q EXCEPT !.stale = q.stale \cup (columns \cap Plans!Watched[q.page])]
  <2>1. req'[s] = n
    BY <1>1, <1>2
  <2>2. PostTyped(q) /\ PostTells(q)
    BY <1>2 DEF PlanInv, PostOK
  <2>3. /\ DOMAIN n = DOMAIN q /\ n.page = q.page /\ n.pc = q.pc /\ n.row = q.row /\ n.models = q.models
        /\ n.old = q.old /\ n.found = q.found /\ n.stale = q.stale \cup (columns \cap Plans!Watched[q.page])
    BY <2>2 DEF PostTyped
  <2> HIDE DEF n
  <2>4. PostTyped(n)
    BY <2>2, <2>3 DEF PostTyped
  <2>5. RowPending(n) => \A c \in Back(n.page) : c \in n.stale \/ n.row[c] = plan'[c]
    <3>1. Back(q.page) \subseteq Plans!Watched[q.page] /\ Back(q.page) \subseteq Plans!Columns
      BY <2>2, PagesAre DEF PostTyped, PageNames, Plans!Columns
    <3>2. RowPending(n) => \A c \in Back(q.page) : c \in q.stale \/ q.row[c] = plan[c]
      BY <2>2, <2>3 DEF PostTells, RowPending
    <3>3. QED
      BY <2>3, <3>1, <3>2
  <2>6. n.page = "budget" /\ n.row["auto"] => plan'["cap"] \/ "cap" \in n.stale
    <3>1. q.page = "budget" => "cap" \in Plans!Watched[q.page]
      BY PagesAre
    <3>2. "cap" \in Plans!Columns
      BY DEF Plans!Columns
    <3>3. QED
      BY <2>2, <2>3, <3>1, <3>2 DEF PostTells
  <2>7. n.page = "capability" /\ ~RowPending(n) => "research" \in n.stale \/ plan'["research"] = n.row["research"]
    <3>1. q.page = "capability" => "research" \in Plans!Watched[q.page]
      BY PagesAre
    <3>2. "research" \in Plans!Columns
      BY DEF Plans!Columns
    <3>3. QED
      BY <2>2, <2>3, <3>1, <3>2 DEF PostTells, RowPending
  <2>8. n.pc = "write" => "models" \in n.stale \/ n.old = allowed'
    <3>1. q.pc = "write" => "models" \in Plans!Watched[q.page]
      BY <2>2, PagesAre DEF PostTyped, PageNames
    <3>2. QED
      BY <2>2, <2>3, <3>1 DEF PostTells
  <2>9. n.pc \in {"read", "write"} /\ n.page # "budget" /\ n.row["research"] /\ n.found => Claude \in n.models
    BY <2>2, <2>3 DEF PostTells
  <2>10. PostTells(req[s])'
    BY <2>1, <2>5, <2>6, <2>7, <2>8, <2>9 DEF PostTells, RowPending
  <2>11. QED
    BY <2>1, <2>4, <2>10 DEF PostOK
<1>3. ASSUME NEW s \in Request, s # r, req[s] = Plans!Idle PROVE PostOK(s)'
  BY <1>1, <1>3 DEF PostOK
<1>4. QED
  BY <1>1, <1>2, <1>3

\* What is saved of a row, and what it does to the columns.
LEMMA PlanSaved ==
    ASSUME PlanInv, NEW r \in Request, req[r] # Plans!Idle, RowPending(req[r]), Plans!SaveRow(r)
    PROVE  /\ plan' \in Plans!Rows /\ aimed' \in Plans!Rows /\ undone' \subseteq Plans!Columns /\ Plans!PagesKeepApart'
           /\ \A c \in Plans!Columns : plan'[c] = IF c \in Plans!Saved[req[r].page] THEN req[r].row[c] ELSE plan[c]
<1> DEFINE q == req[r]
<1>1. PostTyped(q) /\ PostTells(q)
  BY DEF PlanInv, PostOK
<1>2. /\ plan' = [c \in Plans!Columns |-> IF c \in Plans!Saved[q.page] THEN q.row[c] ELSE plan[c]]
      /\ aimed' = [c \in Plans!Columns |-> IF c \in Plans!Shown[q.page] THEN q.row[c] ELSE aimed[c]]
      /\ undone' = (undone \ Plans!Shown[q.page]) \cup (Back(q.page) \cap q.stale)
  BY DEF Plans!SaveRow, Back
<1>3. q.row \in [Plans!Saved[q.page] -> BOOLEAN] /\ Plans!Saved[q.page] \subseteq Plans!Columns /\ Plans!Shown[q.page] \subseteq Plans!Saved[q.page]
  BY <1>1, PagesAre DEF PostTyped, PageNames, Plans!Columns
<1>4. \A c \in Back(q.page) : c \in q.stale \/ q.row[c] = plan[c]
  BY <1>1 DEF PostTells
<1>5. plan \in Plans!Rows /\ aimed \in Plans!Rows /\ undone \subseteq Plans!Columns /\ \A c \in Plans!Columns : plan[c] = aimed[c] \/ c \in undone
  BY DEF PlanInv, Plans!PagesKeepApart
<1> HIDE DEF q
<1>6. plan' \in Plans!Rows /\ aimed' \in Plans!Rows
  BY <1>2, <1>3, <1>5 DEF Plans!Rows
<1>7. undone' \subseteq Plans!Columns
  BY <1>2, <1>3, <1>5 DEF Back
<1>8. ASSUME NEW c \in Plans!Columns PROVE plan'[c] = aimed'[c] \/ c \in undone'
  <2>1. CASE c \in Plans!Shown[q.page]
    BY <1>2, <1>3, <2>1
  <2>2. CASE c \in Back(q.page)
    BY <1>2, <1>4, <1>5, <2>2 DEF Back
  <2>3. CASE c \notin Plans!Saved[q.page]
    BY <1>2, <1>3, <1>5, <2>3
  <2>4. QED
    BY <2>1, <2>2, <2>3 DEF Back
<1>9. QED
  BY <1>2, <1>6, <1>7, <1>8 DEF q, Plans!PagesKeepApart

LEMMA PlanCommit ==
    ASSUME PlanInv, NEW r \in Request, Plans!CommitPlan(r) PROVE PlanInv'
<1> DEFINE q == req[r]
<1>1. /\ q.page = "plan" /\ q.pc = "write" /\ Plans!SaveRow(r) /\ allowed' = Plans!SetModels(q)
      /\ torn' = (~ q.found \/ {"research", "models"} \cap q.stale # {}) /\ uncapped' = ~ q.row.cap
      /\ Plans!Outdate(r, Plans!Columns \cup {"models"}, Plans!Idle) /\ UNCHANGED <<connected, posts>>
  BY DEF Plans!CommitPlan
<1>2. req[r] # Plans!Idle /\ RowPending(q) /\ PostTyped(q) /\ PostTells(q)
  BY <1>1, IdleIs DEF PlanInv, PostOK, RowPending
<1>3. /\ plan' \in Plans!Rows /\ aimed' \in Plans!Rows /\ undone' \subseteq Plans!Columns /\ Plans!PagesKeepApart'
      /\ \A c \in Plans!Columns : plan'[c] = q.row[c]
  BY <1>1, <1>2, PlanSaved, PagesAre
<1>4. DOMAIN req' = Request /\ req'[r] = Plans!Idle /\ \A s \in Request \ {r} : PostOK(s)'
  BY <1>1, <1>3, PlanOutdated
<1>5. \A s \in Request : PostOK(s)'
  BY <1>4 DEF PostOK
<1>6. allowed' \subseteq Model
  BY <1>1, <1>2 DEF Plans!SetModels, PostTyped, PlanInv
<1>7. Plans!ResearchHasModel'
  <2>1. plan'.research = q.row["research"]
    BY <1>3 DEF Plans!Columns
  <2>2. CASE q.row["research"] /\ q.found /\ "models" \notin q.stale
    <3>1. Claude \in q.models /\ q.old = allowed
      BY <1>1, <1>2, <2>2 DEF PostTells
    <3>2. QED
      BY <1>1, <3>1 DEF Plans!SetModels, Plans!ResearchHasModel
  <2>3. CASE ~q.row["research"] \/ ~q.found \/ "models" \in q.stale
    BY <1>1, <2>1, <2>3 DEF Plans!ResearchHasModel
  <2>4. QED
    BY <2>2, <2>3
<1>8. Plans!AutoHasCap'
  BY <1>1, <1>3 DEF Plans!AutoHasCap, Plans!Columns
<1>9. torn' \in BOOLEAN /\ uncapped' \in BOOLEAN /\ connected' \in BOOLEAN /\ posts' \in 0 .. MaxPosts
  <2>1. torn' \in BOOLEAN
    BY <1>1
  <2>2. uncapped' \in BOOLEAN
    BY <1>1
  <2>3. QED
    BY <1>1, <2>1, <2>2 DEF PlanInv
<1>10. QED
  BY <1>3, <1>4, <1>5, <1>6, <1>7, <1>8, <1>9 DEF PlanInv

LEMMA PlanBudget ==
    ASSUME PlanInv, NEW r \in Request, Plans!SaveBudget(r) PROVE PlanInv'
<1> DEFINE q == req[r]
<1>1. /\ q.page = "budget" /\ Plans!SaveRow(r) /\ Plans!Outdate(r, {"auto"}, Plans!Idle)
      /\ uncapped' = ("cap" \in q.stale) /\ UNCHANGED <<allowed, connected, torn, posts>>
  BY DEF Plans!SaveBudget
<1>2. req[r] # Plans!Idle /\ RowPending(q) /\ PostTyped(q) /\ PostTells(q)
  BY <1>1, IdleIs DEF PlanInv, PostOK, RowPending, PageNames
<1>3. /\ plan' \in Plans!Rows /\ aimed' \in Plans!Rows /\ undone' \subseteq Plans!Columns /\ Plans!PagesKeepApart'
      /\ \A c \in Plans!Columns : plan'[c] = IF c = "auto" THEN q.row[c] ELSE plan[c]
  BY <1>1, <1>2, PlanSaved, PagesAre
<1>4. DOMAIN req' = Request /\ req'[r] = Plans!Idle /\ \A s \in Request \ {r} : PostOK(s)'
  BY <1>1, <1>3, PlanOutdated DEF Plans!Columns
<1>5. \A s \in Request : PostOK(s)'
  BY <1>4 DEF PostOK
<1>6. Plans!ResearchHasModel'
  BY <1>1, <1>3 DEF PlanInv, Plans!ResearchHasModel, Plans!Columns
<1>7. Plans!AutoHasCap'
  <2>1. plan'.auto = q.row["auto"] /\ plan'.cap = plan["cap"]
    BY <1>3 DEF Plans!Columns
  <2>2. q.row["auto"] => plan["cap"] \/ "cap" \in q.stale
    BY <1>1, <1>2 DEF PostTells
  <2>3. QED
    BY <1>1, <2>1, <2>2 DEF Plans!AutoHasCap
<1>8. uncapped' \in BOOLEAN
  BY <1>1
<1>9. QED
  BY <1>1, <1>3, <1>4, <1>5, <1>6, <1>7, <1>8 DEF PlanInv

LEMMA PlanCapability ==
    ASSUME PlanInv, NEW r \in Request, Plans!SaveCapability(r) PROVE PlanInv'
<1> DEFINE q == req[r]
           n == [q EXCEPT !.pc = "look"]
<1>1. /\ q.page = "capability" /\ q.pc = "save" /\ Plans!SaveRow(r) /\ torn' = TRUE
      /\ Plans!Outdate(r, {"research", "tools"}, n) /\ UNCHANGED <<allowed, connected, uncapped, posts>>
  BY DEF Plans!SaveCapability
<1>2. req[r] # Plans!Idle /\ RowPending(q) /\ PostTyped(q) /\ PostTells(q)
  BY <1>1, IdleIs DEF PlanInv, PostOK, RowPending
<1>3. /\ plan' \in Plans!Rows /\ aimed' \in Plans!Rows /\ undone' \subseteq Plans!Columns /\ Plans!PagesKeepApart'
      /\ \A c \in Plans!Columns : plan'[c] = IF c \in {"research", "tools"} THEN q.row[c] ELSE plan[c]
  BY <1>1, <1>2, PlanSaved, PagesAre
<1>4. DOMAIN req' = Request /\ req'[r] = n /\ \A s \in Request \ {r} : PostOK(s)'
  BY <1>1, <1>3, PlanOutdated DEF Plans!Columns
<1>5. /\ DOMAIN n = DOMAIN q /\ n.page = q.page /\ n.pc = "look" /\ n.row = q.row /\ n.models = q.models
      /\ n.old = q.old /\ n.stale = q.stale /\ n.found = q.found
  BY <1>2 DEF PostTyped
<1> HIDE DEF n
<1>6. PostTyped(n)
  BY <1>1, <1>2, <1>5 DEF PostTyped
<1>7. PostTells(req[r])'
  <2>1. plan'["research"] = n.row["research"]
    BY <1>3, <1>5 DEF Plans!Columns
  <2>2. n.page = "capability" /\ n.pc = "look"
    BY <1>1, <1>5
  <2>3. QED
    BY <1>4, <2>1, <2>2 DEF PostTells, RowPending
<1>8. \A s \in Request : PostOK(s)'
  BY <1>4, <1>6, <1>7 DEF PostOK
<1>9. Plans!ResearchHasModel'
  BY <1>1 DEF Plans!ResearchHasModel
<1>10. Plans!AutoHasCap'
  BY <1>1, <1>3 DEF PlanInv, Plans!AutoHasCap, Plans!Columns
<1>11. QED
  BY <1>1, <1>3, <1>4, <1>8, <1>9, <1>10 DEF PlanInv

LEMMA PlanSetModels ==
    ASSUME PlanInv, NEW r \in Request, Plans!SetCapability(r) PROVE PlanInv'
<1> DEFINE q == req[r]
<1>1. /\ q.page = "capability" /\ q.pc = "write" /\ allowed' = Plans!SetModels(q)
      /\ torn' = (~ q.found \/ {"research", "models"} \cap q.stale # {})
      /\ Plans!Outdate(r, {"models"}, Plans!Idle) /\ UNCHANGED <<plan, connected, aimed, undone, uncapped, posts>>
  BY DEF Plans!SetCapability
<1>2. req[r] # Plans!Idle /\ ~RowPending(q) /\ PostTyped(q) /\ PostTells(q)
  BY <1>1, IdleIs DEF PlanInv, PostOK, RowPending
<1>3. DOMAIN req' = Request /\ req'[r] = Plans!Idle /\ \A s \in Request \ {r} : PostOK(s)'
  BY <1>1, PlanOutdated DEF PlanInv
<1>4. \A s \in Request : PostOK(s)'
  BY <1>3 DEF PostOK
<1>5. allowed' \subseteq Model
  BY <1>1, <1>2 DEF Plans!SetModels, PostTyped, PlanInv
<1>6. Plans!ResearchHasModel'
  <2>1. CASE plan["research"] /\ q.found /\ "models" \notin q.stale /\ "research" \notin q.stale
    <3>1. q.row["research"]
      BY <1>1, <1>2, <2>1 DEF PostTells
    <3>2. Claude \in q.models /\ q.old = allowed
      BY <1>1, <1>2, <2>1, <3>1 DEF PostTells
    <3>3. QED
      BY <1>1, <3>2 DEF Plans!SetModels, Plans!ResearchHasModel
  <2>2. CASE ~plan["research"]
    BY <1>1, <2>2 DEF Plans!ResearchHasModel
  <2>3. CASE ~q.found \/ "models" \in q.stale \/ "research" \in q.stale
    BY <1>1, <2>3 DEF Plans!ResearchHasModel
  <2>4. QED
    BY <2>1, <2>2, <2>3
<1>7. Plans!PagesKeepApart' /\ Plans!AutoHasCap'
  BY <1>1 DEF PlanInv, Plans!PagesKeepApart, Plans!AutoHasCap
<1>8. torn' \in BOOLEAN
  BY <1>1
<1>9. QED
  BY <1>1, <1>3, <1>4, <1>5, <1>6, <1>7, <1>8 DEF PlanInv

-------------------------------------------------------------------------------
LEMMA PlanStep == PlanInv /\ [Plans!Next]_Plans!vars => PlanInv'
<1> SUFFICES ASSUME PlanInv, [Plans!Next]_Plans!vars PROVE PlanInv'
  OBVIOUS
<1>1. plan \in Plans!Rows
  BY DEF PlanInv
<1>2. ASSUME NEW r \in Request, NEW form \in Plans!Rows, NEW models \in SUBSET Model, Plans!OpenPlan(r, form, models)
      PROVE PlanInv'
  <2>1. \A c \in Back("plan") : form[c] = plan[c]
    BY <1>2 DEF Plans!OpenPlan, Back, Plans!Saved
  <2>2. Plans!Open(r, "plan", form, models, "look")
    BY <1>2 DEF Plans!OpenPlan
  <2>3. QED
    BY <2>1, <2>2, PlanOpen DEF PageNames
<1>3. ASSUME NEW r \in Request, NEW on \in BOOLEAN, Plans!OpenBudget(r, on) PROVE PlanInv'
  <2> DEFINE row == [plan EXCEPT !.auto = Plans!AutoAfter(on)]
  <2>1. Plans!AutoAfter(on) \in BOOLEAN /\ (Plans!AutoAfter(on) => plan["cap"])
    BY DEF Plans!AutoAfter
  <2>2. row \in Plans!Rows /\ (row["auto"] => plan["cap"])
    BY <1>1, <2>1 DEF Plans!Rows, Plans!Columns
  <2>3. Plans!Open(r, "budget", row, {}, "save")
    BY <1>3 DEF Plans!OpenBudget
  <2>4. Back("budget") = {}
    BY PagesAre
  <2> HIDE DEF row
  <2>5. QED
    BY <2>2, <2>3, <2>4, PlanOpen DEF PageNames
<1>4. ASSUME NEW r \in Request, NEW on \in BOOLEAN, Plans!OpenCapability(r, on) PROVE PlanInv'
  <2> DEFINE row == Plans!Merged(on)
  <2>1. row \in Plans!Rows /\ row["tools"] = plan["tools"]
    BY <1>1 DEF Plans!Rows, Plans!Columns, Plans!Merged
  <2>2. Plans!Open(r, "capability", row, {}, "save")
    BY <1>4 DEF Plans!OpenCapability
  <2>3. Back("capability") = {"tools"}
    BY PagesAre
  <2> HIDE DEF row
  <2>4. QED
    BY <2>1, <2>2, <2>3, PlanOpen DEF PageNames
<1>5. ASSUME Plans!SwitchModel PROVE PlanInv'
  <2>1. connected' \in BOOLEAN /\ UNCHANGED <<plan, allowed, req, aimed, undone, torn, uncapped, posts>>
    BY <1>5 DEF Plans!SwitchModel
  <2>2. QED
    BY <2>1 DEF PlanInv, PostOK, PostTells, Plans!ResearchHasModel, Plans!PagesKeepApart,
       Plans!AutoHasCap
<1>6. ASSUME UNCHANGED Plans!vars PROVE PlanInv'
  BY <1>6 DEF PlanInv, PostOK, PostTells, Plans!ResearchHasModel, Plans!PagesKeepApart,
     Plans!AutoHasCap, Plans!vars
<1>7. QED
  BY <1>2, <1>3, <1>4, <1>5, <1>6, PlanLook, PlanReadOld, PlanCommit, PlanBudget, PlanCapability,
     PlanSetModels, PlanAbandon DEF Plans!Next

LEMMA PlanHolds == Plans!Spec => [](Plans!TypeOK /\ Plans!ResearchHasModel /\ Plans!PagesKeepApart /\ Plans!AutoHasCap)
<1>1. PlanInv => Plans!TypeOK /\ Plans!ResearchHasModel /\ Plans!PagesKeepApart /\ Plans!AutoHasCap
  BY PlanTyped DEF PlanInv
<1>2. QED
  BY <1>1, PlanInit, PlanStep, PTL DEF Plans!Spec

-------------------------------------------------------------------------------
(* The limits of a person.                                                 *)

\* The instances have their own copies of the operators on finite sets: they are the same.
LEMMA UsageSets == \A S : Usage!Cardinality(S) = Cardinality(S)
BY DEF Usage!Cardinality, Cardinality

LEMMA LeastIs ==
    ASSUME NEW S, S \subseteq Nat, S # {}
    PROVE  Usage!Min(S) \in S
<1>1. PICK x \in S : \A y \in S : ~(<<y, x>> \in OpToRel(<, Nat))
  BY NatLessThanWellFounded, WFMin
<1>2. \A y \in S : ~(y < x)
  BY <1>1 DEF OpToRel
<1>3. \A y \in S : x <= y
  BY <1>2
<1>4. QED
  BY <1>3 DEF Usage!Min

LEMMA MinOfTwo == \A a, b \in Int : Usage!Min({a, b}) = IF a <= b THEN a ELSE b
BY DEF Usage!Min

\* Rounding is off by a half at most.
LEMMA Halves ==
    ASSUME NEW n \in Nat, NEW d \in Nat, d > 0
    PROVE  Usage!Rounded(n, d) \in Nat /\ 2 * n - d <= 2 * d * Usage!Rounded(n, d) /\ 2 * d * Usage!Rounded(n, d) <= 2 * n + d
<1> DEFINE q == n \div d
           m == n % d
<1>1. q \in Nat /\ m \in Nat /\ m < d /\ n = d * q + m
  OBVIOUS
<1> HIDE DEF q, m
<1>2. Usage!Rounded(n, d) = IF 2 * m > d \/ (2 * m = d /\ q % 2 = 1) THEN q + 1 ELSE q
  BY DEF Usage!Rounded, q, m
<1>3. d * (q + 1) = d * q + d /\ d * q \in Nat
  BY <1>1
<1>4. CASE Usage!Rounded(n, d) = q + 1
  <2>1. 2 * m >= d
    BY <1>1, <1>2, <1>4
  <2>2. 2 * d * Usage!Rounded(n, d) = 2 * (d * q) + 2 * d
    BY <1>1, <1>3, <1>4
  <2>3. QED
    BY <1>1, <1>3, <1>4, <2>1, <2>2
<1>5. CASE Usage!Rounded(n, d) = q
  <2>1. 2 * m <= d
    BY <1>1, <1>2, <1>5
  <2>2. 2 * d * Usage!Rounded(n, d) = 2 * (d * q)
    BY <1>1, <1>3, <1>5
  <2>3. QED
    BY <1>1, <1>3, <1>5, <2>1, <2>2
<1>6. QED
  BY <1>2, <1>4, <1>5

\* What is shown is at least a mark m exactly when so much is used, but for the rounding.
LEMMA Marks ==
    ASSUME NEW n \in Nat, NEW cap \in Nat, cap # 0, NEW m \in 1 .. 100
    PROVE  /\ Usage!Percent(n, cap) \in Nat /\ Usage!Percent(n, cap) <= 100
           /\ Usage!Percent(n, cap) >= m => 200 * n >= (2 * m - 1) * cap
           /\ 100 * n >= m * cap => Usage!Percent(n, cap) >= m
<1> DEFINE r == Usage!Rounded(100 * n, cap)
<1>1. r \in Nat /\ 200 * n - cap <= 2 * cap * r /\ 2 * cap * r <= 200 * n + cap
  BY Halves
<1>2. Usage!Percent(n, cap) = IF 100 <= r THEN 100 ELSE r
  BY <1>1, MinOfTwo DEF Usage!Percent
<1> HIDE DEF r
<1>3. ASSUME r >= m PROVE 200 * n >= (2 * m - 1) * cap
  <2>1. cap * r >= cap * m
    BY <1>1, <1>3
  <2>2. 2 * cap * r = 2 * (cap * r) /\ (2 * m - 1) * cap = 2 * (cap * m) - cap
    BY <1>1
  <2>3. cap * r \in Int /\ cap * m \in Int
    BY <1>1
  <2>4. QED
    BY <1>1, <2>1, <2>2, <2>3
<1>4. ASSUME 100 * n >= m * cap PROVE r >= m
  <2>1. SUFFICES ASSUME r <= m - 1 PROVE FALSE
    BY <1>1
  <2>2. cap * r <= cap * (m - 1)
    BY <1>1, <2>1
  <2>3. 2 * cap * r = 2 * (cap * r) /\ cap * (m - 1) = m * cap - cap
    BY <1>1
  <2>4. cap * r \in Int /\ m * cap \in Int
    BY <1>1
  <2>5. QED
    BY <1>1, <1>4, <2>2, <2>3, <2>4
<1>5. QED
  BY <1>1, <1>2, <1>3, <1>4

-------------------------------------------------------------------------------
\* A limit as it is stored.
LimitRows == [about : Usage!Target, cap : Cap \cup {Blank}]

\* What governs by now: the person's row and the row of a department.
PersonCap == Usage!First(Usage!Of("person"))
DepartmentCap(d) == IF d = None THEN None ELSE Usage!First(Usage!Of(d))

LookTyped ==
    /\ DOMAIN look = {"page", "step", "dept", "personal", "department", "plan", "used", "before", "stirred", "twice"}
    /\ look.page \in {"overview", "team"} /\ look.step \in 1 .. Len(Usage!Order[look.page])
    /\ look.dept \in Dept \cup {None} /\ look.stirred \in Nat /\ look.twice \in BOOLEAN

\* Before the first read, person p, department d, plan k and use u were so.  What the page has
\* read is of that time or of now, and one of them has changed at most.
Before(p, d, k, u) ==
    /\ look.before = Usage!Over(look.page, u, Usage!Governing(p, d, k))
    /\ look.stirred = 0 => /\ p = PersonCap /\ d = DepartmentCap(look.dept) /\ k = planCap /\ u = used
                           /\ look.dept = homeDept
    /\ \/ d = DepartmentCap(look.dept) /\ k = planCap /\ u = used /\ look.dept = homeDept
       \/ p = PersonCap /\ k = planCap /\ u = used /\ look.dept = homeDept
       \/ p = PersonCap /\ d = DepartmentCap(look.dept) /\ u = used /\ look.dept = homeDept
       \/ p = PersonCap /\ d = DepartmentCap(look.dept) /\ k = planCap /\ look.dept = homeDept
       \/ p = PersonCap /\ d = DepartmentCap(look.dept) /\ k = planCap /\ u = used
    /\ look.step > 1 => look.personal \in {p, PersonCap}
    /\ look.step > 2 => look.department \in {d, DepartmentCap(look.dept)}
    /\ look.step > 3 => look.used \in {u, used}
    /\ look.plan \in {k, planCap}

\* One row about each, at most.
Single == \A x \in Usage!Target : \A i, j \in Usage!Of(x) : i = j

LookTells ==
    look # None /\ look.stirred <= 1 /\ ~look.twice => Single /\ \E p, d, k, u : Before(p, d, k, u)

LimitsTyped ==
    /\ usageLimits \in Seq(LimitRows \cup {None}) /\ Len(usageLimits) <= MaxRows
    /\ homeDept \in Dept \cup {None} /\ planCap \in Cap \cup {Blank} /\ used \in Mark

UsageInv == LimitsTyped /\ (look # None => LookTyped) /\ LookTells

LEMMA UsageConsts ==
    /\ Cap \subseteq Nat /\ 0 \in Mark /\ Mark \subseteq Nat /\ MaxRows \in Nat
    /\ "person" \notin Dept /\ None \notin Usage!Target /\ Usage!Target = Dept \cup {"person"}
BY UsageAssumption DEF Usage!UsageConstants, Usage!Target

LEMMA OrderIs ==
    /\ DOMAIN Usage!Order = {"overview", "team"} /\ Len(Usage!Order["overview"]) = 5 /\ Len(Usage!Order["team"]) = 4
    /\ \A p \in {"overview", "team"} :
         /\ Usage!Order[p][1] = "personal" /\ Usage!Order[p][2] = "department" /\ Usage!Order[p][3] = "used"
         /\ Usage!Order["overview"][4] = "plan" /\ Usage!Order["overview"][5] = "done" /\ Usage!Order["team"][4] = "done"
BY DEF Usage!Order

LEMMA UsageTyped == UsageInv => Usage!TypeOK
<1> SUFFICES ASSUME UsageInv PROVE Usage!TypeOK
  OBVIOUS
<1>1. \A i \in DOMAIN usageLimits : usageLimits[i] \in LimitRows \cup {None}
  BY DEF UsageInv, LimitsTyped
<1>2. QED
  BY <1>1 DEF UsageInv, LimitsTyped, LookTyped, Usage!TypeOK, LimitRows

\* The cap that is obeyed is a cap.
LEMMA EffectiveTyped == LimitsTyped => Usage!Effective \in Cap \cup {Blank}
<1> SUFFICES ASSUME LimitsTyped PROVE Usage!Effective \in Cap \cup {Blank}
  OBVIOUS
<1>1. ASSUME NEW x PROVE Usage!First(Usage!Of(x)) \in Cap \cup {Blank, None}
  <2>1. CASE Usage!Of(x) = {}
    BY <2>1 DEF Usage!First
  <2>2. CASE Usage!Of(x) # {}
    <3>1. Usage!Of(x) \subseteq Nat
      BY DEF Usage!Of, LimitsTyped
    <3>2. Usage!Min(Usage!Of(x)) \in Usage!Of(x)
      BY <2>2, <3>1, LeastIs
    <3>3. usageLimits[Usage!Min(Usage!Of(x))] \in LimitRows
      BY <3>2 DEF Usage!Of, LimitsTyped
    <3>4. QED
      BY <2>2, <3>3 DEF Usage!First, LimitRows
  <2>3. QED
    BY <2>1, <2>2
<1>2. QED
  BY <1>1 DEF Usage!Effective, Usage!Governing, LimitsTyped

LEMMA FewIsOne ==
    ASSUME NEW S, IsFiniteSet(S), ~(Cardinality(S) > 1)
    PROVE  \A i, j \in S : i = j
<1> SUFFICES ASSUME NEW i \in S, NEW j \in S, i # j PROVE FALSE
  OBVIOUS
<1>1. IsFiniteSet({i, j}) /\ Cardinality({i, j}) = 2
  <2>1. IsFiniteSet({i}) /\ Cardinality({i}) = 1 /\ j \notin {i} /\ {i, j} = {i} \cup {j}
    BY FS_Singleton
  <2>2. QED
    BY <2>1, FS_AddElement
<1>2. Cardinality({i, j}) <= Cardinality(S)
  BY FS_Subset
<1>3. Cardinality(S) \in Nat
  BY FS_CardinalityType
<1>4. QED
  BY <1>1, <1>2, <1>3

LEMMA RowsFinite == ASSUME NEW l \in Seq(LimitRows \cup {None}), NEW S \in SUBSET (DOMAIN l) PROVE IsFiniteSet(S)
<1>1. DOMAIN l = 1 .. Len(l) /\ Len(l) \in Int
  OBVIOUS
<1>2. IsFiniteSet(1 .. Len(l))
  BY <1>1, FS_Interval
<1>3. QED
  BY <1>1, <1>2, FS_Subset

\* With one row, the one that a batch keeps is the one that governs.
LEMMA BatchIsFirst ==
    ASSUME NEW x, LimitsTyped, \A i, j \in Usage!Of(x) : i = j, NEW c \in Usage!Batch(Usage!Of(x))
    PROVE  c = Usage!First(Usage!Of(x))
<1>1. CASE Usage!Of(x) = {}
  BY <1>1 DEF Usage!Batch, Usage!First
<1>2. CASE Usage!Of(x) # {}
  <2>1. PICK i \in Usage!Of(x) : c = usageLimits[i].cap
    BY <1>2 DEF Usage!Batch
  <2>2. Usage!Of(x) = {i} /\ i \in Nat
    BY <2>1 DEF Usage!Of, LimitsTyped
  <2>3. Usage!Min({i}) = i
    BY <2>2 DEF Usage!Min
  <2>4. QED
    BY <1>2, <2>1, <2>2, <2>3 DEF Usage!First
<1>3. QED
  BY <1>1, <1>2

LEMMA NoRowOfNone == LimitsTyped => Usage!Of(None) = {}
<1> SUFFICES ASSUME LimitsTyped, NEW i \in Usage!Of(None) PROVE FALSE
  OBVIOUS
<1>1. usageLimits[i] \in LimitRows
  BY DEF Usage!Of, LimitsTyped
<1>2. QED
  BY <1>1, UsageConsts DEF Usage!Of, LimitRows

-------------------------------------------------------------------------------
\* What a change does to what governs: of the three caps and of the use, one has changed
\* at most, or else the department.
OneChange(d) ==
    \/ UNCHANGED <<DepartmentCap(d), planCap, used, homeDept>>
    \/ UNCHANGED <<PersonCap, planCap, used, homeDept>>
    \/ UNCHANGED <<PersonCap, DepartmentCap(d), used, homeDept>>
    \/ UNCHANGED <<PersonCap, DepartmentCap(d), planCap, homeDept>>
    \/ UNCHANGED <<PersonCap, DepartmentCap(d), planCap, used>>

\* The rows about y are the rows they were.
Spared(y) == Usage!Of(y)' = Usage!Of(y) /\ \A i \in Usage!Of(y) : usageLimits'[i] = usageLimits[i]

LEMMA SparedSame ==
    ASSUME NEW y, LimitsTyped, \A i, j \in Usage!Of(y) : i = j, Spared(y)
    PROVE  Usage!First(Usage!Of(y))' = Usage!First(Usage!Of(y))
<1>1. CASE Usage!Of(y) = {}
  BY <1>1 DEF Spared, Usage!First
<1>2. CASE Usage!Of(y) # {}
  <2>1. PICK i : i \in Usage!Of(y)
    BY <1>2
  <2>2. Usage!Of(y) = {i} /\ i \in Nat /\ Usage!Of(y)' = {i} /\ usageLimits'[i] = usageLimits[i]
    BY <2>1 DEF Spared, Usage!Of, LimitsTyped
  <2>3. Usage!Min({i}) = i
    BY <2>2 DEF Usage!Min
  <2>4. Usage!First({i})' = Usage!First({i})
    BY <2>2, <2>3 DEF Usage!First
  <2>5. Usage!First(Usage!Of(y))' = Usage!First({i})' /\ Usage!First(Usage!Of(y)) = Usage!First({i})
    BY <2>2 DEF Usage!First
  <2>6. QED
    BY <2>4, <2>5
<1>3. QED
  BY <1>1, <1>2

\* A change of the rows about x.
LEMMA RowsChange ==
    ASSUME LimitsTyped, Single, NEW x \in Usage!Target, \A y \in Usage!Target \ {x} : Spared(y), NEW d \in Dept \cup {None},
           UNCHANGED <<homeDept, planCap, used>>
    PROVE  OneChange(d)
<1>1. CASE x = "person"
  <2>1. DepartmentCap(d)' = DepartmentCap(d)
    BY <1>1, UsageConsts, SparedSame DEF DepartmentCap, Single
  <2>2. QED
    BY <2>1 DEF OneChange
<1>2. CASE x # "person"
  <2>1. PersonCap' = PersonCap
    BY <1>2, UsageConsts, SparedSame DEF PersonCap, Single
  <2>2. QED
    BY <2>1 DEF OneChange
<1>3. QED
  BY <1>1, <1>2
\* After a change that leaves one row about each, at most: a page that had met none has met one.
LEMMA StirTells ==
    ASSUME UsageInv, LimitsTyped', NEW n \in {1, 2}, Usage!Stir(n),
           n = 1 /\ look # None /\ Single => OneChange(look.dept)
    PROVE  UsageInv'
<1>1. CASE look = None
  BY <1>1 DEF Usage!Stir, UsageInv, LookTells
<1>2. CASE look # None
  <2> DEFINE o == look
             t == \E x \in Usage!Target : Cardinality(Usage!Of(x)') > 1
  <2>1. look' = [o EXCEPT !.stirred = @ + n, !.twice = @ \/ t] /\ LookTyped
    BY <1>2, UsageSets DEF Usage!Stir, UsageInv
  <2>2. /\ DOMAIN look' = DOMAIN o /\ look'.page = o.page /\ look'.step = o.step /\ look'.dept = o.dept
        /\ look'.personal = o.personal /\ look'.department = o.department /\ look'.plan = o.plan
        /\ look'.used = o.used /\ look'.before = o.before /\ look'.stirred = o.stirred + n
        /\ look'.twice = (o.twice \/ t)
    BY <2>1 DEF LookTyped
  <2> HIDE DEF t
  <2>3. LookTyped'
    <3>1. (o.twice \/ t) \in BOOLEAN
      OBVIOUS
    <3>2. look'.twice \in BOOLEAN
      BY <2>2, <3>1
    <3>3. QED
      BY <2>1, <2>2, <3>2 DEF LookTyped
  <2>4. ASSUME look'.stirred <= 1, ~look'.twice
        PROVE  Single' /\ (\E p, d, k, u : Before(p, d, k, u))'
    <3>1. n = 1 /\ o.stirred = 0 /\ ~o.twice /\ ~t
      <4>1. o.stirred + n <= 1 /\ o.stirred \in Nat
        BY <2>1, <2>2, <2>4 DEF LookTyped
      <4>2. n = 1 /\ o.stirred = 0
        BY <4>1
      <4>3. ~(o.twice \/ t)
        BY ONLY <2>2, <2>4, Zenon
      <4>4. QED
        BY <4>2, <4>3
    <3>2. Single /\ \E p, d, k, u : Before(p, d, k, u)
      BY <1>2, <3>1 DEF UsageInv, LookTells
    <3>3. PICK p, d, k, u : Before(p, d, k, u)
      BY <3>2
    <3>4. OneChange(o.dept)
      BY <1>2, <3>1, <3>2
    <3>5. /\ p = PersonCap /\ d = DepartmentCap(o.dept) /\ k = planCap /\ u = used /\ o.dept = homeDept
          /\ o.before = Usage!Over(o.page, u, Usage!Governing(p, d, k))
          /\ (o.step > 1 => o.personal = p) /\ (o.step > 2 => o.department = d) /\ (o.step > 3 => o.used = u)
          /\ o.plan = k
      BY <3>1, <3>3 DEF Before
    <3>6. DepartmentCap(look.dept)' = DepartmentCap(o.dept)'
      BY <2>2
    <3>7. Before(p, d, k, u)'
      <4>1. look'.before = Usage!Over(look'.page, u, Usage!Governing(p, d, k))
        BY <2>2, <3>5
      <4>2. look'.stirred # 0
        BY <2>2, <3>1
      <4>3. \/ d = DepartmentCap(look.dept)' /\ k = planCap' /\ u = used' /\ look'.dept = homeDept'
            \/ p = PersonCap' /\ k = planCap' /\ u = used' /\ look'.dept = homeDept'
            \/ p = PersonCap' /\ d = DepartmentCap(look.dept)' /\ u = used' /\ look'.dept = homeDept'
            \/ p = PersonCap' /\ d = DepartmentCap(look.dept)' /\ k = planCap' /\ look'.dept = homeDept'
            \/ p = PersonCap' /\ d = DepartmentCap(look.dept)' /\ k = planCap' /\ u = used'
        BY <2>2, <3>4, <3>5, <3>6 DEF OneChange
      <4>4. /\ look'.step > 1 => look'.personal \in {p, PersonCap'}
            /\ look'.step > 2 => look'.department \in {d, DepartmentCap(look.dept)'}
            /\ look'.step > 3 => look'.used \in {u, used'}
            /\ look'.plan \in {k, planCap'}
        BY <2>2, <3>5
      <4>5. Usage!Over(look.page, u, Usage!Governing(p, d, k))' = Usage!Over(look'.page, u, Usage!Governing(p, d, k))
        BY DEF Usage!Over, Usage!Governing
      <4>6. QED
        BY <4>1, <4>2, <4>3, <4>4, <4>5 DEF Before
    <3>8. Single'
      <4>1. usageLimits' \in Seq(LimitRows \cup {None})
        BY DEF LimitsTyped
      <4>2. ASSUME NEW x \in Usage!Target PROVE \A i, j \in Usage!Of(x)' : i = j
        <5>1. Usage!Of(x)' \subseteq DOMAIN usageLimits'
          BY DEF Usage!Of
        <5>2. IsFiniteSet(Usage!Of(x)')
          BY <4>1, <5>1, RowsFinite
        <5>3. ~(Cardinality(Usage!Of(x)') > 1)
          BY <3>1 DEF t
        <5>4. QED
          BY <5>2, <5>3, FewIsOne
      <4>3. QED
        BY <4>2 DEF Single
    <3>9. QED
      BY <3>7, <3>8
  <2>5. QED
    BY <2>3, <2>4 DEF UsageInv, LookTells
<1>3. QED
  BY <1>1, <1>2

LEMMA AddLimitTells ==
    ASSUME UsageInv, NEW x \in Usage!Target, NEW c \in Cap \cup {Blank}, Usage!AddLimit(x, c) PROVE UsageInv'
<1> DEFINE w == [about |-> x, cap |-> c]
<1>1. Len(usageLimits) < MaxRows /\ usageLimits' = Append(usageLimits, w) /\ UNCHANGED <<homeDept, planCap, used>> /\ Usage!Stir(1)
  BY DEF Usage!AddLimit
<1>2. w \in LimitRows /\ w.about = x
  BY DEF LimitRows
<1> HIDE DEF w
<1>3. usageLimits \in Seq(LimitRows \cup {None}) /\ Len(usageLimits) \in Nat
  BY DEF UsageInv, LimitsTyped
<1>4. /\ usageLimits' \in Seq(LimitRows \cup {None}) /\ Len(usageLimits') = Len(usageLimits) + 1 /\ usageLimits'[Len(usageLimits) + 1] = w
      /\ \A i \in DOMAIN usageLimits : usageLimits'[i] = usageLimits[i]
      /\ DOMAIN usageLimits' = DOMAIN usageLimits \cup {Len(usageLimits) + 1} /\ Len(usageLimits) + 1 \notin DOMAIN usageLimits
  BY <1>1, <1>2, <1>3
<1>5. LimitsTyped'
  BY <1>1, <1>3, <1>4, UsageConsts DEF UsageInv, LimitsTyped
<1>6. ASSUME NEW y, y # x PROVE Spared(y)
  <2>1. Usage!Of(y)' = Usage!Of(y)
    BY <1>2, <1>4, <1>6 DEF Usage!Of
  <2>2. QED
    BY <1>4, <2>1 DEF Spared, Usage!Of
<1>7. look # None /\ Single => OneChange(look.dept)
  BY <1>1, <1>6, RowsChange DEF UsageInv, LookTyped
<1>8. QED
  BY <1>1, <1>5, <1>7, StirTells

\* A row is written, or deleted.
LEMMA WriteTells ==
    ASSUME UsageInv, NEW i \in DOMAIN usageLimits, NEW w \in LimitRows \cup {None}, NEW n \in {1, 2}, usageLimits[i] # None,
           w # None /\ n = 1 => w.about = usageLimits[i].about,
           usageLimits' = [usageLimits EXCEPT ![i] = w], UNCHANGED <<homeDept, planCap, used>>, Usage!Stir(n)
    PROVE  UsageInv'
<1>1. usageLimits \in Seq(LimitRows \cup {None}) /\ usageLimits[i] \in LimitRows
  BY DEF UsageInv, LimitsTyped
<1>2. /\ usageLimits' \in Seq(LimitRows \cup {None}) /\ Len(usageLimits') = Len(usageLimits) /\ DOMAIN usageLimits' = DOMAIN usageLimits
      /\ usageLimits'[i] = w /\ \A j \in DOMAIN usageLimits : j # i => usageLimits'[j] = usageLimits[j]
  BY <1>1
<1>3. LimitsTyped'
  BY <1>2 DEF UsageInv, LimitsTyped
<1>4. ASSUME NEW y, y # usageLimits[i].about, n = 1 PROVE Spared(y)
  <2>1. i \notin Usage!Of(y)
    BY <1>4 DEF Usage!Of
  <2>2. i \notin Usage!Of(y)'
    BY <1>2, <1>4 DEF Usage!Of
  <2>3. \A j \in DOMAIN usageLimits : j # i => (j \in Usage!Of(y)' <=> j \in Usage!Of(y))
    BY <1>2 DEF Usage!Of
  <2>4. Usage!Of(y)' = Usage!Of(y)
    BY <1>2, <2>1, <2>2, <2>3 DEF Usage!Of
  <2>5. QED
    BY <1>2, <2>1, <2>4 DEF Spared, Usage!Of
<1>5. usageLimits[i].about \in Usage!Target
  BY <1>1 DEF LimitRows
<1>6. n = 1 /\ look # None /\ Single => OneChange(look.dept)
  BY <1>4, <1>5, RowsChange DEF UsageInv, LookTyped
<1>7. QED
  BY <1>3, <1>6, StirTells

LEMMA EditLimitTells ==
    ASSUME UsageInv, NEW i \in DOMAIN usageLimits, NEW x \in Usage!Target, NEW c \in Cap \cup {Blank}, Usage!EditLimit(i, x, c)
    PROVE  UsageInv'
<1> DEFINE w == [about |-> x, cap |-> c]
           n == IF x = usageLimits[i].about THEN 1 ELSE 2
<1>1. w \in LimitRows /\ w.about = x
  BY DEF LimitRows
<1>2. /\ usageLimits[i] # None /\ usageLimits' = [usageLimits EXCEPT ![i] = w] /\ UNCHANGED <<homeDept, planCap, used>>
      /\ Usage!Stir(n)
  BY DEF Usage!EditLimit
<1>3. n \in {1, 2} /\ (n = 1 => w.about = usageLimits[i].about)
  BY <1>1
<1> HIDE DEF w, n
<1>4. QED
  BY <1>1, <1>2, <1>3, WriteTells

LEMMA DeleteLimitTells == ASSUME UsageInv, NEW i \in DOMAIN usageLimits, Usage!DeleteLimit(i) PROVE UsageInv'
BY WriteTells DEF Usage!DeleteLimit

LEMMA ClearOverridesTells == ASSUME UsageInv, Usage!ClearOverrides PROVE UsageInv'
<1>1. Usage!Of("person") \subseteq Nat /\ Usage!Of("person") \subseteq DOMAIN usageLimits /\ Usage!Of("person") # {}
  BY DEF Usage!Of, UsageInv, LimitsTyped, Usage!ClearOverrides
<1>2. Usage!Min(Usage!Of("person")) \in DOMAIN usageLimits
  BY <1>1, LeastIs
<1>3. QED
  BY <1>2, DeleteLimitTells DEF Usage!ClearOverrides

\* A change that is not of a limit.
LEMMA OtherTells ==
    ASSUME UsageInv, UNCHANGED usageLimits, Usage!Stir(1),
           homeDept' \in Dept \cup {None}, planCap' \in Cap \cup {Blank}, used' \in Mark,
           \/ UNCHANGED <<homeDept, planCap>>
           \/ UNCHANGED <<homeDept, used>>
           \/ UNCHANGED <<planCap, used>>
    PROVE  UsageInv'
<1>1. LimitsTyped'
  BY DEF UsageInv, LimitsTyped
<1>2. ASSUME NEW d PROVE UNCHANGED <<PersonCap, DepartmentCap(d)>>
  BY DEF PersonCap, DepartmentCap, Usage!First, Usage!Of
<1>3. ASSUME NEW d PROVE OneChange(d)
  BY <1>2 DEF OneChange
<1>4. QED
  BY <1>1, <1>3, StirTells

LEMMA ChangesTell ==
    ASSUME UsageInv,
           \/ \E d \in Dept \cup {None} : Usage!ChangeDepartment(d)
           \/ \E c \in Cap \cup {Blank} : Usage!ChangePlan(c)
           \/ \E n \in Mark : Usage!Answer(n)
           \/ Usage!NewMonth
    PROVE  UsageInv'
<1>1. homeDept \in Dept \cup {None} /\ planCap \in Cap \cup {Blank} /\ used \in Mark
  BY DEF UsageInv, LimitsTyped
<1>2. UNCHANGED usageLimits /\ Usage!Stir(1)
  BY DEF Usage!ChangeDepartment, Usage!ChangePlan, Usage!Answer, Usage!NewMonth
<1>3. homeDept' \in Dept \cup {None} /\ planCap' \in Cap \cup {Blank} /\ used' \in Mark
  BY <1>1, UsageConsts DEF Usage!ChangeDepartment, Usage!ChangePlan, Usage!Answer, Usage!NewMonth
<1>4. UNCHANGED <<homeDept, planCap>> \/ UNCHANGED <<homeDept, used>> \/ UNCHANGED <<planCap, used>>
  BY DEF Usage!ChangeDepartment, Usage!ChangePlan, Usage!Answer, Usage!NewMonth
<1>5. QED
  BY <1>2, <1>3, <1>4, OtherTells

-------------------------------------------------------------------------------
LEMMA EffectiveIs == Usage!Effective = Usage!Governing(PersonCap, DepartmentCap(homeDept), planCap)
BY DEF Usage!Effective, PersonCap, DepartmentCap

LEMMA StartLookTells == ASSUME UsageInv, NEW p \in DOMAIN Usage!Order, Usage!StartLook(p) PROVE UsageInv'
<1> DEFINE t == \E x \in Usage!Target : Cardinality(Usage!Of(x)) > 1
<1>1. /\ look' = [page |-> p, step |-> 1, dept |-> homeDept, personal |-> None, department |-> None,
                  plan |-> planCap, used |-> 0, before |-> Usage!Over(p, used, Usage!Effective), stirred |-> 0, twice |-> t]
      /\ UNCHANGED <<usageLimits, homeDept, planCap, used>>
  BY UsageSets DEF Usage!StartLook, Usage!world
<1>2. /\ DOMAIN look' = {"page", "step", "dept", "personal", "department", "plan", "used", "before", "stirred",
                         "twice"}
      /\ look'.page = p /\ look'.step = 1 /\ look'.dept = homeDept /\ look'.plan = planCap
      /\ look'.before = Usage!Over(p, used, Usage!Effective) /\ look'.stirred = 0 /\ look'.twice = t
  BY <1>1
<1>3. t \in BOOLEAN
  OBVIOUS
<1> HIDE DEF t
<1>4. LimitsTyped /\ LimitsTyped'
  BY <1>1 DEF UsageInv, LimitsTyped
<1>5. LookTyped'
  <2>1. 1 \in 1 .. Len(Usage!Order[p]) /\ p \in {"overview", "team"}
    BY OrderIs
  <2>2. QED
    BY <1>2, <1>3, <1>4, <2>1 DEF LookTyped, LimitsTyped
<1>6. ASSUME ~look'.twice PROVE Single
  <2>1. ~t
    BY ONLY <1>2, <1>6, Zenon
  <2>2. ASSUME NEW x \in Usage!Target PROVE \A i, j \in Usage!Of(x) : i = j
    <3>1. IsFiniteSet(Usage!Of(x))
      BY <1>4, RowsFinite DEF Usage!Of, LimitsTyped
    <3>2. ~(Cardinality(Usage!Of(x)) > 1)
      BY <2>1 DEF t
    <3>3. QED
      BY <3>1, <3>2, FewIsOne
  <2>3. QED
    BY <2>2 DEF Single
<1>7. Single => Single'
  BY <1>1 DEF Single, Usage!Of
<1>8. /\ PersonCap' = PersonCap /\ \A d : DepartmentCap(d)' = DepartmentCap(d)
      /\ DepartmentCap(look.dept)' = DepartmentCap(homeDept)
  BY <1>1, <1>2 DEF PersonCap, DepartmentCap, Usage!First, Usage!Of
<1>9. Before(PersonCap, DepartmentCap(homeDept), planCap, used)'
  <2> DEFINE a == PersonCap
             b == DepartmentCap(homeDept)
             c == planCap
             e == used
  <2>1. a' = a /\ b' = b /\ c' = c /\ e' = e
    BY <1>1, <1>8 DEF DepartmentCap, Usage!First, Usage!Of
  <2>2. Usage!Over(look'.page, e, Usage!Governing(a, b, c)) = look'.before
    BY <1>2, EffectiveIs
  <2>3. Usage!Over(look.page, e, Usage!Governing(a, b, c))' = Usage!Over(look'.page, e, Usage!Governing(a, b, c))
    BY <2>1 DEF Usage!Over, Usage!Governing
  <2>4. QED
    BY <1>1, <1>2, <1>8, <2>1, <2>2, <2>3 DEF Before
<1>10. QED
  BY <1>4, <1>5, <1>6, <1>7, <1>9 DEF UsageInv, LookTells

\* A read notes what is so by now.
LEMMA NoteTells ==
    ASSUME UsageInv, look # None, NEW f \in {"personal", "department", "plan", "used"}, NEW v, NEW i \in 1 .. 4,
           look.step = i, i < Len(Usage!Order[look.page]), Usage!Note(f, v),
           f = "personal" <=> i = 1, f = "department" <=> i = 2, f = "used" <=> i = 3, f = "plan" <=> i = 4,
           ~Single \/ (/\ f = "personal" => v = PersonCap
                       /\ f = "department" => v = DepartmentCap(look.dept)),
           f = "used" => v = used, f = "plan" => v = planCap
    PROVE  UsageInv'
<1> DEFINE o == look
<1>1. look' = [o EXCEPT !.step = @ + 1, ![f] = v] /\ UNCHANGED <<usageLimits, homeDept, planCap, used>> /\ LookTyped
  BY DEF Usage!Note, Usage!world, UsageInv
<1>2. /\ DOMAIN look' = DOMAIN o /\ look'.page = o.page /\ look'.step = i + 1 /\ look'.dept = o.dept
      /\ look'.before = o.before /\ look'.stirred = o.stirred /\ look'.twice = o.twice
      /\ look'.personal = (IF f = "personal" THEN v ELSE o.personal)
      /\ look'.department = (IF f = "department" THEN v ELSE o.department)
      /\ look'.used = (IF f = "used" THEN v ELSE o.used)
      /\ look'.plan = (IF f = "plan" THEN v ELSE o.plan)
  BY <1>1 DEF LookTyped
<1>3. LimitsTyped'
  BY <1>1 DEF UsageInv, LimitsTyped
<1>4. LookTyped'
  BY <1>1, <1>2, OrderIs DEF LookTyped
<1>5. (Single => Single') /\ PersonCap' = PersonCap /\ DepartmentCap(look.dept)' = DepartmentCap(o.dept)
  <2>1. usageLimits' = usageLimits /\ look'.dept = o.dept
    BY <1>1, <1>2
  <2>2. \A x : Usage!Of(x)' = Usage!Of(x)
    BY <2>1 DEF Usage!Of
  <2>3. \A x : Usage!First(Usage!Of(x))' = Usage!First(Usage!Of(x))
    BY <2>1, <2>2 DEF Usage!First
  <2>4. Single => Single'
    BY <2>2 DEF Single
  <2>5. PersonCap' = PersonCap
    BY <2>3 DEF PersonCap
  <2>6. DepartmentCap(look.dept)' = DepartmentCap(o.dept)
    BY <2>1, <2>3 DEF DepartmentCap
  <2>7. QED
    BY <2>4, <2>5, <2>6
<1>6. ASSUME Single, NEW p, NEW d, NEW k, NEW u, Before(p, d, k, u) PROVE Before(p, d, k, u)'
  <2>1. Usage!Over(look.page, u, Usage!Governing(p, d, k))' = Usage!Over(o.page, u, Usage!Governing(p, d, k))
    BY <1>2 DEF Usage!Over, Usage!Governing
  <2>2. look'.before = Usage!Over(o.page, u, Usage!Governing(p, d, k))
    BY <1>2, <1>6 DEF Before
  <2>3. o.stirred = 0 => /\ p = PersonCap /\ d = DepartmentCap(o.dept) /\ k = planCap /\ u = used
                         /\ o.dept = homeDept
    BY <1>6 DEF Before
  <2>4. \/ d = DepartmentCap(o.dept) /\ k = planCap /\ u = used /\ o.dept = homeDept
        \/ p = PersonCap /\ k = planCap /\ u = used /\ o.dept = homeDept
        \/ p = PersonCap /\ d = DepartmentCap(o.dept) /\ u = used /\ o.dept = homeDept
        \/ p = PersonCap /\ d = DepartmentCap(o.dept) /\ k = planCap /\ o.dept = homeDept
        \/ p = PersonCap /\ d = DepartmentCap(o.dept) /\ k = planCap /\ u = used
    BY <1>6 DEF Before
  <2>5. look'.step > 1 => look'.personal \in {p, PersonCap}
    BY <1>2, <1>6 DEF Before
  <2>6. look'.step > 2 => look'.department \in {d, DepartmentCap(o.dept)}
    BY <1>2, <1>6 DEF Before
  <2>7. look'.step > 3 => look'.used \in {u, used}
    BY <1>2, <1>6 DEF Before
  <2>8. look'.plan \in {k, planCap}
    BY <1>2, <1>6 DEF Before
  <2>9. QED
    BY <1>1, <1>2, <1>5, <2>1, <2>2, <2>3, <2>4, <2>5, <2>6, <2>7, <2>8 DEF Before
<1>7. LookTells'
  <2>1. SUFFICES ASSUME o.stirred <= 1, ~o.twice PROVE Single' /\ (\E p, d, k, u : Before(p, d, k, u))'
    BY <1>2 DEF LookTells
  <2>2. Single /\ \E p, d, k, u : Before(p, d, k, u)
    BY <2>1 DEF UsageInv, LookTells
  <2>3. QED
    BY <1>5, <1>6, <2>2
<1>8. QED
  BY <1>3, <1>4, <1>7 DEF UsageInv

LEMMA ReadsTell == ASSUME UsageInv, Usage!ReadPersonal \/ Usage!ReadDepartment \/ Usage!ReadUsed \/ Usage!ReadPlan PROVE UsageInv'
<1>1. look # None /\ LookTyped /\ LimitsTyped
  BY DEF Usage!ReadPersonal, Usage!ReadDepartment, Usage!ReadUsed, Usage!ReadPlan, Usage!At, UsageInv
<1>2. look.step \in 1 .. 5 /\ look.page \in {"overview", "team"} /\ (look.step = 5 => look.page = "overview")
  <2>1. look.page \in {"overview", "team"} /\ look.step \in 1 .. Len(Usage!Order[look.page])
    BY <1>1 DEF LookTyped
  <2>2. CASE look.page = "overview"
    BY <2>1, <2>2, OrderIs
  <2>3. CASE look.page = "team"
    BY <2>1, <2>3, OrderIs
  <2>4. QED
    BY <2>1, <2>2, <2>3
<1>3. 3 < Len(Usage!Order[look.page]) /\ (look.page = "overview" => 4 < Len(Usage!Order[look.page]))
  BY <1>2, OrderIs
<1>4. CASE Usage!ReadPersonal
  <2>1. Usage!Order[look.page][look.step] = "personal"
    BY <1>4 DEF Usage!ReadPersonal, Usage!At
  <2>2. look.step = 1
    BY <1>2, <2>1, OrderIs
  <2>3. PICK c \in Usage!Batch(Usage!Of("person")) : Usage!Note("personal", c)
    BY <1>4 DEF Usage!ReadPersonal
  <2>4. Single => c = PersonCap
    BY <1>1, <2>3, BatchIsFirst, UsageConsts DEF Single, PersonCap
  <2>5. 1 < Len(Usage!Order[look.page]) /\ 1 \in 1 .. 4
    BY <1>3, OrderIs, <1>2
  <2>6. CASE Single
    BY <1>1, <2>2, <2>3, <2>4, <2>5, <2>6, NoteTells
  <2>7. CASE ~Single
    BY <1>1, <2>2, <2>3, <2>5, <2>7, NoteTells
  <2>8. QED
    BY <2>6, <2>7
<1>5. CASE Usage!ReadDepartment
  <2>1. Usage!Order[look.page][look.step] = "department"
    BY <1>5 DEF Usage!ReadDepartment, Usage!At
  <2>2. look.step = 2
    BY <1>2, <2>1, OrderIs
  <2>3. PICK c \in Usage!Batch(Usage!Of(look.dept)) : Usage!Note("department", c)
    BY <1>5 DEF Usage!ReadDepartment
  <2>4. Single => c = DepartmentCap(look.dept)
    <3>1. CASE look.dept = None
      BY <1>1, <2>3, <3>1, NoRowOfNone DEF Usage!Batch, DepartmentCap
    <3>2. CASE look.dept # None
      BY <1>1, <2>3, <3>2, BatchIsFirst, UsageConsts DEF Single, DepartmentCap, LookTyped
    <3>3. QED
      BY <3>1, <3>2
  <2>5. 2 < Len(Usage!Order[look.page]) /\ 2 \in 1 .. 4
    BY <1>3, OrderIs, <1>2
  <2>6. CASE Single
    BY <1>1, <2>2, <2>3, <2>4, <2>5, <2>6, NoteTells
  <2>7. CASE ~Single
    BY <1>1, <2>2, <2>3, <2>5, <2>7, NoteTells
  <2>8. QED
    BY <2>6, <2>7
<1>6. CASE Usage!ReadUsed
  <2>1. Usage!Order[look.page][look.step] = "used"
    BY <1>6 DEF Usage!ReadUsed, Usage!At
  <2>2. look.step = 3
    BY <1>2, <2>1, OrderIs
  <2>3. Usage!Note("used", used)
    BY <1>6 DEF Usage!ReadUsed
  <2>4. QED
    BY <1>1, <1>2, <2>2, <2>3, NoteTells, OrderIs
<1>7. CASE Usage!ReadPlan
  <2>1. Usage!Order[look.page][look.step] = "plan"
    BY <1>7 DEF Usage!ReadPlan, Usage!At
  <2>2. look.step = 4 /\ look.page = "overview"
    BY <1>2, <2>1, OrderIs
  <2>3. Usage!Note("plan", planCap)
    BY <1>7 DEF Usage!ReadPlan
  <2>4. QED
    BY <1>1, <1>2, <2>2, <2>3, NoteTells, OrderIs
<1>8. QED
  BY <1>4, <1>5, <1>6, <1>7

LEMMA UsageStep == UsageInv /\ [Usage!Next]_Usage!vars => UsageInv'
<1> SUFFICES ASSUME UsageInv, [Usage!Next]_Usage!vars PROVE UsageInv'
  OBVIOUS
<1>1. CASE Usage!Show
  BY <1>1 DEF Usage!Show, Usage!world, UsageInv, LimitsTyped, LookTells
<1>2. CASE UNCHANGED Usage!vars
  <2>1. UNCHANGED <<usageLimits, homeDept, planCap, used, look>>
    BY <1>2 DEF Usage!vars, Usage!world
  <2>2. \A x : Usage!Of(x)' = Usage!Of(x)
    BY <2>1 DEF Usage!Of
  <2>3. \A x : Usage!First(Usage!Of(x))' = Usage!First(Usage!Of(x))
    BY <2>1, <2>2 DEF Usage!First
  <2>4. \A p, d, k, u : Before(p, d, k, u) => Before(p, d, k, u)'
    BY <2>1, <2>3 DEF Before, PersonCap, DepartmentCap, Usage!Over, Usage!Governing
  <2>5. Single => Single'
    BY <2>2 DEF Single
  <2>6. LimitsTyped' /\ (look # None => LookTyped)'
    BY <2>1 DEF UsageInv, LimitsTyped, LookTyped
  <2>7. QED
    BY <2>1, <2>4, <2>5, <2>6 DEF UsageInv, LookTells
<1>3. CASE \E x \in Usage!Target, c \in Cap \cup {Blank} : Usage!AddLimit(x, c) \/ \E i \in DOMAIN usageLimits : Usage!EditLimit(i, x, c)
  BY <1>3, AddLimitTells, EditLimitTells
<1>4. QED
  BY <1>1, <1>2, <1>3, StartLookTells, ReadsTell, DeleteLimitTells, ClearOverridesTells, ChangesTell
     DEF Usage!Next

LEMMA UsageInit == Usage!Init => UsageInv
<1> SUFFICES ASSUME Usage!Init PROVE UsageInv
  OBVIOUS
<1>1. usageLimits = <<>> /\ look = None /\ MaxRows \in Nat
  BY UsageConsts DEF Usage!Init
<1>2. usageLimits \in Seq(LimitRows \cup {None}) /\ Len(usageLimits) <= MaxRows
  BY <1>1
<1>3. QED
  BY <1>1, <1>2 DEF Usage!Init, UsageInv, LimitsTyped, LookTells

-------------------------------------------------------------------------------
LEMMA WidgetTells == LimitsTyped => Usage!WidgetTellsOfTheGate
<1> SUFFICES ASSUME LimitsTyped PROVE Usage!WidgetTellsOfTheGate
  OBVIOUS
<1> DEFINE n == used
           c == Usage!Effective
<1>1. n \in Nat /\ (c = Blank \/ c \in Nat)
  BY EffectiveTyped, UsageConsts DEF LimitsTyped
<1> HIDE DEF n, c
<1>2. ASSUME c # Blank, c # 0 PROVE /\ n >= c => Usage!Percent(n, c) >= 100
                                    /\ Usage!Percent(n, c) >= 100 => 200 * n >= 199 * c
  <2>1. n \in Nat /\ c \in Nat /\ 100 \in 1 .. 100
    BY <1>1, <1>2
  <2>2. /\ Usage!Percent(n, c) >= 100 => 200 * n >= (2 * 100 - 1) * c
        /\ 100 * n >= 100 * c => Usage!Percent(n, c) >= 100
    BY <1>2, <2>1, Marks
  <2>3. QED
    BY <2>1, <2>2
<1>3. Usage!Percent(n, 0) = 0
  BY DEF Usage!Percent
<1>4. Usage!Refuses(n, c) /\ c # 0 => Usage!Widget(n, c) = "danger"
  BY <1>1, <1>2 DEF Usage!Refuses, Usage!Widget, Usage!Level
<1>5. Usage!Widget(n, c) = "danger" => c # Blank /\ Usage!Percent(n, c) >= 100
  BY DEF Usage!Widget, Usage!Level
<1>6. Usage!Widget(n, c) = "danger" => 200 * n >= 199 * c
  BY <1>1, <1>2, <1>3, <1>5
<1>7. QED
  BY <1>4, <1>6 DEF Usage!WidgetTellsOfTheGate, n, c

LEMMA CountsTell == LimitsTyped => Usage!CountsAgree
<1> SUFFICES ASSUME LimitsTyped PROVE Usage!CountsAgree
  OBVIOUS
<1> DEFINE n == used
           c == Usage!Effective
<1>1. n \in Nat /\ (c = Blank \/ c \in Nat)
  BY EffectiveTyped, UsageConsts DEF LimitsTyped
<1> HIDE DEF n, c
<1>2. ASSUME c # Blank, c # 0 PROVE /\ 100 * n >= 80 * c => Usage!Percent(n, c) >= 80
                                    /\ Usage!Percent(n, c) >= 80 => 200 * n >= 159 * c
  <2>1. n \in Nat /\ c \in Nat /\ 80 \in 1 .. 100
    BY <1>1, <1>2
  <2>2. /\ Usage!Percent(n, c) >= 80 => 200 * n >= (2 * 80 - 1) * c
        /\ 100 * n >= 80 * c => Usage!Percent(n, c) >= 80
    BY <1>2, <2>1, Marks
  <2>3. QED
    BY <2>1, <2>2
<1>3. Usage!Percent(n, 0) = 0
  BY DEF Usage!Percent
<1>4. /\ Usage!Over("team", n, c) <=> c # Blank /\ c # 0 /\ 100 * n >= 80 * c
      /\ Usage!Over("overview", n, c) <=> c # Blank /\ Usage!Percent(n, c) >= 80
  BY DEF Usage!Over
<1>5. Usage!Over("team", n, c) => Usage!Over("overview", n, c)
  BY <1>2, <1>4
<1>6. Usage!Over("overview", n, c) => 1000 * n >= 795 * c
  BY <1>1, <1>2, <1>3, <1>4
<1>7. QED
  BY <1>5, <1>6 DEF Usage!CountsAgree, n, c

LEMMA CountedTells == UsageInv => Usage!CountedByTheGate
<1> SUFFICES ASSUME UsageInv, Usage!At("done"), look.stirred <= 1, ~look.twice
             PROVE  Usage!Counted \in {look.before, Usage!Over(look.page, used, Usage!Effective)}
  BY DEF Usage!CountedByTheGate
<1>1. look # None /\ LookTyped
  BY DEF Usage!At, UsageInv
<1>2. look.step > 3
  BY <1>1, OrderIs DEF Usage!At, LookTyped
<1>3. PICK p, d, k, u : Before(p, d, k, u)
  BY <1>1 DEF UsageInv, LookTells
<1>4. /\ look.personal \in {p, PersonCap} /\ look.department \in {d, DepartmentCap(look.dept)}
      /\ look.used \in {u, used} /\ look.plan \in {k, planCap}
      /\ look.before = Usage!Over(look.page, u, Usage!Governing(p, d, k))
  BY <1>1, <1>2, <1>3 DEF Before, LookTyped
<1>5. \/ d = DepartmentCap(look.dept) /\ k = planCap /\ u = used /\ look.dept = homeDept
      \/ p = PersonCap /\ k = planCap /\ u = used /\ look.dept = homeDept
      \/ p = PersonCap /\ d = DepartmentCap(look.dept) /\ u = used /\ look.dept = homeDept
      \/ p = PersonCap /\ d = DepartmentCap(look.dept) /\ k = planCap /\ look.dept = homeDept
      \/ p = PersonCap /\ d = DepartmentCap(look.dept) /\ k = planCap /\ u = used
  BY <1>3 DEF Before
<1>6. \/ look.personal = p /\ look.department = d /\ look.used = u /\ look.plan = k
      \/ /\ look.personal = PersonCap /\ look.department = DepartmentCap(homeDept) /\ look.used = used
         /\ look.plan = planCap
  BY <1>4, <1>5
<1>7. QED
  BY <1>4, <1>6, EffectiveIs DEF Usage!Counted

LEMMA UsageHolds == Usage!Spec => [](Usage!TypeOK /\ Usage!WidgetTellsOfTheGate /\ Usage!CountedByTheGate /\ Usage!CountsAgree)
<1>1. UsageInv => Usage!TypeOK /\ Usage!WidgetTellsOfTheGate /\ Usage!CountedByTheGate /\ Usage!CountsAgree
  BY UsageTyped, WidgetTells, CountsTell, CountedTells DEF UsageInv
<1>2. QED
  BY <1>1, UsageInit, UsageStep, PTL DEF Usage!Spec

-------------------------------------------------------------------------------
(* The start pages.                                                        *)

\* Its own copies of the operators on finite sets.
LEMMA StartSets == \A S : Start!Cardinality(S) = Cardinality(S) /\ (Start!IsFiniteSet(S) <=> IsFiniteSet(S))
BY DEF Start!Cardinality, Cardinality, Start!IsFiniteSet, IsFiniteSet

PageFields == {"by", "role", "dept", "step", "unmanaged", "n"}

\* What a page has read of the kinds before its step is still so, while nothing has changed.
Agrees ==
    /\ page.role = people[page.by].role /\ page.dept = people[page.by].dept
    /\ page.unmanaged = (team = None)
    /\ \A j \in 1 .. Len(Start!Reads[page.role]) :
         j < page.step => page.n[Start!Reads[page.role][j]] = Cardinality(Start!Counted(page, Start!Reads[page.role][j]))

WorldTyped ==
    /\ people \in [User -> [role : Start!Roles, dept : Start!Place]] /\ asks \in [User -> Start!Asked]
    /\ dueAt \in [{"verification", "refunds"} -> SUBSET Start!Place] /\ near \cup locked \subseteq User
    /\ team = None \/ team \subseteq User
    /\ stirred \in BOOLEAN /\ turns \in 0 .. MaxTurns

PageTyped ==
    /\ DOMAIN page = PageFields /\ page.by \in User /\ page.role \in DOMAIN Start!Reads /\ page.dept \in Start!Place
    /\ page.step \in 1 .. 7 /\ page.unmanaged \in BOOLEAN /\ page.n \in [Start!Kinds -> Nat]

DashInv ==
    /\ WorldTyped
    /\ page # None => PageTyped
    /\ page # None /\ ~stirred => Agrees

LEMMA ReadsAre ==
    /\ DOMAIN Start!Reads = {"superadmin", "admin", "manager"}
    /\ Start!Reads["superadmin"] = <<"usage80", "upgrades", "verification", "refunds", "lockouts", "recent">>
    /\ Start!Reads["admin"] = <<"usage80", "upgrades", "verification", "refunds", "lockouts", "recent">>
    /\ Start!Reads["manager"] = <<"usage80", "exists", "members">>
BY DEF Start!Reads

LEMMA KindsAre ==
    Start!Kinds = {"usage80", "upgrades", "verification", "refunds", "lockouts", "recent", "exists", "members"}
<1>1. Start!Range(Start!Reads["superadmin"]) = {"usage80", "upgrades", "verification", "refunds", "lockouts", "recent"}
  BY ReadsAre DEF Start!Range
<1>2. Start!Range(Start!Reads["admin"]) = {"usage80", "upgrades", "verification", "refunds", "lockouts", "recent"}
  BY ReadsAre DEF Start!Range
<1>3. Start!Range(Start!Reads["manager"]) = {"usage80", "exists", "members"}
  BY ReadsAre DEF Start!Range
<1>4. QED
  BY <1>1, <1>2, <1>3, ReadsAre DEF Start!Kinds

\* The kinds that a page reads are kinds, and no two are the same.
LEMMA ReadsDistinct ==
    ASSUME NEW r \in DOMAIN Start!Reads
    PROVE  /\ Len(Start!Reads[r]) \in {3, 6} /\ \A j \in 1 .. Len(Start!Reads[r]) : Start!Reads[r][j] \in Start!Kinds
           /\ \A i, j \in 1 .. Len(Start!Reads[r]) : i # j => Start!Reads[r][i] # Start!Reads[r][j]
<1>1. CASE r \in {"superadmin", "admin"}
  <2>1. Len(Start!Reads[r]) = 6
    BY <1>1, ReadsAre
  <2>2. /\ Start!Reads[r][1] = "usage80" /\ Start!Reads[r][2] = "upgrades" /\ Start!Reads[r][3] = "verification"
        /\ Start!Reads[r][4] = "refunds" /\ Start!Reads[r][5] = "lockouts" /\ Start!Reads[r][6] = "recent"
    BY <1>1, ReadsAre
  <2>3. \A j \in 1 .. Len(Start!Reads[r]) : j = 1 \/ j = 2 \/ j = 3 \/ j = 4 \/ j = 5 \/ j = 6
    BY <2>1
  <2>4. QED
    BY <2>1, <2>2, <2>3, KindsAre
<1>2. CASE r = "manager"
  <2>1. Len(Start!Reads[r]) = 3
    BY <1>2, ReadsAre
  <2>2. Start!Reads[r][1] = "usage80" /\ Start!Reads[r][2] = "exists" /\ Start!Reads[r][3] = "members"
    BY <1>2, ReadsAre
  <2>3. \A j \in 1 .. Len(Start!Reads[r]) : j = 1 \/ j = 2 \/ j = 3
    BY <2>1
  <2>4. QED
    BY <2>1, <2>2, <2>3, KindsAre
<1>3. QED
  BY <1>1, <1>2, ReadsAre

LEMMA CountsAreNumbers ==
    ASSUME WorldTyped, NEW v, v.dept \in Start!Place, NEW k \in Start!Kinds
    PROVE  Cardinality(Start!Counted(v, k)) \in Nat
<1>1. IsFiniteSet(User) /\ IsFiniteSet(Start!Place)
  BY DashboardAssumption, StartSets, FS_AddElement DEF Start!DashboardConstants, Start!Place
<1>2. Start!Members \subseteq User
  BY DEF Start!Members, WorldTyped
<1>3. Start!NearFound(v) \subseteq User /\ Start!UpgradesFound(v) \subseteq User /\ Start!LockoutsFound(v) \subseteq User
  BY <1>2 DEF Start!NearFound, Start!UpgradesFound, Start!LockoutsFound, Start!Pending, Start!Ours,
     WorldTyped
<1>4. Start!RefundsFound(v) \subseteq Start!Place /\ dueAt.verification \cap Start!OurPlaces(v) \subseteq Start!Place
  BY DEF Start!RefundsFound, Start!OurPlaces, Start!Place, WorldTyped
<1>5. Start!Counted(v, k) \subseteq User \/ Start!Counted(v, k) \subseteq Start!Place
  BY <1>2, <1>3, <1>4, KindsAre DEF Start!Counted
<1>6. QED
  BY <1>1, <1>5, FS_Subset, FS_CardinalityType

LEMMA DashTyped == DashInv => Start!TypeOK
BY DEF DashInv, WorldTyped, PageTyped, Start!TypeOK

LEMMA DashInit == Start!Init => DashInv
<1> SUFFICES ASSUME Start!Init PROVE DashInv
  OBVIOUS
<1>1. turns \in 0 .. MaxTurns
  BY DashboardAssumption DEF Start!Init, Start!DashboardConstants
<1>2. team = None \/ team \subseteq User
  BY DEF Start!Init
<1>3. asks \in [User -> Start!Asked] /\ dueAt \in [{"verification", "refunds"} -> SUBSET Start!Place]
  BY DEF Start!Init, Start!Asked
<1>4. WorldTyped
  BY <1>1, <1>2, <1>3 DEF Start!Init, WorldTyped
<1>5. QED
  BY <1>4 DEF Start!Init, DashInv

-------------------------------------------------------------------------------
LEMMA OpenAgrees == ASSUME DashInv, NEW u \in User, Start!Open(u) PROVE DashInv'
<1> DEFINE w == [by |-> u, role |-> people[u].role, dept |-> people[u].dept, step |-> 1,
                 unmanaged |-> team = None, n |-> [k \in Start!Kinds |-> 0]]
<1>1. /\ people[u].role # "user" /\ page' = w /\ stirred' = FALSE
      /\ UNCHANGED <<people, team, asks, dueAt, near, locked, turns>>
  BY DEF Start!Open, Start!world
<1>2. /\ DOMAIN w = PageFields /\ w.by = u /\ w.role = people[u].role /\ w.dept = people[u].dept /\ w.step = 1
      /\ w.unmanaged = (team = None) /\ w.n = [k \in Start!Kinds |-> 0]
  BY DEF PageFields
<1>3. w.unmanaged \in BOOLEAN
  OBVIOUS
<1> HIDE DEF w
<1>4. people[u].role \in DOMAIN Start!Reads /\ people[u].dept \in Start!Place
  BY <1>1, ReadsAre DEF DashInv, WorldTyped, Start!Roles
<1>5. WorldTyped'
  BY <1>1 DEF DashInv, WorldTyped
<1>6. PageTyped'
  BY <1>1, <1>2, <1>3, <1>4 DEF PageTyped
<1>7. Agrees'
  BY <1>1, <1>2 DEF Agrees
<1>8. QED
  BY <1>5, <1>6, <1>7 DEF DashInv

LEMMA ReadAgrees == ASSUME DashInv, Start!Read PROVE DashInv'
<1> DEFINE o == page
           i == o.step
           kind == Start!Reads[o.role][i]
           c == Cardinality(Start!Counted(o, kind))
<1>1. /\ o # None /\ ~Start!Done /\ page' = [o EXCEPT !.n[kind] = c, !.step = @ + 1]
      /\ UNCHANGED <<people, team, asks, dueAt, near, locked, stirred, turns>>
  BY StartSets DEF Start!Read, Start!world
<1>2. PageTyped
  BY <1>1 DEF DashInv
<1>3. i \in 1 .. Len(Start!Reads[o.role]) /\ Len(Start!Reads[o.role]) \in {3, 6}
  BY <1>1, <1>2, ReadsDistinct DEF Start!Done, PageTyped
<1>4. kind \in Start!Kinds
  BY <1>2, <1>3, ReadsDistinct DEF PageTyped
<1>5. c \in Nat
  BY <1>2, <1>4, CountsAreNumbers DEF DashInv, PageTyped
<1>6. /\ DOMAIN page' = DOMAIN o /\ page'.by = o.by /\ page'.role = o.role /\ page'.dept = o.dept
      /\ page'.unmanaged = o.unmanaged /\ page'.step = i + 1 /\ page'.n = [o.n EXCEPT ![kind] = c]
  BY <1>1, <1>2 DEF PageTyped, PageFields
<1> HIDE DEF c
<1>7. page'.n \in [Start!Kinds -> Nat] /\ page'.n[kind] = c /\ \A k \in Start!Kinds : k # kind => page'.n[k] = o.n[k]
  BY <1>2, <1>4, <1>5, <1>6 DEF PageTyped
<1>8. PageTyped'
  <2>1. page'.step \in 1 .. 7
    BY <1>3, <1>6
  <2>2. QED
    BY <1>2, <1>6, <1>7, <2>1 DEF PageTyped
<1>9. WorldTyped'
  BY <1>1 DEF DashInv, WorldTyped
<1>10. \A k : Start!Counted(page, k)' = Start!Counted(o, k)
  <2>1. /\ Start!Ours(page)' = Start!Ours(o) /\ Start!OurPlaces(page)' = Start!OurPlaces(o) /\ Start!Members' = Start!Members /\ Start!Pending' = Start!Pending
    BY <1>1, <1>6 DEF Start!Ours, Start!OurPlaces, Start!Members, Start!Pending
  <2>2. /\ Start!NearFound(page)' = Start!NearFound(o) /\ Start!UpgradesFound(page)' = Start!UpgradesFound(o)
        /\ Start!LockoutsFound(page)' = Start!LockoutsFound(o) /\ Start!RefundsFound(page)' = Start!RefundsFound(o)
    BY <1>1, <1>6, <2>1 DEF Start!NearFound, Start!UpgradesFound, Start!LockoutsFound,
       Start!RefundsFound
  <2>3. QED
    BY <1>1, <2>1, <2>2 DEF Start!Counted
<1>11. ASSUME ~stirred PROVE Agrees'
  <2>1. Agrees
    BY <1>1, <1>11 DEF DashInv
  <2>2. ASSUME NEW j \in 1 .. Len(Start!Reads[o.role]), j < i + 1
        PROVE  page'.n[Start!Reads[o.role][j]] = Cardinality(Start!Counted(o, Start!Reads[o.role][j]))
    <3>1. CASE j = i
      BY <1>7, <3>1 DEF c
    <3>2. CASE j # i
      <4>1. j < i
        BY <1>3, <2>2, <3>2
      <4>2. Start!Reads[o.role][j] # kind /\ Start!Reads[o.role][j] \in Start!Kinds
        BY <1>2, <1>3, <3>2, ReadsDistinct DEF PageTyped
      <4>3. QED
        BY <1>7, <2>1, <4>1, <4>2 DEF Agrees
    <3>3. QED
      BY <3>1, <3>2
  <2>3. QED
    <3>1. /\ page'.role = people'[page'.by].role /\ page'.dept = people'[page'.by].dept
          /\ page'.unmanaged = (team' = None)
      BY <1>1, <1>6, <2>1 DEF Agrees
    <3>2. \A k : Cardinality(Start!Counted(page, k))' = Cardinality(Start!Counted(o, k))
      BY <1>10
    <3>3. ASSUME NEW j \in 1 .. Len(Start!Reads[page'.role]), j < page'.step
          PROVE  (page.n[Start!Reads[page.role][j]] = Cardinality(Start!Counted(page, Start!Reads[page.role][j])))'
      BY <1>6, <2>2, <3>2, <3>3
    <3>4. QED
      BY <3>1, <3>3 DEF Agrees
<1>12. QED
  BY <1>1, <1>8, <1>9, <1>11 DEF DashInv

\* What changes is marked.
LEMMA TurnAgrees == ASSUME DashInv, Start!Turn, WorldTyped' PROVE DashInv'
BY DEF Start!Turn, DashInv, PageTyped

LEMMA DashStep == DashInv /\ [Start!Next]_Start!vars => DashInv'
<1> SUFFICES ASSUME DashInv, [Start!Next]_Start!vars PROVE DashInv'
  OBVIOUS
<1>1. WorldTyped
  BY DEF DashInv
<1>2. CASE Start!Show
  BY <1>2 DEF Start!Show, Start!world, DashInv, WorldTyped
<1>3. CASE UNCHANGED Start!vars
  <2>1. UNCHANGED <<people, team, asks, dueAt, near, locked, page, stirred, turns>>
    BY <1>3 DEF Start!vars, Start!world
  <2>2. UNCHANGED <<Start!Ours(page), Start!OurPlaces(page), Start!Members, Start!Pending>>
    BY <2>1 DEF Start!Ours, Start!OurPlaces, Start!Members, Start!Pending
  <2>3. UNCHANGED <<Start!NearFound(page), Start!UpgradesFound(page), Start!LockoutsFound(page), Start!RefundsFound(page)>>
    BY <2>1, <2>2 DEF Start!NearFound, Start!UpgradesFound, Start!LockoutsFound, Start!RefundsFound
  <2>4. \A k : Start!Counted(page, k)' = Start!Counted(page, k)
    BY <2>1, <2>2, <2>3 DEF Start!Counted
  <2>5. Agrees => Agrees'
    BY <2>1, <2>4 DEF Agrees
  <2>6. WorldTyped' /\ (page # None => PageTyped)'
    BY <2>1 DEF DashInv, WorldTyped, PageTyped
  <2>7. QED
    BY <2>1, <2>5, <2>6 DEF DashInv
<1>4. Start!Turn => stirred' \in BOOLEAN /\ turns' \in 0 .. MaxTurns
  BY <1>1, DashboardAssumption DEF Start!Turn, WorldTyped, Start!DashboardConstants
<1>5. ASSUME NEW u \in User, NEW r \in Start!Roles, NEW d \in Start!Place, Start!Move(u, [role |-> r, dept |-> d]) PROVE DashInv'
  <2>1. [role |-> r, dept |-> d] \in [role : Start!Roles, dept : Start!Place]
    OBVIOUS
  <2>2. WorldTyped'
    BY <1>1, <1>4, <1>5, <2>1 DEF Start!Move, WorldTyped
  <2>3. Start!Turn
    BY <1>5 DEF Start!Move
  <2>4. QED
    BY <2>3, <2>2, TurnAgrees
<1>6. ASSUME NEW u \in User, Start!AskUpgrade(u) PROVE DashInv'
  <2>1. WorldTyped'
    BY <1>1, <1>4, <1>6 DEF Start!AskUpgrade, WorldTyped, Start!Asked
  <2>2. Start!Turn
    BY <1>6 DEF Start!AskUpgrade
  <2>3. QED
    BY <2>2, <2>1, TurnAgrees
<1>7. ASSUME NEW u \in User, NEW a \in User, NEW s \in {"approved", "dismissed"}, Start!Resolve(a, u, s) PROVE DashInv'
  <2>1. WorldTyped'
    BY <1>1, <1>4, <1>7 DEF Start!Resolve, WorldTyped, Start!Asked
  <2>2. Start!Turn
    BY <1>7 DEF Start!Resolve
  <2>3. QED
    BY <2>2, <2>1, TurnAgrees
<1>8. ASSUME NEW k \in {"verification", "refunds"}, NEW p \in Start!Place, Start!ComeOrGo(k, p) PROVE DashInv'
  <2>1. dueAt' \in [{"verification", "refunds"} -> SUBSET Start!Place]
    BY <1>1, <1>8 DEF Start!ComeOrGo, WorldTyped
  <2>2. WorldTyped'
    BY <1>1, <1>4, <1>8, <2>1 DEF Start!ComeOrGo, WorldTyped
  <2>3. Start!Turn
    BY <1>8 DEF Start!ComeOrGo
  <2>4. QED
    BY <2>3, <2>2, TurnAgrees
<1>9. ASSUME NEW u \in User, Start!Use(u) \/ Start!LockOut(u) \/ Start!JoinOrLeave(u) PROVE DashInv'
  <2>1. WorldTyped'
    BY <1>1, <1>4, <1>9 DEF Start!Use, Start!LockOut, Start!JoinOrLeave, WorldTyped
  <2>2. Start!Turn
    BY <1>9 DEF Start!Use, Start!LockOut, Start!JoinOrLeave
  <2>3. QED
    BY <2>2, <2>1, TurnAgrees
<1>10. CASE Start!Next
  <2>1. CASE Start!Read
    BY <2>1, ReadAgrees
  <2>2. CASE \E u \in User : Start!Open(u)
    BY <2>2, OpenAgrees
  <2>3. QED
    BY <1>2, <1>5, <1>6, <1>7, <1>8, <1>9, <1>10, <2>1, <2>2 DEF Start!Next
<1>11. QED
  BY <1>3, <1>10

-------------------------------------------------------------------------------
LEMMA ListsCount == DashInv => Start!CountsWhatIsListed
<1> SUFFICES ASSUME DashInv, Start!Done, page.role \in {"admin", "superadmin"}, ~stirred
             PROVE  /\ \A k \in {"upgrades", "verification", "refunds", "lockouts"} :
                         page.n[k] = Cardinality(Start!Listed(Start!Viewer, k))
                    /\ page.n.recent = page.n.upgrades
  BY StartSets DEF Start!CountsWhatIsListed
<1>1. page # None /\ PageTyped /\ Agrees /\ WorldTyped /\ page.step > Len(Start!Reads[page.role])
  BY DEF Start!Done, DashInv
<1>2. Start!Viewer.role = page.role /\ Start!Viewer.dept = page.dept
  BY <1>1 DEF Start!Viewer, Agrees
<1>3. Len(Start!Reads[page.role]) = 6 /\ page.step \in Int
  <2>1. CASE page.role = "admin"
    BY <1>1, <2>1, ReadsAre DEF PageTyped
  <2>2. CASE page.role = "superadmin"
    BY <1>1, <2>2, ReadsAre DEF PageTyped
  <2>3. QED
    BY <2>1, <2>2
<1>4. /\ Start!Reads[page.role][2] = "upgrades" /\ Start!Reads[page.role][3] = "verification"
      /\ Start!Reads[page.role][4] = "refunds" /\ Start!Reads[page.role][5] = "lockouts" /\ Start!Reads[page.role][6] = "recent"
  BY ReadsAre
<1>5. ASSUME NEW j \in 1 .. 6 PROVE page.n[Start!Reads[page.role][j]] = Cardinality(Start!Counted(page, Start!Reads[page.role][j]))
  BY <1>1, <1>3 DEF Agrees
<1>6. /\ page.n["upgrades"] = Cardinality(Start!Counted(page, "upgrades"))
      /\ page.n["verification"] = Cardinality(Start!Counted(page, "verification"))
      /\ page.n["refunds"] = Cardinality(Start!Counted(page, "refunds"))
      /\ page.n["lockouts"] = Cardinality(Start!Counted(page, "lockouts"))
      /\ page.n["recent"] = Cardinality(Start!Counted(page, "recent"))
  BY <1>4, <1>5
<1>7. \A u \in User : u \in Start!Ours(page) <=> Start!MayResolve(Start!Viewer, u)
  BY <1>1, <1>2 DEF Start!Ours, Start!MayResolve
<1>8. \A p \in Start!Place : p \in Start!OurPlaces(page) <=> Start!MayHandle(Start!Viewer, p)
  BY <1>1, <1>2 DEF Start!OurPlaces, Start!MayHandle, PageTyped, Start!Place
<1>9. dueAt.verification \subseteq Start!Place /\ dueAt.refunds \subseteq Start!Place /\ locked \subseteq User
  BY <1>1 DEF WorldTyped
<1>10. Start!Counted(page, "upgrades") = Start!Listed(Start!Viewer, "upgrades") /\ Start!Counted(page, "recent") = Start!Counted(page, "upgrades")
  BY <1>7 DEF Start!Counted, Start!Listed, Start!UpgradesFound, Start!Pending
<1>11. Start!Counted(page, "lockouts") = Start!Listed(Start!Viewer, "lockouts")
  BY <1>7, <1>9 DEF Start!Counted, Start!Listed, Start!LockoutsFound
<1>12. Start!Counted(page, "verification") = Start!Listed(Start!Viewer, "verification")
  BY <1>8, <1>9 DEF Start!Counted, Start!Listed
<1>13. Start!Counted(page, "refunds") = Start!Listed(Start!Viewer, "refunds")
  BY <1>8, <1>9 DEF Start!Counted, Start!Listed, Start!RefundsFound
<1>14. QED
  BY <1>6, <1>10, <1>11, <1>12, <1>13

-------------------------------------------------------------------------------
(* The items: a list shows a set of them if it has one of each key and     *)
(* none that is not in the set.                                            *)

Shows(s, S) ==
    /\ s \in Seq(S)
    /\ \A i, j \in DOMAIN s : s[i].key = s[j].key => i = j
    /\ \A x \in S : \E i \in DOMAIN s : s[i].key = x.key

One(on, item) == IF on THEN {item} ELSE {}
Due(p, key) == One(p.n[key] > 0, Start!Item(key, p.n[key]))

LEMMA ShowsNone == Shows(<<>>, {})
BY DEF Shows

LEMMA ShowsAdd == ASSUME NEW s, NEW S, Shows(s, S), NEW x PROVE Shows(Start!Add(s, x), S \cup {x})
<1>1. s \in Seq(S \cup {x}) /\ s \in Seq(S)
  BY DEF Shows
<1>2. CASE \E i \in DOMAIN s : s[i].key = x.key
  BY <1>1, <1>2 DEF Shows, Start!Add
<1>3. CASE ~(\E i \in DOMAIN s : s[i].key = x.key)
  <2> DEFINE t == Append(s, x)
  <2>1. /\ t \in Seq(S \cup {x}) /\ DOMAIN t = DOMAIN s \cup {Len(s) + 1} /\ t[Len(s) + 1] = x
        /\ Len(s) + 1 \notin DOMAIN s /\ \A i \in DOMAIN s : t[i] = s[i]
    BY <1>1
  <2>2. Start!Add(s, x) = t
    BY <1>3 DEF Start!Add
  <2> HIDE DEF t
  <2>3. \A i, j \in DOMAIN t : t[i].key = t[j].key => i = j
    BY <1>3, <2>1 DEF Shows
  <2>4. \A y \in S \cup {x} : \E i \in DOMAIN t : t[i].key = y.key
    BY <2>1 DEF Shows
  <2>5. QED
    BY <2>1, <2>2, <2>3, <2>4 DEF Shows
<1>4. QED
  BY <1>2, <1>3

LEMMA ShowsIf == ASSUME NEW s, NEW S, Shows(s, S), NEW on, NEW x PROVE Shows(Start!AddIf(s, on, x), S \cup One(on, x))
<1>1. CASE on
  BY <1>1, ShowsAdd DEF Start!AddIf, One
<1>2. CASE ~on
  <2>1. S \cup One(on, x) = S /\ Start!AddIf(s, on, x) = s
    BY <1>2 DEF Start!AddIf, One
  <2>2. QED
    BY <2>1
<1>3. QED
  BY <1>1, <1>2

LEMMA ShowsWaiting ==
    ASSUME NEW s, NEW S, Shows(s, S), NEW p, NEW k PROVE Shows(Start!AddWaiting(s, p, k), S \cup Due(p, k))
BY ShowsIf DEF Start!AddWaiting, Due

LEMMA ShowsBilling ==
    ASSUME NEW s, NEW S, Shows(s, S), NEW p
    PROVE  Shows(Start!AddBilling(s, p), S \cup Due(p, "lockouts") \cup Due(p, "verification") \cup Due(p, "refunds"))
BY ShowsWaiting DEF Start!AddBilling

LEMMA ShowsPeople ==
    ASSUME NEW s, NEW S, Shows(s, S), NEW p
    PROVE  Shows(Start!AddPeople(s, p), S \cup Due(p, "upgrades") \cup Due(p, "usage80"))
BY ShowsWaiting DEF Start!AddPeople

Shown(p, e, k) == IF k \in e.hidden THEN {} ELSE Due(p, k)

LEMMA ShowsShown ==
    ASSUME NEW s, NEW S, Shows(s, S), NEW p, NEW e, NEW k PROVE Shows(Start!AddShown(s, p, e, k), S \cup Shown(p, e, k))
<1>1. CASE k \in e.hidden
  <2>1. S \cup Shown(p, e, k) = S /\ Start!AddShown(s, p, e, k) = s
    BY <1>1 DEF Start!AddShown, Shown
  <2>2. QED
    BY <2>1
<1>2. CASE k \notin e.hidden
  <2>1. Shown(p, e, k) = Due(p, k) /\ Start!AddShown(s, p, e, k) = Start!AddWaiting(s, p, k)
    BY <1>2 DEF Start!AddShown, Shown
  <2>2. QED
    BY <2>1, ShowsWaiting
<1>3. QED
  BY <1>1, <1>2

\* What a start page shows.
Wanted(p, e) ==
    CASE p.role = "superadmin" ->
           {} \cup One(e.alarm, Start!Item("db", 1)) \cup One(e.window = "active", Start!Item("maintenance", 1))
             \cup Due(p, "lockouts") \cup Due(p, "verification") \cup Due(p, "refunds")
             \cup Due(p, "upgrades") \cup Due(p, "usage80") \cup One(e.window # "none", Start!Item("maintenance", 1))
      [] p.role = "admin" ->
           ({} \cup One(e.window = "active", Start!Item("maintenance", 1))
             \cup Due(p, "lockouts") \cup Due(p, "verification") \cup Due(p, "refunds"))
             \cup Shown(p, e, "upgrades") \cup Shown(p, e, "usage80")
             \cup One(e.noted, Start!Item("notifications", 1))
      [] p.role = "manager" ->
           {} \cup Due(p, "usage80") \cup One(e.noted, Start!Item("notifications", 1))
             \cup One(p.unmanaged, Start!Item("noteam", 0)) \cup One(~ p.unmanaged /\ p.n.exists = 0, Start!Item("nomembers", 0))

LEMMA ItemsShow ==
    ASSUME NEW p, p.role \in {"superadmin", "admin", "manager"}, NEW e
    PROVE  Shows(Start!Items(p, e), Wanted(p, e))
<1>1. CASE p.role = "superadmin"
  <2> DEFINE a == Start!AddIf(<<>>, e.alarm, Start!Item("db", 1))
             b == Start!AddIf(a, e.window = "active", Start!Item("maintenance", 1))
             A == {} \cup One(e.alarm, Start!Item("db", 1))
             B == A \cup One(e.window = "active", Start!Item("maintenance", 1))
             C == B \cup Due(p, "lockouts") \cup Due(p, "verification") \cup Due(p, "refunds")
             D == C \cup Due(p, "upgrades") \cup Due(p, "usage80")
  <2>1. Shows(a, A)
    BY ShowsNone, ShowsIf
  <2>2. Shows(b, B)
    BY <2>1, ShowsIf
  <2>3. Shows(Start!AddBilling(b, p), C)
    BY <2>2, ShowsBilling
  <2>4. Shows(Start!AddPeople(Start!AddBilling(b, p), p), D)
    BY <2>3, ShowsPeople
  <2>5. Shows(Start!AddIf(Start!AddPeople(Start!AddBilling(b, p), p), e.window # "none", Start!Item("maintenance", 1)),
              D \cup One(e.window # "none", Start!Item("maintenance", 1)))
    BY <2>4, ShowsIf
  <2>6. Start!Items(p, e) = Start!AddIf(Start!AddPeople(Start!AddBilling(b, p), p), e.window # "none", Start!Item("maintenance", 1))
    BY <1>1 DEF Start!Items, Start!SuperAdminItems
  <2>7. Wanted(p, e) = D \cup One(e.window # "none", Start!Item("maintenance", 1))
    BY <1>1 DEF Wanted
  <2>8. QED
    BY ONLY <2>5, <2>6, <2>7
<1>2. CASE p.role = "admin"
  <2> DEFINE a == Start!AddIf(<<>>, e.window = "active", Start!Item("maintenance", 1))
             b == Start!AddBilling(a, p)
             c == Start!AddShown(Start!AddShown(b, p, e, "upgrades"), p, e, "usage80")
             A == {} \cup One(e.window = "active", Start!Item("maintenance", 1))
             B == A \cup Due(p, "lockouts") \cup Due(p, "verification") \cup Due(p, "refunds")
             C == B \cup Shown(p, e, "upgrades") \cup Shown(p, e, "usage80")
  <2>1. Shows(a, A)
    BY ShowsNone, ShowsIf
  <2>2. Shows(b, B)
    BY <2>1, ShowsBilling
  <2> HIDE DEF A, B, a, b
  <2>3. Shows(c, C)
    BY <2>2, ShowsShown
  <2> HIDE DEF c, C
  <2>4. Shows(Start!AddIf(c, e.noted, Start!Item("notifications", 1)), C \cup One(e.noted, Start!Item("notifications", 1)))
    BY <2>3, ShowsIf
  <2>5. Start!Items(p, e) = Start!AddIf(c, e.noted, Start!Item("notifications", 1))
    BY <1>2 DEF Start!Items, Start!AdminItems, c, b, a
  <2>6. Wanted(p, e) = C \cup One(e.noted, Start!Item("notifications", 1))
    BY <1>2 DEF Wanted, C, B, A
  <2>7. QED
    BY ONLY <2>4, <2>5, <2>6
<1>3. CASE p.role = "manager"
  <2> DEFINE a == Start!AddWaiting(<<>>, p, "usage80")
             b == Start!AddIf(a, e.noted, Start!Item("notifications", 1))
             c == Start!AddIf(b, p.unmanaged, Start!Item("noteam", 0))
             A == {} \cup Due(p, "usage80")
             B == A \cup One(e.noted, Start!Item("notifications", 1))
             C == B \cup One(p.unmanaged, Start!Item("noteam", 0))
             last == One(~ p.unmanaged /\ p.n.exists = 0, Start!Item("nomembers", 0))
  <2>1. Shows(a, A)
    BY ShowsNone, ShowsWaiting
  <2>2. Shows(b, B)
    BY <2>1, ShowsIf
  <2>3. Shows(c, C)
    BY <2>2, ShowsIf
  <2>4. Shows(Start!AddIf(c, ~ p.unmanaged /\ p.n.exists = 0, Start!Item("nomembers", 0)), C \cup last)
    BY <2>3, ShowsIf
  <2>5. Start!Items(p, e) = Start!AddIf(c, ~ p.unmanaged /\ p.n.exists = 0, Start!Item("nomembers", 0))
    BY <1>3 DEF Start!Items, Start!ManagerItems
  <2>6. Wanted(p, e) = C \cup last
    BY <1>3 DEF Wanted
  <2>7. QED
    BY ONLY <2>4, <2>5, <2>6
<1>4. QED
  BY <1>1, <1>2, <1>3
KeysOf(S) == {x.key : x \in S}

LEMMA KeysOfBoth == ASSUME NEW A, NEW B PROVE KeysOf(A \cup B) = KeysOf(A) \cup KeysOf(B)
BY DEF KeysOf

LEMMA KeysOfParts ==
    /\ KeysOf({}) = {} /\ \A A, B : KeysOf(A \cup B) = KeysOf(A) \cup KeysOf(B)
    /\ \A on, k, n : KeysOf(One(on, Start!Item(k, n))) = Start!If(on, k)
<1>1. ASSUME NEW on, NEW k, NEW n PROVE KeysOf(One(on, Start!Item(k, n))) = Start!If(on, k)
  <2>1. Start!Item(k, n).key = k
    BY DEF Start!Item
  <2>2. CASE on
    BY <2>1, <2>2 DEF KeysOf, One, Start!If
  <2>3. CASE ~on
    BY <2>3 DEF KeysOf, One, Start!If
  <2>4. QED
    BY <2>2, <2>3
<1>2. QED
  BY <1>1 DEF KeysOf

\* One item of each key: as many as there are keys.
LEMMA ShowsKeys == ASSUME NEW s, NEW S, Shows(s, S) PROVE Start!Keys(s) = KeysOf(S) /\ Len(s) = Cardinality(Start!Keys(s))
<1>1. s \in Seq(S) /\ DOMAIN s = 1 .. Len(s) /\ Len(s) \in Nat
  BY DEF Shows
<1>2. Start!Keys(s) = KeysOf(S)
  BY <1>1 DEF Shows, Start!Keys, KeysOf
<1>3. ExistsBijection(1 .. Len(s), Start!Keys(s))
  <2> DEFINE f == [i \in 1 .. Len(s) |-> s[i].key]
  <2>1. f \in [1 .. Len(s) -> Start!Keys(s)]
    BY <1>1 DEF Start!Keys
  <2>2. \A i, j \in 1 .. Len(s) : f[i] = f[j] => i = j
    BY <1>1 DEF Shows
  <2>3. \A k \in Start!Keys(s) : \E i \in 1 .. Len(s) : f[i] = k
    BY <1>1 DEF Start!Keys
  <2> HIDE DEF f
  <2>4. f \in Bijection(1 .. Len(s), Start!Keys(s))
    BY <2>1, <2>2, <2>3 DEF Bijection, Injection, IsInjective, Surjection
  <2>5. QED
    BY <2>4 DEF ExistsBijection
<1>4. QED
  BY <1>1, <1>2, <1>3, FS_CountingElements

LEMMA DueIsWaiting == ASSUME NEW p, NEW k PROVE KeysOf(Due(p, k)) = Start!Waiting(p, {k})
<1>1. KeysOf(Due(p, k)) = Start!If(p.n[k] > 0, k)
  BY KeysOfParts DEF Due
<1>2. QED
  BY <1>1 DEF Start!If, Start!Waiting

LEMMA WaitingParts == \A p, A, B : Start!Waiting(p, A \cup B) = Start!Waiting(p, A) \cup Start!Waiting(p, B)
BY DEF Start!Waiting

\* The items to be shown are of the problems there are.
LEMMA WantedAre ==
    ASSUME NEW p, p.role \in {"superadmin", "admin", "manager"}, NEW e \in Start!Elsewhere
    PROVE  KeysOf(Wanted(p, e)) = Start!Problems(p, e)
<1>1. \A k : KeysOf(Due(p, k)) = Start!Waiting(p, {k})
  BY DueIsWaiting
<1>2. /\ Start!Waiting(p, Start!Billing) = Start!Waiting(p, {"lockouts"}) \cup Start!Waiting(p, {"verification"}) \cup Start!Waiting(p, {"refunds"})
      /\ Start!Waiting(p, {"upgrades", "usage80"}) = Start!Waiting(p, {"upgrades"}) \cup Start!Waiting(p, {"usage80"})
      /\ Start!Waiting(p, {}) = {}
  BY DEF Start!Waiting, Start!Billing
<1>3. CASE p.role = "superadmin"
  <2>1. KeysOf(Wanted(p, e)) =
          Start!If(e.alarm, "db") \cup Start!If(e.window = "active", "maintenance")
            \cup Start!Waiting(p, {"lockouts"}) \cup Start!Waiting(p, {"verification"}) \cup Start!Waiting(p, {"refunds"})
            \cup Start!Waiting(p, {"upgrades"}) \cup Start!Waiting(p, {"usage80"}) \cup Start!If(e.window # "none", "maintenance")
    <3>1. Wanted(p, e) =
            {} \cup One(e.alarm, Start!Item("db", 1)) \cup One(e.window = "active", Start!Item("maintenance", 1))
              \cup Due(p, "lockouts") \cup Due(p, "verification") \cup Due(p, "refunds")
              \cup Due(p, "upgrades") \cup Due(p, "usage80") \cup One(e.window # "none", Start!Item("maintenance", 1))
      BY <1>3 DEF Wanted
    <3>2. KeysOf(Wanted(p, e)) =
            KeysOf({}) \cup KeysOf(One(e.alarm, Start!Item("db", 1)))
              \cup KeysOf(One(e.window = "active", Start!Item("maintenance", 1)))
              \cup KeysOf(Due(p, "lockouts")) \cup KeysOf(Due(p, "verification")) \cup KeysOf(Due(p, "refunds"))
              \cup KeysOf(Due(p, "upgrades")) \cup KeysOf(Due(p, "usage80"))
              \cup KeysOf(One(e.window # "none", Start!Item("maintenance", 1)))
      BY <3>1 DEF KeysOf
    <3>3. QED
      BY <1>1, <3>2, KeysOfParts
  <2>2. Start!If(e.window = "active", "maintenance") \cup Start!If(e.window # "none", "maintenance")
          = Start!If(e.window # "none", "maintenance")
    BY DEF Start!If
  <2>3. Start!Problems(p, e) = Start!Waiting(p, Start!Billing) \cup Start!Waiting(p, {"upgrades", "usage80"})
                           \cup Start!If(e.alarm, "db") \cup Start!If(e.window # "none", "maintenance")
    BY <1>3, WaitingParts DEF Start!Problems
  <2>4. QED
    BY <1>2, <2>1, <2>2, <2>3
<1>4. CASE p.role = "admin"
  <2> DEFINE P == Start!Waiting(p, {"upgrades", "usage80"} \ e.hidden)
             U == Shown(p, e, "upgrades")
             N == Shown(p, e, "usage80")
  <2>1. KeysOf(U) \cup KeysOf(N) = P
    <3>1. \A k : KeysOf(Shown(p, e, k)) = Start!Waiting(p, {k} \ e.hidden)
      <4>1. ASSUME NEW k, k \in e.hidden PROVE KeysOf(Shown(p, e, k)) = Start!Waiting(p, {k} \ e.hidden)
        <5>1. Shown(p, e, k) = {} /\ {k} \ e.hidden = {}
          BY <4>1 DEF Shown
        <5>2. QED
          BY <1>2, <5>1, KeysOfParts
      <4>2. ASSUME NEW k, k \notin e.hidden PROVE KeysOf(Shown(p, e, k)) = Start!Waiting(p, {k} \ e.hidden)
        <5>1. Shown(p, e, k) = Due(p, k) /\ {k} \ e.hidden = {k}
          BY <4>2 DEF Shown
        <5>2. QED
          BY <1>1, <5>1
      <4>3. QED
        BY <4>1, <4>2
    <3>2. P = Start!Waiting(p, {"upgrades"} \ e.hidden) \cup Start!Waiting(p, {"usage80"} \ e.hidden)
      BY DEF Start!Waiting
    <3>3. QED
      BY <3>1, <3>2
  <2> HIDE DEF P, U, N
  <2>2. KeysOf(Wanted(p, e)) =
          Start!If(e.window = "active", "maintenance")
            \cup Start!Waiting(p, {"lockouts"}) \cup Start!Waiting(p, {"verification"}) \cup Start!Waiting(p, {"refunds"})
            \cup P \cup Start!If(e.noted, "notifications")
    <3>1. Wanted(p, e) =
            ({} \cup One(e.window = "active", Start!Item("maintenance", 1))
              \cup Due(p, "lockouts") \cup Due(p, "verification") \cup Due(p, "refunds"))
              \cup U \cup N \cup One(e.noted, Start!Item("notifications", 1))
      BY <1>4 DEF Wanted, U, N
    <3>2. KeysOf(Wanted(p, e)) =
            KeysOf({}) \cup KeysOf(One(e.window = "active", Start!Item("maintenance", 1)))
              \cup KeysOf(Due(p, "lockouts")) \cup KeysOf(Due(p, "verification")) \cup KeysOf(Due(p, "refunds"))
              \cup KeysOf(U) \cup KeysOf(N) \cup KeysOf(One(e.noted, Start!Item("notifications", 1)))
      BY <3>1 DEF KeysOf
    <3>3. QED
      BY <1>1, <2>1, <3>2, KeysOfParts
  <2>3. Start!Problems(p, e) = Start!Waiting(p, Start!Billing) \cup P \cup Start!If(e.window = "active", "maintenance")
                           \cup Start!If(e.noted, "notifications")
    BY <1>4, WaitingParts DEF Start!Problems, P
  <2>4. QED
    BY <1>2, <2>2, <2>3
<1>5. CASE p.role = "manager"
  <2>1. KeysOf(Wanted(p, e)) =
          Start!Waiting(p, {"usage80"}) \cup Start!If(e.noted, "notifications") \cup Start!If(p.unmanaged, "noteam")
            \cup Start!If(~ p.unmanaged /\ p.n.exists = 0, "nomembers")
    <3> DEFINE last == One(~ p.unmanaged /\ p.n.exists = 0, Start!Item("nomembers", 0))
    <3>1. Wanted(p, e) =
            {} \cup Due(p, "usage80") \cup One(e.noted, Start!Item("notifications", 1))
              \cup One(p.unmanaged, Start!Item("noteam", 0)) \cup last
      BY <1>5 DEF Wanted
    <3>2. KeysOf(last) = Start!If(~ p.unmanaged /\ p.n.exists = 0, "nomembers")
      BY KeysOfParts
    <3> HIDE DEF last
    <3>3. KeysOf(Wanted(p, e)) =
            KeysOf({}) \cup KeysOf(Due(p, "usage80")) \cup KeysOf(One(e.noted, Start!Item("notifications", 1)))
              \cup KeysOf(One(p.unmanaged, Start!Item("noteam", 0))) \cup KeysOf(last)
      BY <3>1 DEF KeysOf
    <3>4. QED
      BY <1>1, <3>2, <3>3, KeysOfParts
  <2>2. QED
    BY <1>5, <2>1 DEF Start!Problems
<1>6. QED
  BY <1>3, <1>4, <1>5

LEMMA ItemsAreOne == DashInv => Start!OneItemPerProblem
<1> SUFFICES ASSUME DashInv, Start!Done, NEW e \in Start!Elsewhere
             PROVE  /\ Len(Start!Items(page, e)) = Cardinality(Start!Keys(Start!Items(page, e)))
                    /\ Start!Keys(Start!Items(page, e)) = Start!Problems(page, e)
  BY StartSets DEF Start!OneItemPerProblem
<1>1. page.role \in {"superadmin", "admin", "manager"}
  BY ReadsAre DEF DashInv, PageTyped, Start!Done
<1>2. Shows(Start!Items(page, e), Wanted(page, e))
  BY <1>1, ItemsShow
<1>3. QED
  BY <1>1, <1>2, ShowsKeys, WantedAre

\* What is said of a key is what its one item says.
LEMMA ToldIs ==
    ASSUME NEW s, NEW S, Shows(s, S), NEW k
    PROVE  /\ k \notin KeysOf(S) => Start!Told(s, k) = 0
           /\ \A x \in S : (\A y \in S : y.key = k <=> y = x) => Start!Told(s, k) = x.n
<1> DEFINE at == {i \in DOMAIN s : s[i].key = k}
<1>1. Start!Told(s, k) = IF at = {} THEN 0 ELSE s[CHOOSE i \in at : TRUE].n
  BY DEF Start!Told
<1>2. \A i \in DOMAIN s : s[i] \in S
  BY DEF Shows
<1>3. k \notin KeysOf(S) => at = {}
  BY <1>2 DEF KeysOf
<1>4. ASSUME NEW x \in S, \A y \in S : y.key = k <=> y = x PROVE Start!Told(s, k) = x.n
  <2>1. at # {}
    BY <1>4 DEF Shows
  <2>2. (CHOOSE i \in at : TRUE) \in at
    BY <2>1
  <2>3. s[CHOOSE i \in at : TRUE] = x
    BY <1>2, <1>4, <2>2
  <2>4. QED
    BY <1>1, <2>1, <2>3
<1>5. QED
  BY <1>1, <1>3, <1>4

LEMMA TileIsSum ==
    ASSUME DashInv, page # None, page.role = "admin", NEW e \in Start!Elsewhere
    PROVE  Start!Approvals(page, e)
             = Start!Told(Start!Items(page, e), "verification") + Start!Told(Start!Items(page, e), "refunds") + Start!Told(Start!Items(page, e), "upgrades")
<1> DEFINE s == Start!Items(page, e)
           S == Wanted(page, e)
<1>1. Shows(s, S)
  BY ItemsShow
<1>2. page.n \in [Start!Kinds -> Nat]
  BY DEF DashInv, PageTyped
<1>3. /\ page.n["verification"] \in Nat /\ page.n["refunds"] \in Nat /\ page.n["upgrades"] \in Nat
  BY <1>2, KindsAre
<1>4. S = One(e.window = "active", Start!Item("maintenance", 1))
            \cup Due(page, "lockouts") \cup Due(page, "verification") \cup Due(page, "refunds")
            \cup Shown(page, e, "upgrades") \cup Shown(page, e, "usage80")
            \cup One(e.noted, Start!Item("notifications", 1))
  BY DEF Wanted
<1>5. /\ \A k : Shown(page, e, k) = IF k \in e.hidden THEN {} ELSE Due(page, k)
      /\ \A k : \A x \in Due(page, k) : x = Start!Item(k, page.n[k]) /\ x.key = k /\ x.n = page.n[k] /\ page.n[k] > 0
      /\ \A k : page.n[k] > 0 => Start!Item(k, page.n[k]) \in Due(page, k)
      /\ \A on, k, n : \A x \in One(on, Start!Item(k, n)) : x.key = k
  BY DEF Due, One, Shown, Start!Item
<1> HIDE DEF s, S
<1>6. ASSUME NEW k, page.n[k] \in Nat, Due(page, k) \subseteq S, \A x \in S : x.key = k => x \in Due(page, k)
      PROVE  Start!Told(s, k) = page.n[k]
  <2>1. CASE page.n[k] > 0
    <3>1. Start!Item(k, page.n[k]) \in S /\ Start!Item(k, page.n[k]).n = page.n[k] /\ Start!Item(k, page.n[k]).key = k
      BY <1>5, <1>6, <2>1 DEF Start!Item
    <3>2. \A y \in S : y.key = k <=> y = Start!Item(k, page.n[k])
      BY <1>5, <1>6, <3>1
    <3>3. QED
      BY <1>1, <3>1, <3>2, ToldIs
  <2>2. CASE page.n[k] = 0
    <3>1. k \notin KeysOf(S)
      BY <1>5, <1>6, <2>2 DEF KeysOf
    <3>2. QED
      BY <1>1, <2>2, <3>1, ToldIs
  <2>3. QED
    BY <1>6, <2>1, <2>2
<1>7. Start!Told(s, "verification") = page.n["verification"]
  <2>1. Due(page, "verification") \subseteq S /\ \A x \in S : x.key = "verification" => x \in Due(page, "verification")
    BY <1>4, <1>5
  <2>2. QED
    BY <1>3, <1>6, <2>1
<1>8. Start!Told(s, "refunds") = page.n["refunds"]
  <2>1. Due(page, "refunds") \subseteq S /\ \A x \in S : x.key = "refunds" => x \in Due(page, "refunds")
    BY <1>4, <1>5
  <2>2. QED
    BY <1>3, <1>6, <2>1
<1>9. Start!Told(s, "upgrades") = IF "upgrades" \in e.hidden THEN 0 ELSE page.n["upgrades"]
  <2>1. CASE "upgrades" \notin e.hidden
    <3>1. Due(page, "upgrades") \subseteq S /\ \A x \in S : x.key = "upgrades" => x \in Due(page, "upgrades")
      BY <1>4, <1>5, <2>1
    <3>2. QED
      BY <1>3, <1>6, <2>1, <3>1
  <2>2. CASE "upgrades" \in e.hidden
    <3>1. "upgrades" \notin KeysOf(S)
      BY <1>4, <1>5, <2>2 DEF KeysOf
    <3>2. QED
      BY <1>1, <2>2, <3>1, ToldIs
  <2>3. QED
    BY <2>1, <2>2
<1>10. QED
  BY <1>3, <1>7, <1>8, <1>9 DEF Start!Approvals, s

LEMMA TilesTell == DashInv => Start!TilesAddUp
<1> SUFFICES ASSUME DashInv, Start!Done, NEW e \in Start!Elsewhere
             PROVE  /\ page.role = "admin" =>
                         Start!Approvals(page, e) = Start!Told(Start!Items(page, e), "verification") + Start!Told(Start!Items(page, e), "refunds")
                                                + Start!Told(Start!Items(page, e), "upgrades")
                    /\ page.role = "manager" /\ ~stirred =>
                         (page.n.members = 0 <=> Start!Keys(Start!Items(page, e)) \cap {"noteam", "nomembers"} # {})
  BY DEF Start!TilesAddUp
<1>1. page # None /\ PageTyped /\ WorldTyped /\ page.step > Len(Start!Reads[page.role])
  BY DEF DashInv, Start!Done
<1>2. page.role = "admin" =>
        Start!Approvals(page, e) = Start!Told(Start!Items(page, e), "verification") + Start!Told(Start!Items(page, e), "refunds")
                               + Start!Told(Start!Items(page, e), "upgrades")
  BY <1>1, TileIsSum
<1>3. ASSUME page.role = "manager", ~stirred
      PROVE  page.n.members = 0 <=> Start!Keys(Start!Items(page, e)) \cap {"noteam", "nomembers"} # {}
  <2>1. Agrees
    BY <1>1, <1>3 DEF DashInv
  <2>2. Len(Start!Reads[page.role]) = 3 /\ Start!Reads[page.role][2] = "exists" /\ Start!Reads[page.role][3] = "members"
    BY <1>3, ReadsAre
  <2>3. page.step \in Int /\ page.step > 3
    BY <1>1, <2>2 DEF PageTyped
  <2>4. \A j \in 1 .. 3 : page.n[Start!Reads[page.role][j]] = Cardinality(Start!Counted(page, Start!Reads[page.role][j]))
    BY <2>1, <2>2, <2>3 DEF Agrees
  <2>5. page.n["exists"] = Cardinality(Start!Counted(page, "exists")) /\ page.n["members"] = Cardinality(Start!Counted(page, "members"))
    BY <2>2, <2>4
  <2>6. Start!Counted(page, "exists") = Start!Members /\ Start!Counted(page, "members") = Start!Members
    BY DEF Start!Counted
  <2>7. page.unmanaged => page.n["members"] = 0
    BY <2>1, <2>5, <2>6, FS_EmptySet DEF Agrees, Start!Members
  <2>8. Start!Keys(Start!Items(page, e)) = Start!Problems(page, e)
    BY ItemsAreOne DEF Start!OneItemPerProblem
  <2>9. Start!Problems(page, e) \cap {"noteam", "nomembers"}
          = Start!If(page.unmanaged, "noteam") \cup Start!If(~ page.unmanaged /\ page.n.exists = 0, "nomembers")
    <3>1. Start!Problems(page, e) = Start!Waiting(page, {"usage80"}) \cup Start!If(e.noted, "notifications")
                                \cup Start!If(page.unmanaged, "noteam")
                                \cup Start!If(~ page.unmanaged /\ page.n.exists = 0, "nomembers")
      BY <1>3 DEF Start!Problems
    <3>2. QED
      BY <3>1 DEF Start!Waiting, Start!If
  <2>10. QED
    BY <2>5, <2>6, <2>7, <2>8, <2>9 DEF Start!If
<1>4. QED
  BY <1>2, <1>3

LEMMA PagesHold == Start!Spec => [](Start!TypeOK /\ Start!CountsWhatIsListed /\ Start!OneItemPerProblem /\ Start!TilesAddUp)
<1>1. DashInv => Start!TypeOK /\ Start!CountsWhatIsListed /\ Start!OneItemPerProblem /\ Start!TilesAddUp
  BY DashTyped, ListsCount, ItemsAreOne, TilesTell
<1>2. QED
  BY <1>1, DashInit, DashStep, PTL DEF Start!Spec

-------------------------------------------------------------------------------
(* What is proved of them.                                                 *)

\* For every set of models, caps, departments and people: no page of a plan writes back what it
\* does not show, the widget and the counts tell of the row the gate goes by, and a start page
\* that nobody changes under lists each problem once, with as many as its page lists.
THEOREM PagesAreSafe == Plans!Spec /\ Usage!Spec /\ Start!Spec => []PagesSafe
<1>1. /\ Plans!TypeOK /\ Plans!ResearchHasModel /\ Plans!PagesKeepApart /\ Plans!AutoHasCap
      /\ Usage!TypeOK /\ Usage!WidgetTellsOfTheGate /\ Usage!CountedByTheGate /\ Usage!CountsAgree
      /\ Start!TypeOK /\ Start!CountsWhatIsListed /\ Start!OneItemPerProblem /\ Start!TilesAddUp
      => PagesSafe
  BY DEF PagesSafe
<1>2. QED
  BY <1>1, PlanHolds, UsageHolds, PagesHold, PTL
===============================================================================
