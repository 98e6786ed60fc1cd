------------------------------ MODULE MCInvoices ------------------------------
(***************************************************************************)
(* A behaviour is one of the invoices and their money, or one of what the  *)
(* Admins who handle them and the SuperAdmins look at: the pages of a      *)
(* plan, the limits of a person, the start page.  Each has its own state.  *)
(***************************************************************************)
EXTENDS Invoices, PagesProofs, TLC

Perms == Permutations(Claim) \cup Permutations(User)

VARIABLE part

pvars == <<plan, allowed, connected, req, aimed, undone, torn, uncapped, posts>>
uvars == <<usageLimits, homeDept, planCap, used, look, changes>>
dvars == <<people, team, asks, dueAt, near, locked, page, stirred, turns>>

Nobody == [role |-> "user", dept |-> None]

MCInit ==
    /\ part \in {"money", "plans", "limits", "start"}
    /\ Init /\ Plans!Init
    /\ Usage!Init /\ (part # "limits" => homeDept = None /\ planCap = Blank /\ used = 0)
    /\ Start!Init /\ (part # "start" => team = None /\ \A u \in User : people[u] = Nobody)

MCMoney(A) == part = "money" /\ A /\ UNCHANGED <<part, pvars, uvars, dvars>>
MCPlans(A) == part = "plans" /\ A /\ UNCHANGED <<part, vars, uvars, dvars>>
MCUsage(A) == part = "limits" /\ A /\ UNCHANGED <<part, vars, pvars, dvars>>
MCStart(A) == part = "start" /\ A /\ UNCHANGED <<part, vars, pvars, uvars>>

MCNext ==
    MCMoney(Next) \/ MCPlans(Plans!Next) \/ MCUsage(Usage!Next) \/ MCStart(Start!Next)

MCSpec == MCInit /\ [][MCNext]_<<part, vars, pvars, uvars, dvars>>
===============================================================================
