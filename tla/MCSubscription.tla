---------------------------- MODULE MCSubscription ----------------------------
(***************************************************************************)
(* Two instances in one run: workers that may be killed, with admins who   *)
(* change plans, and workers that are not, with upgrades, cancellations    *)
(* and refunds.                                                            *)
(***************************************************************************)
EXTENDS SubscriptionProofs

VARIABLES instance, aStatus, aTerms, aAssignment, aSync, aToday, aConfirmed, aAdminPlans, aKilled

avars == <<aStatus, aTerms, aAssignment, aSync, aToday, aConfirmed, aAdminPlans, aKilled>>

\* B costs twice as much a day as A; the first plan is a free trial.
MCRate == [p \in Plan |-> IF p = "A" THEN 1 ELSE 0]
UpgradeRate == [p \in {"Demo", "A", "B"} |-> IF p = "A" THEN 1 ELSE IF p = "B" THEN 2 ELSE 0]

Arrives == INSTANCE Subscription WITH
    Plan <- {"Demo", "A", "B"}, Rate <- UpgradeRate, Ops <- {"generate", "submit", "refund", "cancel"},
    status <- aStatus, terms <- aTerms, assignment <- aAssignment, sync <- aSync, today <- aToday,
    confirmed <- aConfirmed, adminPlans <- aAdminPlans, killed <- aKilled

MCInit == instance \in {"crash", "arrives"} /\ Init /\ Arrives!Init

MCCrash(A) == instance = "crash" /\ A /\ UNCHANGED <<instance, avars>>
MCArrives(A) == instance = "arrives" /\ A /\ UNCHANGED <<instance, vars>>

MCNext == MCCrash(Next) \/ MCArrives(Arrives!Next)

MCvars == <<instance, vars, avars>>

MCSpec ==
    /\ MCInit /\ [][MCNext]_MCvars
    /\ \A w \in Worker : WF_MCvars(MCArrives(Arrives!WorkerStep(w)))

\* PaidPlanArrives, in the instance whose workers are not killed.
PlanArrives == instance = "arrives" => Arrives!PaidPlanArrives
===============================================================================
