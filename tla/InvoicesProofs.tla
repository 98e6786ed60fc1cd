---------------------------- MODULE InvoicesProofs ----------------------------
(***************************************************************************)
(* Invoices for every set of invoices and refund requests, every window    *)
(* and every length of run; then the requests that work on them: what a    *)
(* request decides on is still true when it commits, so any number of them *)
(* implement Invoices.  Beside them, with its own variables, what requests *)
(* in the chat get through the limits of a plan.                           *)
(***************************************************************************)
EXTENDS InvoiceRequests, FiniteSetTheorems, TLAPS

CONSTANTS
    Conv, Worker, None, SessionCap, RequestCap, ConvCap, TokenCap, KindCap,  \* of the quotas
    MaxWindows, MaxMessages

VARIABLES window, conv, messages, nextId, req

Quota == INSTANCE ChatQuota

ASSUME QuotaAssumption == Quota!ChatQuotaConstants

\* What gets through a plan's limits when requests race: exactly what each lock allows.
QuotaSafe == Quota!QuotaSafe

\* Only rewriting a message gives quota back.
OnlyRewritesReturn == Quota!OnlyRewritesReturn

-------------------------------------------------------------------------------
LEMMA TypingInit == Init => TypeOK
BY InvoicesAssumption DEF Init, TypeOK, LedgerInit, LedgerTypeOK, Status, Exists, Open, Never, Day, ClaimStatus

LEMMA TypingStep == TypeOK /\ [Next]_vars => TypeOK'
<1> SUFFICES ASSUME TypeOK, [Next]_vars PROVE TypeOK'
  OBVIOUS
<1> USE InvoicesAssumption DEF TypeOK, LedgerTypeOK, Status, Exists, Open, Never, Day, ClaimStatus
<1>1. CASE NextDay
  BY <1>1 DEF NextDay, claims
<1>2. ASSUME NEW i \in Invoice,
             IssueUnpaid(i) \/ SubmitProof(i) \/ IssueCovered(i) \/ VerifyPayment(i)
               \/ RejectPayment(i) \/ ToggleStatus(i)
      PROVE  TypeOK'
  BY <1>2 DEF IssueUnpaid, SubmitProof, IssueCovered, VerifyPayment, RejectPayment, ToggleStatus, Move, claims
<1>3. ASSUME NEW i \in Invoice, DeleteInvoice(i)
      PROVE  TypeOK'
  BY <1>3 DEF DeleteInvoice, Move
<1>4. ASSUME NEW i \in Invoice, NEW c \in Claim, RequestRefund(i, c)
      PROVE  TypeOK'
  <2>1. CASE WithinMoneyBackWindow(i)
    BY <1>4, <2>1 DEF RequestRefund
  <2>2. CASE ~WithinMoneyBackWindow(i)
    BY <1>4, <2>2 DEF RequestRefund
  <2> QED BY <2>1, <2>2
<1>5. ASSUME NEW c \in Claim, ApproveRefund(c) \/ RejectRefund(c)
      PROVE  TypeOK'
  BY <1>5 DEF ApproveRefund, RejectRefund
<1>6. CASE UNCHANGED vars
  BY <1>6 DEF vars
<1> QED BY <1>1, <1>2, <1>3, <1>4, <1>5, <1>6 DEF Next

\* Every step keeps every column in its range, so no handler can write a status,
\* a date or a request that the others do not expect.
THEOREM Typing == Spec => []TypeOK
BY TypingInit, TypingStep, PTL DEF Spec

-------------------------------------------------------------------------------
\* RefundedOnce is not inductive alone: a request that is open or granted must
\* also refer to a row that exists, or a refund could bring a deleted row back.
LiveClaimsHaveRows ==
    \A c \in Claim : claimStatus[c] \in {"pending", "approved"} =>
        claimFor[c] \in Invoice /\ status[claimFor[c]] \in Exists

RefundInv == TypeOK /\ LiveClaimsHaveRows /\ RefundedOnce

LEMMA RefundStep == RefundInv /\ [Next]_vars => RefundInv'
<1> SUFFICES ASSUME RefundInv, [Next]_vars, TypeOK' PROVE LiveClaimsHaveRows' /\ RefundedOnce'
  BY TypingStep DEF RefundInv
<1> USE DEF RefundInv, TypeOK, LedgerTypeOK, LiveClaimsHaveRows, RefundedOnce, ClaimsOf, Exists, Open
<1>1. CASE NextDay \/ UNCHANGED vars
  BY <1>1 DEF NextDay, claims, vars
<1>2. ASSUME NEW i \in Invoice,
             IssueUnpaid(i) \/ IssueCovered(i) \/ SubmitProof(i) \/ VerifyPayment(i)
               \/ RejectPayment(i) \/ ToggleStatus(i)
      PROVE  LiveClaimsHaveRows' /\ RefundedOnce'
  <2>1. claimFor' = claimFor /\ claimStatus' = claimStatus
    BY <1>2 DEF IssueUnpaid, IssueCovered, SubmitProof, VerifyPayment, RejectPayment, ToggleStatus, claims
  <2>2. \A j \in Invoice :
          /\ status'[j] = "refunded" <=> status[j] = "refunded"
          /\ status[j] \in Exists => status'[j] \in Exists
    BY <1>2 DEF IssueUnpaid, IssueCovered, SubmitProof, VerifyPayment, RejectPayment, ToggleStatus, Move, Open
  <2>3. LiveClaimsHaveRows'
    BY <2>1, <2>2
  <2>4. RefundedOnce'
    BY <2>1, <2>2
  <2> QED BY <2>3, <2>4
<1>3. ASSUME NEW i \in Invoice, DeleteInvoice(i)
      PROVE  LiveClaimsHaveRows' /\ RefundedOnce'
  <2>1. \A c \in Claim : claimStatus'[c] = (IF claimFor[c] = i THEN "deleted" ELSE claimStatus[c])
    BY <1>3 DEF DeleteInvoice
  <2>2. /\ claimFor' = claimFor
        /\ \A j \in Invoice : status'[j] = (IF j = i THEN "deleted" ELSE status[j])
    BY <1>3 DEF DeleteInvoice, Move
  <2>3. LiveClaimsHaveRows'
    BY <2>1, <2>2
  <2>4. RefundedOnce'
    BY <2>1, <2>2
  <2> QED BY <2>3, <2>4
<1>4. ASSUME NEW i \in Invoice, NEW c \in Claim, RequestRefund(i, c)
      PROVE  LiveClaimsHaveRows' /\ RefundedOnce'
  <2>1. \A d \in Claim : claimFor[d] = i => claimStatus[d] \notin {"pending", "approved"}
    BY <1>4 DEF RequestRefund
  <2>2. CASE WithinMoneyBackWindow(i)
    BY <1>4, <2>1, <2>2 DEF RequestRefund
  <2>3. CASE ~WithinMoneyBackWindow(i)
    BY <1>4, <2>1, <2>3 DEF RequestRefund
  <2> QED BY <2>2, <2>3
<1>5. ASSUME NEW c \in Claim, ApproveRefund(c)
      PROVE  LiveClaimsHaveRows' /\ RefundedOnce'
  BY <1>5 DEF ApproveRefund
<1>6. ASSUME NEW c \in Claim, RejectRefund(c)
      PROVE  LiveClaimsHaveRows' /\ RefundedOnce'
  BY <1>6 DEF RejectRefund
<1> QED BY <1>1, <1>2, <1>3, <1>4, <1>5, <1>6 DEF Next

LEMMA RefundInvariant == Spec => []RefundInv
<1>1. Init => RefundInv
  <2>1. Init => TypeOK
    BY TypingInit
  <2> QED BY <2>1 DEF Init, RefundInv, LiveClaimsHaveRows, RefundedOnce, ClaimsOf, LedgerInit
<1> QED BY <1>1, RefundStep, PTL DEF Spec

\* No refund is decided twice (request_refund and resolve_refund_request):
\* an invoice has at most one request open or granted, and it is REFUNDED
\* exactly when one of its requests was granted.
THEOREM RefundDecidedOnce == Spec => []RefundedOnce
<1>1. RefundInv => RefundedOnce
  BY DEF RefundInv
<1> QED BY <1>1, RefundInvariant, PTL

-------------------------------------------------------------------------------
\* verified_at is a date of the past, and a PAID row has a settlement date that is
\* not before it; without the first half a toggle could settle a row "before" it
\* was verified.
WindowInv ==
    /\ TypeOK
    /\ \A i \in Invoice : verifiedAt[i] <= today
    /\ WindowNeverStretched

LEMMA WindowStep == WindowInv /\ [Next]_vars => WindowInv'
<1> SUFFICES ASSUME WindowInv, [Next]_vars, TypeOK'
             PROVE  (\A i \in Invoice : verifiedAt'[i] <= today') /\ WindowNeverStretched'
  BY TypingStep DEF WindowInv
<1> USE InvoicesAssumption
    DEF WindowInv, TypeOK, LedgerTypeOK, WindowNeverStretched, Day, Never
<1>1. CASE NextDay \/ UNCHANGED vars
  BY <1>1 DEF NextDay, claims, vars
<1>2. ASSUME NEW i \in Invoice,
             IssueUnpaid(i) \/ IssueCovered(i) \/ SubmitProof(i) \/ VerifyPayment(i)
               \/ RejectPayment(i) \/ ToggleStatus(i)
      PROVE  (\A j \in Invoice : verifiedAt'[j] <= today') /\ WindowNeverStretched'
  BY <1>2 DEF IssueUnpaid, IssueCovered, SubmitProof, VerifyPayment, RejectPayment, ToggleStatus, Move, claims
<1>3. ASSUME NEW i \in Invoice, DeleteInvoice(i)
      PROVE  (\A j \in Invoice : verifiedAt'[j] <= today') /\ WindowNeverStretched'
  BY <1>3 DEF DeleteInvoice, Move
<1>4. ASSUME NEW i \in Invoice, NEW c \in Claim, RequestRefund(i, c)
      PROVE  (\A j \in Invoice : verifiedAt'[j] <= today') /\ WindowNeverStretched'
  BY <1>4 DEF RequestRefund
<1>5. ASSUME NEW c \in Claim, ApproveRefund(c) \/ RejectRefund(c)
      PROVE  (\A j \in Invoice : verifiedAt'[j] <= today') /\ WindowNeverStretched'
  BY <1>5 DEF ApproveRefund, RejectRefund
<1> QED BY <1>1, <1>2, <1>3, <1>4, <1>5 DEF Next

LEMMA WindowInvariant == Spec => []WindowInv
<1>1. Init => WindowInv
  <2>1. Init => TypeOK
    BY TypingInit
  <2> QED BY <2>1 DEF Init, WindowInv, WindowNeverStretched, Never
<1> QED BY <1>1, WindowStep, PTL DEF Spec

\* The money-back window counts from a date that is never later than the day the
\* payment was last confirmed.
THEOREM WindowBounded == Spec => []WindowNeverStretched
<1>1. WindowInv => WindowNeverStretched
  BY DEF WindowInv
<1> QED BY <1>1, WindowInvariant, PTL

\* A refund nobody reviewed happens within RefundWindow days of the confirmation
\* of the payment, whatever reviews, overrides and resubmissions came before.
THEOREM UnreviewedRefundsInTime == Spec => UnreviewedRefundInTime
<1> DEFINE InTime(i) ==
      IsRefunded(i) /\ ClaimsOf(i, "pending") = {} => today - settledAt[i] <= RefundWindow
<1>1. WindowInv /\ RefundInv /\ [Next]_vars => [\A i \in Invoice : InTime(i)]_vars
  <2> SUFFICES ASSUME WindowInv, RefundInv, Next, NEW i \in Invoice, IsRefunded(i), ClaimsOf(i, "pending") = {}
               PROVE  today - settledAt[i] <= RefundWindow
    OBVIOUS
  <2>1. PICK c \in Claim : RequestRefund(i, c) \/ ApproveRefund(c)
    BY DEF Next, IsRefunded, IssueUnpaid, IssueCovered, SubmitProof, VerifyPayment, RejectPayment, ToggleStatus,
           DeleteInvoice, RequestRefund, ApproveRefund, RejectRefund, NextDay, Move, WindowInv, TypeOK, LedgerTypeOK
  <2>2. CASE RequestRefund(i, c)
    BY <2>2, InvoicesAssumption
       DEF RequestRefund, WithinMoneyBackWindow, WindowInv, WindowNeverStretched, IsRefunded,
           TypeOK, LedgerTypeOK, Never, Day
  <2>3. CASE ApproveRefund(c)
    <3>1. claimFor[c] = i
      BY <2>3 DEF ApproveRefund, IsRefunded, WindowInv, TypeOK, LedgerTypeOK
    <3> QED BY <2>3, <3>1 DEF ApproveRefund, ClaimsOf
  <2> QED BY <2>1, <2>2, <2>3
<1> QED BY <1>1, WindowInvariant, RefundInvariant, PTL DEF UnreviewedRefundInTime, Spec

\* A refunded invoice is closed: it leaves REFUNDED only by being deleted.
THEOREM RefundedStaysClosed == Spec => RefundedIsClosed
<1> DEFINE Closed(i) == status[i] = "refunded" => status'[i] \in {"refunded", "deleted"}
<1>1. RefundInv /\ [Next]_vars => [\A i \in Invoice : Closed(i)]_vars
  <2> SUFFICES ASSUME RefundInv, Next, NEW i \in Invoice, status[i] = "refunded"
               PROVE  status'[i] \in {"refunded", "deleted"}
    OBVIOUS
  <2> QED BY DEF Next, IssueUnpaid, IssueCovered, SubmitProof, VerifyPayment, RejectPayment, ToggleStatus,
             DeleteInvoice, RequestRefund, ApproveRefund, RejectRefund, NextDay, Move, Open, RefundInv, TypeOK,
             LedgerTypeOK
<1> QED BY <1>1, RefundInvariant, PTL DEF RefundedIsClosed, Spec

-------------------------------------------------------------------------------
\* Every step of Invoices is a step of the ledger or leaves the statuses alone:
\* no handler moves a row in a way the rest of the portal does not expect.
THEOREM ImplementsInvoiceLedger == Spec => LedgerSpec
<1>1. Init => LedgerInit
  BY DEF Init
<1>2. RefundInv /\ [Next]_vars => [LedgerNext]_status
  <2> SUFFICES ASSUME RefundInv, Next, status' # status
               PROVE  LedgerNext
    BY DEF vars
  <2> USE DEF LedgerNext, Issue, Submit, Confirm, Reopen, Refund, Remove
  <2>1. ASSUME NEW i \in Invoice,
               IssueUnpaid(i) \/ IssueCovered(i) \/ SubmitProof(i) \/ VerifyPayment(i)
                 \/ RejectPayment(i) \/ ToggleStatus(i) \/ DeleteInvoice(i)
        PROVE  LedgerNext
    BY <2>1 DEF IssueUnpaid, IssueCovered, SubmitProof, VerifyPayment, RejectPayment, ToggleStatus, DeleteInvoice,
                Move, Open
  <2>2. ASSUME NEW i \in Invoice, NEW c \in Claim, RequestRefund(i, c)
        PROVE  LedgerNext
    BY <2>2 DEF RequestRefund, Move
  <2>3. ASSUME NEW c \in Claim, ApproveRefund(c)
        PROVE  LedgerNext
    <3>1. claimFor[c] \in Invoice /\ status[claimFor[c]] # "refunded"
      BY <2>3 DEF ApproveRefund, RefundInv, LiveClaimsHaveRows, RefundedOnce, ClaimsOf
    <3>2. status[claimFor[c]] \in Open \cup {"paid"}
      BY <2>3, <3>1 DEF ApproveRefund, RefundInv, LiveClaimsHaveRows, Exists
    <3> QED BY <2>3, <3>1, <3>2 DEF ApproveRefund, Move
  <2> QED BY <2>1, <2>2, <2>3 DEF Next, NextDay, RejectRefund
<1> QED BY <1>1, <1>2, RefundInvariant, PTL DEF Spec, LedgerSpec

-------------------------------------------------------------------------------
RowOps == {"submit", "verify", "reject", "toggle", "refund"}
ClaimOps == {"approve", "decline"}

\* What a request in progress knows of its task: it names an invoice, a refund
\* request of that invoice, or an offer, as its handler requires.
TaskOK(r) ==
    /\ task[r].op \in RowOps => pc[r] # "idle" /\ task[r].inv \in Invoice /\ task[r].claim = NoInvoice
    /\ task[r].op \in ClaimOps =>
         /\ pc[r] # "idle" /\ task[r].inv \in Invoice /\ task[r].claim \in Claim
         /\ claimFor[task[r].claim] = task[r].inv /\ claimStatus[task[r].claim] # "none"
    /\ task[r].op = "checkout" => pc[r] # "idle" /\ task[r].inv = NoInvoice /\ task[r].offer \in Offer
    /\ task[r].op = "none" <=> pc[r] = "idle"

\* A refund request names an invoice exactly when it was ever made.
ClaimsNamed == \A c \in Claim : claimStatus[c] # "none" <=> claimFor[c] \in Invoice

\* DecidesOnFreshRow is inductive together with what the tasks refer to and with
\* the row under a lock being there: a row that is not there could be issued anew.
RequestInv ==
    /\ RequestsTypeOK
    /\ ClaimsNamed
    /\ \A r \in Request : TaskOK(r)
    /\ \A r \in Request : pc[r] = "locked" /\ task[r].op # "checkout" => seen[r].status \in Exists
    /\ DecidesOnFreshRow

LEMMA RequestInit == RequestsInit => RequestInv
<1> SUFFICES ASSUME RequestsInit PROVE RequestInv
  OBVIOUS
<1>1. TypeOK
  BY TypingInit DEF RequestsInit
<1>2. RequestsTypeOK
  BY <1>1 DEF RequestsInit, RequestsTypeOK, NoTask, NoRow, Task, Row, AllOps, Status, Exists, Open
<1> QED BY <1>2, InvoicesAssumption DEF RequestsInit, RequestInv, TaskOK, DecidesOnFreshRow, ClaimsNamed, Init, NoTask, NoRow, RowOps, ClaimOps

\* A handler's decision, taken on the row it holds, is one atomic step of Invoices.
LEMMA StepImplements == RequestInv /\ [RequestsNext]_allvars => [Next]_vars
<1> SUFFICES ASSUME RequestInv, [RequestsNext]_allvars PROVE [Next]_vars
  OBVIOUS
<1> USE DEF RequestInv
<1>1. CASE UNCHANGED allvars
  BY <1>1 DEF allvars
<1>2. ASSUME NEW i \in Invoice, Delete(i)
      PROVE  Next
  BY <1>2 DEF Delete, Next
<1>3. ASSUME NEW i \in Invoice, NEW f \in Offer, Generate(i, f)
      PROVE  Next
  BY <1>3 DEF Generate, Next
<1>4. CASE Midnight
  BY <1>4 DEF Midnight, Next
<1>5. ASSUME NEW r \in Request, RequestStep(r)
      PROVE  [Next]_vars
  <2> DEFINE i == task[r].inv
             c == task[r].claim
  <2>0. TaskOK(r)
    OBVIOUS
  <2>1. ASSUME pc[r] = "locked", task[r].op \in RowOps
        PROVE  /\ i \in Invoice /\ seen[r].status = status[i] /\ seen[r].verifiedAt = verifiedAt[i]
               /\ ~seen[r].busy => ClaimsOf(i, "pending") = {}
    <3>1. i \in Invoice /\ c = NoInvoice /\ task[r].op # "checkout"
      BY <2>0, <2>1 DEF TaskOK, RowOps
    <3>2. c \notin Claim
      BY <3>1, RequestsAssumption
    <3> QED BY <2>1, <3>1, <3>2 DEF DecidesOnFreshRow
  <2>2. ASSUME pc[r] = "locked", task[r].op \in ClaimOps, ~seen[r].busy
        PROVE  i \in Invoice /\ c \in Claim /\ claimFor[c] = i /\ claimStatus[c] = "pending"
    <3>1. i \in Invoice /\ c \in Claim /\ claimFor[c] = i /\ task[r].op # "checkout"
      BY <2>0, <2>2 DEF TaskOK, ClaimOps
    <3> QED BY <2>2, <3>1 DEF DecidesOnFreshRow
  <2>3. CASE \/ \E o \in Ops, j \in Invoice : BeginOnInvoice(r, o, j)
             \/ \E o \in Ops, d \in Claim : BeginResolve(r, o, d)
             \/ \E f \in Offer : BeginCheckout(r, f)
             \/ LockRow(r) \/ LockUser(r) \/ Abandon(r)
    BY <2>3 DEF BeginOnInvoice, BeginResolve, BeginCheckout, Start, LockRow, LockUser, Abandon
  <2>4. CASE CommitSubmit(r)
    BY <2>4, <2>1 DEF CommitSubmit, Committing, RowOps, Write, SubmitProof, Move, Next
  <2>5. CASE CommitVerify(r)
    BY <2>5, <2>1 DEF CommitVerify, Committing, RowOps, Write, Stamp, VerifyPayment, Move, Next
  <2>6. CASE CommitReject(r)
    BY <2>6, <2>1 DEF CommitReject, Committing, RowOps, Write, Stamp, RejectPayment, Move, Next
  <2>7. CASE CommitToggle(r)
    BY <2>7, <2>1 DEF CommitToggle, Committing, RowOps, Write, Stamp, ToggleStatus, Move, Next
  <2>8. CASE CommitRefund(r)
    <3>1. /\ i \in Invoice /\ status[i] = "paid" /\ ClaimsOf(i, "pending") = {}
          /\ SeenWithinWindow(r) <=> WithinMoneyBackWindow(i)
      BY <2>8, <2>1 DEF CommitRefund, Committing, RowOps, SeenWithinWindow, WithinMoneyBackWindow
    <3>2. PICK d \in Claim :
            /\ claimStatus[d] = "none"
            /\ claimFor' = [claimFor EXCEPT ![d] = i]
            /\ claimStatus' = [claimStatus EXCEPT
                 ![d] = IF SeenWithinWindow(r) THEN "approved" ELSE "pending"]
      BY <2>8 DEF CommitRefund
    <3>3. RequestRefund(i, d)
      BY <2>8, <3>1, <3>2 DEF CommitRefund, RequestRefund, Write
    <3> QED BY <3>1, <3>3 DEF Next
  <2>9. CASE CommitApprove(r)
    <3>1. ApproveRefund(c)
      BY <2>9, <2>2 DEF CommitApprove, Committing, ClaimOps, Write, ApproveRefund
    <3> QED BY <2>9, <2>2, <3>1 DEF CommitApprove, Committing, ClaimOps, Next
  <2>10. CASE CommitDecline(r)
    <3>1. RejectRefund(c)
      BY <2>10, <2>2 DEF CommitDecline, Committing, ClaimOps, RejectRefund
    <3> QED BY <2>10, <2>2, <3>1 DEF CommitDecline, Committing, ClaimOps, Next
  <2>11. CASE CommitCheckout(r)
    BY <2>11 DEF CommitCheckout, Next
  <2> QED BY <1>5, <2>3, <2>4, <2>5, <2>6, <2>7, <2>8, <2>9, <2>10, <2>11 DEF RequestStep
<1> QED BY <1>1, <1>2, <1>3, <1>4, <1>5 DEF RequestsNext
\* What any step does to the refund requests that are already there.
LEMMA ClaimsKeep == RequestInv /\ [RequestsNext]_allvars =>
    /\ ClaimsNamed'
    /\ \A c \in Claim : claimStatus[c] # "none" => claimFor'[c] = claimFor[c] /\ claimStatus'[c] # "none"
<1> SUFFICES ASSUME RequestInv, [Next]_vars
             PROVE  /\ ClaimsNamed'
                    /\ \A c \in Claim : claimStatus[c] # "none" =>
                         claimFor'[c] = claimFor[c] /\ claimStatus'[c] # "none"
  BY StepImplements
<1> USE DEF RequestInv, RequestsTypeOK, TypeOK, ClaimsNamed
<1>1. CASE claimFor' = claimFor /\ claimStatus' = claimStatus
  BY <1>1
<1>2. ASSUME NEW i \in Invoice, DeleteInvoice(i)
      PROVE  /\ claimFor' = claimFor
             /\ \A c \in Claim : claimStatus'[c] = (IF claimFor[c] = i THEN "deleted" ELSE claimStatus[c])
  BY <1>2 DEF DeleteInvoice
<1>3. ASSUME NEW i \in Invoice, DeleteInvoice(i)
      PROVE  /\ ClaimsNamed'
             /\ \A c \in Claim : claimStatus[c] # "none" => claimFor'[c] = claimFor[c] /\ claimStatus'[c] # "none"
  BY <1>2, <1>3
<1>4. ASSUME NEW i \in Invoice, NEW c \in Claim, RequestRefund(i, c)
      PROVE  /\ ClaimsNamed'
             /\ \A d \in Claim : claimStatus[d] # "none" => claimFor'[d] = claimFor[d] /\ claimStatus'[d] # "none"
  BY <1>4 DEF RequestRefund
<1>5. ASSUME NEW c \in Claim, ApproveRefund(c) \/ RejectRefund(c)
      PROVE  /\ ClaimsNamed'
             /\ \A d \in Claim : claimStatus[d] # "none" => claimFor'[d] = claimFor[d] /\ claimStatus'[d] # "none"
  BY <1>5 DEF ApproveRefund, RejectRefund
<1> QED
  BY <1>1, <1>3, <1>4, <1>5
     DEF Next, NextDay, vars, claims, IssueUnpaid, IssueCovered, SubmitProof, VerifyPayment, RejectPayment, ToggleStatus

LEMMA FinishTyping ==
    ASSUME NEW r \in Request, RequestsTypeOK, Finish(r)
    PROVE  /\ pc' = [pc EXCEPT ![r] = "idle"] /\ pc' \in [Request -> {"idle", "begun", "locked"}]
           /\ task' = [task EXCEPT ![r] = NoTask] /\ task' \in [Request -> Task]
           /\ seen' = [seen EXCEPT ![r] = NoRow] /\ seen' \in [Request -> Row]
           /\ rowLock' \in [Invoice -> Request \cup {Nobody}]
           /\ \A i \in Invoice : rowLock'[i] = (IF rowLock[i] = r THEN Nobody ELSE rowLock[i])
           /\ userLock' \in Request \cup {Nobody}
<1>1. NoTask \in Task /\ NoRow \in Row
  BY DEF NoTask, Task, NoRow, Row, Status
<1> QED BY <1>1 DEF RequestsTypeOK, Finish

LEMMA RequestTyping == RequestInv /\ [RequestsNext]_allvars => RequestsTypeOK'
<1> SUFFICES ASSUME RequestInv, [RequestsNext]_allvars PROVE RequestsTypeOK'
  OBVIOUS
<1>1. TypeOK'
  BY StepImplements, TypingStep DEF RequestInv, RequestsTypeOK
<1> USE DEF RequestInv
<1>2. CASE UNCHANGED allvars
  BY <1>1, <1>2 DEF allvars, rvars, RequestsTypeOK
<1>3. CASE Midnight
  BY <1>1, <1>3 DEF Midnight, rvars, RequestsTypeOK
<1>4. ASSUME NEW i \in Invoice, Delete(i)
      PROVE  RequestsTypeOK'
  BY <1>1, <1>4 DEF Delete, RequestsTypeOK
<1>5. ASSUME NEW i \in Invoice, NEW f \in Offer, Generate(i, f)
      PROVE  RequestsTypeOK'
  BY <1>1, <1>5 DEF Generate, RequestsTypeOK
<1>6. ASSUME NEW r \in Request, RequestStep(r)
      PROVE  RequestsTypeOK'
  <2>1. ASSUME NEW t \in Task, Start(r, t)
        PROVE  RequestsTypeOK'
    BY <1>1, <2>1 DEF Start, RequestsTypeOK
  <2>2. ASSUME NEW o \in Ops, NEW i \in Invoice, BeginOnInvoice(r, o, i)
        PROVE  RequestsTypeOK'
    <3>1. [NoTask EXCEPT !.op = o, !.inv = i] \in Task
      BY RequestsAssumption DEF NoTask, Task
    <3> QED BY <2>1, <2>2, <3>1 DEF BeginOnInvoice
  <2>3. ASSUME NEW o \in Ops, NEW c \in Claim, BeginResolve(r, o, c)
        PROVE  RequestsTypeOK'
    <3>1. claimFor[c] \in Invoice \cup {NoInvoice}
      BY DEF RequestsTypeOK, TypeOK
    <3>2. [NoTask EXCEPT !.op = o, !.inv = claimFor[c], !.claim = c] \in Task
      BY <3>1, RequestsAssumption DEF NoTask, Task
    <3> QED BY <2>1, <2>3, <3>2 DEF BeginResolve
  <2>4. ASSUME NEW f \in Offer, BeginCheckout(r, f)
        PROVE  RequestsTypeOK'
    <3>1. [NoTask EXCEPT !.op = "checkout", !.offer = f] \in Task
      BY DEF NoTask, Task, AllOps
    <3> QED BY <2>1, <2>4, <3>1 DEF BeginCheckout
  <2>5. CASE LockRow(r)
    BY <1>1, <2>5 DEF LockRow, RequestsTypeOK, TypeOK, LedgerTypeOK, Row
  <2>6. CASE LockUser(r)
    BY <1>1, <2>6 DEF LockUser, RequestsTypeOK, Row
  <2>7. CASE CommitSubmit(r) \/ CommitVerify(r) \/ CommitReject(r) \/ CommitToggle(r)
             \/ CommitRefund(r) \/ CommitApprove(r) \/ CommitDecline(r) \/ Abandon(r)
    <3>1. Finish(r) /\ UNCHANGED <<offerOf, checkedOut>>
      BY <2>7 DEF CommitSubmit, CommitVerify, CommitReject, CommitToggle, CommitRefund, CommitApprove,
                  CommitDecline, Abandon, Committing
    <3> QED BY <1>1, <3>1, FinishTyping DEF RequestsTypeOK
  <2>8. CASE CommitCheckout(r)
    <3>1. Finish(r) /\ task[r].offer \in Offer \cup {NoInvoice}
      BY <2>8 DEF CommitCheckout, Committing, RequestsTypeOK, Task
    <3> QED BY <1>1, <2>8, <3>1, FinishTyping DEF CommitCheckout, RequestsTypeOK
  <2> QED BY <1>6, <2>2, <2>3, <2>4, <2>5, <2>6, <2>7, <2>8 DEF RequestStep
<1> QED BY <1>2, <1>3, <1>4, <1>5, <1>6 DEF RequestsNext
-------------------------------------------------------------------------------
\* A request that holds the lock of its invoice's row.
Holding(q) == pc[q] = "locked" /\ task[q].op # "checkout"

\* A request leaves what another one knows of itself alone, and the row locks it holds.
LEMMA OthersKeep ==
    ASSUME NEW r \in Request, NEW q \in Request, q # r, RequestInv, RequestStep(r)
    PROVE  /\ pc'[q] = pc[q] /\ task'[q] = task[q] /\ seen'[q] = seen[q]
           /\ \A i \in Invoice : rowLock[i] = q => rowLock'[i] = q
<1> USE DEF RequestInv
<1>1. CASE \/ \E o \in Ops, j \in Invoice : BeginOnInvoice(r, o, j)
           \/ \E o \in Ops, d \in Claim : BeginResolve(r, o, d)
           \/ \E f \in Offer : BeginCheckout(r, f)
  BY <1>1 DEF BeginOnInvoice, BeginResolve, BeginCheckout, Start, RequestsTypeOK
<1>2. CASE LockRow(r)
  <2>1. \A i \in Invoice : rowLock[i] = q => i # task[r].inv
    BY <1>2, RequestsAssumption DEF LockRow
  <2>2. pc'[q] = pc[q] /\ task'[q] = task[q] /\ seen'[q] = seen[q]
    BY <1>2 DEF LockRow, RequestsTypeOK
  <2>3. \A i \in Invoice : i # task[r].inv => rowLock'[i] = rowLock[i]
    BY <1>2 DEF LockRow, RequestsTypeOK
  <2> QED BY <2>1, <2>2, <2>3
<1>3. CASE LockUser(r)
  BY <1>3 DEF LockUser, RequestsTypeOK
<1>4. CASE Finish(r)
  BY <1>4, FinishTyping DEF RequestsTypeOK
<1> QED BY <1>1, <1>2, <1>3, <1>4
        DEF RequestStep, CommitSubmit, CommitVerify, CommitReject, CommitToggle, CommitRefund, CommitApprove,
            CommitDecline, CommitCheckout, Abandon, Committing

\* While a request holds a row, no step of anybody else changes that row or the
\* refund requests of that invoice.
SameRow(i) ==
    /\ status'[i] = status[i] /\ verifiedAt'[i] = verifiedAt[i]
    /\ \A c \in Claim : claimFor[c] = i => claimFor'[c] = i /\ claimStatus'[c] = claimStatus[c]
    /\ {c \in Claim : claimFor'[c] = i /\ claimStatus'[c] = "pending"} = ClaimsOf(i, "pending")

LEMMA HeldRowKept ==
    ASSUME NEW q \in Request, Holding(q), RequestInv,
           \/ \E r \in Request \ {q} : RequestStep(r)
           \/ \E i \in Invoice : Delete(i) \/ \E f \in Offer : Generate(i, f)
           \/ Midnight
    PROVE  SameRow(task[q].inv)
<1> DEFINE i == task[q].inv
<1> USE DEF RequestInv
<1>1. i \in Invoice /\ rowLock[i] = q /\ status[i] \in Exists
  <2>1. task[q].op \in RowOps \cup ClaimOps
    BY DEF Holding, RequestsTypeOK, Task, AllOps, RowOps, ClaimOps, TaskOK
  <2> QED BY <2>1 DEF Holding, TaskOK, DecidesOnFreshRow
<1>2. CASE status' = status /\ verifiedAt' = verifiedAt /\ claimFor' = claimFor /\ claimStatus' = claimStatus
  BY <1>2 DEF SameRow, ClaimsOf
<1>3. ASSUME NEW j \in Invoice, j # i, claimFor' = claimFor, claimStatus' = claimStatus,
             /\ \E s \in Status : status' = [status EXCEPT ![j] = s]
             /\ verifiedAt' = verifiedAt \/ verifiedAt' = [verifiedAt EXCEPT ![j] = today]
      PROVE  SameRow(i)
  BY <1>1, <1>3 DEF SameRow, ClaimsOf, RequestsTypeOK, TypeOK, LedgerTypeOK
<1>4. ASSUME NEW j \in Invoice, Delete(j)
      PROVE  SameRow(i)
  <2>1. j # i
    BY <1>1, <1>4, RequestsAssumption DEF Delete
  <2>2. /\ claimFor' = claimFor /\ verifiedAt' = verifiedAt
        /\ status'[i] = status[i]
        /\ \A c \in Claim : claimStatus'[c] = (IF claimFor[c] = j THEN "deleted" ELSE claimStatus[c])
    BY <1>1, <1>4, <2>1 DEF Delete, DeleteInvoice, Move, RequestsTypeOK, TypeOK, LedgerTypeOK
  <2> QED BY <2>1, <2>2 DEF SameRow, ClaimsOf
<1>5. ASSUME NEW j \in Invoice, IssueUnpaid(j) \/ IssueCovered(j)
      PROVE  SameRow(i)
  <2>1. j # i
    BY <1>1, <1>5 DEF IssueUnpaid, IssueCovered, Move, Exists, Open
  <2> QED BY <1>3, <1>5, <2>1 DEF IssueUnpaid, IssueCovered, Move, claims, Status, Exists, Open
<1>6. ASSUME NEW r \in Request \ {q}, RequestStep(r)
      PROVE  SameRow(i)
  <2> DEFINE j == task[r].inv
  <2>1. ASSUME Holding(r)
        PROVE  j \in Invoice /\ j # i
    <3>1. task[r].op \in RowOps \cup ClaimOps
      BY <2>1 DEF Holding, RequestsTypeOK, Task, AllOps, RowOps, ClaimOps, TaskOK
    <3> QED BY <1>1, <2>1, <3>1 DEF Holding, TaskOK, DecidesOnFreshRow
  <2>2. CASE CommitSubmit(r) \/ CommitVerify(r) \/ CommitReject(r) \/ CommitToggle(r)
    <3>1. j \in Invoice /\ j # i
      BY <2>1, <2>2 DEF Holding, CommitSubmit, CommitVerify, CommitReject, CommitToggle, Committing
    <3> QED BY <1>3, <2>2, <3>1
            DEF CommitSubmit, CommitVerify, CommitReject, CommitToggle, Write, Stamp, claims, Status, Exists, Open
  <2>3. CASE CommitRefund(r)
    <3>1. j \in Invoice /\ j # i
      BY <2>1, <2>3 DEF Holding, CommitRefund, Committing
    <3>2. PICK c \in Claim :
            /\ claimStatus[c] = "none"
            /\ claimFor' = [claimFor EXCEPT ![c] = j]
            /\ claimStatus' = [claimStatus EXCEPT
                 ![c] = IF SeenWithinWindow(r) THEN "approved" ELSE "pending"]
      BY <2>3 DEF CommitRefund
    <3>3. status'[i] = status[i] /\ verifiedAt' = verifiedAt
      BY <1>1, <2>3, <3>1 DEF CommitRefund, Write, RequestsTypeOK, TypeOK, LedgerTypeOK
    <3>4. /\ \A d \in Claim : d # c => claimFor'[d] = claimFor[d] /\ claimStatus'[d] = claimStatus[d]
          /\ claimFor'[c] = j
      BY <3>2 DEF RequestsTypeOK, TypeOK
    <3>5. {d \in Claim : claimFor'[d] = i /\ claimStatus'[d] = "pending"} = ClaimsOf(i, "pending")
      BY <3>1, <3>2, <3>4 DEF ClaimsOf
    <3>6. claimFor[c] # i
      BY <1>1, <3>2 DEF ClaimsNamed
    <3> QED BY <3>3, <3>4, <3>5, <3>6 DEF SameRow
  <2>4. CASE CommitApprove(r) \/ CommitDecline(r)
    <3>1. j \in Invoice /\ j # i
      BY <2>1, <2>4 DEF Holding, CommitApprove, CommitDecline, Committing
    <3>2. task[r].claim \in Claim /\ claimFor[task[r].claim] = j
      BY <2>4 DEF CommitApprove, CommitDecline, Committing, TaskOK, ClaimOps
    <3>3. status'[i] = status[i] /\ verifiedAt' = verifiedAt /\ claimFor' = claimFor
      BY <1>1, <2>4, <3>1 DEF CommitApprove, CommitDecline, Write, RequestsTypeOK, TypeOK, LedgerTypeOK
    <3>4. \A d \in Claim : d # task[r].claim => claimStatus'[d] = claimStatus[d]
      BY <2>4 DEF CommitApprove, CommitDecline, RequestsTypeOK, TypeOK
    <3> QED BY <3>1, <3>2, <3>3, <3>4 DEF SameRow, ClaimsOf
  <2>5. CASE CommitCheckout(r)
    BY <1>5, <2>5 DEF CommitCheckout
  <2>6. CASE \/ \E o \in Ops, k \in Invoice : BeginOnInvoice(r, o, k)
             \/ \E o \in Ops, d \in Claim : BeginResolve(r, o, d)
             \/ \E f \in Offer : BeginCheckout(r, f)
             \/ LockRow(r) \/ LockUser(r) \/ Abandon(r)
    BY <1>2, <2>6
       DEF BeginOnInvoice, BeginResolve, BeginCheckout, Start, LockRow, LockUser, Abandon, vars, claims
  <2> QED BY <1>6, <2>2, <2>3, <2>4, <2>5, <2>6 DEF RequestStep
<1> QED BY <1>2, <1>4, <1>5, <1>6 DEF Generate, Midnight, NextDay, claims
\* A task stays well formed, whoever moves: a request that is over has none.
LEMMA TasksStay == RequestInv /\ [RequestsNext]_allvars => \A q \in Request : TaskOK(q)'
<1> SUFFICES ASSUME RequestInv, [RequestsNext]_allvars, NEW q \in Request PROVE TaskOK(q)'
  OBVIOUS
<1> USE DEF RequestInv
<1>1. ASSUME pc'[q] = pc[q] \/ (pc[q] = "begun" /\ pc'[q] = "locked"), task'[q] = task[q]
      PROVE  TaskOK(q)'
  BY <1>1, ClaimsKeep DEF TaskOK, ClaimOps
<1>2. CASE UNCHANGED <<pc, task>>
  BY <1>1, <1>2
<1>3. ASSUME NEW r \in Request \ {q}, RequestStep(r)
      PROVE  TaskOK(q)'
  BY <1>1, <1>3, OthersKeep
<1>4. CASE RequestStep(q)
  <2>1. CASE LockRow(q) \/ LockUser(q)
    BY <1>1, <2>1 DEF LockRow, LockUser, RequestsTypeOK
  <2>2. CASE Finish(q)
    BY <2>2, FinishTyping DEF TaskOK, NoTask, RowOps, ClaimOps, RequestsTypeOK
  <2>3. ASSUME NEW o \in Ops, NEW j \in Invoice, BeginOnInvoice(q, o, j)
        PROVE  TaskOK(q)'
    <3>1. pc'[q] = "begun" /\ task'[q] = [NoTask EXCEPT !.op = o, !.inv = j] /\ o \in RowOps
      BY <2>3 DEF BeginOnInvoice, Start, RequestsTypeOK, RowOps
    <3>2. task'[q].op = o /\ task'[q].inv = j /\ task'[q].claim = NoInvoice
      BY <3>1 DEF NoTask
    <3> QED BY <3>1, <3>2 DEF TaskOK, RowOps, ClaimOps
  <2>4. ASSUME NEW o \in Ops, NEW c \in Claim, BeginResolve(q, o, c)
        PROVE  TaskOK(q)'
    <3>1. /\ pc'[q] = "begun" /\ task'[q] = [NoTask EXCEPT !.op = o, !.inv = claimFor[c], !.claim = c]
          /\ o \in ClaimOps /\ claimStatus[c] # "none" /\ claimFor' = claimFor /\ claimStatus' = claimStatus
      BY <2>4 DEF BeginResolve, Start, RequestsTypeOK, ClaimOps, vars, claims
    <3>2. task'[q].op = o /\ task'[q].inv = claimFor[c] /\ task'[q].claim = c
      BY <3>1 DEF NoTask
    <3>3. claimFor[c] \in Invoice
      BY <3>1 DEF ClaimsNamed
    <3> QED BY <3>1, <3>2, <3>3 DEF TaskOK, RowOps, ClaimOps
  <2>5. ASSUME NEW f \in Offer, BeginCheckout(q, f)
        PROVE  TaskOK(q)'
    <3>1. pc'[q] = "begun" /\ task'[q] = [NoTask EXCEPT !.op = "checkout", !.offer = f]
      BY <2>5 DEF BeginCheckout, Start, RequestsTypeOK
    <3>2. task'[q].op = "checkout" /\ task'[q].inv = NoInvoice /\ task'[q].offer = f
      BY <3>1 DEF NoTask
    <3> QED BY <3>1, <3>2 DEF TaskOK, RowOps, ClaimOps
  <2> QED BY <1>4, <2>1, <2>2, <2>3, <2>4, <2>5
          DEF RequestStep, CommitSubmit, CommitVerify, CommitReject, CommitToggle, CommitRefund, CommitApprove,
              CommitDecline, CommitCheckout, Abandon, Committing
<1> QED BY <1>2, <1>3, <1>4 DEF RequestsNext, allvars, rvars, Delete, Generate, Midnight

FreshRow(r) ==
    LET i == task[r].inv  c == task[r].claim IN
    /\ rowLock[i] = r
    /\ seen[r].status = status[i] /\ seen[r].verifiedAt = verifiedAt[i]
    /\ seen[r].busy <=> IF c \in Claim THEN claimStatus[c] # "pending"
                                       ELSE ClaimsOf(i, "pending") # {}

\* The row lock keeps what was read true: the holder does not write before it is
\* done, and HeldRowKept speaks for everyone else.
LEMMA RequestInvStep == RequestInv /\ [RequestsNext]_allvars => RequestInv'
<1> SUFFICES ASSUME RequestInv, [RequestsNext]_allvars, NEW q \in Request, Holding(q)'
             PROVE  seen'[q].status \in Exists /\ FreshRow(q)'
  BY RequestTyping, ClaimsKeep, TasksStay DEF RequestInv, DecidesOnFreshRow, FreshRow, Holding
<1> USE DEF RequestInv
<1>1. ASSUME Holding(q), SameRow(task[q].inv), task'[q] = task[q], seen'[q] = seen[q],
             rowLock[task[q].inv] = q => rowLock'[task[q].inv] = q
      PROVE  seen'[q].status \in Exists /\ FreshRow(q)'
  <2> DEFINE i == task[q].inv
             c == task[q].claim
  <2>1. /\ seen[q].status \in Exists /\ rowLock[i] = q
        /\ seen[q].status = status[i] /\ seen[q].verifiedAt = verifiedAt[i]
        /\ seen[q].busy <=> IF c \in Claim THEN claimStatus[c] # "pending" ELSE ClaimsOf(i, "pending") # {}
    BY <1>1 DEF Holding, DecidesOnFreshRow
  <2>2. c \in Claim => claimFor[c] = i
    <3>1. task[q].op \in RowOps \cup ClaimOps /\ TaskOK(q)
      BY <1>1 DEF Holding, RequestsTypeOK, Task, AllOps, RowOps, ClaimOps, TaskOK
    <3> QED BY <3>1, RequestsAssumption DEF TaskOK
  <2>3. c \in Claim => claimStatus'[c] = claimStatus[c]
    BY <1>1, <2>2 DEF SameRow
  <2> QED BY <1>1, <2>1, <2>3 DEF SameRow, FreshRow, ClaimsOf
<1>2. ASSUME \/ \E r \in Request \ {q} : RequestStep(r)
             \/ \E i \in Invoice : Delete(i) \/ \E f \in Offer : Generate(i, f)
             \/ Midnight
      PROVE  seen'[q].status \in Exists /\ FreshRow(q)'
  <2>1. /\ pc'[q] = pc[q] /\ task'[q] = task[q] /\ seen'[q] = seen[q]
        /\ \A i \in Invoice : rowLock[i] = q => rowLock'[i] = q
    BY <1>2, OthersKeep DEF Delete, Generate, Midnight, rvars
  <2>2. Holding(q)
    BY <2>1 DEF Holding
  <2>3. SameRow(task[q].inv)
    BY <1>2, <2>2, HeldRowKept
  <2>4. task[q].inv \in Invoice
    <3>1. task[q].op \in RowOps \cup ClaimOps /\ TaskOK(q)
      BY <2>2 DEF Holding, RequestsTypeOK, Task, AllOps, RowOps, ClaimOps, TaskOK
    <3> QED BY <3>1 DEF TaskOK
  <2> QED BY <1>1, <2>1, <2>2, <2>3, <2>4
<1>3. CASE RequestStep(q)
  <2>1. CASE LockRow(q)
    <3> DEFINE i == task[q].inv
    <3>1. /\ i \in Invoice /\ status[i] \in Exists /\ task' = task
          /\ rowLock'[i] = q
          /\ seen'[q].status = status[i] /\ seen'[q].verifiedAt = verifiedAt[i]
          /\ seen'[q].busy = (IF task[q].claim \in Claim THEN claimStatus[task[q].claim] # "pending"
                                                         ELSE ClaimsOf(i, "pending") # {})
      BY <2>1 DEF LockRow, RequestsTypeOK
    <3>2. status' = status /\ verifiedAt' = verifiedAt /\ claimFor' = claimFor /\ claimStatus' = claimStatus
      BY <2>1 DEF LockRow, vars, claims
    <3> QED BY <3>1, <3>2 DEF FreshRow, ClaimsOf
  <2>2. CASE LockUser(q)
    BY <2>2 DEF LockUser, Holding
  <2>3. CASE Finish(q)
    BY <2>3, FinishTyping DEF Holding, RequestsTypeOK
  <2>4. CASE \/ \E o \in Ops, k \in Invoice : BeginOnInvoice(q, o, k)
             \/ \E o \in Ops, d \in Claim : BeginResolve(q, o, d)
             \/ \E f \in Offer : BeginCheckout(q, f)
    BY <2>4 DEF BeginOnInvoice, BeginResolve, BeginCheckout, Start, RequestsTypeOK, Holding
  <2> QED BY <1>3, <2>1, <2>2, <2>3, <2>4
          DEF RequestStep, CommitSubmit, CommitVerify, CommitReject, CommitToggle, CommitRefund, CommitApprove,
              CommitDecline, CommitCheckout, Abandon, Committing
<1>4. CASE UNCHANGED allvars
  BY <1>4 DEF allvars, rvars, vars, claims, Holding, FreshRow, DecidesOnFreshRow, ClaimsOf
<1> QED BY <1>2, <1>3, <1>4 DEF RequestsNext

LEMMA RequestInvariant == RequestsSpec => []RequestInv
BY RequestInit, RequestInvStep, PTL DEF RequestsSpec

-------------------------------------------------------------------------------
\* Every column of every request stays in its range, and so does every row.
THEOREM RequestsTyping == RequestsSpec => []RequestsTypeOK
<1>1. RequestInv => RequestsTypeOK
  BY DEF RequestInv
<1> QED BY <1>1, RequestInvariant, PTL

\* What a handler decides on under select_for_update is what the table holds when
\* it writes, for any number of requests, invoices and refund requests.
THEOREM RequestsDecideOnFreshRow == RequestsSpec => []DecidesOnFreshRow
<1>1. RequestInv => DecidesOnFreshRow
  BY DEF RequestInv
<1> QED BY <1>1, RequestInvariant, PTL

\* Any interleaving of requests, with deaths anywhere, is a behaviour of Invoices:
\* everything proved there of atomic handlers holds of concurrent ones.
THEOREM RequestsImplementInvoices == RequestsSpec => Spec
<1>1. RequestsInit => Init
  BY DEF RequestsInit
<1> QED BY <1>1, StepImplements, RequestInvariant, PTL DEF RequestsSpec, Spec

\* So an invoice cannot be refunded twice by requests that race either.
COROLLARY RacingRefundsDecidedOnce == RequestsSpec => []RefundedOnce
BY RequestsImplementInvoices, RefundDecidedOnce, PTL

\* Two admins who click the override at once toggle twice: a committed toggle
\* turns the status that the table then holds.
THEOREM CommittedTogglesFlip == RequestsSpec => TogglesFlip
<1> DEFINE Flips(r) == CommitToggle(r) =>
      LET i == task[r].inv IN (status[i] = "paid") # (status'[i] = "paid")
<1>1. RequestInv /\ [RequestsNext]_allvars => [\A r \in Request : Flips(r)]_allvars
  <2> SUFFICES ASSUME RequestInv, NEW r \in Request, CommitToggle(r)
               PROVE  LET i == task[r].inv IN (status[i] = "paid") # (status'[i] = "paid")
    OBVIOUS
  <2> DEFINE i == task[r].inv
  <2>1. i \in Invoice /\ seen[r].status = status[i]
    BY DEF RequestInv, DecidesOnFreshRow, CommitToggle, Committing, TaskOK, RowOps
  <2>2. CASE seen[r].status = "paid" /\ Write(r, "unpaid")
    BY <2>1, <2>2 DEF Write, RequestInv, RequestsTypeOK, TypeOK, LedgerTypeOK
  <2>3. CASE seen[r].status \in Open /\ Write(r, "paid")
    BY <2>1, <2>3 DEF Write, Open, RequestInv, RequestsTypeOK, TypeOK, LedgerTypeOK
  <2> QED BY <2>2, <2>3 DEF CommitToggle
<1> QED BY <1>1, RequestInvariant, PTL DEF RequestsSpec, TogglesFlip
-------------------------------------------------------------------------------
\* An open row that was never paid.
Fresh(i) == status[i] \in Open /\ settledAt[i] = Never

\* What the lock of the recipient's User row protects: a checkout that found no
\* open invoice for its offer is the only one that can add one.
CheckoutInv ==
    /\ RequestInv
    /\ \A i \in Invoice : status[i] = "paid" => settledAt[i] # Never
    /\ \A i \in checkedOut : status[i] # "none"
    /\ \A r \in Request : pc[r] = "locked" /\ task[r].op = "checkout" =>
         /\ userLock = r
         /\ ~seen[r].busy => \A i \in checkedOut : offerOf[i] = task[r].offer => ~Fresh(i)
    /\ NoDuplicateCheckout

\* A row that was paid once counts as settled for good, and the only way to an
\* open row that was never paid is to issue it.
LEMMA FreshRowsAreIssued ==
    ASSUME RequestInv, \A i \in Invoice : status[i] = "paid" => settledAt[i] # Never,
           [RequestsNext]_allvars, NEW i \in Invoice
    PROVE  /\ status'[i] = "paid" => settledAt'[i] # Never
           /\ Fresh(i)' => Fresh(i) \/ status[i] = "none"
           /\ status[i] # "none" => status'[i] # "none"
<1> USE DEF RequestInv, RequestsTypeOK, TypeOK, LedgerTypeOK, Fresh, Open
<1>1. today # Never
  BY InvoicesAssumption DEF Day, Never
<1>2. [Next]_vars
  BY StepImplements
<1>3. CASE NextDay \/ UNCHANGED vars
  BY <1>3 DEF NextDay, vars, claims
<1>4. ASSUME NEW j \in Invoice,
             IssueUnpaid(j) \/ IssueCovered(j) \/ SubmitProof(j) \/ VerifyPayment(j) \/ RejectPayment(j)
               \/ ToggleStatus(j) \/ DeleteInvoice(j)
      PROVE  /\ status'[i] = "paid" => settledAt'[i] # Never
             /\ Fresh(i)' => Fresh(i) \/ status[i] = "none"
             /\ status[i] # "none" => status'[i] # "none"
  BY <1>1, <1>4 DEF IssueUnpaid, IssueCovered, SubmitProof, VerifyPayment, RejectPayment, ToggleStatus,
                    DeleteInvoice, Move, Exists
<1>5. ASSUME NEW j \in Invoice, NEW c \in Claim, RequestRefund(j, c)
      PROVE  /\ status'[i] = "paid" => settledAt'[i] # Never
             /\ Fresh(i)' => Fresh(i) \/ status[i] = "none"
             /\ status[i] # "none" => status'[i] # "none"
  BY <1>5 DEF RequestRefund
<1>6. ASSUME NEW c \in Claim, ApproveRefund(c) \/ RejectRefund(c)
      PROVE  /\ status'[i] = "paid" => settledAt'[i] # Never
             /\ Fresh(i)' => Fresh(i) \/ status[i] = "none"
             /\ status[i] # "none" => status'[i] # "none"
  BY <1>6 DEF ApproveRefund, RejectRefund
<1> QED BY <1>2, <1>3, <1>4, <1>5, <1>6 DEF Next

LEMMA CheckoutStep == CheckoutInv /\ [RequestsNext]_allvars => CheckoutInv'
<1> SUFFICES ASSUME CheckoutInv, [RequestsNext]_allvars
             PROVE  /\ \A i \in checkedOut' : status'[i] # "none"
                    /\ \A r \in Request : pc'[r] = "locked" /\ task'[r].op = "checkout" =>
                         /\ userLock' = r
                         /\ ~seen'[r].busy => \A i \in checkedOut' : offerOf'[i] = task'[r].offer => ~Fresh(i)'
                    /\ NoDuplicateCheckout'
  BY RequestInvStep, FreshRowsAreIssued DEF CheckoutInv, Fresh
<1> DEFINE Alone(r) ==
      /\ userLock' = r
      /\ ~seen'[r].busy => \A i \in checkedOut' : offerOf'[i] = task'[r].offer => ~Fresh(i)'
<1> USE DEF CheckoutInv, RequestInv, RequestsTypeOK, TypeOK, LedgerTypeOK
<1>1. \A i \in checkedOut : i \in Invoice /\ status'[i] # "none" /\ (Fresh(i)' => Fresh(i))
  BY FreshRowsAreIssued
<1>2. \A i, j \in checkedOut : i # j /\ offerOf[i] = offerOf[j] => ~Fresh(i) \/ ~Fresh(j)
  BY DEF NoDuplicateCheckout, Fresh
<1>3. ASSUME checkedOut' \subseteq checkedOut, \A i \in checkedOut' : offerOf'[i] = offerOf[i]
      PROVE  /\ \A i \in checkedOut' : status'[i] # "none"
             /\ NoDuplicateCheckout'
  <2>1. \A i, j \in checkedOut' : i # j /\ offerOf'[i] = offerOf'[j] => ~Fresh(i)' \/ ~Fresh(j)'
    BY <1>1, <1>2, <1>3
  <2> QED BY <1>1, <1>3, <2>1 DEF NoDuplicateCheckout, Fresh
<1>4. ASSUME checkedOut' \subseteq checkedOut, \A i \in checkedOut' : offerOf'[i] = offerOf[i],
             NEW r \in Request, pc'[r] = "locked", task'[r].op = "checkout",
             pc'[r] = pc[r], task'[r] = task[r], seen'[r] = seen[r],
             userLock = r => userLock' = r
      PROVE  Alone(r)
  BY <1>1, <1>4
<1>5. CASE UNCHANGED <<pc, task, seen, userLock>>
           /\ checkedOut' \subseteq checkedOut /\ \A i \in checkedOut' : offerOf'[i] = offerOf[i]
  BY <1>3, <1>4, <1>5
<1>6. ASSUME NEW i \in Invoice, Delete(i)
      PROVE  checkedOut' \subseteq checkedOut /\ \A j \in checkedOut' : offerOf'[j] = offerOf[j]
  BY <1>6 DEF Delete
<1>7. ASSUME NEW i \in Invoice, NEW f \in Offer, Generate(i, f)
      PROVE  checkedOut' \subseteq checkedOut /\ \A j \in checkedOut' : offerOf'[j] = offerOf[j]
  <2>1. i \notin checkedOut
    BY <1>7 DEF Generate, IssueUnpaid, Move
  <2> QED BY <1>7, <2>1 DEF Generate
<1>8. ASSUME NEW r \in Request, RequestStep(r), checkedOut' = checkedOut, offerOf' = offerOf
      PROVE  \A q \in Request : pc'[q] = "locked" /\ task'[q].op = "checkout" => Alone(q)
  <2> SUFFICES ASSUME NEW q \in Request, pc'[q] = "locked", task'[q].op = "checkout"
               PROVE  Alone(q)
    OBVIOUS
  <2>1. CASE q # r
    <3>1. pc'[q] = pc[q] /\ task'[q] = task[q] /\ seen'[q] = seen[q]
      BY <1>8, <2>1, OthersKeep
    <3>2. userLock = q => userLock' = q
      BY <1>8, <2>1, RequestsAssumption
         DEF RequestStep, BeginOnInvoice, BeginResolve, BeginCheckout, Start, LockRow, LockUser, CommitSubmit,
             CommitVerify, CommitReject, CommitToggle, CommitRefund, CommitApprove, CommitDecline, CommitCheckout,
             Abandon, Committing, Finish
    <3> QED BY <1>4, <1>8, <3>1, <3>2
  <2>2. CASE q = r
    <3>1. CASE LockUser(r)
      <4>1. userLock' = r /\ task' = task /\ status' = status /\ settledAt' = settledAt
        BY <3>1 DEF LockUser, vars
      <4>2. seen'[r].busy = \E i \in Invoice : offerOf[i] = task[r].offer /\ status[i] \in Open
        BY <3>1 DEF LockUser, Row
      <4> QED BY <1>8, <2>2, <4>1, <4>2 DEF Fresh
    <3>2. CASE LockRow(r)
      BY <2>2, <3>2, InvoicesAssumption DEF LockRow, TaskOK
    <3>3. CASE Finish(r)
      BY <2>2, <3>3, FinishTyping
    <3>4. CASE \/ \E o \in Ops, k \in Invoice : BeginOnInvoice(r, o, k)
               \/ \E o \in Ops, d \in Claim : BeginResolve(r, o, d)
               \/ \E f \in Offer : BeginCheckout(r, f)
      BY <2>2, <3>4 DEF BeginOnInvoice, BeginResolve, BeginCheckout, Start
    <3> QED BY <1>8, <3>1, <3>2, <3>3, <3>4
            DEF RequestStep, CommitSubmit, CommitVerify, CommitReject, CommitToggle, CommitRefund, CommitApprove,
                CommitDecline, CommitCheckout, Abandon, Committing
  <2> QED BY <2>1, <2>2
<1>9. ASSUME NEW r \in Request, CommitCheckout(r)
      PROVE  /\ \A i \in checkedOut' : status'[i] # "none"
             /\ \A q \in Request : pc'[q] = "locked" /\ task'[q].op = "checkout" => Alone(q)
             /\ NoDuplicateCheckout'
  <2>1. PICK n \in Invoice :
          /\ IssueUnpaid(n) \/ IssueCovered(n)
          /\ offerOf' = [offerOf EXCEPT ![n] = task[r].offer]
          /\ checkedOut' = checkedOut \cup {n}
    BY <1>9 DEF CommitCheckout
  <2>2. userLock = r /\ \A i \in checkedOut : offerOf[i] = task[r].offer => ~Fresh(i)
    BY <1>9 DEF CommitCheckout, Committing
  <2>3. n \notin checkedOut /\ status'[n] # "none"
    BY <2>1 DEF IssueUnpaid, IssueCovered, Move
  <2>4. /\ \A i \in checkedOut : offerOf'[i] = offerOf[i] /\ status'[i] # "none"
        /\ offerOf'[n] = task[r].offer
    BY <1>1, <2>1, <2>3
  <2>5. \A q \in Request : pc'[q] = "locked" /\ task'[q].op = "checkout" => FALSE
    <3> SUFFICES ASSUME NEW q \in Request, pc'[q] = "locked", task'[q].op = "checkout"
                 PROVE  FALSE
      OBVIOUS
    <3>1. Finish(r) /\ RequestStep(r)
      BY <1>9 DEF CommitCheckout, Committing, RequestStep
    <3>2. q # r
      BY <3>1, FinishTyping
    <3>3. pc[q] = "locked" /\ task[q].op = "checkout"
      BY <3>1, <3>2, OthersKeep
    <3> QED BY <2>2, <3>2, <3>3
  <2>6. \A i, j \in checkedOut' : i # j /\ offerOf'[i] = offerOf'[j] => ~Fresh(i)' \/ ~Fresh(j)'
    BY <1>1, <1>2, <2>1, <2>2, <2>4
  <2>7. NoDuplicateCheckout'
    BY <2>6 DEF NoDuplicateCheckout, Fresh
  <2> QED BY <2>1, <2>3, <2>4, <2>5, <2>7
<1>10. ASSUME NEW r \in Request, RequestStep(r), ~CommitCheckout(r)
       PROVE  checkedOut' = checkedOut /\ offerOf' = offerOf
  BY <1>10 DEF RequestStep, BeginOnInvoice, BeginResolve, BeginCheckout, Start, LockRow, LockUser, CommitSubmit,
               CommitVerify, CommitReject, CommitToggle, CommitRefund, CommitApprove, CommitDecline, Abandon
<1>11. ASSUME NEW r \in Request, RequestStep(r)
       PROVE  /\ \A i \in checkedOut' : status'[i] # "none"
              /\ \A q \in Request : pc'[q] = "locked" /\ task'[q].op = "checkout" => Alone(q)
              /\ NoDuplicateCheckout'
  <2>1. CASE CommitCheckout(r)
    BY <1>9, <2>1
  <2>2. CASE ~CommitCheckout(r)
    BY <1>3, <1>8, <1>10, <1>11, <2>2
  <2> QED BY <2>1, <2>2
<1>12. CASE UNCHANGED allvars \/ Midnight
  BY <1>5, <1>12 DEF allvars, rvars, Midnight
<1>13. CASE \E i \in Invoice : Delete(i) \/ \E f \in Offer : Generate(i, f)
  <2>1. UNCHANGED <<pc, task, seen, userLock>>
    BY <1>13 DEF Delete, Generate
  <2>2. checkedOut' \subseteq checkedOut /\ \A i \in checkedOut' : offerOf'[i] = offerOf[i]
    BY <1>6, <1>7, <1>13
  <2> QED BY <1>5, <2>1, <2>2
<1> QED BY <1>11, <1>12, <1>13 DEF RequestsNext

\* A double click, a refresh or a retried POST of checkout_plan never leaves two
\* open, never paid invoices for the same plan and duration.
THEOREM CheckoutNotDuplicated == RequestsSpec => []NoDuplicateCheckout
<1>1. RequestsInit => CheckoutInv
  <2> SUFFICES ASSUME RequestsInit PROVE CheckoutInv
    OBVIOUS
  <2>1. RequestInv
    BY RequestInit
  <2> QED BY <2>1 DEF RequestsInit, Init, LedgerInit, CheckoutInv, NoDuplicateCheckout
<1>2. CheckoutInv => NoDuplicateCheckout
  BY DEF CheckoutInv
<1> QED BY <1>1, <1>2, CheckoutStep, PTL DEF RequestsSpec

-------------------------------------------------------------------------------
(* The quotas.  Every request that passed a check and has not written its  *)
(* row yet is counted as well: it passed while there was room, so the rows *)
(* and those that passed stay together below the cap and the number of     *)
(* requests.                                                               *)

\* The instance has its own copies of the operators on finite sets: they are the same.
LEMMA QuotaSets == \A S : Quota!Cardinality(S) = Cardinality(S) /\ (Quota!IsFiniteSet(S) <=> IsFiniteSet(S))
BY DEF Quota!Cardinality, Cardinality, Quota!IsFiniteSet, IsFiniteSet

Using == {"asked", "checked", "generating"}

\* What a request in progress is about.
RequestsOK ==
    \A w \in Worker :
        /\ req[w].pc \in Using => req[w].conv \in Conv /\ conv[req[w].conv] # None
        /\ req[w].pc = "generating" => req[w].kind = "media"
        /\ req[w].pc = "asked" => req[w].kind # "regenerate"

\* One request at a time starts a conversation, and there is room for it.
StartsOK ==
    /\ \A v, w \in Worker : (req[v].pc = "starting" /\ req[w].pc = "starting") => v = w
    /\ (\E w \in Worker : req[w].pc = "starting") => Quota!StartedToday < SessionCap
    /\ Quota!SessionsCapped

\* The rows that a cap counts and the requests that have passed its check: each of
\* them adds one row at most, and it was there when the cap was not yet reached.
Room(rows, passed, cap) ==
    /\ Cardinality(rows) + Cardinality(passed) < cap + Cardinality(Worker)
    /\ passed # {} => cap # 0

Passed == {w \in Worker : req[w].pc = "checked"}
UsedBy(kind) == {m \in Quota!Now("assistant") : m.kind = kind}
PassedFor(kind) == {w \in Worker : req[w].pc \in Using /\ req[w].kind = kind}

OvershootOK ==
    /\ Room(Quota!Now("user"), Passed, RequestCap)
    /\ \A kind \in Quota!Capped : Room(UsedBy(kind), PassedFor(kind), KindCap[kind])

\* The messages that a conversation's limit holds for: one request at a time has
\* passed it, under the lock, and there is room for its message.
Plain(c) == {m \in messages : m.conv = c /\ m.role = "user" /\ m.kind # "media"}

ConversationsOK ==
    \A c \in Conv :
        /\ Cardinality(Plain(c)) <= ConvCap
        /\ \A v, w \in Quota!LockTaken(c) : v = w
        /\ Quota!LockTaken(c) # {} => Cardinality(Plain(c)) < ConvCap

QuotaInv == Quota!TypeOK /\ RequestsOK /\ StartsOK /\ OvershootOK /\ ConversationsOK

\* Counting.

LEMMA Count == ASSUME NEW S, IsFiniteSet(S) PROVE Cardinality(S) \in Nat
BY FS_CardinalityType

LEMMA CountPart == ASSUME NEW S, NEW T, IsFiniteSet(S), T \subseteq S
                   PROVE  IsFiniteSet(T) /\ Cardinality(T) <= Cardinality(S)
BY FS_Subset

LEMMA CountMore == ASSUME NEW S, NEW T, NEW x, IsFiniteSet(S), T \subseteq S \cup {x}
                   PROVE  IsFiniteSet(T) /\ Cardinality(T) <= Cardinality(S) + 1
<1>1. IsFiniteSet(S \cup {x}) /\ Cardinality(S \cup {x}) <= Cardinality(S) + 1
  BY FS_AddElement, Count
<1>2. IsFiniteSet(T) /\ Cardinality(T) <= Cardinality(S \cup {x})
  BY <1>1, CountPart
<1>3. Cardinality(T) \in Nat /\ Cardinality(S) \in Nat /\ Cardinality(S \cup {x}) \in Nat
  BY <1>1, <1>2, Count
<1>4. QED
  BY <1>1, <1>2, <1>3

LEMMA WorkerCount == ASSUME Quota!ChatQuotaConstants
                     PROVE  IsFiniteSet(Worker) /\ Cardinality(Worker) \in Nat \ {0}
<1>1. IsFiniteSet(Worker) /\ Worker # {}
  BY QuotaSets DEF Quota!ChatQuotaConstants
<1>2. QED
  BY <1>1, FS_EmptySet, Count

\* A check that was passed: there was room.
LEMMA RoomEntered ==
    ASSUME Quota!ChatQuotaConstants, NEW rows, NEW passed, NEW cap \in Nat,
           IsFiniteSet(rows), passed \subseteq Worker, Cardinality(rows) < cap
    PROVE  Room(rows, passed, cap)
<1>1. Cardinality(passed) \in Nat /\ Cardinality(passed) <= Cardinality(Worker)
  BY WorkerCount, CountPart, Count
<1>2. Cardinality(rows) \in Nat /\ Cardinality(Worker) \in Nat
  BY WorkerCount, Count
<1>3. QED
  BY <1>1, <1>2 DEF Room

\* A row that was added by one of those that had passed.
LEMMA RoomUsed ==
    ASSUME Quota!ChatQuotaConstants, NEW rows, NEW passed, NEW cap \in Nat, Room(rows, passed, cap),
           IsFiniteSet(rows), passed \subseteq Worker,
           NEW w \in passed, NEW x, NEW more, more \subseteq rows \cup {x},
           NEW left, left \subseteq passed \ {w}
    PROVE  Room(more, left, cap)
<1>1. IsFiniteSet(passed) /\ Cardinality(Worker) \in Nat
  BY WorkerCount, CountPart
<1>2. IsFiniteSet(passed \ {w}) /\ Cardinality(passed \ {w}) = Cardinality(passed) - 1
  BY <1>1, FS_RemoveElement
<1>3. IsFiniteSet(left) /\ Cardinality(left) <= Cardinality(passed \ {w})
  BY <1>2, CountPart
<1>4. IsFiniteSet(more) /\ Cardinality(more) <= Cardinality(rows) + 1
  BY CountMore
<1>5. /\ Cardinality(passed) \in Nat /\ Cardinality(left) \in Nat /\ Cardinality(rows) \in Nat
      /\ Cardinality(more) \in Nat
  BY <1>1, <1>3, <1>4, Count
<1>6. cap # 0
  BY DEF Room
<1>7. Cardinality(rows) + Cardinality(passed) < cap + Cardinality(Worker)
  BY DEF Room
<1>8. Cardinality(more) + Cardinality(left) < cap + Cardinality(Worker)
  BY <1>1, <1>2, <1>3, <1>4, <1>5, <1>7
<1>9. QED
  BY <1>6, <1>8 DEF Room

\* Nothing was added.
LEMMA RoomLeft ==
    ASSUME Quota!ChatQuotaConstants, NEW rows, NEW passed, NEW cap \in Nat, Room(rows, passed, cap),
           IsFiniteSet(rows), passed \subseteq Worker,
           NEW fewer, IsFiniteSet(fewer), Cardinality(fewer) <= Cardinality(rows),
           NEW left, left \subseteq passed
    PROVE  Room(fewer, left, cap)
<1>1. IsFiniteSet(passed) /\ Cardinality(Worker) \in Nat
  BY WorkerCount, CountPart
<1>2. IsFiniteSet(left) /\ Cardinality(left) <= Cardinality(passed)
  BY <1>1, CountPart
<1>3. /\ Cardinality(passed) \in Nat /\ Cardinality(left) \in Nat /\ Cardinality(rows) \in Nat
      /\ Cardinality(fewer) \in Nat
  BY <1>1, <1>2, Count
<1>4. Cardinality(fewer) + Cardinality(left) < cap + Cardinality(Worker)
  BY <1>1, <1>2, <1>3 DEF Room
<1>5. QED
  BY <1>4 DEF Room

\* A window begins: whoever had passed before has passed.
LEMMA RoomRenewed ==
    ASSUME Quota!ChatQuotaConstants, NEW rows, NEW passed, NEW cap \in Nat, Room(rows, passed, cap),
           passed \subseteq Worker
    PROVE  Room({}, passed, cap)
<1>1. Cardinality({}) = 0
  BY FS_EmptySet
<1>2. IsFiniteSet(passed) /\ Cardinality(passed) <= Cardinality(Worker)
  BY WorkerCount, CountPart
<1>3. Cardinality(passed) \in Nat /\ Cardinality(Worker) \in Nat \ {0}
  BY <1>2, WorkerCount, Count
<1>4. CASE passed = {}
  BY <1>1, <1>3, <1>4, FS_EmptySet DEF Room
<1>5. CASE passed # {}
  BY <1>1, <1>2, <1>3, <1>5 DEF Room
<1>6. QED
  BY <1>4, <1>5

\* What a step does to the rows.

LEMMA RowTyped ==
    ASSUME Quota!TypeOK, NEW id \in 1 .. MaxMessages, NEW c \in Conv, NEW role \in {"user", "assistant"},
           NEW kind \in Quota!Kinds, NEW reply \in {Quota!NoReply, "pending", "spent", "free"}
    PROVE  LET m == Quota!Row(id, c, role, kind, reply) IN
           /\ m \in Quota!Messages /\ m.id = id /\ m.conv = c /\ m.role = role /\ m.kind = kind
           /\ m.window = window /\ m.reply = reply
BY DEF Quota!Row, Quota!Messages, Quota!TypeOK

LEMMA ChatIsAKind == "chat" \in Quota!Kinds
BY DEF Quota!Kinds

\* A question: one row of the user, and of the replies only the first has its kind.
LEMMA QuestionRows ==
    ASSUME Quota!TypeOK, NEW c \in Conv, NEW kind \in Quota!Kinds, nextId + Quota!Ids(kind) <= MaxMessages + 1, MaxMessages \in Nat
    PROVE  /\ nextId \in 1 .. MaxMessages
           /\ Quota!Question(c, kind) \subseteq Quota!Messages /\ IsFiniteSet(Quota!Question(c, kind))
           /\ \A m \in Quota!Question(c, kind) :
                /\ m.conv = c /\ m.window = window /\ m.id < nextId + Quota!Ids(kind)
                /\ m.role = "user" <=> m.reply = Quota!NoReply
                /\ m.role = "user" => m = Quota!Row(nextId, c, "user", kind, Quota!NoReply)
                /\ m.role = "assistant" => m = Quota!Row(nextId, c, "assistant", kind, "pending") \/ m.kind = "chat"
                /\ m.reply # "spent"
<1>1. nextId \in 1 .. MaxMessages /\ (kind = "compare" => nextId + 1 \in 1 .. MaxMessages)
  BY DEF Quota!TypeOK, Quota!Ids
<1> DEFINE a == Quota!Row(nextId, c, "user", kind, Quota!NoReply)
           b == Quota!Row(nextId, c, "assistant", kind, "pending")
           d == Quota!Row(nextId + 1, c, "assistant", "chat", "pending")
<1>2. /\ a \in Quota!Messages /\ a.id = nextId /\ a.conv = c /\ a.role = "user" /\ a.window = window /\ a.reply = Quota!NoReply
  BY <1>1, RowTyped
<1>3. /\ b \in Quota!Messages /\ b.id = nextId /\ b.conv = c /\ b.role = "assistant" /\ b.window = window
      /\ b.reply = "pending"
  BY <1>1, RowTyped
<1>4. kind = "compare" =>
        /\ d \in Quota!Messages /\ d.id = nextId + 1 /\ d.conv = c /\ d.role = "assistant" /\ d.window = window
        /\ d.reply = "pending" /\ d.kind = "chat"
  BY <1>1, RowTyped, ChatIsAKind
<1>5. Quota!Question(c, kind) = {a, b} \cup IF kind = "compare" THEN {d} ELSE {}
  BY DEF Quota!Question
<1>6. Quota!Ids(kind) = (IF kind = "compare" THEN 2 ELSE 1) /\ nextId \in Nat
  BY <1>1 DEF Quota!Ids
<1> HIDE DEF a, b, d
<1>7. IsFiniteSet({a}) /\ IsFiniteSet({a} \cup {b}) /\ IsFiniteSet(({a} \cup {b}) \cup {d})
  BY FS_Singleton, FS_AddElement
<1>8. IsFiniteSet(Quota!Question(c, kind))
  <2>1. Quota!Question(c, kind) \subseteq ({a} \cup {b}) \cup {d}
    BY <1>5
  <2>2. QED
    BY <1>7, <2>1, CountPart
<1>9. \A m \in Quota!Question(c, kind) : m = a \/ m = b \/ (kind = "compare" /\ m = d)
  BY <1>5
<1>10. a.id < nextId + Quota!Ids(kind) /\ b.id < nextId + Quota!Ids(kind) /\ (kind = "compare" => d.id < nextId + Quota!Ids(kind))
  BY <1>2, <1>3, <1>4, <1>6
<1>11. "user" # "assistant" /\ Quota!NoReply # "pending" /\ Quota!NoReply # "spent" /\ "pending" # "spent"
  BY DEF Quota!NoReply
<1>12. ASSUME NEW m \in Quota!Question(c, kind)
       PROVE  /\ m \in Quota!Messages /\ m.conv = c /\ m.window = window /\ m.id < nextId + Quota!Ids(kind)
              /\ m.role = "user" <=> m.reply = Quota!NoReply
              /\ m.role = "user" => m = a
              /\ m.role = "assistant" => m = b \/ m.kind = "chat"
              /\ m.reply # "spent"
  BY <1>2, <1>3, <1>4, <1>9, <1>10, <1>11
<1>13. QED
  BY <1>1, <1>8, <1>12 DEF a, b

\* Rows that are written again keep all but their reply; a question stays as it is.
Rewritten(f) ==
    /\ f \in [messages -> Quota!Messages] /\ messages' = {f[m] : m \in messages}
    /\ \A m \in messages :
         /\ f[m].id = m.id /\ f[m].conv = m.conv /\ f[m].role = m.role
         /\ f[m].kind = m.kind /\ f[m].window = m.window
         /\ m.role = "user" => f[m] = m
         /\ m.role = "assistant" => f[m].reply # Quota!NoReply

LEMMA RegenerateRewrites ==
    ASSUME Quota!TypeOK, NEW w \in Worker, Quota!Regenerate(w)
    PROVE  \E f : Rewritten(f)
<1> DEFINE g(m) == IF m.id = req[w].id /\ m.role = "assistant" THEN [m EXCEPT !.reply = "pending"] ELSE m
           f == [m \in messages |-> g(m)]
<1>1. messages' = {f[m] : m \in messages}
  BY DEF Quota!Regenerate
<1>2. ASSUME NEW m \in messages
      PROVE  /\ f[m] \in Quota!Messages /\ f[m].id = m.id /\ f[m].conv = m.conv /\ f[m].role = m.role
             /\ f[m].kind = m.kind /\ f[m].window = m.window
             /\ m.role = "user" => f[m] = m
             /\ m.role = "assistant" => f[m].reply # Quota!NoReply
  <2>1. m \in Quota!Messages /\ f[m] = g(m) /\ (m.role = "user" <=> m.reply = Quota!NoReply)
    BY DEF Quota!TypeOK
  <2> DEFINE n == [m EXCEPT !.reply = "pending"]
  <2>2. /\ n \in Quota!Messages /\ n.id = m.id /\ n.conv = m.conv /\ n.role = m.role
        /\ n.kind = m.kind /\ n.window = m.window /\ n.reply = "pending"
    BY <2>1 DEF Quota!Messages
  <2> HIDE DEF n
  <2>3. f[m] = n \/ f[m] = m
    BY <2>1 DEF n
  <2>4. m.role = "user" => f[m] = m
    BY <2>1
  <2>5. m.role = "assistant" => m.reply # Quota!NoReply
    BY <2>1
  <2> HIDE DEF f
  <2>6. QED
    BY <2>1, <2>2, <2>3, <2>4, <2>5 DEF Quota!NoReply
<1>3. f \in [messages -> Quota!Messages]
  BY <1>2
<1> HIDE DEF f
<1>4. Rewritten(f)
  BY <1>1, <1>2, <1>3 DEF Rewritten
<1>5. QED
  BY <1>4

LEMMA AnswerRewrites ==
    ASSUME Quota!TypeOK, NEW a \in messages, Quota!Answer(a)
    PROVE  \E f : Rewritten(f)
<1> DEFINE n == [a EXCEPT !.reply = "spent"]
           f == [m \in messages |-> IF m = a THEN n ELSE m]
<1>1. a \in Quota!Messages /\ a.reply = "pending" /\ messages' = (messages \ {a}) \cup {n}
  BY DEF Quota!Answer, Quota!TypeOK
<1>2. /\ n \in Quota!Messages /\ n.id = a.id /\ n.conv = a.conv /\ n.role = a.role
      /\ n.kind = a.kind /\ n.window = a.window /\ n.reply = "spent"
  BY <1>1 DEF Quota!Messages
<1> HIDE DEF n
<1>3. messages' = {f[m] : m \in messages}
  BY <1>1
<1>4. ASSUME NEW m \in messages
      PROVE  /\ f[m] \in Quota!Messages /\ f[m].id = m.id /\ f[m].conv = m.conv /\ f[m].role = m.role
             /\ f[m].kind = m.kind /\ f[m].window = m.window
             /\ m.role = "user" => f[m] = m
             /\ m.role = "assistant" => f[m].reply # Quota!NoReply
  <2>1. m \in Quota!Messages /\ (m.role = "user" <=> m.reply = Quota!NoReply)
    BY DEF Quota!TypeOK
  <2>2. a.role # "user"
    BY <1>1 DEF Quota!TypeOK, Quota!NoReply
  <2>3. QED
    BY <1>2, <2>1, <2>2 DEF Quota!NoReply
<1>5. f \in [messages -> Quota!Messages]
  BY <1>4
<1> HIDE DEF f
<1>6. Rewritten(f)
  BY <1>3, <1>4, <1>5 DEF Rewritten
<1>7. QED
  BY <1>6

LEMMA RewrittenKeeps ==
    ASSUME Quota!TypeOK, NEW f, Rewritten(f), UNCHANGED window
    PROVE  /\ messages' \subseteq Quota!Messages /\ IsFiniteSet(messages')
           /\ \A n \in messages' :
                /\ \E m \in messages : n.id = m.id /\ n.conv = m.conv /\ n.window = m.window
                /\ n.role = "user" <=> n.reply = Quota!NoReply
           /\ Quota!Now("user")' = Quota!Now("user") /\ \A c \in Conv : Plain(c)' = Plain(c)
           /\ \A kind \in Quota!Kinds : /\ IsFiniteSet(UsedBy(kind)')
                                        /\ Cardinality(UsedBy(kind)') <= Cardinality(UsedBy(kind))
<1> USE DEF Rewritten
<1>1. messages \subseteq Quota!Messages /\ IsFiniteSet(messages) /\ \A m \in messages : m.role = "user" <=> m.reply = Quota!NoReply
  BY QuotaSets DEF Quota!TypeOK
<1>2. f \in Surjection(messages, messages')
  BY DEF Surjection
<1>3. messages' \subseteq Quota!Messages /\ IsFiniteSet(messages')
  BY <1>1, <1>2, FS_Surjection
<1>4. ASSUME NEW n \in messages'
      PROVE  \E m \in messages : n.id = m.id /\ n.conv = m.conv /\ n.window = m.window
  OBVIOUS
<1>5. ASSUME NEW n \in messages'
      PROVE  n.role = "user" <=> n.reply = Quota!NoReply
  <2>1. PICK m \in messages : n = f[m]
    OBVIOUS
  <2>2. m.role \in {"user", "assistant"}
    BY <1>1 DEF Quota!Messages
  <2>3. QED
    BY <1>1, <2>1, <2>2
<1>6. \A n : n.role = "user" => (n \in messages' <=> n \in messages)
  OBVIOUS
<1>7. Quota!Now("user")' = Quota!Now("user") /\ \A c \in Conv : Plain(c)' = Plain(c)
  BY <1>6 DEF Quota!Now, Plain
<1>8. ASSUME NEW kind \in Quota!Kinds
      PROVE  IsFiniteSet(UsedBy(kind)') /\ Cardinality(UsedBy(kind)') <= Cardinality(UsedBy(kind))
  <2> DEFINE S == UsedBy(kind)
             T == {n \in messages' : n.role = "assistant" /\ n.window = window /\ n.kind = kind}
             h == [m \in S |-> f[m]]
  <2>1. S = {m \in messages : m.role = "assistant" /\ m.window = window /\ m.kind = kind}
    BY DEF UsedBy, Quota!Now
  <2>2. T = UsedBy(kind)'
    BY DEF UsedBy, Quota!Now
  <2>3. IsFiniteSet(S)
    BY <1>1, <2>1, CountPart
  <2>4. h \in Surjection(S, T)
    BY <2>1 DEF Surjection
  <2>5. IsFiniteSet(T) /\ Cardinality(T) <= Cardinality(S)
    BY <2>3, <2>4, FS_Surjection
  <2>6. QED
    BY <2>2, <2>5
<1>9. QED
  BY <1>3, <1>4, <1>5, <1>7, <1>8

\* Types.

\* The request w goes on as r.
GoesOn(w, r) ==
    /\ r \in Quota!Progress /\ req' = [req EXCEPT ![w] = r]
    /\ r.pc \in Using => r.conv \in Conv /\ conv'[r.conv] # None
    /\ r.pc = "generating" => r.kind = "media"
    /\ r.pc = "asked" => r.kind # "regenerate"

LEMMA GoingOnKeeps ==
    ASSUME Quota!TypeOK, RequestsOK, NEW w \in Worker, NEW r, GoesOn(w, r),
           \A c \in Conv : conv[c] # None => conv'[c] # None
    PROVE  RequestsOK' /\ req' \in [Worker -> Quota!Progress]
BY DEF Quota!TypeOK, RequestsOK, GoesOn

LEMMA IdleGoesOn == ASSUME Quota!ChatQuotaConstants, NEW w, req' = [req EXCEPT ![w] = Quota!Idle] PROVE GoesOn(w, Quota!Idle)
<1>1. MaxMessages \in Nat
  BY DEF Quota!ChatQuotaConstants
<1>2. 0 \in 0 .. MaxMessages
  BY <1>1
<1>3. Quota!Idle \in Quota!Progress /\ Quota!Idle.pc = "idle"
  BY <1>2, ChatIsAKind DEF Quota!Idle, Quota!Progress
<1>4. QED
  BY <1>3 DEF GoesOn, Using

LEMMA StepFields ==
    ASSUME Quota!TypeOK, NEW w \in Worker, NEW at \in {"idle", "starting", "asked", "checked", "generating"}
    PROVE  LET r == [req[w] EXCEPT !.pc = at] IN
           r \in Quota!Progress /\ r.pc = at /\ r.conv = req[w].conv /\ r.kind = req[w].kind /\ r.id = req[w].id
<1>1. req[w] \in Quota!Progress
  BY DEF Quota!TypeOK
<1>2. QED
  BY <1>1 DEF Quota!Progress

\* Steps that only read.
LEMMA ReadingKeeps ==
    ASSUME Quota!TypeOK, RequestsOK, NEW w \in Worker, NEW r, GoesOn(w, r), UNCHANGED <<window, conv, messages, nextId>>
    PROVE  Quota!TypeOK' /\ RequestsOK'
<1>1. RequestsOK' /\ req' \in [Worker -> Quota!Progress]
  BY GoingOnKeeps
<1>2. QED
  BY <1>1 DEF Quota!TypeOK

\* Steps that write messages.
LEMMA WritingKeeps ==
    ASSUME Quota!TypeOK, RequestsOK, NEW w \in Worker, NEW r, GoesOn(w, r), UNCHANGED <<window, conv>>,
           messages' \subseteq Quota!Messages, IsFiniteSet(messages'), nextId' \in 1 .. (MaxMessages + 1),
           \A m \in messages' :
             /\ m.id < nextId' /\ m.window <= window /\ conv[m.conv] # None
             /\ m.role = "user" <=> m.reply = Quota!NoReply
    PROVE  Quota!TypeOK' /\ RequestsOK'
<1>1. RequestsOK' /\ req' \in [Worker -> Quota!Progress]
  BY GoingOnKeeps
<1>2. QED
  BY <1>1, QuotaSets DEF Quota!TypeOK

\* Rows that are added, after some were taken away.
LEMMA AddingKeeps ==
    ASSUME Quota!ChatQuotaConstants, Quota!TypeOK, RequestsOK, NEW w \in Worker, NEW r, GoesOn(w, r), UNCHANGED <<window, conv>>,
           NEW new, new \subseteq Quota!Messages, IsFiniteSet(new), messages' \subseteq messages \cup new,
           nextId' \in nextId .. (MaxMessages + 1),
           \A m \in new : /\ m.id < nextId' /\ m.window = window /\ conv[m.conv] # None
                          /\ m.role = "user" <=> m.reply = Quota!NoReply
    PROVE  Quota!TypeOK' /\ RequestsOK'
<1>1. messages \subseteq Quota!Messages /\ IsFiniteSet(messages) /\ nextId \in 1 .. (MaxMessages + 1)
  BY QuotaSets DEF Quota!TypeOK
<1>2. IsFiniteSet(messages \cup new)
  BY <1>1, FS_Union
<1>3. IsFiniteSet(messages')
  BY <1>2, CountPart
<1>4. MaxMessages \in Nat /\ window \in Nat
  BY DEF Quota!ChatQuotaConstants, Quota!TypeOK
<1>5. nextId' \in 1 .. (MaxMessages + 1) /\ nextId <= nextId'
  BY <1>1, <1>4
<1>6. \A m \in Quota!Messages : m.id \in Nat
  BY <1>4 DEF Quota!Messages
<1>7. \A m \in messages : /\ m.id < nextId' /\ m.window <= window /\ conv[m.conv] # None
                          /\ m.role = "user" <=> m.reply = Quota!NoReply
  <2> SUFFICES ASSUME NEW m \in messages
               PROVE  m.id < nextId'
    BY DEF Quota!TypeOK
  <2>1. m.id < nextId /\ m.id \in Nat
    BY <1>1, <1>6 DEF Quota!TypeOK
  <2>2. QED
    BY <2>1, <1>1, <1>4, <1>5
<1>8. \A m \in messages' : /\ m.id < nextId' /\ m.window <= window /\ conv[m.conv] # None
                           /\ m.role = "user" <=> m.reply = Quota!NoReply
  BY <1>4, <1>7
<1>9. QED
  BY <1>1, <1>3, <1>5, <1>8, WritingKeeps

LEMMA RefusedKeeps ==
    ASSUME Quota!ChatQuotaConstants, Quota!TypeOK, RequestsOK, NEW w \in Worker, Quota!CheckSession(w) \/ Quota!CheckLimits(w) \/ Quota!Refuse(w)
    PROVE  Quota!TypeOK' /\ RequestsOK'
<1>1. CASE Quota!CheckSession(w)
  <2> DEFINE r == [req[w] EXCEPT !.pc = "starting"]
  <2>1. r \in Quota!Progress /\ r.pc = "starting"
    BY StepFields
  <2>2. req' = [req EXCEPT ![w] = r] /\ UNCHANGED <<window, conv, messages, nextId>>
    BY <1>1 DEF Quota!CheckSession, Quota!Step, Quota!To
  <2> HIDE DEF r
  <2>3. GoesOn(w, r)
    BY <2>1, <2>2 DEF GoesOn, Using
  <2>4. QED
    BY <2>2, <2>3, ReadingKeeps
<1>2. CASE Quota!CheckLimits(w)
  <2> DEFINE r == [req[w] EXCEPT !.pc = "checked"]
  <2>1. r \in Quota!Progress /\ r.pc = "checked" /\ r.conv = req[w].conv
    BY StepFields
  <2>2. req' = [req EXCEPT ![w] = r] /\ UNCHANGED <<window, conv, messages, nextId>> /\ req[w].pc = "asked"
    BY <1>2 DEF Quota!CheckLimits, Quota!Step, Quota!To
  <2> HIDE DEF r
  <2>3. GoesOn(w, r)
    BY <2>1, <2>2 DEF GoesOn, Using, RequestsOK
  <2>4. QED
    BY <2>2, <2>3, ReadingKeeps
<1>3. CASE Quota!Refuse(w)
  <2>1. req' = [req EXCEPT ![w] = Quota!Idle] /\ UNCHANGED <<window, conv, messages, nextId>>
    BY <1>3 DEF Quota!Refuse, Quota!To
  <2>2. QED
    BY <2>1, IdleGoesOn, ReadingKeeps
<1>4. QED
  BY <1>1, <1>2, <1>3

LEMMA AskedKeeps ==
    ASSUME Quota!ChatQuotaConstants, Quota!TypeOK, RequestsOK, NEW w \in Worker
    PROVE  /\ \A c \in Conv, kind \in Quota!Kinds : Quota!CheckKind(w, c, kind) => Quota!TypeOK' /\ RequestsOK'
           /\ \A m \in messages : Quota!LoadQuestion(w, m) \/ Quota!LoadReply(w, m) => Quota!TypeOK' /\ RequestsOK'
<1>1. MaxMessages \in Nat /\ 0 \in 0 .. MaxMessages
  BY DEF Quota!ChatQuotaConstants
<1>2. ASSUME NEW c \in Conv, NEW kind \in Quota!Kinds, Quota!CheckKind(w, c, kind)
      PROVE  Quota!TypeOK' /\ RequestsOK'
  <2> DEFINE r == [pc |-> "asked", conv |-> c, kind |-> kind, id |-> 0]
  <2>1. r \in Quota!Progress /\ r.pc = "asked" /\ r.conv = c /\ r.kind = kind
    BY <1>1 DEF Quota!Progress
  <2>2. req' = [req EXCEPT ![w] = r] /\ UNCHANGED <<window, conv, messages, nextId>> /\ conv[c] # None
    BY <1>2 DEF Quota!CheckKind, Quota!To
  <2> HIDE DEF r
  <2>3. kind # "regenerate"
    BY DEF Quota!Kinds, Quota!Capped, Quota!ChatQuotaConstants
  <2>4. GoesOn(w, r)
    BY <2>1, <2>2, <2>3 DEF GoesOn, Using
  <2>5. QED
    BY <2>2, <2>4, ReadingKeeps
<1>3. ASSUME NEW m \in messages, Quota!LoadQuestion(w, m) \/ Quota!LoadReply(w, m)
      PROVE  Quota!TypeOK' /\ RequestsOK'
  <2>1. m.conv \in Conv /\ conv[m.conv] # None /\ m.id \in 0 .. MaxMessages
    <3>1. m.conv \in Conv /\ conv[m.conv] # None /\ m.id \in 1 .. MaxMessages
      BY DEF Quota!TypeOK, Quota!Messages
    <3>2. QED
      BY <3>1, <1>1
  <2>2. UNCHANGED <<window, conv, messages, nextId>>
    BY <1>3 DEF Quota!LoadQuestion, Quota!LoadReply
  <2>3. CASE Quota!LoadQuestion(w, m)
    <3> DEFINE r == [pc |-> "asked", conv |-> m.conv, kind |-> "edit", id |-> m.id]
    <3>1. r \in Quota!Progress /\ r.pc = "asked" /\ r.conv = m.conv /\ r.kind = "edit"
      BY <2>1 DEF Quota!Progress
    <3>2. req' = [req EXCEPT ![w] = r]
      BY <2>3 DEF Quota!LoadQuestion, Quota!To
    <3> HIDE DEF r
    <3>3. GoesOn(w, r)
      BY <2>1, <2>2, <3>1, <3>2 DEF GoesOn, Using
    <3>4. QED
      BY <2>2, <3>3, ReadingKeeps
  <2>4. CASE Quota!LoadReply(w, m)
    <3> DEFINE r == [pc |-> "checked", conv |-> m.conv, kind |-> "regenerate", id |-> m.id]
    <3>1. r \in Quota!Progress /\ r.pc = "checked" /\ r.conv = m.conv /\ r.kind = "regenerate"
      BY <2>1 DEF Quota!Progress
    <3>2. req' = [req EXCEPT ![w] = r]
      BY <2>4 DEF Quota!LoadReply, Quota!To
    <3> HIDE DEF r
    <3>3. GoesOn(w, r)
      BY <2>1, <2>2, <3>1, <3>2 DEF GoesOn, Using
    <3>4. QED
      BY <2>2, <3>3, ReadingKeeps
  <2>5. QED
    BY <1>3, <2>3, <2>4
<1>4. QED
  BY <1>2, <1>3

LEMMA PostKeeps ==
    ASSUME Quota!ChatQuotaConstants, Quota!TypeOK, RequestsOK, NEW w \in Worker, Quota!Post(w) \/ Quota!Edit(w)
    PROVE  Quota!TypeOK' /\ RequestsOK'
<1> DEFINE c == req[w].conv
           kind == IF Quota!Post(w) THEN req[w].kind ELSE "chat"
<1>1. req[w].pc = "checked" /\ c \in Conv /\ conv[c] # None
  BY DEF Quota!Post, Quota!Edit, RequestsOK, Using
<1>2. kind \in Quota!Kinds
  BY ChatIsAKind DEF Quota!Post
<1>3. /\ nextId + Quota!Ids(kind) <= MaxMessages + 1 /\ nextId' = nextId + Quota!Ids(kind)
      /\ messages' \subseteq messages \cup Quota!Question(c, kind)
      /\ req' = [req EXCEPT ![w] = Quota!Idle] /\ UNCHANGED <<window, conv>>
  <2>1. CASE Quota!Post(w)
    BY <2>1 DEF Quota!Post, Quota!To
  <2>2. CASE ~Quota!Post(w)
    <3>1. Quota!Edit(w) /\ kind = "chat" /\ Quota!Ids(kind) = 1
      BY <2>2 DEF Quota!Ids
    <3>2. nextId \in Nat /\ MaxMessages \in Nat /\ nextId <= MaxMessages
      BY <3>1 DEF Quota!Edit, Quota!TypeOK, Quota!ChatQuotaConstants
    <3>3. messages' \subseteq messages \cup Quota!Question(c, "chat") /\ nextId' = nextId + 1
          /\ req' = [req EXCEPT ![w] = Quota!Idle] /\ UNCHANGED <<window, conv>>
      BY <3>1 DEF Quota!Edit, Quota!To
    <3>4. QED
      BY <3>1, <3>2, <3>3
  <2>3. QED
    BY <2>1, <2>2
<1>4. MaxMessages \in Nat /\ nextId \in Nat /\ Quota!Ids(kind) \in {1, 2}
  BY DEF Quota!ChatQuotaConstants, Quota!TypeOK, Quota!Ids
<1> HIDE DEF kind
<1>5. /\ Quota!Question(c, kind) \subseteq Quota!Messages /\ IsFiniteSet(Quota!Question(c, kind))
      /\ \A m \in Quota!Question(c, kind) : /\ m.conv = c /\ m.window = window /\ m.id < nextId + Quota!Ids(kind)
                                            /\ m.role = "user" <=> m.reply = Quota!NoReply
  BY <1>1, <1>2, <1>3, <1>4, QuestionRows
<1>6. nextId' \in nextId .. (MaxMessages + 1)
  BY <1>3, <1>4
<1>7. GoesOn(w, Quota!Idle)
  BY <1>3, IdleGoesOn
<1>8. QED
  BY <1>1, <1>3, <1>5, <1>6, <1>7, AddingKeeps

LEMMA MediaKeeps ==
    ASSUME Quota!ChatQuotaConstants, Quota!TypeOK, RequestsOK, NEW w \in Worker, Quota!PostPrompt(w) \/ Quota!SaveMedia(w)
    PROVE  Quota!TypeOK' /\ RequestsOK'
<1> DEFINE c == req[w].conv
<1>1. c \in Conv /\ conv[c] # None /\ req[w].kind = "media"
  BY DEF Quota!PostPrompt, Quota!SaveMedia, RequestsOK, Using
<1>2. MaxMessages \in Nat /\ nextId \in 1 .. MaxMessages /\ nextId' = nextId + 1 /\ UNCHANGED <<window, conv>>
  BY DEF Quota!ChatQuotaConstants, Quota!PostPrompt, Quota!SaveMedia, Quota!TypeOK
<1>3. nextId' \in nextId .. (MaxMessages + 1)
  BY <1>2
<1>4. "media" \in Quota!Kinds
  BY <1>1 DEF Quota!TypeOK, Quota!Progress
<1>5. ASSUME NEW m, m \in Quota!Messages, m.id = nextId, m.conv = c, m.window = window, m.role = "user" <=> m.reply = Quota!NoReply,
             messages' = messages \cup {m}, NEW r, GoesOn(w, r)
      PROVE  Quota!TypeOK' /\ RequestsOK'
  <2>1. {m} \subseteq Quota!Messages /\ IsFiniteSet({m}) /\ messages' \subseteq messages \cup {m}
    BY <1>5, FS_Singleton
  <2>2. \A x \in {m} : /\ x.id < nextId' /\ x.window = window /\ conv[x.conv] # None
                       /\ x.role = "user" <=> x.reply = Quota!NoReply
    BY <1>1, <1>2, <1>5
  <2>3. QED
    BY <1>2, <1>3, <1>5, <2>1, <2>2, AddingKeeps
<1>6. CASE Quota!PostPrompt(w)
  <2> DEFINE m == Quota!Row(nextId, c, "user", "media", Quota!NoReply)
             r == [req[w] EXCEPT !.pc = "generating"]
  <2>1. r \in Quota!Progress /\ r.pc = "generating" /\ r.conv = c /\ r.kind = "media"
    BY <1>1, StepFields
  <2>2. req' = [req EXCEPT ![w] = r] /\ messages' = messages \cup {m}
    BY <1>6 DEF Quota!PostPrompt, Quota!Step, Quota!To
  <2> HIDE DEF r
  <2>3. GoesOn(w, r)
    BY <1>1, <1>2, <2>1, <2>2 DEF GoesOn, Using
  <2>4. m \in Quota!Messages /\ m.id = nextId /\ m.conv = c /\ m.window = window /\ (m.role = "user" <=> m.reply = Quota!NoReply)
    BY <1>1, <1>2, <1>4, RowTyped
  <2> HIDE DEF m
  <2>5. QED
    BY <1>5, <2>2, <2>3, <2>4
<1>7. CASE Quota!SaveMedia(w)
  <2>1. PICK kind \in {"media", "chat"} : messages' = messages \cup {Quota!Row(nextId, c, "assistant", kind, "free")}
    BY <1>7 DEF Quota!SaveMedia
  <2> DEFINE m == Quota!Row(nextId, c, "assistant", kind, "free")
  <2>2. kind \in Quota!Kinds
    BY <1>4, ChatIsAKind
  <2>3. m \in Quota!Messages /\ m.id = nextId /\ m.conv = c /\ m.window = window /\ m.role = "assistant" /\ m.reply = "free"
    <3>1. "free" \in {Quota!NoReply, "pending", "spent", "free"} /\ "assistant" \in {"user", "assistant"}
      OBVIOUS
    <3>2. nextId \in 1 .. MaxMessages /\ c \in Conv
      BY <1>1, <1>2
    <3>3. QED
      BY <2>2, <3>1, <3>2, RowTyped
  <2>4. messages' = messages \cup {m}
    BY <2>1
  <2> HIDE DEF m
  <2>5. GoesOn(w, Quota!Idle)
    BY <1>7, IdleGoesOn DEF Quota!SaveMedia, Quota!To
  <2>6. QED
    BY <1>5, <2>3, <2>4, <2>5 DEF Quota!NoReply
<1>8. QED
  BY <1>6, <1>7

LEMMA RewritingKeeps ==
    ASSUME Quota!ChatQuotaConstants, Quota!TypeOK, RequestsOK
    PROVE  /\ \A w \in Worker : Quota!Regenerate(w) => Quota!TypeOK' /\ RequestsOK'
           /\ \A m \in messages : Quota!Answer(m) => Quota!TypeOK' /\ RequestsOK'
<1>1. ASSUME NEW f, Rewritten(f), UNCHANGED <<window, conv, nextId>>
      PROVE  /\ messages' \subseteq Quota!Messages /\ IsFiniteSet(messages')
             /\ \A m \in messages' :
                  /\ m.id < nextId' /\ m.window <= window /\ conv[m.conv] # None
                  /\ m.role = "user" <=> m.reply = Quota!NoReply
  BY <1>1, RewrittenKeeps DEF Quota!TypeOK
<1>2. ASSUME NEW w \in Worker, Quota!Regenerate(w)
      PROVE  Quota!TypeOK' /\ RequestsOK'
  <2>1. UNCHANGED <<window, conv, nextId>> /\ req' = [req EXCEPT ![w] = Quota!Idle] /\ nextId \in 1 .. (MaxMessages + 1)
    BY <1>2 DEF Quota!Regenerate, Quota!To, Quota!TypeOK
  <2>2. PICK f : Rewritten(f)
    BY <1>2, RegenerateRewrites
  <2>3. QED
    BY <1>1, <2>1, <2>2, IdleGoesOn, WritingKeeps
<1>3. ASSUME NEW m \in messages, Quota!Answer(m)
      PROVE  Quota!TypeOK' /\ RequestsOK'
  <2>1. UNCHANGED <<window, conv, nextId, req>>
    BY <1>3 DEF Quota!Answer
  <2>2. PICK f : Rewritten(f)
    BY <1>3, AnswerRewrites
  <2>3. QED
    BY <1>1, <2>1, <2>2, QuotaSets DEF Quota!TypeOK, RequestsOK
<1>4. QED
  BY <1>2, <1>3

\* A conversation that is started, or deleted.
LEMMA RowOfConversation ==
    ASSUME Quota!ChatQuotaConstants, Quota!TypeOK
    PROVE  /\ \A c \in Conv : conv[c] # None =>
                /\ conv[c] \in [window : 1 .. MaxWindows, live : BOOLEAN]
                /\ [conv[c] EXCEPT !.live = FALSE] \in [window : 1 .. MaxWindows, live : BOOLEAN]
                /\ [conv[c] EXCEPT !.live = FALSE] # None
                /\ [conv[c] EXCEPT !.live = FALSE].window = conv[c].window
           /\ [window |-> window, live |-> TRUE] \in [window : 1 .. MaxWindows, live : BOOLEAN]
           /\ [window |-> window, live |-> TRUE] # None
<1>1. \A r \in [window : 1 .. MaxWindows, live : BOOLEAN] :
        /\ r # None /\ [r EXCEPT !.live = FALSE] \in [window : 1 .. MaxWindows, live : BOOLEAN]
        /\ [r EXCEPT !.live = FALSE].window = r.window
  BY DEF Quota!ChatQuotaConstants
<1>2. \A c \in Conv : conv[c] # None => conv[c] \in [window : 1 .. MaxWindows, live : BOOLEAN]
  BY DEF Quota!TypeOK
<1>3. [window |-> window, live |-> TRUE] \in [window : 1 .. MaxWindows, live : BOOLEAN]
  BY DEF Quota!TypeOK
<1>4. QED
  BY <1>1, <1>2, <1>3

LEMMA ConversationKeeps ==
    ASSUME Quota!ChatQuotaConstants, Quota!TypeOK, RequestsOK
    PROVE  /\ \A w \in Worker : Quota!CreateConversation(w) => Quota!TypeOK' /\ RequestsOK'
           /\ \A c \in Conv : Quota!DeleteConversation(c) => Quota!TypeOK' /\ RequestsOK'
<1>1. window \in Nat /\ \A c \in Conv : conv[c] # None => conv[c].window <= window
  BY DEF Quota!TypeOK, Quota!ChatQuotaConstants
<1>2. ASSUME NEW w \in Worker, Quota!CreateConversation(w)
      PROVE  Quota!TypeOK' /\ RequestsOK'
  <2> DEFINE r == [window |-> window, live |-> TRUE]
  <2>1. PICK c \in Conv : conv[c] = None /\ conv' = [conv EXCEPT ![c] = r]
    BY <1>2 DEF Quota!CreateConversation
  <2>2. r \in [window : 1 .. MaxWindows, live : BOOLEAN] /\ r # None /\ r.window = window
    BY RowOfConversation
  <2> HIDE DEF r
  <2>3. req' = [req EXCEPT ![w] = Quota!Idle] /\ UNCHANGED <<window, messages, nextId>>
    BY <1>2 DEF Quota!CreateConversation, Quota!To
  <2>4. conv' \in [Conv -> {None} \cup [window : 1 .. MaxWindows, live : BOOLEAN]]
    BY <2>1, <2>2 DEF Quota!TypeOK
  <2>5. \A x \in Conv : conv'[x] = IF x = c THEN r ELSE conv[x]
    BY <2>1 DEF Quota!TypeOK
  <2>6. RequestsOK' /\ req' \in [Worker -> Quota!Progress]
    BY <2>2, <2>3, <2>5, IdleGoesOn, GoingOnKeeps
  <2>7. \A x \in Conv : conv'[x] # None => conv'[x].window <= window
    BY <1>1, <2>2, <2>5
  <2>8. \A m \in messages : m.conv \in Conv /\ conv'[m.conv] # None
    BY <2>2, <2>5 DEF Quota!TypeOK, Quota!Messages
  <2>9. QED
    BY <2>3, <2>4, <2>6, <2>7, <2>8 DEF Quota!TypeOK
<1>3. ASSUME NEW c \in Conv, Quota!DeleteConversation(c)
      PROVE  Quota!TypeOK' /\ RequestsOK'
  <2> DEFINE r == [conv[c] EXCEPT !.live = FALSE]
  <2>1. conv[c] # None /\ conv' = [conv EXCEPT ![c] = r] /\ UNCHANGED <<window, messages, nextId, req>>
    BY <1>3 DEF Quota!DeleteConversation, Quota!Live
  <2>2. r \in [window : 1 .. MaxWindows, live : BOOLEAN] /\ r # None /\ r.window = conv[c].window
    BY <2>1, RowOfConversation
  <2> HIDE DEF r
  <2>3. conv' \in [Conv -> {None} \cup [window : 1 .. MaxWindows, live : BOOLEAN]]
    BY <2>1, <2>2 DEF Quota!TypeOK
  <2>4. \A x \in Conv : conv'[x] = IF x = c THEN r ELSE conv[x]
    BY <2>1 DEF Quota!TypeOK
  <2>5. RequestsOK'
    BY <2>1, <2>2, <2>4 DEF RequestsOK
  <2>6. \A x \in Conv : conv'[x] # None => conv'[x].window <= window
    BY <1>1, <2>1, <2>2, <2>4
  <2>7. \A m \in messages : m.conv \in Conv /\ conv'[m.conv] # None
    BY <2>2, <2>4 DEF Quota!TypeOK, Quota!Messages
  <2>8. QED
    BY <2>1, <2>3, <2>5, <2>6, <2>7 DEF Quota!TypeOK
<1>4. QED
  BY <1>2, <1>3

LEMMA NextWindowKeeps ==
    ASSUME Quota!ChatQuotaConstants, Quota!TypeOK, RequestsOK, Quota!NextWindow
    PROVE  Quota!TypeOK' /\ RequestsOK'
<1>1. window \in Nat /\ MaxWindows \in Nat /\ window < MaxWindows /\ window' = window + 1
      /\ UNCHANGED <<conv, messages, nextId, req>>
  BY DEF Quota!ChatQuotaConstants, Quota!TypeOK, Quota!NextWindow
<1>2. window' \in 1 .. MaxWindows
  BY <1>1 DEF Quota!TypeOK
<1>3. \A c \in Conv : conv[c] # None => conv[c].window \in Nat
  <2>1. \A c \in Conv : conv[c] # None => conv[c].window \in 1 .. MaxWindows
    BY RowOfConversation
  <2>2. QED
    BY <1>1, <2>1
<1>4. \A m \in messages : m.window \in Nat
  BY <1>1 DEF Quota!TypeOK, Quota!Messages
<1>5. (\A c \in Conv : conv[c] # None => conv[c].window <= window') /\ \A m \in messages : m.window <= window'
  <2>1. (\A c \in Conv : conv[c] # None => conv[c].window <= window) /\ \A m \in messages : m.window <= window
    BY DEF Quota!TypeOK
  <2>2. QED
    BY <1>1, <1>3, <1>4, <2>1
<1>6. QED
  BY <1>1, <1>2, <1>5 DEF Quota!TypeOK, RequestsOK

LEMMA TypeStep == ASSUME Quota!ChatQuotaConstants, Quota!TypeOK, RequestsOK, [Quota!Next]_Quota!vars PROVE Quota!TypeOK' /\ RequestsOK'
<1>1. ASSUME NEW w \in Worker, Quota!CheckSession(w) \/ Quota!CheckLimits(w) \/ Quota!Refuse(w)
      PROVE  Quota!TypeOK' /\ RequestsOK'
  BY <1>1, RefusedKeeps
<1>2. ASSUME NEW w \in Worker, Quota!Post(w) \/ Quota!Edit(w)
      PROVE  Quota!TypeOK' /\ RequestsOK'
  BY <1>2, PostKeeps
<1>3. ASSUME NEW w \in Worker, Quota!PostPrompt(w) \/ Quota!SaveMedia(w)
      PROVE  Quota!TypeOK' /\ RequestsOK'
  BY <1>3, MediaKeeps
<1>4. ASSUME NEW w \in Worker, Quota!CreateConversation(w) \/ Quota!Regenerate(w)
      PROVE  Quota!TypeOK' /\ RequestsOK'
  BY <1>4, ConversationKeeps, RewritingKeeps
<1>5. ASSUME NEW w \in Worker, NEW c \in Conv, NEW kind \in Quota!Kinds, Quota!CheckKind(w, c, kind)
      PROVE  Quota!TypeOK' /\ RequestsOK'
  BY <1>5, AskedKeeps
<1>6. ASSUME NEW w \in Worker, NEW m \in messages, Quota!LoadQuestion(w, m) \/ Quota!LoadReply(w, m)
      PROVE  Quota!TypeOK' /\ RequestsOK'
  BY <1>6, AskedKeeps
<1>7. ASSUME (\E c \in Conv : Quota!DeleteConversation(c)) \/ \E m \in messages : Quota!Answer(m)
      PROVE  Quota!TypeOK' /\ RequestsOK'
  BY <1>7, ConversationKeeps, RewritingKeeps
<1>8. CASE UNCHANGED Quota!vars
  BY <1>8 DEF Quota!vars, Quota!TypeOK, RequestsOK
<1>9. QED
  BY <1>1, <1>2, <1>3, <1>4, <1>5, <1>6, <1>7, <1>8, NextWindowKeeps DEF Quota!Next

\* Starting conversations.
Started == {c \in Conv : conv[c] # None /\ conv[c].window = window}

LEMMA StartsStep ==
    ASSUME Quota!ChatQuotaConstants, Quota!TypeOK, RequestsOK, StartsOK, [Quota!Next]_Quota!vars
    PROVE  StartsOK'
<1>1. /\ IsFiniteSet(Conv) /\ SessionCap \in Nat
      /\ IsFiniteSet(Started) /\ Quota!StartedToday = Cardinality(Started) /\ Cardinality(Started) \in Nat
      /\ Cardinality(Started) <= SessionCap
      /\ Quota!StartedToday' = Cardinality(Started')
      /\ Quota!SessionsCapped' <=> Cardinality(Started') <= SessionCap
  <2>1. IsFiniteSet(Conv) /\ SessionCap \in Nat
    BY QuotaSets DEF Quota!ChatQuotaConstants
  <2>2. IsFiniteSet(Started)
    BY <2>1, CountPart DEF Started
  <2>3. Cardinality(Started) \in Nat
    BY <2>2, Count
  <2>4. QED
    BY <2>1, <2>2, <2>3, QuotaSets DEF Started, Quota!StartedToday, Quota!SessionsCapped, StartsOK
<1>2. ASSUME Started' = Started, \A w \in Worker : req'[w].pc = "starting" => req[w].pc = "starting"
      PROVE  StartsOK'
  BY <1>1, <1>2 DEF StartsOK
<1>3. ASSUME NEW w \in Worker, NEW r, req' = [req EXCEPT ![w] = r], r.pc # "starting", UNCHANGED <<window, conv>>
      PROVE  StartsOK'
  <2>1. Started' = Started
    BY <1>3 DEF Started
  <2>2. \A v \in Worker : req'[v].pc = "starting" => req[v].pc = "starting"
    BY <1>3 DEF Quota!TypeOK
  <2>3. QED
    BY <1>2, <2>1, <2>2
<1>4. ASSUME NEW w \in Worker, Quota!CheckSession(w)
      PROVE  StartsOK'
  <2>1. /\ \A v \in Worker : req[v].pc # "starting"
        /\ Quota!StartedToday < SessionCap /\ UNCHANGED <<window, conv>>
        /\ req' = [req EXCEPT ![w] = [req[w] EXCEPT !.pc = "starting"]]
    BY <1>4 DEF Quota!CheckSession, Quota!Step, Quota!To
  <2>2. Started' = Started
    BY <2>1 DEF Started
  <2>3. \A v \in Worker : req'[v].pc = "starting" => v = w
    BY <2>1 DEF Quota!TypeOK
  <2>4. QED
    BY <1>1, <2>1, <2>2, <2>3 DEF StartsOK
<1>5. ASSUME NEW w \in Worker, Quota!CreateConversation(w)
      PROVE  StartsOK'
  <2>1. req[w].pc = "starting" /\ req' = [req EXCEPT ![w] = Quota!Idle] /\ window' = window
    BY <1>5 DEF Quota!CreateConversation, Quota!To
  <2>2. PICK c \in Conv : conv' = [conv EXCEPT ![c] = [window |-> window, live |-> TRUE]]
    BY <1>5 DEF Quota!CreateConversation
  <2>3. Started' \subseteq Started \cup {c}
    BY <2>1, <2>2 DEF Started, Quota!TypeOK
  <2>4. Cardinality(Started') <= Cardinality(Started) + 1 /\ Cardinality(Started') \in Nat
    BY <1>1, <2>3, CountMore, Count
  <2>5. Cardinality(Started) < SessionCap
    BY <1>1, <2>1 DEF StartsOK
  <2>6. \A v \in Worker : req'[v].pc # "starting"
    BY <2>1 DEF Quota!TypeOK, StartsOK, Quota!Idle
  <2>7. Cardinality(Started') <= SessionCap
    BY <1>1, <2>4, <2>5
  <2>8. QED
    BY <1>1, <2>6, <2>7 DEF StartsOK
<1>6. ASSUME NEW w \in Worker,
             Quota!CheckLimits(w) \/ Quota!Refuse(w) \/ Quota!Post(w) \/ Quota!Edit(w) \/ Quota!PostPrompt(w) \/ Quota!SaveMedia(w) \/ Quota!Regenerate(w)
      PROVE  StartsOK'
  <2>1. UNCHANGED <<window, conv>>
    BY <1>6 DEF Quota!CheckLimits, Quota!Refuse, Quota!Post, Quota!Edit, Quota!PostPrompt,
       Quota!SaveMedia, Quota!Regenerate
  <2>2. \/ req' = [req EXCEPT ![w] = Quota!Idle]
        \/ req' = [req EXCEPT ![w] = [req[w] EXCEPT !.pc = "checked"]]
        \/ req' = [req EXCEPT ![w] = [req[w] EXCEPT !.pc = "generating"]]
    BY <1>6 DEF Quota!CheckLimits, Quota!Refuse, Quota!Post, Quota!Edit, Quota!PostPrompt,
       Quota!SaveMedia, Quota!Regenerate, Quota!To, Quota!Step
  <2>3. Quota!Idle.pc # "starting" /\ [req[w] EXCEPT !.pc = "checked"].pc # "starting"
        /\ [req[w] EXCEPT !.pc = "generating"].pc # "starting"
    BY StepFields DEF Quota!Idle
  <2>4. QED
    BY <1>3, <2>1, <2>2, <2>3
<1>7. ASSUME NEW w \in Worker, NEW c \in Conv, NEW kind \in Quota!Kinds, Quota!CheckKind(w, c, kind)
      PROVE  StartsOK'
  <2> DEFINE r == [pc |-> "asked", conv |-> c, kind |-> kind, id |-> 0]
  <2>1. r.pc # "starting"
    OBVIOUS
  <2>2. req' = [req EXCEPT ![w] = r] /\ UNCHANGED <<window, conv>>
    BY <1>7 DEF Quota!CheckKind, Quota!To
  <2> HIDE DEF r
  <2>3. QED
    BY <1>3, <2>1, <2>2
<1>8. ASSUME NEW w \in Worker, NEW m \in messages, Quota!LoadQuestion(w, m) \/ Quota!LoadReply(w, m)
      PROVE  StartsOK'
  BY <1>3, <1>8 DEF Quota!LoadQuestion, Quota!LoadReply, Quota!To
<1>9. ASSUME NEW c \in Conv, Quota!DeleteConversation(c)
      PROVE  StartsOK'
  <2>1. conv[c] # None /\ conv' = [conv EXCEPT ![c] = [conv[c] EXCEPT !.live = FALSE]] /\ UNCHANGED <<window, req>>
    BY <1>9 DEF Quota!DeleteConversation, Quota!Live
  <2>2. [conv[c] EXCEPT !.live = FALSE] # None /\ [conv[c] EXCEPT !.live = FALSE].window = conv[c].window
    BY <2>1, RowOfConversation
  <2>3. \A x \in Conv : conv'[x] = IF x = c THEN [conv[c] EXCEPT !.live = FALSE] ELSE conv[x]
    BY <2>1 DEF Quota!TypeOK
  <2>4. Started' = Started
    BY <2>1, <2>2, <2>3 DEF Started
  <2>5. QED
    BY <1>2, <2>1, <2>4
<1>10. ASSUME (\E m \in messages : Quota!Answer(m)) \/ UNCHANGED Quota!vars
       PROVE  StartsOK'
  <2>1. UNCHANGED <<window, conv, req>>
    BY <1>10 DEF Quota!Answer, Quota!vars
  <2>2. QED
    BY <1>2, <2>1 DEF Started
<1>11. ASSUME Quota!NextWindow
       PROVE  StartsOK'
  <2>1. UNCHANGED <<conv, req>> /\ window' = window + 1 /\ window \in Nat
    BY <1>11 DEF Quota!NextWindow, Quota!TypeOK, Quota!ChatQuotaConstants
  <2>2. \A c \in Conv : conv[c] # None => conv[c].window \in Nat /\ conv[c].window <= window
    BY RowOfConversation DEF Quota!TypeOK, Quota!ChatQuotaConstants
  <2>3. Started' = {}
    BY <2>1, <2>2 DEF Started
  <2>4. Cardinality(Started') = 0
    BY <2>3, FS_EmptySet
  <2>5. (\E w \in Worker : req[w].pc = "starting") => 0 < SessionCap
    BY <1>1 DEF StartsOK
  <2>6. QED
    BY <1>1, <2>1, <2>4, <2>5 DEF StartsOK
<1>12. QED
  BY <1>4, <1>5, <1>6, <1>7, <1>8, <1>9, <1>10, <1>11 DEF Quota!Next

\* The caps of a user.

LEMMA Counted ==
    ASSUME Quota!ChatQuotaConstants, Quota!TypeOK
    PROVE  /\ IsFiniteSet(Quota!Now("user")) /\ Passed \subseteq Worker /\ RequestCap \in Nat
           /\ \A kind \in Quota!Capped : /\ IsFiniteSet(UsedBy(kind)) /\ PassedFor(kind) \subseteq Worker
                                         /\ KindCap[kind] \in Nat /\ kind # "chat" /\ kind \in Quota!Kinds
                                         /\ Cardinality(UsedBy(kind)) <= Quota!Used(kind) /\ Quota!Used(kind) \in Nat
<1>1. IsFiniteSet(messages)
  BY QuotaSets DEF Quota!TypeOK
<1>2. IsFiniteSet(Quota!Now("user")) /\ IsFiniteSet(Quota!Now("assistant"))
  BY <1>1, CountPart DEF Quota!Now
<1>3. ASSUME NEW kind \in Quota!Capped
      PROVE  /\ IsFiniteSet(UsedBy(kind)) /\ Cardinality(UsedBy(kind)) <= Quota!Used(kind) /\ Quota!Used(kind) \in Nat
  <2> DEFINE S == {m \in Quota!Now("assistant") : m.kind = kind \/ (kind = "image" /\ m.kind = "media")}
  <2>1. IsFiniteSet(S) /\ UsedBy(kind) \subseteq S
    BY <1>2, CountPart DEF UsedBy
  <2>2. Quota!Used(kind) = Cardinality(S)
    BY QuotaSets DEF Quota!Used
  <2>3. QED
    BY <2>1, <2>2, CountPart, Count
<1>4. \A kind \in Quota!Capped : KindCap[kind] \in Nat /\ kind # "chat" /\ kind \in Quota!Kinds
  BY DEF Quota!ChatQuotaConstants, Quota!Kinds
<1>5. Passed \subseteq Worker /\ RequestCap \in Nat /\ \A kind \in Quota!Capped : PassedFor(kind) \subseteq Worker
  BY DEF Passed, PassedFor, Quota!ChatQuotaConstants
<1>6. QED
  BY <1>2, <1>3, <1>4, <1>5

\* Steps that add no row that is counted, and let nobody pass.
LEMMA NothingCounted ==
    ASSUME Quota!ChatQuotaConstants, Quota!TypeOK, Quota!TypeOK', OvershootOK,
           Quota!Now("user")' \subseteq Quota!Now("user"), Passed' \subseteq Passed
    PROVE  Room(Quota!Now("user"), Passed, RequestCap)'
<1> DEFINE R == Quota!Now("user")'
           P == Passed'
<1>1. IsFiniteSet(Quota!Now("user")) /\ Passed \subseteq Worker /\ RequestCap \in Nat
  BY Counted
<1>2. IsFiniteSet(R) /\ Cardinality(R) <= Cardinality(Quota!Now("user"))
  BY <1>1, CountPart
<1>3. Room(Quota!Now("user"), Passed, RequestCap)
  BY DEF OvershootOK
<1> HIDE DEF R, P
<1>4. P \subseteq Passed
  BY DEF P
<1>5. Room(R, P, RequestCap)
  BY <1>1, <1>2, <1>3, <1>4, RoomLeft
<1>6. QED
  BY <1>5 DEF R, P, Room

\* One that had passed adds one question.
LEMMA QuestionCounted ==
    ASSUME Quota!ChatQuotaConstants, Quota!TypeOK, OvershootOK, NEW w \in Passed, NEW x,
           Quota!Now("user")' \subseteq Quota!Now("user") \cup {x}, Passed' \subseteq Passed \ {w}
    PROVE  Room(Quota!Now("user"), Passed, RequestCap)'
<1> DEFINE R == Quota!Now("user")'
           P == Passed'
<1>1. IsFiniteSet(Quota!Now("user")) /\ Passed \subseteq Worker /\ RequestCap \in Nat
  BY Counted
<1>2. Room(Quota!Now("user"), Passed, RequestCap)
  BY DEF OvershootOK
<1> HIDE DEF R, P
<1>3. R \subseteq Quota!Now("user") \cup {x} /\ P \subseteq Passed \ {w}
  BY DEF R, P
<1>4. Room(R, P, RequestCap)
  BY <1>1, <1>2, <1>3, RoomUsed
<1>5. QED
  BY <1>4 DEF R, P, Room

LEMMA RequestsStep ==
    ASSUME Quota!ChatQuotaConstants, Quota!TypeOK, Quota!TypeOK', RequestsOK, OvershootOK, [Quota!Next]_Quota!vars
    PROVE  Room(Quota!Now("user"), Passed, RequestCap)'
<1> USE DEF Using
<1>1. ASSUME NEW w \in Worker, NEW r, req' = [req EXCEPT ![w] = r], r.pc # "checked",
             Quota!Now("user")' \subseteq Quota!Now("user")
      PROVE  Room(Quota!Now("user"), Passed, RequestCap)'
  <2>1. Passed' \subseteq Passed
    BY <1>1 DEF Quota!TypeOK, Passed
  <2>2. QED
    BY <1>1, <2>1, NothingCounted
<1>2. ASSUME NEW w \in Worker, req[w].pc = "checked", NEW r, req' = [req EXCEPT ![w] = r], r.pc # "checked",
             NEW x, Quota!Now("user")' \subseteq Quota!Now("user") \cup {x}
      PROVE  Room(Quota!Now("user"), Passed, RequestCap)'
  <2>1. w \in Passed /\ Passed' \subseteq Passed \ {w}
    BY <1>2 DEF Quota!TypeOK, Passed
  <2>2. QED
    BY <1>2, <2>1, QuestionCounted
<1>3. Quota!Idle.pc = "idle"
  BY DEF Quota!Idle
<1>4. ASSUME NEW w \in Worker, Quota!CheckSession(w) \/ Quota!CreateConversation(w) \/ Quota!Refuse(w) \/ Quota!Regenerate(w) \/ Quota!SaveMedia(w)
      PROVE  Room(Quota!Now("user"), Passed, RequestCap)'
  <2>1. CASE Quota!CheckSession(w)
    <3>1. req' = [req EXCEPT ![w] = [req[w] EXCEPT !.pc = "starting"]] /\ UNCHANGED <<messages, window>>
      BY <2>1 DEF Quota!CheckSession, Quota!Step, Quota!To
    <3>2. Quota!Now("user")' = Quota!Now("user")
      BY <3>1 DEF Quota!Now
    <3>3. QED
      BY <1>1, <3>1, <3>2, StepFields
  <2>2. CASE Quota!CreateConversation(w) \/ Quota!Refuse(w)
    <3>1. req' = [req EXCEPT ![w] = Quota!Idle] /\ UNCHANGED <<messages, window>>
      BY <2>2 DEF Quota!CreateConversation, Quota!Refuse, Quota!To
    <3>2. Quota!Now("user")' = Quota!Now("user")
      BY <3>1 DEF Quota!Now
    <3>3. QED
      BY <1>1, <1>3, <3>1, <3>2
  <2>3. CASE Quota!Regenerate(w)
    <3>1. req' = [req EXCEPT ![w] = Quota!Idle] /\ UNCHANGED window
      BY <2>3 DEF Quota!Regenerate, Quota!To
    <3>2. Quota!Now("user")' = Quota!Now("user")
      BY <2>3, <3>1, RegenerateRewrites, RewrittenKeeps
    <3>3. QED
      BY <1>1, <1>3, <3>1, <3>2
  <2>4. CASE Quota!SaveMedia(w)
    <3>1. req' = [req EXCEPT ![w] = Quota!Idle] /\ UNCHANGED window
      BY <2>4 DEF Quota!SaveMedia, Quota!To
    <3>2. PICK kind \in {"media", "chat"} :
            messages' = messages \cup {Quota!Row(nextId, req[w].conv, "assistant", kind, "free")}
      BY <2>4 DEF Quota!SaveMedia
    <3>3. Quota!Row(nextId, req[w].conv, "assistant", kind, "free").role # "user"
      BY DEF Quota!Row
    <3>4. Quota!Now("user")' \subseteq Quota!Now("user")
      BY <3>1, <3>2, <3>3 DEF Quota!Now
    <3>5. QED
      BY <1>1, <1>3, <3>1, <3>4
  <2>5. QED
    BY <1>4, <2>1, <2>2, <2>3, <2>4
<1>5. ASSUME NEW w \in Worker,
             Quota!CheckLimits(w) \/ \E m \in messages : Quota!LoadReply(w, m)
      PROVE  Room(Quota!Now("user"), Passed, RequestCap)'
  <2>1. Quota!Requests < RequestCap /\ UNCHANGED <<messages, window>>
    BY <1>5 DEF Quota!CheckLimits, Quota!LoadReply, Quota!WithinLimits
  <2> DEFINE R == Quota!Now("user")'
             P == Passed'
  <2>2. R = Quota!Now("user") /\ IsFiniteSet(R) /\ P \subseteq Worker /\ RequestCap \in Nat
    BY <2>1, Counted DEF Quota!Now, Passed
  <2>3. Cardinality(R) < RequestCap
    BY <2>1, <2>2, QuotaSets DEF Quota!Requests
  <2> HIDE DEF R, P
  <2>4. Room(R, P, RequestCap)
    BY <2>2, <2>3, RoomEntered
  <2>5. QED
    BY <2>4 DEF R, P, Room
<1>6. ASSUME NEW w \in Worker, Quota!Post(w) \/ Quota!Edit(w)
      PROVE  Room(Quota!Now("user"), Passed, RequestCap)'
  <2>1. /\ req[w].pc = "checked" /\ req' = [req EXCEPT ![w] = Quota!Idle] /\ UNCHANGED window
        /\ req[w].conv \in Conv
    BY <1>6 DEF Quota!Post, Quota!Edit, Quota!To, RequestsOK
  <2>2. MaxMessages \in Nat
    BY DEF Quota!ChatQuotaConstants
  <2>3. PICK kind \in Quota!Kinds : nextId + Quota!Ids(kind) <= MaxMessages + 1
                              /\ messages' \subseteq messages \cup Quota!Question(req[w].conv, kind)
    <3>1. CASE Quota!Post(w)
      BY <3>1 DEF Quota!Post
    <3>2. CASE Quota!Edit(w)
      <4>1. nextId <= MaxMessages /\ nextId \in Nat /\ Quota!Ids("chat") = 1
        BY <3>2 DEF Quota!Edit, Quota!TypeOK, Quota!Ids
      <4>2. messages' \subseteq messages \cup Quota!Question(req[w].conv, "chat")
        BY <3>2 DEF Quota!Edit
      <4>3. QED
        BY <2>2, <4>1, <4>2, ChatIsAKind
    <3>3. QED
      BY <1>6, <3>1, <3>2
  <2> DEFINE x == Quota!Row(nextId, req[w].conv, "user", kind, Quota!NoReply)
  <2>4. \A m \in Quota!Question(req[w].conv, kind) : m.role = "user" => m = x
    BY <2>1, <2>2, <2>3, QuestionRows
  <2> HIDE DEF x
  <2>5. Quota!Now("user")' \subseteq Quota!Now("user") \cup {x}
    BY <2>1, <2>3, <2>4 DEF Quota!Now
  <2>6. QED
    BY <1>2, <1>3, <2>1, <2>5
<1>7. ASSUME NEW w \in Worker, Quota!PostPrompt(w)
      PROVE  Room(Quota!Now("user"), Passed, RequestCap)'
  <2> DEFINE x == Quota!Row(nextId, req[w].conv, "user", "media", Quota!NoReply)
  <2>1. /\ req[w].pc = "checked" /\ req' = [req EXCEPT ![w] = [req[w] EXCEPT !.pc = "generating"]]
        /\ UNCHANGED window /\ messages' = messages \cup {x}
    BY <1>7 DEF Quota!PostPrompt, Quota!Step, Quota!To
  <2> HIDE DEF x
  <2>2. Quota!Now("user")' \subseteq Quota!Now("user") \cup {x}
    BY <2>1 DEF Quota!Now
  <2>3. QED
    BY <1>2, <2>1, <2>2, StepFields
<1>8. ASSUME NEW w \in Worker,
             \/ \E c \in Conv, kind \in Quota!Kinds : Quota!CheckKind(w, c, kind)
             \/ \E m \in messages : Quota!LoadQuestion(w, m)
      PROVE  Room(Quota!Now("user"), Passed, RequestCap)'
  <2>1. PICK r : req' = [req EXCEPT ![w] = r] /\ r.pc = "asked"
    <3>1. ASSUME NEW c \in Conv, NEW kind \in Quota!Kinds, Quota!CheckKind(w, c, kind)
          PROVE  \E r : req' = [req EXCEPT ![w] = r] /\ r.pc = "asked"
      <4> DEFINE r == [pc |-> "asked", conv |-> c, kind |-> kind, id |-> 0]
      <4>1. req' = [req EXCEPT ![w] = r] /\ r.pc = "asked"
        BY <3>1 DEF Quota!CheckKind, Quota!To
      <4> HIDE DEF r
      <4>2. QED
        BY <4>1
    <3>2. ASSUME NEW m \in messages, Quota!LoadQuestion(w, m)
          PROVE  \E r : req' = [req EXCEPT ![w] = r] /\ r.pc = "asked"
      <4> DEFINE r == [pc |-> "asked", conv |-> m.conv, kind |-> "edit", id |-> m.id]
      <4>1. req' = [req EXCEPT ![w] = r] /\ r.pc = "asked"
        BY <3>2 DEF Quota!LoadQuestion, Quota!To
      <4> HIDE DEF r
      <4>2. QED
        BY <4>1
    <3>3. QED
      BY <1>8, <3>1, <3>2
  <2>2. UNCHANGED <<messages, window>>
    BY <1>8 DEF Quota!CheckKind, Quota!LoadQuestion
  <2>3. Quota!Now("user")' = Quota!Now("user")
    BY <2>2 DEF Quota!Now
  <2>4. QED
    BY <1>1, <2>1, <2>3
<1>9. ASSUME (\E c \in Conv : Quota!DeleteConversation(c)) \/ (\E m \in messages : Quota!Answer(m)) \/ UNCHANGED Quota!vars
      PROVE  Room(Quota!Now("user"), Passed, RequestCap)'
  <2>1. UNCHANGED <<req, window>>
    BY <1>9 DEF Quota!DeleteConversation, Quota!Answer, Quota!vars
  <2>2. Quota!Now("user")' = Quota!Now("user")
    <3>1. CASE \E m \in messages : Quota!Answer(m)
      BY <2>1, <3>1, AnswerRewrites, RewrittenKeeps
    <3>2. CASE ~ \E m \in messages : Quota!Answer(m)
      BY <1>9, <2>1, <3>2 DEF Quota!DeleteConversation, Quota!vars, Quota!Now
    <3>3. QED
      BY <3>1, <3>2
  <2>3. QED
    BY <2>1, <2>2, NothingCounted DEF Passed
<1>10. ASSUME Quota!NextWindow
       PROVE  Room(Quota!Now("user"), Passed, RequestCap)'
  <2>1. UNCHANGED <<messages, req>> /\ window' = window + 1 /\ window \in Nat
    BY <1>10 DEF Quota!NextWindow, Quota!TypeOK, Quota!ChatQuotaConstants
  <2>2. \A m \in messages : m.window \in Nat /\ m.window <= window
    BY DEF Quota!TypeOK, Quota!Messages, Quota!ChatQuotaConstants
  <2>3. Quota!Now("user")' = {} /\ Passed' = Passed
    BY <2>1, <2>2 DEF Quota!Now, Passed
  <2>4. Room({}, Passed, RequestCap)
    BY Counted, RoomRenewed DEF OvershootOK
  <2>5. QED
    BY <2>1, <2>3, <2>4 DEF Room
<1>11. QED
  BY <1>4, <1>5, <1>6, <1>7, <1>8, <1>9, <1>10 DEF Quota!Next

\* The caps of a kind: whoever has passed the check of a kind carries the kind until
\* the row is written.
KindRoom(kind) == Room(UsedBy(kind), PassedFor(kind), KindCap[kind])

\* Steps that add no row of the kind, and let nobody pass.
LEMMA KindNothing ==
    ASSUME Quota!ChatQuotaConstants, Quota!TypeOK, OvershootOK, NEW kind \in Quota!Capped,
           IsFiniteSet(UsedBy(kind)'), Cardinality(UsedBy(kind)') <= Cardinality(UsedBy(kind)),
           PassedFor(kind)' \subseteq PassedFor(kind)
    PROVE  KindRoom(kind)'
<1> DEFINE R == UsedBy(kind)'
           P == PassedFor(kind)'
<1>1. IsFiniteSet(UsedBy(kind)) /\ PassedFor(kind) \subseteq Worker /\ KindCap[kind] \in Nat
  BY Counted
<1>2. Room(UsedBy(kind), PassedFor(kind), KindCap[kind])
  BY DEF OvershootOK
<1> HIDE DEF R, P
<1>3. IsFiniteSet(R) /\ Cardinality(R) <= Cardinality(UsedBy(kind)) /\ P \subseteq PassedFor(kind)
  BY DEF R, P
<1>4. Room(R, P, KindCap[kind])
  BY <1>1, <1>2, <1>3, RoomLeft
<1>5. QED
  BY <1>4 DEF R, P, Room, KindRoom

LEMMA KindNone ==
    ASSUME Quota!ChatQuotaConstants, Quota!TypeOK, OvershootOK, NEW kind \in Quota!Capped,
           UsedBy(kind)' \subseteq UsedBy(kind), PassedFor(kind)' \subseteq PassedFor(kind)
    PROVE  KindRoom(kind)'
<1>1. IsFiniteSet(UsedBy(kind)') /\ Cardinality(UsedBy(kind)') <= Cardinality(UsedBy(kind))
  BY Counted, CountPart
<1>2. QED
  BY <1>1, KindNothing

\* One that had passed adds one row.
LEMMA KindOne ==
    ASSUME Quota!ChatQuotaConstants, Quota!TypeOK, OvershootOK, NEW kind \in Quota!Capped, NEW w \in PassedFor(kind), NEW x,
           UsedBy(kind)' \subseteq UsedBy(kind) \cup {x}, PassedFor(kind)' \subseteq PassedFor(kind) \ {w}
    PROVE  KindRoom(kind)'
<1> DEFINE R == UsedBy(kind)'
           P == PassedFor(kind)'
<1>1. IsFiniteSet(UsedBy(kind)) /\ PassedFor(kind) \subseteq Worker /\ KindCap[kind] \in Nat
  BY Counted
<1>2. Room(UsedBy(kind), PassedFor(kind), KindCap[kind])
  BY DEF OvershootOK
<1>0. w \in PassedFor(kind)
  OBVIOUS
<1>3. R \subseteq UsedBy(kind) \cup {x} /\ P \subseteq PassedFor(kind) \ {w}
  BY DEF R, P
<1> DEFINE U == UsedBy(kind)
           F == PassedFor(kind)
           K == KindCap[kind]
<1> HIDE DEF R, P, U, F, K
<1>4. Room(R, P, K)
  <2>1. IsFiniteSet(U)
    BY <1>1 DEF U
  <2>2. F \subseteq Worker
    BY <1>1 DEF F
  <2>3. K \in Nat
    BY <1>1 DEF K
  <2>4. Room(U, F, K)
    BY <1>2 DEF U, F, K
  <2>5. R \subseteq U \cup {x}
    BY <1>3 DEF U
  <2>6. P \subseteq F \ {w}
    BY <1>3 DEF F
  <2>7. w \in F
    BY <1>0 DEF F
  <2>8. IsFiniteSet(F) /\ Cardinality(Worker) \in Nat
    BY <2>2, WorkerCount, CountPart
  <2>9. Cardinality(F \ {w}) = Cardinality(F) - 1 /\ IsFiniteSet(F \ {w})
    BY <2>7, <2>8, FS_RemoveElement
  <2>10. Cardinality(P) <= Cardinality(F \ {w}) /\ IsFiniteSet(P)
    BY <2>6, <2>9, CountPart
  <2>11. Cardinality(R) <= Cardinality(U) + 1 /\ IsFiniteSet(R)
    BY <2>1, <2>5, CountMore
  <2>12. /\ Cardinality(F) \in Nat /\ Cardinality(P) \in Nat /\ Cardinality(U) \in Nat /\ Cardinality(R) \in Nat
    BY <2>1, <2>8, <2>10, <2>11, Count
  <2>13. K # 0 /\ Cardinality(U) + Cardinality(F) < K + Cardinality(Worker)
    BY <2>4, <2>7 DEF Room
  <2>14. Cardinality(R) + Cardinality(P) < K + Cardinality(Worker)
    BY <2>3, <2>8, <2>9, <2>10, <2>11, <2>12, <2>13
  <2>15. QED
    BY <2>13, <2>14 DEF Room
<1>5. QED
  BY <1>4 DEF R, P, K, Room, KindRoom

\* One passes.
LEMMA KindPassed ==
    ASSUME Quota!ChatQuotaConstants, Quota!TypeOK, NEW kind \in Quota!Capped, Quota!Used(kind) < KindCap[kind], UNCHANGED <<messages, window>>
    PROVE  KindRoom(kind)'
<1> DEFINE R == UsedBy(kind)'
           P == PassedFor(kind)'
<1>1. R = UsedBy(kind) /\ P \subseteq Worker
  BY DEF UsedBy, Quota!Now, PassedFor
<1>2. /\ IsFiniteSet(UsedBy(kind)) /\ Cardinality(UsedBy(kind)) <= Quota!Used(kind) /\ Quota!Used(kind) \in Nat
      /\ KindCap[kind] \in Nat
  BY Counted
<1>3. Cardinality(UsedBy(kind)) \in Nat
  BY <1>2, Count
<1>4. Cardinality(UsedBy(kind)) < KindCap[kind]
  BY <1>2, <1>3
<1> HIDE DEF R, P
<1>5. Room(R, P, KindCap[kind])
  BY <1>1, <1>2, <1>4, RoomEntered
<1>6. QED
  BY <1>5 DEF R, P, Room, KindRoom

\* The request w goes on, and only if it had passed the check of the kind.
LEMMA KindGoesOn ==
    ASSUME Quota!TypeOK, NEW kind, NEW w \in Worker, NEW r, req' = [req EXCEPT ![w] = r]
    PROVE  /\ (r.pc \in Using /\ r.kind = kind => w \in PassedFor(kind)) => PassedFor(kind)' \subseteq PassedFor(kind)
           /\ r.pc = "idle" => PassedFor(kind)' \subseteq PassedFor(kind) \ {w}
<1>1. \A v \in Worker : req'[v] = IF v = w THEN r ELSE req[v]
  BY DEF Quota!TypeOK
<1>2. PassedFor(kind)' = {v \in Worker : req'[v].pc \in Using /\ req'[v].kind = kind}
  BY DEF PassedFor, Using
<1>3. "idle" \notin Using
  BY DEF Using
<1>4. QED
  BY <1>1, <1>2, <1>3 DEF PassedFor

LEMMA KindStep ==
    ASSUME Quota!ChatQuotaConstants, Quota!TypeOK, RequestsOK, OvershootOK, NEW kind \in Quota!Capped, [Quota!Next]_Quota!vars
    PROVE  KindRoom(kind)'
<1>1. kind \in {"compare", "research", "image", "media"} /\ kind # "chat" /\ kind # "edit" /\ kind # "regenerate"
  BY DEF Quota!ChatQuotaConstants
<1>2. Quota!Idle.pc = "idle" /\ "idle" \notin Using /\ "starting" \notin Using
  BY DEF Quota!Idle, Using
<1>3. ASSUME UNCHANGED <<messages, window>>
      PROVE  UsedBy(kind)' \subseteq UsedBy(kind)
  BY <1>3 DEF UsedBy, Quota!Now
<1>4. ASSUME NEW w \in Worker, Quota!CheckSession(w) \/ Quota!CreateConversation(w) \/ Quota!Refuse(w) \/ Quota!CheckLimits(w)
      PROVE  KindRoom(kind)'
  <2>1. UsedBy(kind)' \subseteq UsedBy(kind)
    BY <1>3, <1>4 DEF Quota!CheckSession, Quota!CreateConversation, Quota!Refuse, Quota!CheckLimits
  <2>2. CASE Quota!CheckSession(w)
    <3> DEFINE r == [req[w] EXCEPT !.pc = "starting"]
    <3>1. req' = [req EXCEPT ![w] = r]
      BY <2>2 DEF Quota!CheckSession, Quota!Step, Quota!To
    <3>2. r.pc = "starting"
      BY StepFields
    <3> HIDE DEF r
    <3>3. PassedFor(kind)' \subseteq PassedFor(kind)
      <4>1. ~(r.pc \in Using)
        BY <1>2, <3>2
      <4>2. QED
        BY <3>1, <4>1, KindGoesOn
    <3>4. QED
      BY <2>1, <3>3, KindNone
  <2>3. CASE Quota!CreateConversation(w) \/ Quota!Refuse(w)
    <3>1. req' = [req EXCEPT ![w] = Quota!Idle]
      BY <2>3 DEF Quota!CreateConversation, Quota!Refuse, Quota!To
    <3>2. QED
      BY <1>2, <2>1, <3>1, KindGoesOn, KindNone
  <2>4. CASE Quota!CheckLimits(w)
    <3> DEFINE r == [req[w] EXCEPT !.pc = "checked"]
    <3>1. req' = [req EXCEPT ![w] = r] /\ req[w].pc = "asked"
      BY <2>4 DEF Quota!CheckLimits, Quota!Step, Quota!To
    <3>2. r.kind = req[w].kind
      BY StepFields
    <3> HIDE DEF r
    <3>3. r.kind = kind => w \in PassedFor(kind)
      BY <3>1, <3>2 DEF PassedFor, Using
    <3>4. QED
      BY <2>1, <3>1, <3>3, KindGoesOn, KindNone
  <2>5. QED
    BY <1>4, <2>2, <2>3, <2>4
<1>5. ASSUME NEW w \in Worker, NEW c \in Conv, NEW k \in Quota!Kinds, Quota!CheckKind(w, c, k)
      PROVE  KindRoom(kind)'
  <2> DEFINE r == [pc |-> "asked", conv |-> c, kind |-> k, id |-> 0]
  <2>1. req' = [req EXCEPT ![w] = r] /\ r.kind = k /\ UNCHANGED <<messages, window>>
    BY <1>5 DEF Quota!CheckKind, Quota!To
  <2> HIDE DEF r
  <2>2. CASE k = kind
    BY <1>5, <2>1, <2>2, KindPassed DEF Quota!CheckKind
  <2>3. CASE k # kind
    BY <1>3, <2>1, <2>3, KindGoesOn, KindNone
  <2>4. QED
    BY <2>2, <2>3
<1>6. ASSUME NEW w \in Worker, NEW m \in messages, Quota!LoadQuestion(w, m) \/ Quota!LoadReply(w, m)
      PROVE  KindRoom(kind)'
  <2>1. ASSUME NEW r, req' = [req EXCEPT ![w] = r], r.kind \in {"edit", "regenerate"}
        PROVE  PassedFor(kind)' \subseteq PassedFor(kind)
    BY <1>1, <2>1, KindGoesOn
  <2>2. UsedBy(kind)' \subseteq UsedBy(kind)
    BY <1>3, <1>6 DEF Quota!LoadQuestion, Quota!LoadReply
  <2>3. CASE Quota!LoadQuestion(w, m)
    <3> DEFINE r == [pc |-> "asked", conv |-> m.conv, kind |-> "edit", id |-> m.id]
    <3>1. req' = [req EXCEPT ![w] = r] /\ r.kind \in {"edit", "regenerate"}
      BY <2>3 DEF Quota!LoadQuestion, Quota!To
    <3> HIDE DEF r
    <3>2. QED
      BY <2>1, <2>2, <3>1, KindNone
  <2>4. CASE Quota!LoadReply(w, m)
    <3> DEFINE r == [pc |-> "checked", conv |-> m.conv, kind |-> "regenerate", id |-> m.id]
    <3>1. req' = [req EXCEPT ![w] = r] /\ r.kind \in {"edit", "regenerate"}
      BY <2>4 DEF Quota!LoadReply, Quota!To
    <3> HIDE DEF r
    <3>2. QED
      BY <2>1, <2>2, <3>1, KindNone
  <2>5. QED
    BY <1>6, <2>3, <2>4
<1>7. ASSUME NEW w \in Worker, Quota!Post(w)
      PROVE  KindRoom(kind)'
  <2> DEFINE k == req[w].kind
             x == Quota!Row(nextId, req[w].conv, "assistant", k, "pending")
  <2>1. /\ req[w].pc = "checked" /\ k \in Quota!Kinds /\ nextId + Quota!Ids(k) <= MaxMessages + 1
        /\ req' = [req EXCEPT ![w] = Quota!Idle] /\ UNCHANGED window /\ messages' = messages \cup Quota!Question(req[w].conv, k)
    BY <1>7 DEF Quota!Post, Quota!To
  <2>2. req[w].conv \in Conv /\ MaxMessages \in Nat
    BY <2>1 DEF RequestsOK, Using, Quota!ChatQuotaConstants
  <2>3. \A m \in Quota!Question(req[w].conv, k) : m.role = "assistant" => m = x \/ m.kind = "chat"
    BY <2>1, <2>2, QuestionRows
  <2>4. x.kind = k
    BY DEF Quota!Row
  <2> HIDE DEF x
  <2>5. UsedBy(kind)' \subseteq UsedBy(kind) \cup {x}
    BY <1>1, <2>1, <2>3 DEF UsedBy, Quota!Now
  <2>6. k # kind => UsedBy(kind)' \subseteq UsedBy(kind)
    BY <1>1, <2>1, <2>3, <2>4 DEF UsedBy, Quota!Now
  <2>7. PassedFor(kind)' \subseteq PassedFor(kind) \ {w}
    BY <1>2, <2>1, KindGoesOn
  <2>8. k = kind => w \in PassedFor(kind)
    BY <2>1 DEF PassedFor, Using
  <2>9. QED
    BY <2>5, <2>6, <2>7, <2>8, KindOne, KindNone
<1>8. ASSUME NEW w \in Worker, Quota!Edit(w)
      PROVE  KindRoom(kind)'
  <2>1. /\ req[w].pc = "checked" /\ nextId <= MaxMessages
        /\ req' = [req EXCEPT ![w] = Quota!Idle] /\ UNCHANGED window
        /\ messages' \subseteq messages \cup Quota!Question(req[w].conv, "chat")
    BY <1>8 DEF Quota!Edit, Quota!To
  <2>2. req[w].conv \in Conv /\ MaxMessages \in Nat
    BY <2>1 DEF RequestsOK, Using, Quota!ChatQuotaConstants
  <2>3. nextId + Quota!Ids("chat") <= MaxMessages + 1
    BY <2>1, <2>2 DEF Quota!Ids, Quota!TypeOK
  <2>4. \A m \in Quota!Question(req[w].conv, "chat") :
          m.role = "assistant" => m = Quota!Row(nextId, req[w].conv, "assistant", "chat", "pending") \/ m.kind = "chat"
    BY <2>2, <2>3, ChatIsAKind, QuestionRows
  <2>5. Quota!Row(nextId, req[w].conv, "assistant", "chat", "pending").kind = "chat"
    BY DEF Quota!Row
  <2>6. UsedBy(kind)' \subseteq UsedBy(kind)
    BY <1>1, <2>1, <2>4, <2>5 DEF UsedBy, Quota!Now
  <2>7. QED
    BY <1>2, <2>1, <2>6, KindGoesOn, KindNone
<1>9. ASSUME NEW w \in Worker, Quota!PostPrompt(w)
      PROVE  KindRoom(kind)'
  <2> DEFINE x == Quota!Row(nextId, req[w].conv, "user", "media", Quota!NoReply)
             r == [req[w] EXCEPT !.pc = "generating"]
  <2>1. /\ req[w].pc = "checked" /\ req' = [req EXCEPT ![w] = r] /\ UNCHANGED window
        /\ messages' = messages \cup {x}
    BY <1>9 DEF Quota!PostPrompt, Quota!Step, Quota!To
  <2>2. r.kind = req[w].kind
    BY StepFields
  <2>3. x.role # "assistant"
    BY DEF Quota!Row
  <2> HIDE DEF x, r
  <2>4. UsedBy(kind)' \subseteq UsedBy(kind)
    BY <2>1, <2>3 DEF UsedBy, Quota!Now
  <2>5. r.kind = kind => w \in PassedFor(kind)
    BY <2>1, <2>2 DEF PassedFor, Using
  <2>6. QED
    BY <2>1, <2>4, <2>5, KindGoesOn, KindNone
<1>10. ASSUME NEW w \in Worker, Quota!SaveMedia(w)
       PROVE  KindRoom(kind)'
  <2>1. PICK k \in {"media", "chat"} :
          messages' = messages \cup {Quota!Row(nextId, req[w].conv, "assistant", k, "free")}
    BY <1>10 DEF Quota!SaveMedia
  <2> DEFINE x == Quota!Row(nextId, req[w].conv, "assistant", k, "free")
  <2>2. /\ req[w].pc = "generating" /\ req' = [req EXCEPT ![w] = Quota!Idle] /\ UNCHANGED window
        /\ req[w].kind = "media"
    BY <1>10 DEF Quota!SaveMedia, Quota!To, RequestsOK
  <2>3. x.kind = k /\ messages' = messages \cup {x}
    BY <2>1 DEF Quota!Row
  <2> HIDE DEF x
  <2>4. PassedFor(kind)' \subseteq PassedFor(kind) \ {w}
    BY <1>2, <2>2, KindGoesOn
  <2>5. CASE kind = "media"
    <3>1. w \in PassedFor(kind)
      BY <2>2, <2>5 DEF PassedFor, Using
    <3>2. UsedBy(kind)' \subseteq UsedBy(kind) \cup {x}
      BY <2>2, <2>3 DEF UsedBy, Quota!Now
    <3>3. QED
      BY <2>4, <3>1, <3>2, KindOne
  <2>6. CASE kind # "media"
    <3>1. UsedBy(kind)' \subseteq UsedBy(kind)
      BY <1>1, <2>2, <2>3, <2>6 DEF UsedBy, Quota!Now
    <3>2. QED
      BY <2>4, <3>1, KindNone
  <2>7. QED
    BY <2>5, <2>6
<1>11. kind \in Quota!Kinds
  BY DEF Quota!Kinds
<1>12. ASSUME NEW w \in Worker, Quota!Regenerate(w)
       PROVE  KindRoom(kind)'
  <2>1. req' = [req EXCEPT ![w] = Quota!Idle] /\ UNCHANGED window
    BY <1>12 DEF Quota!Regenerate, Quota!To
  <2>2. IsFiniteSet(UsedBy(kind)') /\ Cardinality(UsedBy(kind)') <= Cardinality(UsedBy(kind))
    BY <1>11, <1>12, <2>1, RegenerateRewrites, RewrittenKeeps
  <2>3. QED
    BY <1>2, <2>1, <2>2, KindGoesOn, KindNothing
<1>13. ASSUME NEW a \in messages, Quota!Answer(a)
       PROVE  KindRoom(kind)'
  <2>1. UNCHANGED <<req, window>>
    BY <1>13 DEF Quota!Answer
  <2>2. IsFiniteSet(UsedBy(kind)') /\ Cardinality(UsedBy(kind)') <= Cardinality(UsedBy(kind))
    BY <1>11, <1>13, <2>1, AnswerRewrites, RewrittenKeeps
  <2>3. PassedFor(kind)' = PassedFor(kind)
    BY <2>1 DEF PassedFor
  <2>4. QED
    BY <2>2, <2>3, KindNothing
<1>14. ASSUME (\E c \in Conv : Quota!DeleteConversation(c)) \/ UNCHANGED Quota!vars
       PROVE  KindRoom(kind)'
  <2>1. UNCHANGED <<req, window, messages>>
    BY <1>14 DEF Quota!DeleteConversation, Quota!vars
  <2>2. PassedFor(kind)' = PassedFor(kind)
    BY <2>1 DEF PassedFor
  <2>3. QED
    BY <1>3, <2>1, <2>2, KindNone
<1>15. ASSUME Quota!NextWindow
       PROVE  KindRoom(kind)'
  <2>1. UNCHANGED <<messages, req>> /\ window' = window + 1 /\ window \in Nat
    BY <1>15 DEF Quota!NextWindow, Quota!TypeOK, Quota!ChatQuotaConstants
  <2>2. \A m \in messages : m.window \in Nat /\ m.window <= window
    BY DEF Quota!TypeOK, Quota!Messages, Quota!ChatQuotaConstants
  <2>3. UsedBy(kind)' \subseteq UsedBy(kind) /\ PassedFor(kind)' = PassedFor(kind)
    BY <2>1, <2>2 DEF Quota!Now, UsedBy, PassedFor
  <2>4. QED
    BY <2>3, KindNone
<1>16. QED
  BY <1>4, <1>5, <1>6, <1>7, <1>8, <1>9, <1>10, <1>12, <1>13, <1>14, <1>15 DEF Quota!Next

\* The limit of one conversation.

Held(c) ==
    /\ Cardinality(Plain(c)) <= ConvCap
    /\ \A v, w \in Quota!LockTaken(c) : v = w
    /\ Quota!LockTaken(c) # {} => Cardinality(Plain(c)) < ConvCap

LEMMA PlainCounted ==
    ASSUME Quota!ChatQuotaConstants, Quota!TypeOK, NEW c \in Conv
    PROVE  /\ IsFiniteSet(Plain(c)) /\ Cardinality(Plain(c)) \in Nat /\ ConvCap \in Nat
           /\ Cardinality(Plain(c)) <= Quota!Sent(c) /\ Quota!Sent(c) \in Nat
<1> DEFINE S == {m \in messages : m.conv = c /\ m.role = "user"}
<1>1. IsFiniteSet(S) /\ Plain(c) \subseteq S /\ Quota!Sent(c) = Cardinality(S)
  BY CountPart, QuotaSets DEF Quota!TypeOK, Plain, Quota!Sent
<1>2. ConvCap \in Nat
  BY DEF Quota!ChatQuotaConstants
<1>3. QED
  BY <1>1, <1>2, CountPart, Count

\* Steps that add no message the limit is for, and let nobody have the lock.
LEMMA HeldNothing ==
    ASSUME Quota!ChatQuotaConstants, Quota!TypeOK, NEW c \in Conv, Held(c),
           Plain(c)' \subseteq Plain(c), Quota!LockTaken(c)' \subseteq Quota!LockTaken(c)
    PROVE  Held(c)'
<1> DEFINE R == Plain(c)'
           L == Quota!LockTaken(c)'
<1>1. IsFiniteSet(Plain(c)) /\ Cardinality(Plain(c)) \in Nat /\ ConvCap \in Nat
  BY PlainCounted
<1>2. R \subseteq Plain(c) /\ L \subseteq Quota!LockTaken(c)
  OBVIOUS
<1>3. Cardinality(R) <= Cardinality(Plain(c)) /\ Cardinality(R) \in Nat
  BY <1>1, <1>2, CountPart, Count
<1> HIDE DEF R, L
<1>4. /\ Cardinality(R) <= ConvCap /\ (Quota!LockTaken(c) # {} => Cardinality(R) < ConvCap)
      /\ \A v, w \in L : v = w
  BY <1>1, <1>2, <1>3 DEF Held
<1>5. QED
  BY <1>2, <1>4 DEF R, L, Held

\* Who has the lock adds a message and lets go of it.
LEMMA HeldOne ==
    ASSUME Quota!ChatQuotaConstants, Quota!TypeOK, NEW c \in Conv, Held(c), NEW w \in Quota!LockTaken(c), NEW x,
           Plain(c)' \subseteq Plain(c) \cup {x}, Quota!LockTaken(c)' \subseteq Quota!LockTaken(c) \ {w}
    PROVE  Held(c)'
<1> DEFINE R == Plain(c)'
           L == Quota!LockTaken(c)'
<1>1. IsFiniteSet(Plain(c)) /\ Cardinality(Plain(c)) \in Nat /\ ConvCap \in Nat
  BY PlainCounted
<1>2. R \subseteq Plain(c) \cup {x} /\ L = {}
  BY DEF Held
<1>3. Cardinality(R) <= Cardinality(Plain(c)) + 1 /\ Cardinality(R) \in Nat
  BY <1>1, <1>2, CountMore, Count
<1> HIDE DEF R, L
<1>4. Cardinality(Plain(c)) < ConvCap
  BY DEF Held
<1>5. Cardinality(R) <= ConvCap
  BY <1>1, <1>3, <1>4
<1>6. QED
  BY <1>2, <1>5 DEF R, L, Held

\* The lock is free and so is a place.
LEMMA HeldTaken ==
    ASSUME Quota!ChatQuotaConstants, Quota!TypeOK, NEW c \in Conv, NEW w, Quota!Sent(c) < ConvCap, Quota!LockTaken(c) = {},
           UNCHANGED messages, Quota!LockTaken(c)' \subseteq {w}
    PROVE  Held(c)'
<1> DEFINE R == Plain(c)'
           L == Quota!LockTaken(c)'
<1>1. /\ IsFiniteSet(Plain(c)) /\ Cardinality(Plain(c)) \in Nat /\ ConvCap \in Nat
      /\ Cardinality(Plain(c)) <= Quota!Sent(c) /\ Quota!Sent(c) \in Nat
  BY PlainCounted
<1>2. R = Plain(c) /\ L \subseteq {w}
  BY DEF Plain
<1>3. Cardinality(Plain(c)) < ConvCap
  BY <1>1
<1> HIDE DEF R, L
<1>4. Cardinality(R) < ConvCap /\ Cardinality(R) <= ConvCap
  BY <1>1, <1>2, <1>3
<1>5. QED
  BY <1>2, <1>4 DEF R, L, Held

\* The request w goes on, and does not take the lock of c.
LEMMA HeldGoesOn ==
    ASSUME Quota!TypeOK, NEW c, NEW w \in Worker, NEW r, req' = [req EXCEPT ![w] = r]
    PROVE  /\ (r.pc = "checked" /\ r.conv = c /\ r.kind \notin {"media", "regenerate"} => w \in Quota!LockTaken(c))
                 => Quota!LockTaken(c)' \subseteq Quota!LockTaken(c)
           /\ Quota!LockTaken(c)' \subseteq Quota!LockTaken(c) \cup {w}
           /\ r.pc # "checked" => Quota!LockTaken(c)' \subseteq Quota!LockTaken(c) \ {w}
<1>1. \A v \in Worker : req'[v] = IF v = w THEN r ELSE req[v]
  BY DEF Quota!TypeOK
<1>2. Quota!LockTaken(c)' = {v \in Worker : req'[v].pc = "checked" /\ req'[v].conv = c
                                       /\ req'[v].kind \notin {"media", "regenerate"}}
  BY DEF Quota!LockTaken
<1>3. QED
  BY <1>1, <1>2 DEF Quota!LockTaken

LEMMA HeldStep ==
    ASSUME Quota!ChatQuotaConstants, Quota!TypeOK, RequestsOK, NEW c \in Conv, Held(c), [Quota!Next]_Quota!vars
    PROVE  Held(c)'
<1>1. Quota!Idle.pc = "idle"
  BY DEF Quota!Idle
<1>2. ASSUME UNCHANGED messages
      PROVE  Plain(c)' \subseteq Plain(c)
  BY <1>2 DEF Plain
<1>3. ASSUME NEW w \in Worker, NEW r, req' = [req EXCEPT ![w] = r], r.pc # "checked", Plain(c)' \subseteq Plain(c)
      PROVE  Held(c)'
  <2>1. Quota!LockTaken(c)' \subseteq Quota!LockTaken(c)
    BY <1>3, HeldGoesOn
  <2>2. QED
    BY <1>3, <2>1, HeldNothing
<1>4. ASSUME NEW w \in Worker, Quota!CheckSession(w) \/ Quota!CreateConversation(w) \/ Quota!Refuse(w)
      PROVE  Held(c)'
  <2>1. Plain(c)' \subseteq Plain(c)
    BY <1>2, <1>4 DEF Quota!CheckSession, Quota!CreateConversation, Quota!Refuse
  <2>2. CASE Quota!CheckSession(w)
    <3> DEFINE r == [req[w] EXCEPT !.pc = "starting"]
    <3>1. req' = [req EXCEPT ![w] = r]
      BY <2>2 DEF Quota!CheckSession, Quota!Step, Quota!To
    <3>2. r.pc = "starting"
      BY StepFields
    <3> HIDE DEF r
    <3>3. QED
      BY <1>3, <2>1, <3>1, <3>2
  <2>3. CASE Quota!CreateConversation(w) \/ Quota!Refuse(w)
    <3>1. req' = [req EXCEPT ![w] = Quota!Idle]
      BY <2>3 DEF Quota!CreateConversation, Quota!Refuse, Quota!To
    <3>2. QED
      BY <1>1, <1>3, <2>1, <3>1
  <2>4. QED
    BY <1>4, <2>2, <2>3
<1>5. ASSUME NEW w \in Worker, Quota!CheckLimits(w)
      PROVE  Held(c)'
  <2> DEFINE r == [req[w] EXCEPT !.pc = "checked"]
  <2>1. /\ req' = [req EXCEPT ![w] = r] /\ req[w].pc = "asked" /\ UNCHANGED messages
        /\ Quota!WithinLimits(req[w].conv) /\ (req[w].kind # "media" => Quota!LockTaken(req[w].conv) = {})
    BY <1>5 DEF Quota!CheckLimits, Quota!Step, Quota!To
  <2>2. r.kind = req[w].kind /\ r.conv = req[w].conv
    BY StepFields
  <2>3. Plain(c)' \subseteq Plain(c)
    BY <1>2, <2>1
  <2> HIDE DEF r
  <2>4. CASE req[w].conv = c /\ req[w].kind # "media"
    <3>1. Quota!LockTaken(c) = {} /\ Quota!Sent(c) < ConvCap
      BY <2>1, <2>4 DEF Quota!WithinLimits
    <3>2. Quota!LockTaken(c)' \subseteq Quota!LockTaken(c) \cup {w}
      BY <2>1, HeldGoesOn
    <3>3. Quota!LockTaken(c)' \subseteq {w}
      BY <3>1, <3>2
    <3>4. QED
      BY <2>1, <3>1, <3>3, HeldTaken
  <2>5. CASE req[w].conv # c \/ req[w].kind = "media"
    <3>0. ~(r.conv = c /\ r.kind \notin {"media", "regenerate"})
      BY <2>2, <2>5
    <3>1. Quota!LockTaken(c)' \subseteq Quota!LockTaken(c)
      BY <2>1, <3>0, HeldGoesOn
    <3>2. QED
      BY <2>3, <3>1, HeldNothing
  <2>6. QED
    BY <2>4, <2>5
<1>6. ASSUME NEW w \in Worker, NEW d \in Conv, NEW k \in Quota!Kinds, Quota!CheckKind(w, d, k)
      PROVE  Held(c)'
  <2> DEFINE r == [pc |-> "asked", conv |-> d, kind |-> k, id |-> 0]
  <2>1. req' = [req EXCEPT ![w] = r] /\ r.pc = "asked" /\ UNCHANGED messages
    BY <1>6 DEF Quota!CheckKind, Quota!To
  <2> HIDE DEF r
  <2>2. QED
    BY <1>2, <1>3, <2>1
<1>7. ASSUME NEW w \in Worker, NEW m \in messages, Quota!LoadQuestion(w, m)
      PROVE  Held(c)'
  <2> DEFINE r == [pc |-> "asked", conv |-> m.conv, kind |-> "edit", id |-> m.id]
  <2>1. req' = [req EXCEPT ![w] = r] /\ r.pc = "asked" /\ UNCHANGED messages
    BY <1>7 DEF Quota!LoadQuestion, Quota!To
  <2> HIDE DEF r
  <2>2. QED
    BY <1>2, <1>3, <2>1
<1>8. ASSUME NEW w \in Worker, NEW m \in messages, Quota!LoadReply(w, m)
      PROVE  Held(c)'
  <2> DEFINE r == [pc |-> "checked", conv |-> m.conv, kind |-> "regenerate", id |-> m.id]
  <2>1. req' = [req EXCEPT ![w] = r] /\ r.kind = "regenerate" /\ UNCHANGED messages
    BY <1>8 DEF Quota!LoadReply, Quota!To
  <2> HIDE DEF r
  <2>2. Quota!LockTaken(c)' \subseteq Quota!LockTaken(c)
    BY <2>1, HeldGoesOn
  <2>3. QED
    BY <1>2, <2>1, <2>2, HeldNothing
<1>9. ASSUME NEW w \in Worker, Quota!Post(w) \/ Quota!Edit(w)
      PROVE  Held(c)'
  <2>1. /\ req[w].pc = "checked" /\ req' = [req EXCEPT ![w] = Quota!Idle]
        /\ req[w].conv \in Conv /\ MaxMessages \in Nat
    BY <1>9 DEF Quota!Post, Quota!Edit, Quota!To, RequestsOK, Using, Quota!ChatQuotaConstants
  <2>2. req[w].kind \notin {"media", "regenerate"}
    <3>1. "chat" # "regenerate" /\ "edit" # "regenerate" /\ "edit" # "media"
      OBVIOUS
    <3>2. "regenerate" \notin Quota!Kinds
      BY <3>1 DEF Quota!Kinds, Quota!ChatQuotaConstants
    <3>3. QED
      BY <1>9, <3>1, <3>2 DEF Quota!Post, Quota!Edit
  <2>3. PICK kind \in Quota!Kinds : nextId + Quota!Ids(kind) <= MaxMessages + 1
                              /\ messages' \subseteq messages \cup Quota!Question(req[w].conv, kind)
    <3>1. CASE Quota!Post(w)
      BY <3>1 DEF Quota!Post
    <3>2. CASE Quota!Edit(w)
      <4>1. nextId <= MaxMessages /\ nextId \in Nat /\ Quota!Ids("chat") = 1
        BY <3>2 DEF Quota!Edit, Quota!TypeOK, Quota!Ids
      <4>2. messages' \subseteq messages \cup Quota!Question(req[w].conv, "chat")
        BY <3>2 DEF Quota!Edit
      <4>3. QED
        BY <2>1, <4>1, <4>2, ChatIsAKind
    <3>3. QED
      BY <1>9, <3>1, <3>2
  <2> DEFINE x == Quota!Row(nextId, req[w].conv, "user", kind, Quota!NoReply)
  <2>4. \A m \in Quota!Question(req[w].conv, kind) : m.conv = req[w].conv /\ (m.role = "user" => m = x)
    BY <2>1, <2>3, QuestionRows
  <2> HIDE DEF x
  <2>5. CASE req[w].conv = c
    <3>1. w \in Quota!LockTaken(c)
      BY <2>1, <2>2, <2>5 DEF Quota!LockTaken
    <3>2. Plain(c)' \subseteq Plain(c) \cup {x}
      BY <2>3, <2>4 DEF Plain
    <3>3. Quota!LockTaken(c)' \subseteq Quota!LockTaken(c) \ {w}
      BY <1>1, <2>1, HeldGoesOn
    <3>4. QED
      BY <3>1, <3>2, <3>3, HeldOne
  <2>6. CASE req[w].conv # c
    <3>1. Plain(c)' \subseteq Plain(c)
      BY <2>3, <2>4, <2>6 DEF Plain
    <3>2. QED
      BY <1>1, <1>3, <2>1, <3>1
  <2>7. QED
    BY <2>5, <2>6
<1>10. ASSUME NEW w \in Worker, Quota!PostPrompt(w)
       PROVE  Held(c)'
  <2> DEFINE x == Quota!Row(nextId, req[w].conv, "user", "media", Quota!NoReply)
             r == [req[w] EXCEPT !.pc = "generating"]
  <2>1. req' = [req EXCEPT ![w] = r] /\ messages' = messages \cup {x}
    BY <1>10 DEF Quota!PostPrompt, Quota!Step, Quota!To
  <2>2. r.pc = "generating" /\ x.kind = "media"
    BY StepFields DEF Quota!Row
  <2> HIDE DEF x, r
  <2>3. Plain(c)' \subseteq Plain(c)
    BY <2>1, <2>2 DEF Plain
  <2>4. QED
    BY <1>3, <2>1, <2>2, <2>3
<1>11. ASSUME NEW w \in Worker, Quota!SaveMedia(w)
       PROVE  Held(c)'
  <2>1. PICK k \in {"media", "chat"} :
          messages' = messages \cup {Quota!Row(nextId, req[w].conv, "assistant", k, "free")}
    BY <1>11 DEF Quota!SaveMedia
  <2> DEFINE x == Quota!Row(nextId, req[w].conv, "assistant", k, "free")
  <2>2. req' = [req EXCEPT ![w] = Quota!Idle]
    BY <1>11 DEF Quota!SaveMedia, Quota!To
  <2>3. x.role # "user" /\ messages' = messages \cup {x}
    BY <2>1 DEF Quota!Row
  <2> HIDE DEF x
  <2>4. Plain(c)' \subseteq Plain(c)
    BY <2>3 DEF Plain
  <2>5. QED
    BY <1>1, <1>3, <2>2, <2>4
<1>12. ASSUME NEW w \in Worker, Quota!Regenerate(w)
       PROVE  Held(c)'
  <2>1. req' = [req EXCEPT ![w] = Quota!Idle] /\ UNCHANGED window
    BY <1>12 DEF Quota!Regenerate, Quota!To
  <2>2. Plain(c)' = Plain(c)
    BY <1>12, <2>1, RegenerateRewrites, RewrittenKeeps
  <2>3. QED
    BY <1>1, <1>3, <2>1, <2>2
<1>13. ASSUME NEW a \in messages, Quota!Answer(a)
       PROVE  Held(c)'
  <2>1. UNCHANGED <<req, window>>
    BY <1>13 DEF Quota!Answer
  <2>2. Plain(c)' = Plain(c)
    BY <1>13, <2>1, AnswerRewrites, RewrittenKeeps
  <2>3. Quota!LockTaken(c)' = Quota!LockTaken(c)
    BY <2>1 DEF Quota!LockTaken
  <2>4. QED
    BY <2>2, <2>3, HeldNothing
<1>14. ASSUME (\E d \in Conv : Quota!DeleteConversation(d)) \/ Quota!NextWindow \/ UNCHANGED Quota!vars
       PROVE  Held(c)'
  <2>1. UNCHANGED <<req, messages>>
    BY <1>14 DEF Quota!DeleteConversation, Quota!NextWindow, Quota!vars
  <2>2. Quota!LockTaken(c)' = Quota!LockTaken(c)
    BY <2>1 DEF Quota!LockTaken
  <2>3. QED
    BY <1>2, <2>1, <2>2, HeldNothing
<1>15. QED
  BY <1>4, <1>5, <1>6, <1>7, <1>8, <1>9, <1>10, <1>11, <1>12, <1>13, <1>14 DEF Quota!Next

\* The theorem.

LEMMA QuotaInvInit == ASSUME Quota!ChatQuotaConstants, Quota!Init PROVE QuotaInv
<1>1. Cardinality({}) = 0 /\ IsFiniteSet({})
  BY FS_EmptySet
<1>2. /\ MaxMessages \in Nat /\ MaxWindows \in Nat /\ SessionCap \in Nat /\ RequestCap \in Nat /\ ConvCap \in Nat
      /\ Cardinality(Worker) \in Nat \ {0}
  BY WorkerCount DEF Quota!ChatQuotaConstants
<1>3. messages = {} /\ nextId = 1 /\ window = 1 /\ conv = [c \in Conv |-> None] /\ req = [w \in Worker |-> Quota!Idle]
  BY DEF Quota!Init
<1>4. Quota!Idle.pc = "idle" /\ \A w \in Worker : req[w].pc = "idle"
  BY <1>3 DEF Quota!Idle
<1>5. MaxWindows >= 1
  BY DEF Quota!ChatQuotaConstants
<1>6. Quota!TypeOK
  <2>1. Quota!Idle \in Quota!Progress
    <3>1. 0 \in 0 .. MaxMessages
      BY <1>2
    <3>2. QED
      BY <3>1, ChatIsAKind DEF Quota!Idle, Quota!Progress
  <2>2. nextId \in 1 .. (MaxMessages + 1) /\ window \in 1 .. MaxWindows
    BY <1>2, <1>3, <1>5
  <2>3. conv \in [Conv -> {None} \cup [window : 1 .. MaxWindows, live : BOOLEAN]] /\ \A c \in Conv : conv[c] = None
    BY <1>3
  <2>4. req \in [Worker -> Quota!Progress]
    BY <1>3, <2>1
  <2>5. QED
    BY <1>1, <1>3, <2>2, <2>3, <2>4, QuotaSets DEF Quota!TypeOK
<1>7. RequestsOK
  BY <1>4 DEF RequestsOK, Using
<1>8. StartsOK
  <2>1. {c \in Conv : conv[c] # None /\ conv[c].window = window} = {}
    BY <1>3
  <2>2. Quota!Cardinality({}) = 0
    BY <1>1, QuotaSets
  <2>3. Quota!StartedToday = 0 /\ Quota!SessionsCapped
    BY <1>2, <2>1, <2>2 DEF Quota!StartedToday, Quota!SessionsCapped
  <2>4. QED
    BY <1>4, <2>3 DEF StartsOK
<1>9. OvershootOK
  <2>1. Quota!Now("user") = {} /\ Passed = {}
    BY <1>3, <1>4 DEF Quota!Now, Passed
  <2>2. \A kind \in Quota!Capped : UsedBy(kind) = {} /\ PassedFor(kind) = {} /\ KindCap[kind] \in Nat
    BY <1>3, <1>4 DEF Quota!Now, UsedBy, PassedFor, Using, Quota!ChatQuotaConstants
  <2>3. \A cap \in Nat : Room({}, {}, cap)
    BY <1>1, <1>2 DEF Room
  <2>4. QED
    BY <1>2, <2>1, <2>2, <2>3 DEF OvershootOK
<1>10. ConversationsOK
  <2>1. \A c \in Conv : Plain(c) = {} /\ Quota!LockTaken(c) = {}
    BY <1>3, <1>4 DEF Plain, Quota!LockTaken
  <2>2. QED
    BY <1>1, <1>2, <2>1 DEF ConversationsOK
<1>11. QED
  BY <1>6, <1>7, <1>8, <1>9, <1>10 DEF QuotaInv

LEMMA QuotaInvStep == ASSUME Quota!ChatQuotaConstants, QuotaInv, [Quota!Next]_Quota!vars PROVE QuotaInv'
<1>1. Quota!TypeOK /\ RequestsOK /\ StartsOK /\ OvershootOK /\ ConversationsOK
  BY DEF QuotaInv
<1>2. Quota!TypeOK' /\ RequestsOK'
  BY <1>1, TypeStep
<1>3. StartsOK'
  BY <1>1, StartsStep
<1>4. OvershootOK'
  <2>1. Room(Quota!Now("user"), Passed, RequestCap)'
    BY <1>1, <1>2, RequestsStep
  <2>2. \A kind \in Quota!Capped : KindRoom(kind)'
    BY <1>1, KindStep
  <2>3. QED
    BY <2>1, <2>2 DEF OvershootOK, KindRoom
<1>5. ConversationsOK'
  <2>1. \A c \in Conv : Held(c)
    BY <1>1 DEF ConversationsOK, Held
  <2>2. \A c \in Conv : Held(c)'
    BY <1>1, <2>1, HeldStep
  <2>3. QED
    BY <2>2 DEF ConversationsOK, Held
<1>6. QED
  BY <1>2, <1>3, <1>4, <1>5 DEF QuotaInv

LEMMA QuotaInvIsSafe == ASSUME Quota!ChatQuotaConstants, QuotaInv PROVE Quota!QuotaSafe
<1>1. Quota!TypeOK /\ Quota!SessionsCapped
  BY DEF QuotaInv, StartsOK
<1>2. Cardinality(Worker) \in Nat \ {0}
  BY WorkerCount
<1>3. Quota!Requests <= RequestCap + Cardinality(Worker) - 1
  <2>1. Cardinality(Passed) \in Nat /\ Cardinality(Quota!Now("user")) \in Nat /\ RequestCap \in Nat
    BY <1>1, Counted, WorkerCount, CountPart, Count
  <2>2. Cardinality(Quota!Now("user")) + Cardinality(Passed) < RequestCap + Cardinality(Worker)
    BY DEF QuotaInv, OvershootOK, Room
  <2>3. QED
    BY <1>2, <2>1, <2>2, QuotaSets DEF Quota!Requests
<1>4. ASSUME NEW kind \in Quota!Capped
      PROVE  Cardinality({m \in Quota!Now("assistant") : m.kind = kind}) <= KindCap[kind] + Cardinality(Worker) - 1
  <2>1. PassedFor(kind) \subseteq Worker /\ IsFiniteSet(UsedBy(kind)) /\ KindCap[kind] \in Nat
    BY <1>1, Counted
  <2>2. Cardinality(PassedFor(kind)) \in Nat /\ Cardinality(UsedBy(kind)) \in Nat
    BY <2>1, WorkerCount, CountPart, Count
  <2>3. Cardinality(UsedBy(kind)) + Cardinality(PassedFor(kind)) < KindCap[kind] + Cardinality(Worker)
    BY DEF QuotaInv, OvershootOK, Room
  <2>4. QED
    BY <1>2, <2>1, <2>2, <2>3 DEF UsedBy
<1>5. ASSUME NEW c \in Conv
      PROVE  Quota!Sent(c) <= ConvCap + Cardinality({m \in messages : m.conv = c /\ m.role = "user" /\ m.kind = "media"})
  <2> DEFINE A == Plain(c)
             B == {m \in messages : m.conv = c /\ m.role = "user" /\ m.kind = "media"}
  <2>1. IsFiniteSet(A) /\ Cardinality(A) \in Nat /\ ConvCap \in Nat
    BY <1>1, PlainCounted
  <2>2. IsFiniteSet(B)
    BY <1>1, CountPart, QuotaSets DEF Quota!TypeOK
  <2>3. Quota!Sent(c) = Cardinality(A \cup B)
    <3>1. {m \in messages : m.conv = c /\ m.role = "user"} = A \cup B
      BY DEF Plain
    <3>2. QED
      BY <3>1, QuotaSets DEF Quota!Sent
  <2>4. Cardinality(A) <= ConvCap
    BY DEF QuotaInv, ConversationsOK
  <2> HIDE DEF A, B
  <2>5. /\ IsFiniteSet(A \cap B) /\ Cardinality(B) \in Nat /\ Cardinality(A \cap B) \in Nat
        /\ Cardinality(A \cup B) = Cardinality(A) + Cardinality(B) - Cardinality(A \cap B)
    BY <2>1, <2>2, FS_Union, FS_Intersection, Count
  <2>6. Quota!Sent(c) <= ConvCap + Cardinality(B)
    BY <2>1, <2>3, <2>4, <2>5
  <2>7. QED
    BY <2>6 DEF B
<1>6. QED
  BY <1>1, <1>3, <1>4, <1>5, QuotaSets DEF Quota!QuotaSafe, Quota!WindowOvershoot, Quota!ConversationCapped

\* What gets through a plan's limits when requests race, for any number of requests at
\* once, any caps and any kinds: conversations and the messages of one conversation
\* never beyond their limit (check_usage_limits and create_conversation_within_quota
\* hold the row), and the counts of a user beyond it by one less than the requests
\* that can be in progress.
LEMMA QuotaHolds == ASSUME Quota!ChatQuotaConstants PROVE Quota!Spec => []Quota!QuotaSafe
<1>1. Quota!Init => QuotaInv
  BY QuotaInvInit
<1>2. QuotaInv /\ [Quota!Next]_Quota!vars => QuotaInv'
  BY QuotaInvStep
<1>3. QuotaInv => Quota!QuotaSafe
  BY QuotaInvIsSafe
<1>4. QED
  BY <1>1, <1>2, <1>3, PTL DEF Quota!Spec

Spent == {m \in Quota!Now("assistant") : m.reply = "spent"}

LEMMA NotFewer == ASSUME NEW S, NEW T, IsFiniteSet(T), S \subseteq T PROVE ~(Cardinality(T) < Cardinality(S))
<1>1. IsFiniteSet(S) /\ Cardinality(S) <= Cardinality(T)
  BY CountPart
<1>2. Cardinality(S) \in Nat /\ Cardinality(T) \in Nat
  BY <1>1, Count
<1>3. QED
  BY <1>1, <1>2

LEMMA NothingReturned ==
    ASSUME Quota!ChatQuotaConstants, QuotaInv, [Quota!Next]_Quota!vars, window' = window
    PROVE  /\ Quota!Requests' < Quota!Requests => \E w \in Worker : req[w].kind = "edit"
           /\ Quota!Tokens' < Quota!Tokens => \E w \in Worker : req[w].kind \in {"edit", "regenerate"} /\ req[w].pc = "checked"
<1>1. IsFiniteSet(messages') /\ Quota!TypeOK
  BY TypeStep, QuotaSets DEF QuotaInv, Quota!TypeOK
<1>2. IsFiniteSet(Quota!Now("user")') /\ IsFiniteSet(Spent')
  BY <1>1, CountPart DEF Quota!Now, Spent
<1>3. Quota!Requests' = Cardinality(Quota!Now("user")') /\ Quota!Tokens' = Cardinality(Spent') /\ Quota!Tokens = Cardinality(Spent)
  BY QuotaSets DEF Quota!Requests, Quota!Tokens, Spent
<1>4. Quota!Now("user") \subseteq Quota!Now("user")' => ~(Quota!Requests' < Quota!Requests)
  BY <1>2, <1>3, NotFewer, QuotaSets DEF Quota!Requests
<1>5. Spent \subseteq Spent' => ~(Quota!Tokens' < Quota!Tokens)
  BY <1>2, <1>3, NotFewer
<1>6. ASSUME messages \subseteq messages'
      PROVE  Quota!Now("user") \subseteq Quota!Now("user")' /\ Spent \subseteq Spent'
  BY <1>6 DEF Quota!Now, Spent
<1>7. ASSUME NEW w \in Worker, Quota!Edit(w)
      PROVE  req[w].kind = "edit" /\ req[w].pc = "checked"
  BY <1>7 DEF Quota!Edit
<1>8. ASSUME NEW w \in Worker, Quota!Regenerate(w)
      PROVE  req[w].kind = "regenerate" /\ req[w].pc = "checked" /\ Quota!Now("user")' = Quota!Now("user")
  BY <1>1, <1>8, RegenerateRewrites, RewrittenKeeps DEF Quota!Regenerate
<1>9. ASSUME NEW a \in messages, Quota!Answer(a)
      PROVE  Quota!Now("user")' = Quota!Now("user") /\ Spent \subseteq Spent'
  <2>1. Quota!Now("user")' = Quota!Now("user")
    BY <1>1, <1>9, AnswerRewrites, RewrittenKeeps DEF Quota!Answer
  <2>2. a.reply = "pending" /\ messages \ {a} \subseteq messages'
    BY <1>9 DEF Quota!Answer
  <2>3. QED
    BY <2>1, <2>2 DEF Quota!Now, Spent
<1>10. ASSUME NEW w \in Worker,
              \/ Quota!CheckSession(w) \/ Quota!CreateConversation(w) \/ Quota!CheckLimits(w) \/ Quota!Post(w)
              \/ Quota!PostPrompt(w) \/ Quota!SaveMedia(w) \/ Quota!Refuse(w)
       PROVE  messages \subseteq messages'
  BY <1>10 DEF Quota!CheckSession, Quota!CreateConversation, Quota!CheckLimits, Quota!Post,
     Quota!PostPrompt, Quota!SaveMedia, Quota!Refuse
<1>11. ASSUME \/ \E w \in Worker : \/ \E c \in Conv, kind \in Quota!Kinds : Quota!CheckKind(w, c, kind)
                                   \/ \E m \in messages : Quota!LoadQuestion(w, m) \/ Quota!LoadReply(w, m)
              \/ \E c \in Conv : Quota!DeleteConversation(c)
              \/ UNCHANGED Quota!vars
       PROVE  messages \subseteq messages'
  BY <1>11 DEF Quota!CheckKind, Quota!LoadQuestion, Quota!LoadReply, Quota!DeleteConversation,
     Quota!vars
<1>12. ~Quota!NextWindow
  BY <1>1 DEF Quota!NextWindow, Quota!TypeOK, Quota!ChatQuotaConstants
<1>13. CASE \E w \in Worker : Quota!Edit(w)
  BY <1>7, <1>13
<1>14. CASE \E w \in Worker : Quota!Regenerate(w)
  BY <1>4, <1>8, <1>14
<1>15. CASE \E a \in messages : Quota!Answer(a)
  BY <1>4, <1>5, <1>9, <1>15
<1>16. CASE messages \subseteq messages'
  BY <1>4, <1>5, <1>6, <1>16
<1>17. QED
  BY <1>10, <1>11, <1>12, <1>13, <1>14, <1>15, <1>16 DEF Quota!Next

\* Within a window a plan's count goes back only while a question is edited (or, for the
\* tokens, a reply made anew), for any number of requests: deleting a conversation
\* returns nothing, whatever else is going on (soft_delete, all_objects in plans.py).
LEMMA OnlyRewritesGiveBack == ASSUME Quota!ChatQuotaConstants PROVE Quota!Spec => Quota!OnlyRewritesReturn
<1> DEFINE A == window' = window =>
                  /\ Quota!Requests' < Quota!Requests => \E w \in Worker : req[w].kind = "edit"
                  /\ Quota!Tokens' < Quota!Tokens =>
                       \E w \in Worker : req[w].kind \in {"edit", "regenerate"} /\ req[w].pc = "checked"
<1>1. Quota!Init => QuotaInv
  BY QuotaInvInit
<1>2. QuotaInv /\ [Quota!Next]_Quota!vars => QuotaInv'
  BY QuotaInvStep
<1>3. QuotaInv /\ [Quota!Next]_Quota!vars => A
  BY NothingReturned
<1> HIDE DEF A
<1>4. Quota!Spec => [][A]_Quota!vars
  BY <1>1, <1>2, <1>3, PTL DEF Quota!Spec
<1>5. QED
  BY <1>4 DEF Quota!OnlyRewritesReturn, A

-------------------------------------------------------------------------------
(* What is proved of the quotas.                                           *)

\* For any number of requests in the chat: the limits of a day's conversations and of one
\* conversation hold, the others are passed by less than the number of requests.
THEOREM QuotasHold == Quota!Spec => []QuotaSafe
BY QuotaAssumption, QuotaHolds DEF QuotaSafe

\* Within a window a count goes back only while a message is rewritten.
THEOREM QuotasStay == Quota!Spec => OnlyRewritesReturn
BY QuotaAssumption, OnlyRewritesGiveBack DEF OnlyRewritesReturn
===============================================================================
