------------------------------- MODULE Invoices -------------------------------
(***************************************************************************)
(* The life of an invoice: proof of payment, verification, the admin's     *)
(* manual override, and refunds (billing/views.py, billing/models.py).     *)
(* Every handler that changes a row runs under select_for_update, so a     *)
(* handler is one atomic action here; InvoiceRequests splits them into the *)
(* steps of concurrent requests and implements this module.                *)
(***************************************************************************)
EXTENDS Integers

CONSTANTS
    Invoice,              \* the invoices that may ever be issued
    Claim,                \* the RefundRequest rows that may ever be created
    RefundWindow,         \* REFUND_WINDOW_DAYS
    MaxDay,               \* bound: the last day of the run
    NoInvoice             \* what a claim that is not created yet refers to

ASSUME InvoicesAssumption ==
    RefundWindow \in Nat /\ MaxDay \in Nat /\ NoInvoice \notin Invoice

VARIABLES
    status,               \* Invoice.status
    verifiedAt,           \* Invoice.verified_at, Never when null
    claimFor,             \* RefundRequest.invoice
    claimStatus,          \* RefundRequest.status, "none" before and "deleted" after the row
    today,                \* timezone.now(), in days
    settledAt             \* history: the day the invoice last became PAID

claims == <<claimFor, claimStatus>>
vars == <<status, verifiedAt, claimFor, claimStatus, today, settledAt>>

INSTANCE InvoiceLedger

Never == -1
Day == 0 .. MaxDay
ClaimStatus == {"none", "pending", "approved", "rejected", "deleted"}

TypeOK ==
    /\ LedgerTypeOK
    /\ verifiedAt \in [Invoice -> Day \cup {Never}]
    /\ settledAt \in [Invoice -> Day \cup {Never}]
    /\ claimFor \in [Claim -> Invoice \cup {NoInvoice}]
    /\ claimStatus \in [Claim -> ClaimStatus]
    /\ today \in Day

Init ==
    /\ LedgerInit
    /\ verifiedAt = [i \in Invoice |-> Never]
    /\ settledAt = [i \in Invoice |-> Never]
    /\ claimFor = [c \in Claim |-> NoInvoice]
    /\ claimStatus = [c \in Claim |-> "none"]
    /\ today = 0

\* invoice.refund_requests.filter(status=st)
ClaimsOf(i, st) == {c \in Claim : claimFor[c] = i /\ claimStatus[c] = st}

\* generate_invoice_for_user / _for_department: the row starts UNPAID.
IssueUnpaid(i) ==
    /\ Move(i, {"none"}, "unpaid")
    /\ UNCHANGED <<claims, verifiedAt, today, settledAt>>

\* checkout_plan with an upgrade credit that leaves nothing to pay.
IssueCovered(i) ==
    /\ Move(i, {"none"}, "paid")
    /\ verifiedAt' = [verifiedAt EXCEPT ![i] = today]
    /\ settledAt' = [settledAt EXCEPT ![i] = today]
    /\ UNCHANGED <<claims, today>>

\* Mutant: the check that the invoice is UNPAID is missing.
SubmitProofAnytime(i) ==
    /\ Move(i, Exists, "pending")
    /\ UNCHANGED <<claims, verifiedAt, today, settledAt>>

SubmitProof(i) ==
    /\ Move(i, {"unpaid"}, "pending")
    /\ UNCHANGED <<claims, verifiedAt, today, settledAt>>

VerifyPayment(i) ==
    /\ Move(i, {"pending"}, "paid")
    /\ verifiedAt' = [verifiedAt EXCEPT ![i] = today]
    /\ settledAt' = [settledAt EXCEPT ![i] = today]
    /\ UNCHANGED <<claims, today>>

\* Mutant: a rejected payment gets a status the enumeration does not have.
RejectPaymentAsRejected(i) ==
    /\ Move(i, {"pending"}, "rejected")
    /\ verifiedAt' = [verifiedAt EXCEPT ![i] = today]
    /\ UNCHANGED <<claims, today, settledAt>>

\* reject_payment records the reviewer's time in verified_at too.
RejectPayment(i) ==
    /\ Move(i, {"pending"}, "unpaid")
    /\ verifiedAt' = [verifiedAt EXCEPT ![i] = today]
    /\ UNCHANGED <<claims, today, settledAt>>

\* Mutant: whatever is not PAID becomes PAID.
ToggleAnyStatus(i) ==
    /\ \/ Move(i, {"paid"}, "unpaid") /\ UNCHANGED settledAt
       \/ Move(i, Exists \ {"paid"}, "paid") /\ settledAt' = [settledAt EXCEPT ![i] = today]
    /\ UNCHANGED <<claims, verifiedAt, today>>

\* toggle_invoice_status: PAID goes back to UNPAID, an open invoice becomes
\* PAID, a refunded one is refused; verified_at is not touched either way.
ToggleStatus(i) ==
    /\ \/ Move(i, {"paid"}, "unpaid") /\ UNCHANGED settledAt
       \/ Move(i, Open, "paid") /\ settledAt' = [settledAt EXCEPT ![i] = today]
    /\ UNCHANGED <<claims, verifiedAt, today>>

\* Mutant: the window is one day too long.
WithinLongerWindow(i) ==
    /\ status[i] = "paid"
    /\ verifiedAt[i] # Never
    /\ today - verifiedAt[i] <= RefundWindow + 1

\* is_within_money_back_window
WithinMoneyBackWindow(i) ==
    /\ status[i] = "paid"
    /\ verifiedAt[i] # Never
    /\ today - verifiedAt[i] <= RefundWindow

\* Mutant: a second request is taken while one is open.
RequestRefundAgain(i, c) ==
    /\ status[i] = "paid"
    /\ claimStatus[c] = "none"
    /\ claimFor' = [claimFor EXCEPT ![c] = i]
    /\ IF WithinMoneyBackWindow(i)
         THEN /\ status' = [status EXCEPT ![i] = "refunded"]
              /\ claimStatus' = [claimStatus EXCEPT ![c] = "approved"]
         ELSE /\ claimStatus' = [claimStatus EXCEPT ![c] = "pending"]
              /\ UNCHANGED status
    /\ UNCHANGED <<verifiedAt, today, settledAt>>

\* request_refund: refunded on the spot inside the window, else a PENDING request.
RequestRefund(i, c) ==
    /\ status[i] = "paid"
    /\ ClaimsOf(i, "pending") = {}
    /\ claimStatus[c] = "none"
    /\ claimFor' = [claimFor EXCEPT ![c] = i]
    /\ IF WithinMoneyBackWindow(i)
         THEN /\ status' = [status EXCEPT ![i] = "refunded"]
              /\ claimStatus' = [claimStatus EXCEPT ![c] = "approved"]
         ELSE /\ claimStatus' = [claimStatus EXCEPT ![c] = "pending"]
              /\ UNCHANGED status
    /\ UNCHANGED <<verifiedAt, today, settledAt>>

\* resolve_refund_request looks at the request's own status, not at the invoice's.
ApproveRefund(c) ==
    /\ claimStatus[c] = "pending"
    /\ claimStatus' = [claimStatus EXCEPT ![c] = "approved"]
    /\ status' = [status EXCEPT ![claimFor[c]] = "refunded"]
    /\ UNCHANGED <<verifiedAt, claimFor, today, settledAt>>

\* Mutant: the reviewer's time goes to the invoice, as reject_payment's does.
RejectRefundStamped(c) ==
    /\ claimStatus[c] = "pending"
    /\ claimStatus' = [claimStatus EXCEPT ![c] = "rejected"]
    /\ verifiedAt' = [verifiedAt EXCEPT ![claimFor[c]] = today]
    /\ UNCHANGED <<status, claimFor, today, settledAt>>

RejectRefund(c) ==
    /\ claimStatus[c] = "pending"
    /\ claimStatus' = [claimStatus EXCEPT ![c] = "rejected"]
    /\ UNCHANGED <<status, verifiedAt, claimFor, today, settledAt>>

\* delete_invoice: the refund requests go with the row (on_delete=CASCADE).
DeleteInvoice(i) ==
    /\ Move(i, Exists, "deleted")
    /\ claimStatus' = [c \in Claim |-> IF claimFor[c] = i THEN "deleted" ELSE claimStatus[c]]
    /\ UNCHANGED <<verifiedAt, claimFor, today, settledAt>>

NextDay ==
    /\ today < MaxDay
    /\ today' = today + 1
    /\ UNCHANGED <<status, verifiedAt, claims, settledAt>>

Next ==
    \/ NextDay
    \/ \E i \in Invoice :
         \/ IssueUnpaid(i)    \/ IssueCovered(i)
         \/ SubmitProof(i)    \/ VerifyPayment(i) \/ RejectPayment(i)
         \/ ToggleStatus(i)   \/ DeleteInvoice(i)
         \/ \E c \in Claim : RequestRefund(i, c)
    \/ \E c \in Claim : ApproveRefund(c) \/ RejectRefund(c)

\* What the concurrent requests of InvoiceRequests are shown to implement: to the
\* table, each of them is one of these atomic steps.
Spec == Init /\ [][Next]_vars

-------------------------------------------------------------------------------
\* No refund is decided twice: an invoice never has two requests that are open or
\* granted (MyInvoicesView reads the open one as a single flag), and it is
\* REFUNDED exactly when one was granted, so nothing is left for a second admin.
RefundedOnce ==
    /\ \A c, d \in Claim :
         /\ claimFor[c] = claimFor[d]
         /\ claimStatus[c] \in {"pending", "approved"}
         /\ claimStatus[d] \in {"pending", "approved"}
         => c = d
    /\ \A i \in Invoice : status[i] = "refunded" <=> ClaimsOf(i, "approved") # {}

\* verified_at, from which the money-back window counts, is never later than
\* the day the payment was last confirmed: the window can be cut short by an
\* earlier review, it can never be stretched.
WindowNeverStretched == \A i \in Invoice :
    status[i] = "paid" /\ verifiedAt[i] # Never => verifiedAt[i] <= settledAt[i]

\* "A refunded invoice is closed": whatever admins and the recipient do, it
\* only ever leaves REFUNDED by being deleted.
RefundedIsClosed ==
    [][\A i \in Invoice : status[i] = "refunded" => status'[i] \in {"refunded", "deleted"}]_vars

IsRefunded(i) == status[i] # "refunded" /\ status'[i] = "refunded"

\* Money goes back without a reviewer (a refund with no request open before it)
\* only within RefundWindow days of the last confirmation of the payment.
UnreviewedRefundInTime ==
    [][\A i \in Invoice :
         IsRefunded(i) /\ ClaimsOf(i, "pending") = {} => today - settledAt[i] <= RefundWindow]_vars
===============================================================================
