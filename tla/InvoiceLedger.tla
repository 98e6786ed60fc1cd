---------------------------- MODULE InvoiceLedger ----------------------------
(***************************************************************************)
(* What the rest of the portal may assume about one invoice row: the       *)
(* statuses of billing/models.py's Invoice.Status and the moves between    *)
(* them.  Who makes a move, and when, is left to the modules that          *)
(* implement this one (Invoices, InvoiceRequests, Subscription).           *)
(***************************************************************************)
CONSTANT Invoice          \* the invoices that may ever be issued

VARIABLE status           \* Invoice.status, with "none" before and "deleted" after the row

\* A row whose money is still asked for, and a row that is still there.
Open   == {"unpaid", "pending"}
Exists == Open \cup {"paid", "refunded"}
Status == Exists \cup {"none", "deleted"}

LedgerTypeOK == status \in [Invoice -> Status]

\* Moves the rows of invoice i from one of the statuses in `from` to `to`.
Move(i, from, to) ==
    /\ status[i] \in from
    /\ status' = [status EXCEPT ![i] = to]

LedgerInit == status = [i \in Invoice |-> "none"]

\* generate_invoice_for_user/department create an unpaid row; a checkout whose
\* credit covers the whole total pays the row it created before it commits.
Issue(i)   == Move(i, {"none"}, "unpaid") \/ Move(i, {"none"}, "paid")
Submit(i)  == Move(i, {"unpaid"}, "pending")
Confirm(i) == Move(i, Open, "paid")
Reopen(i)  == Move(i, {"pending", "paid"}, "unpaid")
Refund(i)  == Move(i, Open \cup {"paid"}, "refunded")
Remove(i)  == Move(i, Exists, "deleted")

LedgerNext == \E i \in Invoice :
    Issue(i) \/ Submit(i) \/ Confirm(i) \/ Reopen(i) \/ Refund(i) \/ Remove(i)

\* What Invoices and Subscription are shown to implement: no step of theirs, and
\* of nobody they run with, moves an invoice in any other way.
LedgerSpec == LedgerInit /\ [][LedgerNext]_status
==============================================================================
