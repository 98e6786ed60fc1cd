--------------------------- MODULE InvoiceRequests ---------------------------
(***************************************************************************)
(* Concurrent web requests on the same invoices.  A handler reads the row  *)
(* without a lock to authorise the caller, takes the row lock              *)
(* (select_for_update), decides on the row it then read, writes and        *)
(* commits; it may also die and be rolled back at any point.  Checkout     *)
(* does the same under the lock of the recipient's User row.  The module   *)
(* implements Invoices: to everyone else each request is one atomic step.  *)
(***************************************************************************)
EXTENDS Invoices

CONSTANTS
    Request,              \* the requests that can be in progress at once
    Offer,                \* a plan with a duration in months
    Nobody,               \* the holder of a free lock
    Ops                   \* bound: the handlers the clients of a run call

AllOps == {"submit", "verify", "reject", "toggle", "refund", "approve", "decline", "checkout"}

ASSUME RequestsAssumption ==
    Nobody \notin Request /\ NoInvoice \notin Claim \cup Offer /\ Ops \subseteq AllOps

VARIABLES
    pc,                   \* "idle", "begun" (authorised, no lock yet) or "locked"
    task,                 \* what the request was asked to do: op, inv, claim, offer
    seen,                 \* the row as read under the lock: status, verifiedAt, busy
    rowLock,              \* who holds the lock of the invoice's row
    userLock,             \* who holds the lock of the recipient's User row
    offerOf,              \* Invoice.plan and .duration_months
    checkedOut            \* the invoices that checkout_plan created

rvars == <<pc, task, seen, rowLock, userLock, offerOf, checkedOut>>
allvars == <<vars, rvars>>

NoTask == [op |-> "none", inv |-> NoInvoice, claim |-> NoInvoice, offer |-> NoInvoice]
NoRow  == [status |-> "none", verifiedAt |-> Never, busy |-> FALSE]

Task == [op : AllOps \cup {"none"}, inv : Invoice \cup {NoInvoice},
         claim : Claim \cup {NoInvoice}, offer : Offer \cup {NoInvoice}]
Row  == [status : Status, verifiedAt : Day \cup {Never}, busy : BOOLEAN]

RequestsTypeOK ==
    /\ TypeOK
    /\ pc \in [Request -> {"idle", "begun", "locked"}]
    /\ task \in [Request -> Task]
    /\ seen \in [Request -> Row]
    /\ rowLock \in [Invoice -> Request \cup {Nobody}]
    /\ userLock \in Request \cup {Nobody}
    /\ offerOf \in [Invoice -> Offer \cup {NoInvoice}]
    /\ checkedOut \in SUBSET Invoice

RequestsInit ==
    /\ Init
    /\ pc = [r \in Request |-> "idle"]
    /\ task = [r \in Request |-> NoTask]
    /\ seen = [r \in Request |-> NoRow]
    /\ rowLock = [i \in Invoice |-> Nobody]
    /\ userLock = Nobody
    /\ offerOf = [i \in Invoice |-> NoInvoice]
    /\ checkedOut = {}

-------------------------------------------------------------------------------
Start(r, t) ==
    /\ pc[r] = "idle"
    /\ t.op \in Ops
    /\ pc' = [pc EXCEPT ![r] = "begun"]
    /\ task' = [task EXCEPT ![r] = t]
    /\ UNCHANGED <<vars, seen, rowLock, userLock, offerOf, checkedOut>>

\* The unlocked read: the row must be there, and submit_payment_proof already
\* turns back unless it looks UNPAID.
BeginOnInvoice(r, o, i) ==
    /\ o \in {"submit", "verify", "reject", "toggle", "refund"}
    /\ status[i] \in Exists
    /\ o = "submit" => status[i] = "unpaid"
    /\ Start(r, [NoTask EXCEPT !.op = o, !.inv = i])

BeginResolve(r, o, c) ==
    /\ o \in {"approve", "decline"}
    /\ claimStatus[c] \in {"pending", "approved", "rejected"}
    /\ Start(r, [NoTask EXCEPT !.op = o, !.inv = claimFor[c], !.claim = c])

BeginCheckout(r, f) == Start(r, [NoTask EXCEPT !.op = "checkout", !.offer = f])

\* Mutant: the row is read again, but without select_for_update.
ReadRow(r) ==
    LET i == task[r].inv  c == task[r].claim IN
    /\ pc[r] = "begun"
    /\ i \in Invoice
    /\ status[i] \in Exists
    /\ seen' = [seen EXCEPT ![r] =
         [status     |-> status[i],
          verifiedAt |-> verifiedAt[i],
          busy       |-> IF c \in Claim THEN claimStatus[c] # "pending"
                                        ELSE ClaimsOf(i, "pending") # {}]]
    /\ pc' = [pc EXCEPT ![r] = "locked"]
    /\ UNCHANGED <<vars, task, rowLock, userLock, offerOf, checkedOut>>

\* select_for_update: waits until the row is free, then reads it.  For a refund
\* request the same query locks the request and, through select_related, its invoice.
LockRow(r) ==
    LET i == task[r].inv  c == task[r].claim IN
    /\ pc[r] = "begun"
    /\ i \in Invoice
    /\ status[i] \in Exists
    /\ rowLock[i] = Nobody
    /\ rowLock' = [rowLock EXCEPT ![i] = r]
    /\ seen' = [seen EXCEPT ![r] =
         [status     |-> status[i],
          verifiedAt |-> verifiedAt[i],
          busy       |-> IF c \in Claim THEN claimStatus[c] # "pending"
                                        ELSE ClaimsOf(i, "pending") # {}]]
    /\ pc' = [pc EXCEPT ![r] = "locked"]
    /\ UNCHANGED <<vars, task, userLock, offerOf, checkedOut>>

\* Mutant: the recipient's User row is not locked.
ReadUser(r) ==
    /\ pc[r] = "begun"
    /\ task[r].op = "checkout"
    /\ seen' = [seen EXCEPT ![r].busy =
         \E i \in Invoice : offerOf[i] = task[r].offer /\ status[i] \in Open]
    /\ pc' = [pc EXCEPT ![r] = "locked"]
    /\ UNCHANGED <<vars, task, rowLock, userLock, offerOf, checkedOut>>

\* checkout_plan: busy when an open invoice for the same plan and months exists.
LockUser(r) ==
    /\ pc[r] = "begun"
    /\ task[r].op = "checkout"
    /\ userLock = Nobody
    /\ userLock' = r
    /\ seen' = [seen EXCEPT ![r].busy =
         \E i \in Invoice : offerOf[i] = task[r].offer /\ status[i] \in Open]
    /\ pc' = [pc EXCEPT ![r] = "locked"]
    /\ UNCHANGED <<vars, task, rowLock, offerOf, checkedOut>>

\* The request is over: its locks are free again.
Finish(r) ==
    /\ pc' = [pc EXCEPT ![r] = "idle"]
    /\ task' = [task EXCEPT ![r] = NoTask]
    /\ seen' = [seen EXCEPT ![r] = NoRow]
    /\ rowLock' = [i \in Invoice |-> IF rowLock[i] = r THEN Nobody ELSE rowLock[i]]
    /\ userLock' = IF userLock = r THEN Nobody ELSE userLock

Committing(r, o) == pc[r] = "locked" /\ task[r].op = o /\ Finish(r)

\* Mutant: the status that was read is written back with a typo.
WriteVerified(r, s) == status' = [status EXCEPT ![task[r].inv] = IF s = "paid" THEN "verified" ELSE s]

Write(r, s) == status' = [status EXCEPT ![task[r].inv] = s]
Stamp(field, r) == [field EXCEPT ![task[r].inv] = today]

CommitSubmit(r) ==
    /\ Committing(r, "submit")
    /\ seen[r].status = "unpaid"
    /\ Write(r, "pending")
    /\ UNCHANGED <<verifiedAt, claims, today, settledAt, offerOf, checkedOut>>

CommitVerify(r) ==
    /\ Committing(r, "verify")
    /\ seen[r].status = "pending"
    /\ Write(r, "paid")
    /\ verifiedAt' = Stamp(verifiedAt, r)
    /\ settledAt' = Stamp(settledAt, r)
    /\ UNCHANGED <<claims, today, offerOf, checkedOut>>

CommitReject(r) ==
    /\ Committing(r, "reject")
    /\ seen[r].status = "pending"
    /\ Write(r, "unpaid")
    /\ verifiedAt' = Stamp(verifiedAt, r)
    /\ UNCHANGED <<claims, today, settledAt, offerOf, checkedOut>>

CommitToggle(r) ==
    /\ Committing(r, "toggle")
    /\ \/ seen[r].status = "paid" /\ Write(r, "unpaid") /\ UNCHANGED settledAt
       \/ seen[r].status \in Open /\ Write(r, "paid") /\ settledAt' = Stamp(settledAt, r)
    /\ UNCHANGED <<verifiedAt, claims, today, offerOf, checkedOut>>

SeenWithinWindow(r) ==
    seen[r].verifiedAt # Never /\ today - seen[r].verifiedAt <= RefundWindow

CommitRefund(r) ==
    /\ Committing(r, "refund")
    /\ seen[r].status = "paid" /\ ~seen[r].busy
    /\ \E c \in Claim :
         /\ claimStatus[c] = "none"
         /\ claimFor' = [claimFor EXCEPT ![c] = task[r].inv]
         /\ claimStatus' = [claimStatus EXCEPT
              ![c] = IF SeenWithinWindow(r) THEN "approved" ELSE "pending"]
    /\ IF SeenWithinWindow(r) THEN Write(r, "refunded") ELSE UNCHANGED status
    /\ UNCHANGED <<verifiedAt, today, settledAt, offerOf, checkedOut>>

\* Mutant: the request's own status is not looked at again.
CommitApproveAgain(r) ==
    /\ Committing(r, "approve")
    /\ claimStatus' = [claimStatus EXCEPT ![task[r].claim] = "approved"]
    /\ Write(r, "refunded")
    /\ UNCHANGED <<verifiedAt, claimFor, today, settledAt, offerOf, checkedOut>>

CommitApprove(r) ==
    /\ Committing(r, "approve")
    /\ ~seen[r].busy
    /\ claimStatus' = [claimStatus EXCEPT ![task[r].claim] = "approved"]
    /\ Write(r, "refunded")
    /\ UNCHANGED <<verifiedAt, claimFor, today, settledAt, offerOf, checkedOut>>

CommitDecline(r) ==
    /\ Committing(r, "decline")
    /\ ~seen[r].busy
    /\ claimStatus' = [claimStatus EXCEPT ![task[r].claim] = "rejected"]
    /\ UNCHANGED <<status, verifiedAt, claimFor, today, settledAt, offerOf, checkedOut>>

\* A new row, paid at once when the upgrade credit covers the total.
CommitCheckout(r) ==
    /\ Committing(r, "checkout")
    /\ ~seen[r].busy
    /\ \E i \in Invoice :
         /\ IssueUnpaid(i) \/ IssueCovered(i)
         /\ offerOf' = [offerOf EXCEPT ![i] = task[r].offer]
         /\ checkedOut' = checkedOut \cup {i}

\* What was read under the lock makes the handler turn back with a message, the
\* row went away before the lock was granted (404), or the worker dies and the
\* transaction is rolled back: nothing is written.
Abandon(r) ==
    /\ pc[r] # "idle"
    /\ Finish(r)
    /\ UNCHANGED <<vars, offerOf, checkedOut>>

\* generate_invoice and the billing sweep create rows without any lock.
Generate(i, f) ==
    /\ IssueUnpaid(i)
    /\ offerOf' = [offerOf EXCEPT ![i] = f]
    /\ UNCHANGED <<pc, task, seen, rowLock, userLock, checkedOut>>

\* The DELETE statement waits for the row lock like any other write.
Delete(i) ==
    /\ rowLock[i] = Nobody
    /\ DeleteInvoice(i)
    /\ offerOf' = [offerOf EXCEPT ![i] = NoInvoice]
    /\ checkedOut' = checkedOut \ {i}
    /\ UNCHANGED <<pc, task, seen, rowLock, userLock>>

Midnight == NextDay /\ UNCHANGED rvars

RequestStep(r) ==
    \/ \E o \in Ops, i \in Invoice : BeginOnInvoice(r, o, i)
    \/ \E o \in Ops, c \in Claim : BeginResolve(r, o, c)
    \/ \E f \in Offer : BeginCheckout(r, f)
    \/ LockRow(r) \/ LockUser(r)
    \/ CommitSubmit(r) \/ CommitVerify(r) \/ CommitReject(r) \/ CommitToggle(r)
    \/ CommitRefund(r) \/ CommitApprove(r) \/ CommitDecline(r) \/ CommitCheckout(r)
    \/ Abandon(r)

RequestsNext ==
    \/ \E r \in Request : RequestStep(r)
    \/ \E i \in Invoice : Delete(i) \/ \E f \in Offer : Generate(i, f)
    \/ Midnight

RequestsSpec == RequestsInit /\ [][RequestsNext]_allvars

-------------------------------------------------------------------------------
\* What a request decides on is still true when it writes: while it holds the
\* row lock, no other request and no deletion changes the row or its requests.
DecidesOnFreshRow == \A r \in Request :
    pc[r] = "locked" /\ task[r].op # "checkout" =>
        LET i == task[r].inv  c == task[r].claim IN
        /\ rowLock[i] = r
        /\ seen[r].status = status[i] /\ seen[r].verifiedAt = verifiedAt[i]
        /\ seen[r].busy <=> IF c \in Claim THEN claimStatus[c] # "pending"
                                           ELSE ClaimsOf(i, "pending") # {}

\* A double click, a refresh or a retried POST of checkout_plan never leaves the
\* customer with two open invoices for the same plan and duration: there can be
\* two only when an admin has taken a payment back (a toggle reopens the first).
NoDuplicateCheckout == \A i, j \in checkedOut :
    /\ i # j /\ offerOf[i] = offerOf[j]
    /\ status[i] \in Open /\ status[j] \in Open
    => settledAt[i] # Never \/ settledAt[j] # Never

\* Two admins who click the override at once toggle twice: a committed toggle
\* always turns the status the table then holds, never one it held before.
TogglesFlip ==
    [][\A r \in Request : CommitToggle(r) =>
         LET i == task[r].inv IN (status[i] = "paid") # (status'[i] = "paid")]_allvars
===============================================================================
