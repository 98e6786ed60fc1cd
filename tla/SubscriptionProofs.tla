-------------------------- MODULE SubscriptionProofs --------------------------
(***************************************************************************)
(* The plan of a recipient, for every catalogue, price list and number of  *)
(* invoices, workers and confirmations.                                    *)
(***************************************************************************)
EXTENDS Subscription, FiniteSetTheorems, WellFoundedInduction, TLAPS

\* The points under a function from a finite set are finitely many.
LEMMA UnderFinite ==
    ASSUME NEW S, IsFiniteSet(S), NEW f \in [S -> Nat]
    PROVE  IsFiniteSet(Under(f)) /\ Cardinality(Under(f)) \in Nat
<1> DEFINE T == {{x} \X (1 .. f[x]) : x \in S}
           g == [x \in S |-> {x} \X (1 .. f[x])]
<1>1. \A C \in T : IsFiniteSet(C)
  <2> SUFFICES ASSUME NEW x \in S PROVE IsFiniteSet({x} \X (1 .. f[x]))
    OBVIOUS
  <2>1. 1 \in Int /\ f[x] \in Int
    OBVIOUS
  <2>2. IsFiniteSet(1 .. f[x])
    BY <2>1, FS_Interval
  <2>3. IsFiniteSet({x})
    BY FS_Singleton
  <2>4. QED
    BY <2>2, <2>3, FS_Product
<1>2. g \in Surjection(S, T)
  <2>1. \A C \in T : \E x \in S : g[x] = C
    OBVIOUS
  <2>2. g \in [S -> T]
    OBVIOUS
  <2>3. QED
    BY <2>1, <2>2 DEF Surjection
<1>3. IsFiniteSet(T)
  BY <1>2, FS_Surjection
<1>4. Under(f) = UNION T
  BY DEF Under
<1>5. IsFiniteSet(Under(f))
  <2> HIDE DEF T
  <2>1. QED
    BY <1>1, <1>3, <1>4, FS_UNION
<1>6. QED
  BY <1>5, FS_CardinalityType

\* g is f but for x, where it is n higher.
Raised(S, f, g, x, n) ==
    /\ IsFiniteSet(S) /\ f \in [S -> Nat] /\ g \in [S -> Nat] /\ x \in S /\ n \in Nat
    /\ g[x] = f[x] + n /\ \A y \in S \ {x} : g[y] = f[y]

LEMMA UnderRaised ==
    ASSUME NEW S, NEW f, NEW g, NEW x, NEW n, Raised(S, f, g, x, n)
    PROVE  Cardinality(Under(g)) = Cardinality(Under(f)) + n
<1> USE DEF Raised
<1> DEFINE D == {x} \X (f[x] + 1 .. g[x])
<1>1. f[x] \in Nat /\ g[x] \in Nat
  OBVIOUS
<1>2. IsFiniteSet(D) /\ Cardinality(D) = n
  <2>1. f[x] + 1 \in Int /\ g[x] \in Int
    BY <1>1
  <2>2. IsFiniteSet(f[x] + 1 .. g[x]) /\ Cardinality(f[x] + 1 .. g[x]) = IF f[x] + 1 > g[x] THEN 0 ELSE g[x] - (f[x] + 1) + 1
    BY <2>1, FS_Interval
  <2>3. Cardinality(f[x] + 1 .. g[x]) = n
    BY <1>1, <2>2
  <2>4. IsFiniteSet({x}) /\ Cardinality({x}) = 1
    BY FS_Singleton
  <2>5. IsFiniteSet(D) /\ Cardinality(D) = 1 * n
    BY <2>2, <2>3, <2>4, FS_Product
  <2>6. QED
    BY <2>5
<1>3. \A h \in [S -> Nat] : \A p : p \in Under(h) <=> \E y \in S : \E k \in 1 .. h[y] : p = <<y, k>>
  BY DEF Under
<1>4. \A p : p \in D <=> \E k \in f[x] + 1 .. g[x] : p = <<x, k>>
  OBVIOUS
<1>5. D \cap Under(f) = {}
  <2> SUFFICES ASSUME NEW p \in D, p \in Under(f) PROVE FALSE
    OBVIOUS
  <2>1. PICK y \in S : \E k \in 1 .. f[y] : p = <<y, k>>
    BY <1>3
  <2>2. PICK k \in 1 .. f[y] : p = <<y, k>>
    BY <2>1
  <2>3. PICK j \in f[x] + 1 .. g[x] : p = <<x, j>>
    BY <1>4
  <2>4. y = x /\ k = j
    BY <2>2, <2>3
  <2>5. QED
    BY <1>1, <2>4
<1>6. Under(g) = Under(f) \cup D
  <2> HIDE DEF D
  <2>1. ASSUME NEW p \in Under(g) PROVE p \in Under(f) \cup D
    <3>1. PICK y \in S : \E k \in 1 .. g[y] : p = <<y, k>>
      BY <1>3, <2>1
    <3>2. PICK k \in 1 .. g[y] : p = <<y, k>>
      BY <3>1
    <3>3. CASE y # x
      BY <1>3, <3>2, <3>3
    <3>4. CASE y = x
      <4>1. k \in 1 .. f[x] \/ k \in f[x] + 1 .. g[x]
        BY <1>1, <3>2, <3>4
      <4>2. QED
        BY <1>3, <1>4, <3>2, <3>4, <4>1
    <3>5. QED
      BY <3>3, <3>4
  <2>2. ASSUME NEW p \in Under(f) \cup D PROVE p \in Under(g)
    <3>1. CASE p \in D
      <4>1. PICK k \in f[x] + 1 .. g[x] : p = <<x, k>>
        BY <1>4, <3>1
      <4>2. k \in 1 .. g[x]
        BY <1>1
      <4>3. QED
        BY <1>3, <4>1, <4>2
    <3>2. CASE p \in Under(f)
      <4>1. PICK y \in S : \E k \in 1 .. f[y] : p = <<y, k>>
        BY <1>3, <3>2
      <4>2. PICK k \in 1 .. f[y] : p = <<y, k>>
        BY <4>1
      <4>3. k \in 1 .. g[y]
        BY <1>1, <4>2
      <4>4. QED
        BY <1>3, <4>2, <4>3
    <3>3. QED
      BY <2>2, <3>1, <3>2
  <2>3. QED
    BY <2>1, <2>2
<1>7. IsFiniteSet(Under(f)) /\ Cardinality(Under(f)) \in Nat
  BY UnderFinite
<1>8. Cardinality(Under(f) \cup D) = Cardinality(Under(f)) + Cardinality(D) - Cardinality(Under(f) \cap D)
  <2> HIDE DEF D
  <2>1. QED
    BY <1>2, <1>7, FS_Union
<1>9. Cardinality(Under(f) \cap D) = 0
  BY <1>5, FS_EmptySet
<1> HIDE DEF D
<1>10. QED
  BY <1>2, <1>6, <1>7, <1>8, <1>9

LEMMA Least ==
    ASSUME NEW S, S \subseteq Nat, S # {}
    PROVE  \E x \in S : \A y \in S : x <= y
<1>1. PICK x \in S : \A y \in S : ~(<<y, x>> \in OpToRel(<, Nat))
  BY NatLessThanWellFounded, WFMin
<1>2. \A y \in S : ~(y < x)
  BY <1>1 DEF OpToRel
<1>3. QED
  BY <1>2

\* A bounded set of ids has a Max: its least upper bound is one of them.
LEMMA MaxExists ==
    ASSUME NEW S, S \subseteq Nat, S # {}, NEW b \in Nat, \A x \in S : x <= b
    PROVE  Max(S) \in S
<1> DEFINE U == {u \in Nat : \A x \in S : x <= u}
<1>1. PICK u \in U : \A v \in U : u <= v
  <2> HIDE DEF U
  <2>1. U \subseteq Nat /\ U # {}
    BY DEF U
  <2>2. QED
    BY <2>1, Least
<1>2. u \in S
  <2> SUFFICES ASSUME u \notin S PROVE FALSE
    OBVIOUS
  <2>1. \A x \in S : x < u
    OBVIOUS
  <2>2. PICK x \in S : TRUE
    OBVIOUS
  <2>3. u - 1 \in Nat /\ \A y \in S : y <= u - 1
    BY <2>1, <2>2
  <2>4. QED
    BY <1>1, <2>3
<1>3. \E x \in S : \A y \in S : x >= y
  BY <1>2
<1>4. QED
  BY <1>3 DEF Max

-------------------------------------------------------------------------------
\* What was confirmed was issued before, and what was issued has its terms, which are
\* written only then.
Issued == \A i \in Invoice : confirmed[i] > 0 => status[i] # "none"
TermsWritten == \A i \in Invoice : status[i] # "none" => terms[i].plan \in Plan

\* The ids given out so far are bounded, so the latest paid invoice of a plan exists.
IdsBounded == \E b \in Nat : \A i \in Invoice : status[i] # "none" => i <= b

Typed == TypeOK /\ IdsBounded

LEMMA Constants ==
    /\ FirstPlan \in Plan /\ Invoice \subseteq Nat /\ Rate \in [Plan -> Nat] /\ Durations \subseteq Nat
    /\ MonthDays \in Nat /\ DemoDays \in Nat /\ MaxDay \in Nat /\ NoPlan \notin Plan /\ NoInvoice \notin Invoice
BY SubscriptionAssumption

LEMMA NullIsNoDay == Null \notin Nat /\ Null \in Int /\ \A d \in Nat : Null < d
BY DEF Null

LEMMA ExpiryTyped ==
    ASSUME today \in Nat, NEW p
    PROVE  PlainExpiry(p) \in Nat \cup {Null} /\ (PlainExpiry(p) = Null => p \notin DemoPlan)
BY Constants, NullIsNoDay DEF PlainExpiry

LEMMA CreditTyped ==
    ASSUME Typed, NEW p \in Plan
    PROVE  Credit(p) \in Nat
<1> USE DEF Typed, TypeOK
<1>1. CASE EarnsCredit(p)
  <2> DEFINE q == assignment.plan
  <2>1. q \in Plan /\ Sources(q) # {} /\ assignment.expiresAt > today /\ assignment.expiresAt \in Nat \cup {Null}
          /\ today \in Nat
    BY <1>1, Constants DEF EarnsCredit
  <2>2. assignment.expiresAt \in Nat
    BY <2>1, NullIsNoDay
  <2>3. PICK b \in Nat : \A i \in Invoice : status[i] # "none" => i <= b
    BY DEF IdsBounded
  <2>4. LatestSource(q) \in Invoice
    <3>1. Sources(q) \subseteq Invoice /\ \A i \in Sources(q) : i <= b
      BY <2>3 DEF Sources
    <3>2. Sources(q) \subseteq Nat
      BY <3>1, Constants
    <3>3. QED
      BY <2>1, <3>1, <3>2, MaxExists DEF LatestSource
  <2>5. terms[LatestSource(q)].total \in Nat
    BY <2>4 DEF Terms
  <2>6. Rate[q] * (assignment.expiresAt - today) \in Nat
    <3>1. assignment.expiresAt - today \in Nat /\ Rate[q] \in Nat
      BY <2>1, <2>2, Constants
    <3>2. QED
      BY <3>1
  <2>7. QED
    BY <1>1, <2>5, <2>6 DEF Credit
<1>2. QED
  BY <1>1 DEF Credit

LEMMA CheckoutTyped ==
    ASSUME Typed, NEW p \in Plan, NEW m \in Durations
    PROVE  /\ CheckoutTerms(p, m) \in Terms
           /\ CheckoutTerms(p, m).plan = p /\ CheckoutTerms(p, m).fixed
<1>1. Credit(p) \in Nat
  BY CreditTyped
<1>2. m \in Nat /\ Rate[p] \in Nat /\ MonthDays \in Nat /\ today \in Nat
  BY Constants DEF Typed, TypeOK
<1>3. Rate[p] * MonthDays * m \in Nat
  BY <1>2
<1>4. (IF Rate[p] * MonthDays * m > Credit(p) THEN Rate[p] * MonthDays * m - Credit(p) ELSE 0) \in Nat
  BY <1>1, <1>3
<1>5. (IF EarnsCredit(p) THEN assignment.plan ELSE NoPlan) \in Plan \cup {NoPlan}
  BY DEF Typed, TypeOK
<1>6. QED
  BY <1>1, <1>2, <1>4, <1>5 DEF CheckoutTerms, Terms

LEMMA MoveTyped ==
    ASSUME LedgerTypeOK, NEW i \in Invoice, NEW from, NEW to \in Status \ {"none"}, Move(i, from, to)
    PROVE  LedgerTypeOK' /\ \A j \in Invoice : status'[j] # "none" <=> status[j] # "none" \/ j = i
BY DEF Move, LedgerTypeOK

\* A new row's id may raise the bound; no other step issues one.
LEMMA BoundKept ==
    ASSUME Typed, NEW i \in Invoice, NEW from, NEW to \in Status \ {"none"}, Move(i, from, to)
    PROVE  LedgerTypeOK' /\ IdsBounded'
<1>1. LedgerTypeOK' /\ \A j \in Invoice : status'[j] # "none" <=> status[j] # "none" \/ j = i
  BY MoveTyped DEF Typed, TypeOK
<1>2. PICK b \in Nat : \A j \in Invoice : status[j] # "none" => j <= b
  BY DEF Typed, IdsBounded
<1>3. i \in Nat /\ Invoice \subseteq Nat
  BY Constants
<1>4. PICK d \in Nat : b <= d /\ i <= d
  BY <1>3
<1>5. \A j \in Invoice : status'[j] # "none" => j <= d
  BY <1>1, <1>2, <1>3, <1>4
<1>6. QED
  BY <1>1, <1>5 DEF IdsBounded

LEMMA NewExpiryTyped ==
    ASSUME TypeOK, NEW i \in Invoice, NEW prev \in Nat \cup {Null}
    PROVE  NewExpiry(i, prev) \in Nat
<1>1. terms[i].issued \in Nat /\ terms[i].months \in Nat /\ MonthDays \in Nat
  BY Constants DEF TypeOK, Terms
<1>2. (IF terms[i].previous = NoPlan /\ prev > terms[i].issued THEN prev ELSE terms[i].issued) \in Nat
  BY <1>1, NullIsNoDay
<1>3. terms[i].months * MonthDays \in Nat
  BY <1>1
<1>4. QED
  BY <1>2, <1>3 DEF NewExpiry

\* A worker that has a plan to write knows where it came from: an admin, or an invoice
\* that was confirmed, whose plan it is.
Founded(w) ==
    /\ sync[w].plan \in Plan
    /\ IF sync[w].inv = NoInvoice THEN sync[w].plan \in adminPlans
       ELSE sync[w].inv \in Paid /\ terms[sync[w].inv].plan = sync[w].plan
    /\ sync[w].pc \in {"read", "start", "renew"} => sync[w].inv # NoInvoice

SyncFounded == \A w \in Worker : sync[w].pc # "idle" => Founded(w)

PlanInv == Typed /\ Issued /\ TermsWritten /\ SyncFounded /\ PlanWasPaidOrGiven

\* Where a plan may come from only grows.
SourcesGrow ==
    /\ Paid \subseteq Paid' /\ adminPlans \subseteq adminPlans'
    /\ \A i \in Paid : terms'[i] = terms[i]

LEMMA FoundedKept ==
    ASSUME SourcesGrow, NEW w \in Worker, Founded(w), sync'[w] = sync[w]
    PROVE  Founded(w)'
BY DEF SourcesGrow, Founded

LEMMA PlanKept ==
    ASSUME SourcesGrow, PlanWasPaidOrGiven, assignment'.plan = assignment.plan
    PROVE  PlanWasPaidOrGiven'
<1>1. Paid \subseteq Invoice
  BY DEF Paid
<1>2. CASE \E i \in Paid : assignment.plan = terms[i].plan
  BY <1>1, <1>2 DEF SourcesGrow, PlanWasPaidOrGiven
<1>3. QED
  BY <1>2 DEF SourcesGrow, PlanWasPaidOrGiven

\* A step that issues invoice i.
LEMMA IssueKeeps ==
    ASSUME PlanInv, NEW i \in Invoice, NEW to \in {"unpaid", "paid"}, Move(i, {"none"}, to),
           NEW x \in Terms, terms' = [terms EXCEPT ![i] = x], x.plan \in Plan, UNCHANGED <<sync, today, adminPlans, killed>>,
           confirmed' = confirmed \/ confirmed' = [confirmed EXCEPT ![i] = @ + 1],
           assignment' \in [plan : Plan, expiresAt : Nat \cup {Null}, cancelled : BOOLEAN],
           assignment'.plan = assignment.plan \/ (assignment'.plan = x.plan /\ confirmed' # confirmed)
    PROVE  PlanInv' /\ SourcesGrow /\ i \notin Paid
<1> USE DEF PlanInv, Typed
<1>1. LedgerTypeOK' /\ IdsBounded' /\ status[i] = "none" /\ \A j \in Invoice : status'[j] # "none" <=> status[j] # "none" \/ j = i
  BY BoundKept, MoveTyped DEF Move, TypeOK, Status, Exists, Open
<1>2. confirmed \in [Invoice -> Nat] /\ confirmed' \in [Invoice -> Nat] /\ \A j \in Invoice : j # i => confirmed'[j] = confirmed[j]
  BY DEF TypeOK
<1>3. TypeOK'
  BY <1>1, <1>2 DEF TypeOK
<1>4. \A j \in Paid : j # i
  BY <1>1 DEF Paid, Issued
<1>5. terms \in [Invoice -> Terms] /\ terms'[i] = x /\ \A j \in Invoice : j # i => terms'[j] = terms[j]
  BY DEF TypeOK
<1>6. SourcesGrow
  BY <1>2, <1>4, <1>5 DEF SourcesGrow, Paid
<1>7. Issued' /\ TermsWritten'
  BY <1>1, <1>2, <1>5 DEF Issued, TermsWritten
<1>8. SyncFounded'
  BY <1>6, FoundedKept DEF SyncFounded
<1>9. PlanWasPaidOrGiven'
  <2>1. CASE assignment'.plan = assignment.plan
    BY <1>6, <2>1, PlanKept
  <2>2. CASE assignment'.plan = x.plan /\ confirmed' # confirmed
    <3>1. confirmed'[i] = confirmed[i] + 1
      BY <1>2, <2>2
    <3>2. i \in Paid'
      BY <1>2, <3>1 DEF Paid
    <3>3. QED
      BY <1>5, <2>2, <3>2 DEF PlanWasPaidOrGiven
  <2>3. QED
    BY <2>1, <2>2
<1>10. QED
  BY <1>1, <1>3, <1>4, <1>6, <1>7, <1>8, <1>9

-------------------------------------------------------------------------------
Assignment == [plan : Plan, expiresAt : Nat \cup {Null}, cancelled : BOOLEAN]

LEMMA AssignmentTyped == Typed => assignment \in Assignment
BY DEF Typed, TypeOK, Assignment

LEMMA StatusSets == {"none"} \subseteq Status /\ {"unpaid", "paid"} \subseteq Status \ {"none"} /\ "none" \notin Exists
BY DEF Status, Exists, Open

LEMMA GenerateKeeps ==
    ASSUME PlanInv, NEW i \in Invoice, NEW p \in Plan, Generate(i, p)
    PROVE  PlanInv' /\ SourcesGrow /\ i \notin Paid
<1> DEFINE x == [NoTerms EXCEPT !.plan = p, !.months = 1, !.total = Rate[p] * MonthDays, !.issued = today]
<1>1. Rate[p] * MonthDays \in Nat /\ today \in Nat
  <2>1. Rate[p] \in Nat /\ MonthDays \in Nat /\ MaxDay \in Nat
    BY Constants
  <2>2. Rate[p] * MonthDays \in Nat
    BY <2>1
  <2>3. QED
    BY <2>1, <2>2 DEF PlanInv, Typed, TypeOK
<1>2. x \in Terms /\ x.plan = p
  BY <1>1 DEF NoTerms, Terms
<1>3. terms' = [terms EXCEPT ![i] = x] /\ Move(i, {"none"}, "unpaid")
        /\ UNCHANGED <<assignment, sync, today, confirmed, adminPlans, killed>>
  BY DEF Generate
<1>4. assignment' \in [plan : Plan, expiresAt : Nat \cup {Null}, cancelled : BOOLEAN]
  BY <1>3, AssignmentTyped DEF PlanInv, Assignment
<1>5. QED
  BY <1>2, <1>3, <1>4, IssueKeeps

LEMMA CheckoutKeeps ==
    ASSUME PlanInv, NEW i \in Invoice, NEW p \in Plan, NEW m \in Durations, Checkout(i, p, m)
    PROVE  PlanInv' /\ SourcesGrow /\ i \notin Paid
<1>1. CheckoutTerms(p, m) \in Terms /\ CheckoutTerms(p, m).plan = p
  BY CheckoutTyped DEF PlanInv
<1>2. terms' = [terms EXCEPT ![i] = CheckoutTerms(p, m)] /\ Move(i, {"none"}, "unpaid")
        /\ UNCHANGED <<assignment, sync, today, confirmed, adminPlans, killed>>
  BY DEF Checkout
<1>3. assignment' \in [plan : Plan, expiresAt : Nat \cup {Null}, cancelled : BOOLEAN]
  BY <1>2, AssignmentTyped DEF PlanInv, Assignment
<1>4. QED
  BY <1>1, <1>2, <1>3, IssueKeeps

\* A checkout that its credit covers dates the plan at once.
LEMMA CoveredKeeps ==
    ASSUME PlanInv, NEW i \in Invoice, NEW p \in Plan, NEW m \in Durations, CheckoutCovered(i, p, m)
    PROVE  PlanInv' /\ SourcesGrow /\ assignment'.expiresAt \in Nat
<1> DEFINE e == IF CheckoutTerms(p, m).previous = NoPlan /\ assignment.expiresAt > today
                  THEN assignment.expiresAt + m * MonthDays ELSE today + m * MonthDays
<1>1. CheckoutTerms(p, m) \in Terms /\ CheckoutTerms(p, m).plan = p
  BY CheckoutTyped DEF PlanInv
<1>2. terms' = [terms EXCEPT ![i] = CheckoutTerms(p, m)] /\ Move(i, {"none"}, "paid")
        /\ UNCHANGED <<sync, today, adminPlans, killed>> /\ confirmed' = [confirmed EXCEPT ![i] = @ + 1]
        /\ assignment' = [assignment EXCEPT !.plan = p, !.expiresAt = e]
  BY DEF CheckoutCovered
<1>3. e \in Nat
  <2>1. m \in Nat /\ MonthDays \in Nat /\ MaxDay \in Nat
    BY Constants
  <2>2. m * MonthDays \in Nat
    BY <2>1
  <2>3. today \in Nat /\ assignment.expiresAt \in Nat \cup {Null}
    BY <2>1 DEF PlanInv, Typed, TypeOK
  <2>4. assignment.expiresAt > today => assignment.expiresAt \in Nat
    BY <2>3, NullIsNoDay
  <2>5. QED
    BY <2>2, <2>3, <2>4
<1>4. assignment' \in [plan : Plan, expiresAt : Nat \cup {Null}, cancelled : BOOLEAN] /\ assignment'.plan = p
        /\ assignment'.expiresAt = e
  <2> HIDE DEF e
  <2>1. QED
    BY <1>2, <1>3, AssignmentTyped DEF PlanInv, Assignment
<1>5. confirmed[i] \in Nat /\ confirmed'[i] # confirmed[i]
  BY <1>2 DEF PlanInv, Typed, TypeOK
<1>6. QED
  BY <1>1, <1>2, <1>3, <1>4, <1>5, IssueKeeps

-------------------------------------------------------------------------------
\* A step of a worker, or of nobody: no invoice changes, and what the worker has to write
\* is founded.
LEMMA WorkKeeps ==
    ASSUME PlanInv, NEW w \in Worker, NEW s \in Sync, UNCHANGED <<status, terms, confirmed>>, killed' \in BOOLEAN,
           today' \in 0 .. MaxDay, adminPlans' \in SUBSET Plan, adminPlans \subseteq adminPlans',
           sync' = [sync EXCEPT ![w] = s], s.pc # "idle" => Founded(w)',
           assignment' \in Assignment,
           \/ assignment'.plan = assignment.plan
           \/ sync[w].pc # "idle" /\ assignment'.plan = sync[w].plan
    PROVE  PlanInv'
<1> USE DEF PlanInv, Typed
<1>1. TypeOK' /\ IdsBounded' /\ Issued' /\ TermsWritten'
  BY DEF TypeOK, LedgerTypeOK, IdsBounded, Issued, TermsWritten, Assignment
<1>2. Paid' = Paid /\ SourcesGrow
  BY DEF SourcesGrow, Paid
<1>3. sync'[w] = s /\ \A v \in Worker : v # w => sync'[v] = sync[v]
  BY DEF TypeOK
<1>4. SyncFounded'
  BY <1>2, <1>3, FoundedKept DEF SyncFounded
<1>5. PlanWasPaidOrGiven'
  <2>1. CASE assignment'.plan = assignment.plan
    BY <1>2, <2>1, PlanKept
  <2>2. CASE sync[w].pc # "idle" /\ assignment'.plan = sync[w].plan
    <3>1. Founded(w)
      BY <2>2 DEF SyncFounded
    <3>2. QED
      BY <1>2, <2>2, <3>1 DEF Founded, PlanWasPaidOrGiven
  <2>3. QED
    BY <2>1, <2>2
<1>6. QED
  BY <1>1, <1>4, <1>5

LEMMA SyncTyped ==
    ASSUME PlanInv, NEW w \in Worker
    PROVE  /\ sync[w] \in Sync /\ Idle \in Sync /\ Idle.pc = "idle"
           /\ sync[w].pc # "idle" => Founded(w)
BY NullIsNoDay DEF PlanInv, Typed, TypeOK, SyncFounded, Sync, Idle

LEMMA WorkerKeeps ==
    ASSUME PlanInv, NEW w \in Worker, WorkerStep(w) \/ Crash(w)
    PROVE  PlanInv' /\ SourcesGrow
<1>1. sync[w] \in Sync /\ Idle \in Sync /\ Idle.pc = "idle" /\ (sync[w].pc # "idle" => Founded(w))
  BY SyncTyped
<1>2. UNCHANGED <<status, terms, confirmed, today, adminPlans>> /\ today \in 0 .. MaxDay /\ adminPlans \in SUBSET Plan
        /\ killed' \in BOOLEAN
  BY DEF WorkerStep, SyncRead, AssignRead, AssignSave, SyncExpiry, Crash, PlanInv, Typed, TypeOK
<1>3. SourcesGrow
  BY <1>2 DEF SourcesGrow, Paid
<1>4. assignment \in Assignment
  BY AssignmentTyped DEF PlanInv
<1>5. ASSUME NEW s \in Sync, sync' = [sync EXCEPT ![w] = s],
             s.inv = sync[w].inv, s.plan = sync[w].plan,
             s.pc \in {"read", "start", "renew"} => sync[w].inv # NoInvoice, sync[w].pc # "idle"
      PROVE  Founded(w)'
  <2>1. sync'[w] = s
    BY <1>5 DEF PlanInv, Typed, TypeOK
  <2>2. QED
    BY <1>1, <1>2, <1>5, <2>1 DEF Founded, Paid
<1>6. CASE SyncRead(w)
  <2> DEFINE r == [sync[w] EXCEPT !.prev = assignment.expiresAt,
                                  !.pc = IF assignment.plan = sync[w].plan THEN "renew" ELSE "assign"]
  <2>1. sync[w].pc = "read" /\ assignment' = assignment
          /\ (sync' = [sync EXCEPT ![w] = Idle] \/ sync' = [sync EXCEPT ![w] = r])
    BY <1>6 DEF SyncRead
  <2>2. r \in Sync /\ r.inv = sync[w].inv /\ r.plan = sync[w].plan
    BY <1>1, <1>4 DEF Sync, Assignment
  <2>3. sync[w].inv # NoInvoice
    BY <1>1, <2>1 DEF Founded
  <2>4. CASE sync' = [sync EXCEPT ![w] = Idle]
    BY <1>1, <1>2, <1>3, <1>4, <2>1, <2>4, WorkKeeps
  <2>5. CASE sync' = [sync EXCEPT ![w] = r]
    <3>1. Founded(w)'
      <4> HIDE DEF r
      <4>1. QED
        BY <1>5, <2>1, <2>2, <2>3, <2>5
    <3>2. QED
      BY <1>2, <1>3, <1>4, <2>1, <2>2, <2>5, <3>1, WorkKeeps
  <2>6. QED
    BY <2>1, <2>4, <2>5
<1>7. CASE AssignRead(w)
  <2> DEFINE r == [sync[w] EXCEPT !.cancelled = assignment.cancelled, !.pc = "save"]
  <2>1. sync[w].pc = "assign" /\ assignment' = assignment /\ sync' = [sync EXCEPT ![w] = r]
    BY <1>7 DEF AssignRead, PlanInv, Typed, TypeOK
  <2>2. r \in Sync /\ r.inv = sync[w].inv /\ r.plan = sync[w].plan /\ r.pc = "save"
    BY <1>1, <1>4 DEF Sync, Assignment
  <2>3. Founded(w)'
    <3> HIDE DEF r
    <3>1. QED
      BY <1>5, <2>1, <2>2
  <2>4. QED
    BY <1>2, <1>3, <1>4, <2>1, <2>2, <2>3, WorkKeeps
<1>8. CASE AssignSave(w)
  <2> DEFINE r == [sync[w] EXCEPT !.pc = "start"]
             a == [plan |-> sync[w].plan, expiresAt |-> PlainExpiry(sync[w].plan), cancelled |-> sync[w].cancelled]
  <2>1. /\ sync[w].pc = "save" /\ assignment' = a
        /\ \/ sync' = [sync EXCEPT ![w] = Idle]
           \/ sync[w].inv # NoInvoice /\ sync' = [sync EXCEPT ![w] = r]
    BY <1>8 DEF AssignSave
  <2>2. r \in Sync /\ r.inv = sync[w].inv /\ r.plan = sync[w].plan
    BY <1>1 DEF Sync
  <2>3. a \in Assignment /\ a.plan = sync[w].plan
    <3>1. today \in Nat
      BY <1>2, Constants
    <3>2. PlainExpiry(sync[w].plan) \in Nat \cup {Null}
      BY <3>1, ExpiryTyped
    <3>3. sync[w].plan \in Plan /\ sync[w].cancelled \in BOOLEAN
      BY <1>1, <2>1 DEF Founded, Sync
    <3>4. QED
      BY <3>2, <3>3 DEF Assignment
  <2> HIDE DEF a, r
  <2>4. CASE sync' = [sync EXCEPT ![w] = Idle]
    BY <1>1, <1>2, <1>3, <2>1, <2>3, <2>4, WorkKeeps
  <2>5. CASE sync[w].inv # NoInvoice /\ sync' = [sync EXCEPT ![w] = r]
    <3>1. Founded(w)'
      BY <1>5, <2>1, <2>2, <2>5
    <3>2. QED
      BY <1>2, <1>3, <2>1, <2>2, <2>3, <2>5, <3>1, WorkKeeps
  <2>6. QED
    BY <2>1, <2>4, <2>5
<1>9. CASE SyncExpiry(w)
  <2>1. sync[w].pc \in {"start", "renew"} /\ sync' = [sync EXCEPT ![w] = Idle]
          /\ assignment' = [assignment EXCEPT !.expiresAt = NewExpiry(sync[w].inv, sync[w].prev)]
    BY <1>9 DEF SyncExpiry
  <2>2. sync[w].inv \in Invoice /\ sync[w].prev \in Nat \cup {Null}
    BY <1>1, <2>1 DEF Founded, Sync
  <2>3. NewExpiry(sync[w].inv, sync[w].prev) \in Nat
    BY <2>2, NewExpiryTyped DEF PlanInv, Typed
  <2>4. assignment' \in Assignment /\ assignment'.plan = assignment.plan
    BY <1>4, <2>1, <2>3 DEF Assignment
  <2>5. QED
    BY <1>1, <1>2, <1>3, <2>1, <2>4, WorkKeeps
<1>10. CASE Crash(w)
  BY <1>1, <1>2, <1>3, <1>4, <1>10, WorkKeeps DEF Crash
<1>11. QED
  BY <1>6, <1>7, <1>8, <1>9, <1>10 DEF WorkerStep

LEMMA AdminKeeps ==
    ASSUME PlanInv, NEW w \in Worker, NEW p \in Plan, AdminChange(w, p)
    PROVE  PlanInv' /\ SourcesGrow
<1> DEFINE s == [Idle EXCEPT !.pc = "assign", !.plan = p]
<1>1. s \in Sync /\ s.pc = "assign" /\ s.plan = p /\ s.inv = NoInvoice
  BY NullIsNoDay DEF Sync, Idle
<1>2. sync' = [sync EXCEPT ![w] = s] /\ adminPlans' = adminPlans \cup {p}
        /\ UNCHANGED <<status, terms, assignment, today, confirmed, killed>>
  BY DEF AdminChange
<1>3. sync'[w] = s
  BY <1>2 DEF PlanInv, Typed, TypeOK
<1>4. Founded(w)'
  <2> HIDE DEF s
  <2>1. QED
    BY <1>1, <1>2, <1>3 DEF Founded
<1>5. SourcesGrow
  BY <1>2 DEF SourcesGrow, Paid
<1>6. assignment' \in Assignment /\ today' \in 0 .. MaxDay /\ adminPlans' \in SUBSET Plan /\ killed' \in BOOLEAN
  BY <1>2, AssignmentTyped DEF PlanInv, Typed, TypeOK
<1>7. QED
  BY <1>1, <1>2, <1>4, <1>5, <1>6, WorkKeeps

\* Cancelling, resuming and the passing of a day are nobody's work.
LEMMA RestKeeps ==
    ASSUME PlanInv, CancelPlan \/ ResumePlan \/ NextDay \/ UNCHANGED vars
    PROVE  PlanInv' /\ SourcesGrow
<1> USE DEF PlanInv, Typed
<1>1. UNCHANGED <<status, terms, sync, confirmed, adminPlans, killed>> /\ assignment'.plan = assignment.plan
  BY DEF CancelPlan, ResumePlan, NextDay, vars, TypeOK
<1>2. TypeOK'
  <2>1. CASE NextDay
    <3>1. today \in 0 .. MaxDay /\ today < MaxDay /\ today' = today + 1 /\ MaxDay \in Nat
      BY <2>1, Constants DEF NextDay, TypeOK
    <3>2. today' \in 0 .. MaxDay
      BY <3>1
    <3>3. QED
      BY <1>1, <2>1, <3>2 DEF NextDay, TypeOK, LedgerTypeOK
  <2>2. CASE CancelPlan \/ ResumePlan \/ UNCHANGED vars
    BY <1>1, <2>2 DEF CancelPlan, ResumePlan, vars, TypeOK, LedgerTypeOK
  <2>3. QED
    BY <2>1, <2>2
<1>3. SourcesGrow /\ IdsBounded' /\ Issued' /\ TermsWritten'
  BY <1>1 DEF SourcesGrow, Paid, IdsBounded, Issued, TermsWritten
<1>4. SyncFounded' /\ PlanWasPaidOrGiven'
  BY <1>1, <1>3, FoundedKept, PlanKept DEF SyncFounded
<1>5. QED
  BY <1>2, <1>3, <1>4

LEMMA ConfirmKeeps ==
    ASSUME PlanInv, NEW w \in Worker, NEW i \in Invoice, ConfirmPayment(w, i)
    PROVE  PlanInv' /\ SourcesGrow
<1> USE DEF PlanInv, Typed
<1> DEFINE s == [Idle EXCEPT !.pc = "read", !.inv = i, !.plan = terms[i].plan]
<1>1. Move(i, Open, "paid") /\ status[i] # "none" /\ sync' = [sync EXCEPT ![w] = s]
        /\ confirmed' = [confirmed EXCEPT ![i] = @ + 1] /\ UNCHANGED <<terms, assignment, today, adminPlans, killed>>
  BY DEF ConfirmPayment, Confirm, Move, Open
<1>2. LedgerTypeOK' /\ IdsBounded' /\ \A j \in Invoice : status'[j] # "none" <=> status[j] # "none"
  BY <1>1, BoundKept, MoveTyped, StatusSets DEF TypeOK
<1>3. terms[i].plan \in Plan
  BY <1>1 DEF TermsWritten
<1>4. s \in Sync /\ s.pc = "read" /\ s.plan = terms[i].plan /\ s.inv = i /\ s.inv # NoInvoice
  BY <1>3, NullIsNoDay, Constants DEF Sync, Idle
<1> HIDE DEF s
<1>5. confirmed' \in [Invoice -> Nat] /\ confirmed'[i] > 0 /\ \A j \in Invoice : j # i => confirmed'[j] = confirmed[j]
  BY <1>1 DEF TypeOK
<1>6. TypeOK'
  BY <1>1, <1>2, <1>4, <1>5 DEF TypeOK
<1>7. SourcesGrow /\ i \in Paid'
  BY <1>1, <1>5 DEF SourcesGrow, Paid
<1>8. Issued' /\ TermsWritten'
  BY <1>1, <1>2, <1>5 DEF Issued, TermsWritten
<1>9. SyncFounded'
  <2>1. sync'[w] = s /\ \A v \in Worker : v # w => sync'[v] = sync[v]
    BY <1>1 DEF TypeOK
  <2>2. Founded(w)'
    BY <1>1, <1>3, <1>4, <1>7, <2>1 DEF Founded
  <2>3. QED
    BY <1>7, <2>1, <2>2, FoundedKept DEF SyncFounded
<1>10. PlanWasPaidOrGiven'
  BY <1>1, <1>7, PlanKept
<1>11. QED
  BY <1>2, <1>6, <1>7, <1>8, <1>9, <1>10

LEMMA OtherKeeps ==
    ASSUME PlanInv, NEW i \in Invoice, OtherMove(i)
    PROVE  PlanInv' /\ SourcesGrow
<1> USE DEF PlanInv, Typed
<1>1. UNCHANGED <<terms, assignment, sync, today, confirmed, adminPlans, killed>> /\ status[i] # "none"
        /\ LedgerTypeOK' /\ IdsBounded' /\ \A j \in Invoice : status'[j] # "none" <=> status[j] # "none"
  <2>1. UNCHANGED <<terms, assignment, sync, today, confirmed, adminPlans, killed>>
          /\ (Submit(i) \/ Reopen(i) \/ Refund(i) \/ Remove(i))
    BY DEF OtherMove
  <2>2. PICK from \in SUBSET Exists, to \in Status \ {"none"} : Move(i, from, to)
    BY <2>1 DEF Submit, Reopen, Refund, Remove, Exists, Open, Status
  <2>3. status[i] # "none"
    BY <2>2, StatusSets DEF Move
  <2>4. QED
    BY <2>1, <2>2, <2>3, BoundKept, MoveTyped DEF TypeOK
<1>2. TypeOK' /\ Issued' /\ TermsWritten' /\ SourcesGrow
  BY <1>1 DEF TypeOK, Issued, TermsWritten, SourcesGrow, Paid
<1>3. SyncFounded' /\ PlanWasPaidOrGiven'
  BY <1>1, <1>2, FoundedKept, PlanKept DEF SyncFounded
<1>4. QED
  BY <1>1, <1>2, <1>3

-------------------------------------------------------------------------------
LEMMA PlanInvInit == Init => PlanInv
<1> SUFFICES ASSUME Init PROVE PlanInv
  OBVIOUS
<1>1. today = 0 /\ today \in Nat /\ today \in 0 .. MaxDay
  BY Constants DEF Init
<1>2. assignment \in Assignment /\ assignment.plan = FirstPlan
  BY <1>1, ExpiryTyped, Constants DEF Init, Assignment
<1>3. NoTerms \in Terms
  BY DEF NoTerms, Terms
<1>4. sync \in [Worker -> Sync] /\ \A w \in Worker : sync[w].pc = "idle"
  BY NullIsNoDay DEF Init, Sync, Idle
<1>5. LedgerTypeOK /\ \A i \in Invoice : status[i] = "none" /\ confirmed[i] = 0
  BY StatusSets DEF Init, LedgerInit, LedgerTypeOK
<1>6. TypeOK
  <2>1. terms \in [Invoice -> Terms] /\ confirmed \in [Invoice -> Nat] /\ adminPlans \in SUBSET Plan
          /\ killed \in BOOLEAN
    BY <1>3 DEF Init
  <2>2. QED
    BY <1>1, <1>2, <1>4, <1>5, <2>1 DEF TypeOK, Assignment
<1>7. IdsBounded
  BY <1>5 DEF IdsBounded
<1>8. Issued /\ TermsWritten
  BY <1>5 DEF Issued, TermsWritten
<1>9. QED
  BY <1>2, <1>4, <1>6, <1>7, <1>8 DEF PlanInv, Typed, SyncFounded, PlanWasPaidOrGiven

LEMMA PlanInvKept == PlanInv /\ [Next]_vars => PlanInv'
BY GenerateKeeps, CheckoutKeeps, CoveredKeeps, ConfirmKeeps, OtherKeeps, WorkerKeeps, AdminKeeps, RestKeeps DEF Next

\* Every column keeps its type: a credit, a total and an expiry are never negative, and no
\* plan is assigned that the catalogue does not have.
THEOREM PlanTypeCorrect == Spec => []TypeOK
<1>1. PlanInv => TypeOK
  BY DEF PlanInv, Typed
<1>2. QED
  BY <1>1, PlanInvInit, PlanInvKept, PTL DEF Spec

\* However many workers sync plans while payments are taken back, refunded or removed, and
\* wherever they die: nobody is moved to a plan that was neither paid for nor given.
THEOREM PlansArePaidFor == Spec => []PlanWasPaidOrGiven
<1>1. PlanInv => PlanWasPaidOrGiven
  BY DEF PlanInv
<1>2. QED
  BY <1>1, PlanInvInit, PlanInvKept, PTL DEF Spec

\* No step here moves an invoice in a way the ledger does not name.
THEOREM SubscriptionFollowsLedger == Spec => LedgerSpec
<1>1. Init => LedgerInit
  BY DEF Init
<1>2. [Next]_vars => [LedgerNext]_status
  <2> SUFFICES ASSUME [Next]_vars, status' # status PROVE LedgerNext
    OBVIOUS
  <2>1. CASE \E i \in Invoice, p \in Plan : Generate(i, p) \/ \E m \in Durations : Checkout(i, p, m) \/ CheckoutCovered(i, p, m)
    BY <2>1 DEF Generate, Checkout, CheckoutCovered, LedgerNext, Issue
  <2>2. CASE \E i \in Invoice : OtherMove(i) \/ \E w \in Worker : ConfirmPayment(w, i)
    BY <2>2 DEF OtherMove, ConfirmPayment, LedgerNext
  <2>3. ASSUME NEW w \in Worker, WorkerStep(w) \/ Crash(w) \/ \E p \in Plan : AdminChange(w, p)
        PROVE  FALSE
    BY <2>3 DEF WorkerStep, SyncRead, AssignRead, AssignSave, SyncExpiry, Crash, AdminChange
  <2>4. CASE CancelPlan \/ ResumePlan \/ NextDay \/ UNCHANGED vars
    BY <2>4 DEF CancelPlan, ResumePlan, NextDay, vars
  <2>5. QED
    BY <2>1, <2>2, <2>3, <2>4 DEF Next
<1>3. QED
  BY <1>1, <1>2, PTL DEF Spec, LedgerSpec

-------------------------------------------------------------------------------
\* The days each invoice has bought, and those that each worker has still to give.
Bought == [i \in Invoice |-> confirmed[i] * Days(i)]
Owed == [w \in Worker |-> IF sync[w].pc # "idle" /\ sync[w].inv # NoInvoice THEN Days(sync[w].inv) ELSE 0]

BoughtDays == Cardinality(Under(Bought))
OwedDays == Cardinality(Under(Owed))
LastDay == today + DemoDays + BoughtDays

\* No expiry, written or about to be, is later than the last day less what is still owed:
\* a worker that gives its days moves the expiry and what is owed together.
TimeInv ==
    /\ OwedDays <= BoughtDays
    /\ assignment.expiresAt + OwedDays <= LastDay
    /\ \A w \in Worker : sync[w].prev + OwedDays <= LastDay
    /\ \A i \in Invoice : terms[i].issued <= today

LEMMA DaysTyped ==
    ASSUME PlanInv, NEW i \in Invoice
    PROVE  Days(i) \in Nat /\ confirmed[i] \in Nat /\ confirmed[i] * Days(i) \in Nat
<1>1. terms[i].months \in Nat /\ MonthDays \in Nat /\ confirmed[i] \in Nat
  BY Constants DEF PlanInv, Typed, TypeOK, Terms
<1>2. Days(i) \in Nat
  BY <1>1 DEF Days
<1>3. QED
  BY <1>1, <1>2

LEMMA OwedTyped ==
    ASSUME PlanInv, NEW w \in Worker, sync[w].pc # "idle", sync[w].inv # NoInvoice
    PROVE  sync[w].inv \in Invoice /\ confirmed[sync[w].inv] > 0
BY SyncTyped DEF Founded, Paid

TimeTypeOK == Bought \in [Invoice -> Nat] /\ Owed \in [Worker -> Nat] /\ BoughtDays \in Nat /\ OwedDays \in Nat

LEMMA TimeTyped == PlanInv => TimeTypeOK
<1> SUFFICES ASSUME PlanInv PROVE TimeTypeOK
  OBVIOUS
<1>1. Bought \in [Invoice -> Nat]
  BY DaysTyped DEF Bought
<1>2. Owed \in [Worker -> Nat]
  BY DaysTyped, OwedTyped DEF Owed
<1>3. QED
  BY <1>1, <1>2, UnderFinite, SubscriptionAssumption DEF TimeTypeOK, BoughtDays, OwedDays

LEMMA TimeTypedNext == PlanInv' => TimeTypeOK'
BY TimeTyped, PTL

\* A step that buys n days, gives or drops k of those owed, takes d days and dates the plan x.
LEMMA TimeKept ==
    ASSUME PlanInv, PlanInv', TimeInv, NEW n \in Nat, NEW k \in Nat, NEW d \in Nat, NEW x \in Int,
           BoughtDays' = BoughtDays + n, OwedDays' = OwedDays + n - k, today' = today + d,
           assignment'.expiresAt = x, x + OwedDays <= LastDay + d + k,
           \A w \in Worker : sync'[w].prev \in {sync[w].prev, assignment.expiresAt, Null},
           \A i \in Invoice : terms'[i].issued \in {terms[i].issued, today, 0}
    PROVE  TimeInv'
<1>1. BoughtDays \in Nat /\ OwedDays \in Nat /\ today \in Nat /\ DemoDays \in Nat
  BY TimeTyped, Constants DEF TimeTypeOK, PlanInv, Typed, TypeOK
<1>2. LastDay \in Int /\ LastDay' = LastDay + n + d /\ Null + OwedDays <= LastDay
  <2>1. LastDay = today + DemoDays + BoughtDays /\ LastDay' = today' + DemoDays + BoughtDays' /\ Null = -1
    BY DEF LastDay, Null
  <2>2. QED
    BY <1>1, <2>1 DEF TimeInv
<1>3. OwedDays + n - k <= BoughtDays + n /\ x + (OwedDays + n - k) <= LastDay + n + d
  BY <1>1, <1>2 DEF TimeInv
<1>4. \A w \in Worker : sync'[w].prev + OwedDays' <= LastDay'
  <2> SUFFICES ASSUME NEW w \in Worker PROVE sync'[w].prev + OwedDays' <= LastDay'
    OBVIOUS
  <2>1. PICK y \in Int : y = sync'[w].prev /\ y + OwedDays <= LastDay
    <3>1. sync[w].prev \in Int /\ assignment.expiresAt \in Int /\ Null \in Int
      BY NullIsNoDay DEF PlanInv, Typed, TypeOK, Sync
    <3>2. \A y \in {sync[w].prev, assignment.expiresAt, Null} : y \in Int /\ y + OwedDays <= LastDay
      BY <1>2, <3>1 DEF TimeInv
    <3>3. QED
      BY <3>2
  <2>2. y + (OwedDays + n - k) <= LastDay + n + d
    BY <1>1, <1>2, <2>1
  <2>3. QED
    BY <1>2, <2>1, <2>2
<1>5. \A i \in Invoice : terms'[i].issued <= today'
  <2> SUFFICES ASSUME NEW i \in Invoice PROVE terms'[i].issued <= today'
    OBVIOUS
  <2>1. PICK y \in Int : y = terms'[i].issued /\ y <= today
    <3>1. terms[i].issued \in Nat
      BY DEF PlanInv, Typed, TypeOK, Terms
    <3>2. \A y \in {terms[i].issued, today, 0} : y \in Int /\ y <= today
      BY <1>1, <3>1 DEF TimeInv
    <3>3. QED
      BY <3>2
  <2>2. y <= today + d
    BY <1>1, <2>1
  <2>3. QED
    BY <2>1, <2>2
<1>6. OwedDays' <= BoughtDays' /\ assignment'.expiresAt + OwedDays' <= LastDay'
  BY <1>2, <1>3
<1>7. QED
  BY <1>4, <1>5, <1>6 DEF TimeInv

\* Where no invoice is touched and no worker either, nothing is bought or owed.
LEMMA TimeStays ==
    ASSUME UNCHANGED <<terms, confirmed, sync>>
    PROVE  BoughtDays' = BoughtDays /\ OwedDays' = OwedDays
BY DEF BoughtDays, OwedDays, Bought, Owed, Days

\* A step that issues invoice i, which nobody is owed days of.
LEMMA IssueTime ==
    ASSUME PlanInv, PlanInv', NEW i \in Invoice, i \notin Paid, NEW x \in Terms, terms' = [terms EXCEPT ![i] = x],
           UNCHANGED sync
    PROVE  /\ OwedDays' = OwedDays
           /\ confirmed' = confirmed => BoughtDays' = BoughtDays
           /\ confirmed' = [confirmed EXCEPT ![i] = @ + 1] => BoughtDays' = BoughtDays + x.months * MonthDays
<1>1. confirmed \in [Invoice -> Nat] /\ confirmed[i] = 0 /\ terms'[i] = x /\ \A j \in Invoice : j # i => Days(j)' = Days(j)
  BY DEF PlanInv, Typed, TypeOK, Paid, Days
<1>2. Owed' = Owed
  <2>1. \A w \in Worker : sync[w].pc # "idle" /\ sync[w].inv # NoInvoice => sync[w].inv \in Invoice \ {i}
    BY <1>1, OwedTyped
  <2>2. \A w \in Worker : sync[w].pc # "idle" /\ sync[w].inv # NoInvoice => Days(sync[w].inv)' = Days(sync[w].inv)
    BY <1>1, <2>1
  <2>3. QED
    BY <2>2 DEF Owed
<1>3. Days(i) \in Nat /\ Days(i)' \in Nat /\ Days(i)' = x.months * MonthDays
  <2>1. x.months \in Nat /\ MonthDays \in Nat
    BY Constants DEF Terms
  <2>2. x.months * MonthDays \in Nat
    BY <2>1
  <2>3. QED
    BY <1>1, <2>2, DaysTyped DEF Days
<1>4. ASSUME confirmed' = confirmed PROVE Bought' = Bought
  <2>1. \A j \in Invoice : confirmed'[j] * Days(j)' = confirmed[j] * Days(j)
    <3> SUFFICES ASSUME NEW j \in Invoice, j = i PROVE confirmed'[j] * Days(j)' = confirmed[j] * Days(j)
      BY <1>1, <1>4
    <3>1. confirmed[j] = 0 /\ Days(j) \in Nat /\ Days(j)' \in Nat
      BY <1>1, <1>3
    <3>2. 0 * Days(j)' = 0 * Days(j)
      BY <3>1
    <3>3. QED
      BY <1>4, <3>1, <3>2
  <2>2. QED
    BY <2>1 DEF Bought
<1>5. ASSUME confirmed' = [confirmed EXCEPT ![i] = @ + 1]
      PROVE  BoughtDays' = BoughtDays + x.months * MonthDays
  <2>1. confirmed'[i] = 1 /\ \A j \in Invoice : j # i => confirmed'[j] = confirmed[j]
    BY <1>1, <1>5
  <2>2. Bought[i] = 0 /\ Bought'[i] = Days(i)'
    <3>1. 0 * Days(i) = 0 /\ 1 * Days(i)' = Days(i)'
      BY <1>3
    <3>2. QED
      BY <1>1, <2>1, <3>1 DEF Bought
  <2>3. \A j \in Invoice \ {i} : Bought'[j] = Bought[j]
    BY <1>1, <2>1 DEF Bought
  <2>4. Raised(Invoice, Bought, Bought', i, Days(i)')
    BY <1>3, <2>2, <2>3, TimeTyped, TimeTypedNext, SubscriptionAssumption DEF TimeTypeOK, Raised
  <2>5. QED
    BY <1>3, <2>4, UnderRaised DEF BoughtDays
<1>6. QED
  BY <1>2, <1>4, <1>5 DEF OwedDays, BoughtDays

LEMMA NextTimes == \A a, b \in Nat : (a + 1) * b = a * b + b
OBVIOUS

\* A payment buys its days once more, and owes them.
LEMMA ConfirmTime ==
    ASSUME PlanInv, PlanInv', NEW w \in Worker, NEW i \in Invoice, ConfirmPayment(w, i)
    PROVE  BoughtDays' = BoughtDays + Days(i) /\ OwedDays' = OwedDays + Days(i) /\ sync'[w].prev = Null
<1>1. /\ sync[w].pc = "idle" /\ UNCHANGED terms
      /\ sync'[w] = [Idle EXCEPT !.pc = "read", !.inv = i, !.plan = terms[i].plan] /\ \A v \in Worker : v # w => sync'[v] = sync[v]
      /\ confirmed'[i] = confirmed[i] + 1 /\ \A j \in Invoice : j # i => confirmed'[j] = confirmed[j]
  BY DEF ConfirmPayment, PlanInv, Typed, TypeOK
<1>2. sync'[w].pc = "read" /\ sync'[w].inv = i /\ sync'[w].prev = Null /\ i # NoInvoice
  BY <1>1, Constants DEF Idle
<1>3. Days(i) \in Nat /\ confirmed[i] \in Nat /\ \A j \in Invoice : Days(j)' = Days(j)
  BY <1>1, DaysTyped DEF Days
<1>4. Raised(Invoice, Bought, Bought', i, Days(i))
  <2>1. Bought'[i] = Bought[i] + Days(i) /\ \A j \in Invoice \ {i} : Bought'[j] = Bought[j]
    BY <1>1, <1>3, NextTimes DEF Bought
  <2>2. QED
    BY <1>3, <2>1, TimeTyped, TimeTypedNext, SubscriptionAssumption DEF TimeTypeOK, Raised
<1>5. Raised(Worker, Owed, Owed', w, Days(i))
  <2>1. Owed[w] = 0 /\ Owed'[w] = Days(i)
    BY <1>1, <1>2, <1>3 DEF Owed
  <2>2. \A v \in Worker \ {w} : Owed'[v] = Owed[v]
    BY <1>1 DEF Owed, Days
  <2>3. QED
    BY <1>3, <2>1, <2>2, TimeTyped, TimeTypedNext, SubscriptionAssumption DEF TimeTypeOK, Raised
<1>6. QED
  BY <1>2, <1>4, <1>5, UnderRaised DEF BoughtDays, OwedDays

\* A worker that goes on still owes its days; one that is done, or dead, owes none.
LEMMA WorkTime ==
    ASSUME PlanInv, PlanInv', NEW w \in Worker, UNCHANGED <<terms, confirmed>>, \A v \in Worker : v # w => sync'[v] = sync[v]
    PROVE  /\ BoughtDays' = BoughtDays
           /\ sync[w].pc # "idle" /\ sync'[w].pc # "idle" /\ sync'[w].inv = sync[w].inv => OwedDays' = OwedDays
           /\ sync'[w].pc = "idle" => OwedDays = OwedDays' + Owed[w]
           /\ sync[w].pc = "idle" /\ sync'[w].inv = NoInvoice => OwedDays' = OwedDays
<1>1. \A j : Days(j)' = Days(j)
  BY DEF Days
<1>2. BoughtDays' = BoughtDays
  BY <1>1 DEF BoughtDays, Bought
<1>3. \A v \in Worker \ {w} : Owed'[v] = Owed[v]
  BY DEF Owed, Days
<1>4. Owed \in [Worker -> Nat] /\ Owed' \in [Worker -> Nat]
  BY TimeTyped, TimeTypedNext DEF TimeTypeOK
<1>5. ASSUME Owed'[w] = Owed[w] PROVE OwedDays' = OwedDays
  <2>1. Owed' = Owed
    BY <1>3, <1>4, <1>5
  <2>2. QED
    BY <2>1 DEF OwedDays
<1>6. ASSUME sync[w].pc # "idle", sync'[w].pc # "idle", sync'[w].inv = sync[w].inv PROVE Owed'[w] = Owed[w]
  BY <1>6 DEF Owed, Days
<1>7. ASSUME sync[w].pc = "idle", sync'[w].inv = NoInvoice PROVE Owed'[w] = Owed[w]
  BY <1>7 DEF Owed
<1>8. ASSUME sync'[w].pc = "idle" PROVE OwedDays = OwedDays' + Owed[w]
  <2>1. Owed'[w] = 0 /\ Owed[w] \in Nat /\ Owed[w] = Owed'[w] + Owed[w]
    BY <1>4, <1>8 DEF Owed
  <2>2. Raised(Worker, Owed', Owed, w, Owed[w])
    BY <1>3, <1>4, <2>1, SubscriptionAssumption DEF Raised
  <2>3. QED
    BY <2>2, UnderRaised DEF OwedDays
<1>9. QED
  BY <1>2, <1>5, <1>6, <1>7, <1>8

LEMMA AssignmentExpiry == PlanInv => assignment.expiresAt \in Int /\ today \in Nat /\ LastDay \in Int /\ OwedDays \in Nat /\ DemoDays \in Nat
BY TimeTyped, NullIsNoDay, Constants DEF TimeTypeOK, LastDay, PlanInv, Typed, TypeOK

\* Whatever leaves the expiry, and what is bought and owed, as they are.
LEMMA TimeRests ==
    ASSUME PlanInv, PlanInv', TimeInv, NEW d \in Nat, today' = today + d, BoughtDays' = BoughtDays, OwedDays' = OwedDays,
           assignment'.expiresAt = assignment.expiresAt,
           \A w \in Worker : sync'[w].prev \in {sync[w].prev, assignment.expiresAt, Null},
           \A i \in Invoice : terms'[i].issued \in {terms[i].issued, today, 0}
    PROVE  TimeInv'
<1>1. /\ assignment.expiresAt \in Int /\ BoughtDays' = BoughtDays + 0 /\ OwedDays' = OwedDays + 0 - 0
      /\ assignment.expiresAt + OwedDays <= LastDay + d + 0
  BY AssignmentExpiry, TimeTyped DEF TimeTypeOK, TimeInv
<1>2. 0 \in Nat
  OBVIOUS
<1>3. QED
  BY <1>1, <1>2, TimeKept

LEMMA IssueTimely ==
    ASSUME PlanInv, PlanInv', TimeInv, NEW i \in Invoice, NEW p \in Plan,
           Generate(i, p) \/ \E m \in Durations : Checkout(i, p, m)
    PROVE  TimeInv'
<1>1. PICK x \in Terms : /\ terms' = [terms EXCEPT ![i] = x] /\ x.issued = today
                         /\ UNCHANGED <<assignment, sync, today, confirmed>> /\ i \notin Paid
  <2>1. CASE Generate(i, p)
    <3> DEFINE x == [NoTerms EXCEPT !.plan = p, !.months = 1, !.total = Rate[p] * MonthDays, !.issued = today]
    <3>1. terms' = [terms EXCEPT ![i] = x] /\ UNCHANGED <<assignment, sync, today, confirmed>> /\ i \notin Paid
      BY <2>1, GenerateKeeps DEF Generate
    <3>2. x.issued = today
      BY DEF NoTerms
    <3>3. x \in Terms
      <4>1. Rate[p] \in Nat /\ MonthDays \in Nat /\ today \in Nat
        BY Constants, AssignmentExpiry
      <4>2. Rate[p] * MonthDays \in Nat
        BY <4>1
      <4>3. QED
        BY <4>1, <4>2 DEF NoTerms, Terms
    <3>4. QED
      BY <3>1, <3>2, <3>3
  <2>2. CASE \E m \in Durations : Checkout(i, p, m)
    <3>1. PICK m \in Durations : Checkout(i, p, m)
      BY <2>2
    <3>2. CheckoutTerms(p, m) \in Terms /\ CheckoutTerms(p, m).issued = today
      BY CheckoutTyped DEF PlanInv, CheckoutTerms
    <3>3. terms' = [terms EXCEPT ![i] = CheckoutTerms(p, m)] /\ UNCHANGED <<assignment, sync, today, confirmed>> /\ i \notin Paid
      BY <3>1, CheckoutKeeps DEF Checkout
    <3>4. QED
      BY <3>2, <3>3
  <2>3. QED
    BY <2>1, <2>2
<1>2. BoughtDays' = BoughtDays /\ OwedDays' = OwedDays
  BY <1>1, IssueTime
<1>3. \A j \in Invoice : terms'[j].issued \in {terms[j].issued, today, 0}
  BY <1>1 DEF PlanInv, Typed, TypeOK
<1>4. 0 \in Nat /\ today' = today + 0
  BY <1>1, AssignmentExpiry
<1>5. QED
  BY <1>1, <1>2, <1>3, <1>4, TimeRests

LEMMA CoveredTimely ==
    ASSUME PlanInv, PlanInv', TimeInv, NEW i \in Invoice, NEW p \in Plan, NEW m \in Durations, CheckoutCovered(i, p, m)
    PROVE  TimeInv'
<1> DEFINE c == CheckoutTerms(p, m)
           n == m * MonthDays
           base == IF c.previous = NoPlan /\ assignment.expiresAt > today THEN assignment.expiresAt ELSE today
<1>1. c \in Terms /\ c.months = m /\ c.issued = today
  BY CheckoutTyped DEF PlanInv, CheckoutTerms
<1>2. n \in Nat /\ base \in Int /\ base + OwedDays <= LastDay
  <2>1. m \in Nat /\ MonthDays \in Nat
    BY Constants
  <2>2. n \in Nat
    BY <2>1
  <2>3. LastDay = today + DemoDays + BoughtDays /\ BoughtDays \in Nat
    BY TimeTyped DEF TimeTypeOK, LastDay
  <2>4. today + OwedDays <= LastDay
    BY <2>3, AssignmentExpiry DEF TimeInv
  <2>5. QED
    BY <2>2, <2>4, AssignmentExpiry DEF TimeInv
<1>3. /\ terms' = [terms EXCEPT ![i] = c] /\ confirmed' = [confirmed EXCEPT ![i] = @ + 1] /\ UNCHANGED <<sync, today>>
      /\ assignment' = [assignment EXCEPT !.plan = p, !.expiresAt =
                          IF c.previous = NoPlan /\ @ > today THEN @ + m * MonthDays ELSE today + m * MonthDays]
  BY DEF CheckoutCovered
<1>4. assignment'.expiresAt = base + n
  BY <1>3 DEF PlanInv, Typed, TypeOK
<1>5. i \notin Paid
  BY DEF CheckoutCovered, Move, Paid, PlanInv, Issued
<1>6. \A j \in Invoice : terms'[j].issued \in {terms[j].issued, today, 0}
  <2> HIDE DEF c
  <2>1. QED
    BY <1>1, <1>3 DEF PlanInv, Typed, TypeOK
<1> HIDE DEF c, base
<1>7. OwedDays' = OwedDays /\ BoughtDays' = BoughtDays + n
  BY <1>1, <1>3, <1>5, IssueTime
<1> HIDE DEF n
<1>8. base + n \in Int /\ (base + n) + OwedDays <= LastDay + 0 + n /\ OwedDays' = OwedDays + n - n /\ today' = today + 0 /\ 0 \in Nat
  BY <1>2, <1>3, <1>7, AssignmentExpiry
<1>9. QED
  BY <1>2, <1>3, <1>4, <1>6, <1>7, <1>8, TimeKept

LEMMA ConfirmTimely ==
    ASSUME PlanInv, PlanInv', TimeInv, NEW w \in Worker, NEW i \in Invoice, ConfirmPayment(w, i)
    PROVE  TimeInv'
<1>1. BoughtDays' = BoughtDays + Days(i) /\ OwedDays' = OwedDays + Days(i) /\ sync'[w].prev = Null /\ Days(i) \in Nat
  BY ConfirmTime, DaysTyped
<1>2. UNCHANGED <<terms, assignment, today>> /\ \A v \in Worker : v # w => sync'[v] = sync[v]
  BY DEF ConfirmPayment, PlanInv, Typed, TypeOK
<1>3. /\ assignment.expiresAt \in Int /\ OwedDays' = OwedDays + Days(i) - 0 /\ today' = today + 0 /\ 0 \in Nat
      /\ assignment.expiresAt + OwedDays <= LastDay + 0 + 0
  BY <1>1, <1>2, AssignmentExpiry DEF TimeInv
<1>4. QED
  BY <1>1, <1>2, <1>3, TimeKept

-------------------------------------------------------------------------------
\* A worker starts from what it read, or from the day its invoice was issued.
LEMMA ExpiryReach ==
    ASSUME PlanInv, TimeInv, NEW i \in Invoice, NEW w \in Worker
    PROVE  NewExpiry(i, sync[w].prev) + OwedDays <= LastDay + Days(i)
<1> DEFINE start == IF terms[i].previous = NoPlan /\ sync[w].prev > terms[i].issued THEN sync[w].prev ELSE terms[i].issued
<1>1. start \in Int /\ start + OwedDays <= LastDay
  <2>1. sync[w].prev \in Int /\ terms[i].issued \in Nat
    BY NullIsNoDay DEF PlanInv, Typed, TypeOK, Sync, Terms
  <2>2. LastDay = today + DemoDays + BoughtDays /\ BoughtDays \in Nat
    BY TimeTyped DEF TimeTypeOK, LastDay
  <2>3. terms[i].issued + OwedDays <= LastDay
    BY <2>1, <2>2, AssignmentExpiry DEF TimeInv
  <2>4. QED
    BY <2>1, <2>3 DEF TimeInv
<1>2. NewExpiry(i, sync[w].prev) = start + Days(i)
  BY DEF NewExpiry, Days
<1> HIDE DEF start
<1>3. QED
  BY <1>1, <1>2, DaysTyped, AssignmentExpiry

LEMMA WorkTimely ==
    ASSUME PlanInv, PlanInv', TimeInv, NEW w \in Worker, WorkerStep(w) \/ Crash(w) \/ \E p \in Plan : AdminChange(w, p)
    PROVE  TimeInv'
<1>1. UNCHANGED <<terms, confirmed, today>> /\ \A v \in Worker : v # w => sync'[v] = sync[v]
  BY DEF WorkerStep, SyncRead, AssignRead, AssignSave, SyncExpiry, Crash, AdminChange, PlanInv, Typed, TypeOK
<1>2. /\ BoughtDays' = BoughtDays
      /\ sync[w].pc # "idle" /\ sync'[w].pc # "idle" /\ sync'[w].inv = sync[w].inv => OwedDays' = OwedDays
      /\ sync'[w].pc = "idle" => OwedDays = OwedDays' + Owed[w]
      /\ sync[w].pc = "idle" /\ sync'[w].inv = NoInvoice => OwedDays' = OwedDays
  BY <1>1, WorkTime
<1>3. sync[w] \in Sync /\ Idle.pc = "idle" /\ Idle.prev = Null /\ Idle.inv = NoInvoice /\ sync \in [Worker -> Sync]
  BY DEF PlanInv, Typed, TypeOK, Idle
<1>4. Owed[w] \in Nat /\ OwedDays' \in Nat /\ OwedDays \in Nat /\ BoughtDays \in Nat
  BY TimeTyped, TimeTypedNext DEF TimeTypeOK
<1>5. PICK k \in Nat : /\ OwedDays' = OwedDays - k /\ (k = 0 \/ k = Owed[w])
                       /\ sync'[w].pc = "idle" => k = Owed[w]
                       /\ sync'[w].prev \in {sync[w].prev, assignment.expiresAt, Null}
  <2>1. CASE sync'[w] = Idle
    <3>1. OwedDays' = OwedDays - Owed[w]
      BY <1>2, <1>3, <1>4, <2>1
    <3>2. QED
      BY <1>3, <1>4, <2>1, <3>1
  <2>2. CASE sync'[w].pc # "idle" /\ OwedDays' = OwedDays /\ sync'[w].prev \in {sync[w].prev, assignment.expiresAt, Null}
    <3>1. 0 \in Nat /\ OwedDays' = OwedDays - 0
      BY <1>4, <2>2
    <3>2. QED
      BY <2>2, <3>1
  <2>3. CASE SyncRead(w)
    <3> DEFINE r == [sync[w] EXCEPT !.prev = assignment.expiresAt,
                                    !.pc = IF assignment.plan = sync[w].plan THEN "renew" ELSE "assign"]
    <3>1. sync[w].pc = "read" /\ (sync'[w] = Idle \/ sync'[w] = r)
      BY <1>3, <2>3 DEF SyncRead
    <3>2. r.pc # "idle" /\ r.inv = sync[w].inv /\ r.prev = assignment.expiresAt
      BY <1>3 DEF Sync
    <3> HIDE DEF r
    <3>3. CASE sync'[w] = r
      BY <1>2, <2>2, <3>1, <3>2, <3>3
    <3>4. QED
      BY <2>1, <3>1, <3>3
  <2>4. CASE AssignRead(w)
    <3> DEFINE r == [sync[w] EXCEPT !.cancelled = assignment.cancelled, !.pc = "save"]
    <3>1. sync[w].pc = "assign" /\ sync'[w] = r
      BY <1>3, <2>4 DEF AssignRead
    <3>2. r.pc # "idle" /\ r.inv = sync[w].inv /\ r.prev = sync[w].prev
      BY <1>3 DEF Sync
    <3> HIDE DEF r
    <3>3. QED
      BY <1>2, <2>2, <3>1, <3>2
  <2>5. CASE AssignSave(w)
    <3> DEFINE r == [sync[w] EXCEPT !.pc = "start"]
    <3>1. sync[w].pc = "save" /\ (sync'[w] = Idle \/ sync'[w] = r)
      BY <1>3, <2>5 DEF AssignSave
    <3>2. r.pc # "idle" /\ r.inv = sync[w].inv /\ r.prev = sync[w].prev
      BY <1>3 DEF Sync
    <3> HIDE DEF r
    <3>3. CASE sync'[w] = r
      BY <1>2, <2>2, <3>1, <3>2, <3>3
    <3>4. QED
      BY <2>1, <3>1, <3>3
  <2>6. CASE SyncExpiry(w) \/ Crash(w)
    BY <1>3, <2>1, <2>6 DEF SyncExpiry, Crash
  <2>7. ASSUME NEW p \in Plan, AdminChange(w, p) PROVE sync'[w].pc # "idle" /\ OwedDays' = OwedDays /\ sync'[w].prev = Null
    <3> DEFINE r == [Idle EXCEPT !.pc = "assign", !.plan = p]
    <3>1. sync[w].pc = "idle" /\ sync'[w] = r
      BY <1>3, <2>7 DEF AdminChange
    <3>2. r.pc # "idle" /\ r.inv = NoInvoice /\ r.prev = Null
      BY DEF Idle
    <3> HIDE DEF r
    <3>3. QED
      BY <1>2, <3>1, <3>2
  <2>8. QED
    BY <2>2, <2>3, <2>4, <2>5, <2>6, <2>7 DEF WorkerStep
<1>6. PICK x \in Int : assignment'.expiresAt = x /\ x + OwedDays <= LastDay + 0 + k
  <2>1. CASE SyncExpiry(w)
    <3>1. /\ sync[w].pc \in {"start", "renew"} /\ sync'[w] = Idle
          /\ assignment' = [assignment EXCEPT !.expiresAt = NewExpiry(sync[w].inv, sync[w].prev)]
      BY <1>3, <2>1 DEF SyncExpiry
    <3>2. sync[w].inv \in Invoice /\ sync[w].inv # NoInvoice
      BY <3>1, SyncTyped, OwedTyped DEF Founded
    <3>3. k = Days(sync[w].inv)
      BY <1>3, <1>5, <3>1, <3>2 DEF Owed
    <3>4. NewExpiry(sync[w].inv, sync[w].prev) + OwedDays <= LastDay + k
      BY <3>2, <3>3, ExpiryReach
    <3>5. NewExpiry(sync[w].inv, sync[w].prev) \in Int
      <4>1. sync[w].prev \in Nat \cup {Null} /\ TypeOK
        BY <1>3 DEF PlanInv, Typed, Sync
      <4>2. NewExpiry(sync[w].inv, sync[w].prev) \in Nat
        BY <3>2, <4>1, NewExpiryTyped
      <4>3. QED
        BY <4>2
    <3>6. assignment'.expiresAt = NewExpiry(sync[w].inv, sync[w].prev)
      BY <3>1 DEF PlanInv, Typed, TypeOK
    <3>7. LastDay + 0 + k = LastDay + k
      BY AssignmentExpiry
    <3>8. QED
      BY <3>4, <3>5, <3>6, <3>7
  <2>2. CASE AssignSave(w)
    <3>1. assignment'.expiresAt = PlainExpiry(sync[w].plan)
      BY <2>2 DEF AssignSave
    <3>2. LastDay = today + DemoDays + BoughtDays
      BY DEF LastDay
    <3>3. PlainExpiry(sync[w].plan) = Null \/ PlainExpiry(sync[w].plan) = today + DemoDays
      BY DEF PlainExpiry
    <3>4. PlainExpiry(sync[w].plan) \in Int /\ PlainExpiry(sync[w].plan) + OwedDays <= LastDay + 0 + k
      BY <1>4, <3>2, <3>3, AssignmentExpiry DEF TimeInv, Null
    <3>5. QED
      BY <3>1, <3>4
  <2>3. CASE UNCHANGED assignment
    BY <1>4, <2>3, AssignmentExpiry DEF TimeInv
  <2>4. QED
    BY <2>1, <2>2, <2>3 DEF WorkerStep, SyncRead, AssignRead, Crash, AdminChange
<1>7. BoughtDays' = BoughtDays + 0 /\ OwedDays' = OwedDays + 0 - k /\ today' = today + 0 /\ 0 \in Nat
  BY <1>1, <1>2, <1>4, <1>5, AssignmentExpiry
<1>8. QED
  BY <1>1, <1>5, <1>6, <1>7, TimeKept

LEMMA RestTimely ==
    ASSUME PlanInv, PlanInv', TimeInv, (\E i \in Invoice : OtherMove(i)) \/ CancelPlan \/ ResumePlan \/ NextDay \/ UNCHANGED vars
    PROVE  TimeInv'
<1>1. UNCHANGED <<terms, confirmed, sync>> /\ assignment'.expiresAt = assignment.expiresAt
  BY DEF OtherMove, CancelPlan, ResumePlan, NextDay, vars, PlanInv, Typed, TypeOK
<1>2. PICK d \in Nat : today' = today + d
  <2>1. today' = today + 1 \/ today' = today + 0
    BY AssignmentExpiry DEF OtherMove, CancelPlan, ResumePlan, NextDay, vars
  <2>2. QED
    BY <2>1
<1>3. QED
  BY <1>1, <1>2, TimeStays, TimeRests

LEMMA TimeInvKept == PlanInv /\ TimeInv /\ [Next]_vars => TimeInv'
BY PlanInvKept, IssueTimely, CoveredTimely, ConfirmTimely, WorkTimely, RestTimely DEF Next

LEMMA TimeInvInit == Init => TimeInv
<1> SUFFICES ASSUME Init PROVE TimeInv
  OBVIOUS
<1>1. PlanInv
  BY PlanInvInit
<1>2. today = 0 /\ \A i \in Invoice : terms[i].issued = 0
  BY DEF Init, NoTerms
<1>3. \A w \in Worker : sync[w].pc = "idle" /\ sync[w].prev = Null
  BY DEF Init, Idle
<1>4. OwedDays = 0
  <2>1. Owed = [w \in Worker |-> 0]
    BY <1>3 DEF Owed
  <2>2. 1 .. 0 = {}
    OBVIOUS
  <2>3. Under(Owed) = {}
    BY <2>1, <2>2 DEF Under
  <2>4. QED
    BY <2>3, FS_EmptySet DEF OwedDays
<1>5. BoughtDays \in Nat /\ LastDay = today + DemoDays + BoughtDays /\ DemoDays \in Nat
  BY <1>1, TimeTyped, Constants DEF TimeTypeOK, LastDay
<1>6. assignment.expiresAt = Null \/ assignment.expiresAt = DemoDays
  BY <1>2, <1>5 DEF Init, PlainExpiry
<1>7. QED
  BY <1>2, <1>3, <1>4, <1>5, <1>6 DEF TimeInv, Null

-------------------------------------------------------------------------------
\* A plan without an end that fixed-term invoices alone account for is one whose end a
\* worker is about to write, unless one was killed.
EndIsComing ==
    /\ ~killed
    /\ assignment.plan \notin {FirstPlan} \cup adminPlans
    /\ \A i \in Paid : terms[i].plan = assignment.plan => terms[i].fixed
    /\ assignment.expiresAt = Null
    => \E w \in Worker : sync[w].pc = "start"

DatedInv == PlanInv /\ EndIsComing

LEMMA EndKept ==
    ASSUME DatedInv, SourcesGrow, killed' = killed, assignment'.plan = assignment.plan, assignment'.expiresAt = assignment.expiresAt,
           \A w \in Worker : sync[w].pc = "start" => sync'[w].pc = "start"
    PROVE  EndIsComing'
<1>1. Paid \subseteq Invoice
  BY DEF Paid
<1>2. QED
  BY <1>1 DEF DatedInv, EndIsComing, SourcesGrow

LEMMA EndWritten ==
    ASSUME assignment'.expiresAt \in Nat
    PROVE  EndIsComing'
BY NullIsNoDay DEF EndIsComing

LEMMA DatedInvKept == DatedInv /\ [Next]_vars => DatedInv'
<1> SUFFICES ASSUME DatedInv, [Next]_vars PROVE EndIsComing'
  BY PlanInvKept DEF DatedInv
<1>1. PlanInv /\ Typed /\ TypeOK
  BY DEF DatedInv, PlanInv, Typed
<1>2. ASSUME NEW i \in Invoice, NEW p \in Plan, Generate(i, p) \/ \E m \in Durations : Checkout(i, p, m)
      PROVE  EndIsComing'
  <2>1. SourcesGrow /\ UNCHANGED <<assignment, sync, killed>>
    BY <1>1, <1>2, GenerateKeeps, CheckoutKeeps DEF Generate, Checkout
  <2>2. QED
    BY <2>1, EndKept
<1>3. ASSUME NEW i \in Invoice, NEW p \in Plan, NEW m \in Durations, CheckoutCovered(i, p, m)
      PROVE  EndIsComing'
  BY <1>1, <1>3, CoveredKeeps, EndWritten
<1>4. ASSUME NEW i \in Invoice, OtherMove(i)
      PROVE  EndIsComing'
  <2>1. SourcesGrow /\ UNCHANGED <<assignment, sync, killed>>
    BY <1>1, <1>4, OtherKeeps DEF OtherMove
  <2>2. QED
    BY <2>1, EndKept
<1>5. ASSUME NEW i \in Invoice, NEW w \in Worker, ConfirmPayment(w, i)
      PROVE  EndIsComing'
  <2>1. SourcesGrow /\ UNCHANGED <<assignment, killed>> /\ sync[w].pc = "idle"
          /\ \A v \in Worker : v # w => sync'[v] = sync[v]
    BY <1>1, <1>5, ConfirmKeeps DEF ConfirmPayment, TypeOK
  <2>2. QED
    BY <2>1, EndKept
<1>6. ASSUME NEW w \in Worker, WorkerStep(w)
      PROVE  EndIsComing'
  <2>1. SourcesGrow
    BY <1>1, <1>6, WorkerKeeps
  <2>2. CASE SyncRead(w) \/ AssignRead(w)
    <3>1. UNCHANGED <<assignment, killed>> /\ sync[w].pc # "start" /\ \A v \in Worker : v # w => sync'[v] = sync[v]
      BY <1>1, <2>2 DEF SyncRead, AssignRead, TypeOK
    <3>2. QED
      BY <2>1, <3>1, EndKept
  <2>3. CASE AssignSave(w)
    <3>1. sync[w].pc = "save" /\ assignment'.plan = sync[w].plan /\ UNCHANGED <<terms, confirmed, adminPlans, killed>>
      BY <2>3 DEF AssignSave
    <3>2. Founded(w)
      BY <1>1, <3>1, SyncTyped
    <3>3. SUFFICES ASSUME assignment'.plan \notin adminPlans',
                          \A i \in Paid' : terms'[i].plan = assignment'.plan => terms'[i].fixed
                   PROVE  sync'[w].pc = "start"
      BY DEF EndIsComing
    <3>4. sync[w].inv # NoInvoice /\ sync[w].inv \in Paid' /\ terms[sync[w].inv].plan = sync[w].plan
      BY <3>1, <3>2, <3>3 DEF Founded, Paid
    <3>5. terms[sync[w].inv].fixed
      BY <3>1, <3>3, <3>4
    <3>6. sync'[w] = [sync[w] EXCEPT !.pc = "start"] /\ sync[w] \in Sync
      BY <1>1, <2>3, <3>4, <3>5 DEF AssignSave, TypeOK
    <3>7. QED
      BY <3>6 DEF Sync
  <2>4. CASE SyncExpiry(w)
    <3>1. sync[w].pc \in {"start", "renew"}
            /\ assignment' = [assignment EXCEPT !.expiresAt = NewExpiry(sync[w].inv, sync[w].prev)]
      BY <2>4 DEF SyncExpiry
    <3>2. Founded(w) /\ sync[w] \in Sync
      BY <1>1, <3>1, SyncTyped
    <3>3. sync[w].inv \in Invoice /\ sync[w].prev \in Nat \cup {Null}
      BY <3>1, <3>2 DEF Founded, Sync
    <3>4. NewExpiry(sync[w].inv, sync[w].prev) \in Nat
      BY <1>1, <3>3, NewExpiryTyped
    <3>5. assignment'.expiresAt \in Nat
      BY <1>1, <3>1, <3>4 DEF TypeOK
    <3>6. QED
      BY <3>5, EndWritten
  <2>5. QED
    BY <1>6, <2>2, <2>3, <2>4 DEF WorkerStep
<1>7. ASSUME NEW w \in Worker, Crash(w)
      PROVE  EndIsComing'
  BY <1>7 DEF Crash, EndIsComing
<1>8. ASSUME NEW w \in Worker, NEW p \in Plan, AdminChange(w, p)
      PROVE  EndIsComing'
  <2>1. SourcesGrow /\ UNCHANGED <<assignment, killed>> /\ sync[w].pc = "idle"
          /\ \A v \in Worker : v # w => sync'[v] = sync[v]
    BY <1>1, <1>8, AdminKeeps DEF AdminChange, TypeOK
  <2>2. QED
    BY <2>1, EndKept
<1>9. CASE CancelPlan \/ ResumePlan \/ NextDay \/ UNCHANGED vars
  <2>1. SourcesGrow
    BY <1>1, <1>9, RestKeeps
  <2>2. UNCHANGED <<sync, killed>> /\ assignment'.plan = assignment.plan /\ assignment'.expiresAt = assignment.expiresAt
    BY <1>1, <1>9 DEF CancelPlan, ResumePlan, NextDay, vars, TypeOK
  <2>3. QED
    BY <2>1, <2>2, EndKept
<1>10. QED
  BY <1>2, <1>3, <1>4, <1>5, <1>6, <1>7, <1>8, <1>9 DEF Next

\* However payments, syncs, admins, refunds and kills interleave: every column keeps its type,
\* no expiry is later than the confirmed payments reach, and unless a worker was killed on the
\* way, a plan that was bought for a term has an end once every worker is done.
SubscriptionSafe == TypeOK /\ TimeIsConfirmed /\ FixedTermIsDated

\* SubscriptionSafe holds of every catalogue, price list, month, and number of workers.
THEOREM TimeIsPaidFor == Spec => []SubscriptionSafe
<1>1. Init => PlanInv /\ TimeInv /\ DatedInv
  BY PlanInvInit, TimeInvInit DEF Init, DatedInv, EndIsComing
<1>2. DatedInv => PlanInv
  BY DEF DatedInv
<1>3. PlanInv /\ TimeInv => TimeIsConfirmed
  <2> SUFFICES ASSUME PlanInv, TimeInv PROVE TimeIsConfirmed
    OBVIOUS
  <2>1. assignment.expiresAt <= LastDay
    BY AssignmentExpiry DEF TimeInv
  <2>2. QED
    BY <2>1 DEF TimeIsConfirmed, LastDay, BoughtDays, Bought, ConfirmedDays
<1>4. PlanInv /\ TimeInv /\ DatedInv => SubscriptionSafe
  BY <1>3 DEF PlanInv, Typed, DatedInv, EndIsComing, FixedTermIsDated, SubscriptionSafe
<1>5. QED
  BY <1>1, <1>2, <1>4, TimeInvKept, DatedInvKept, PTL DEF Spec
================================================================================
