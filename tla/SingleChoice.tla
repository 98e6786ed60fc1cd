----------------------------- MODULE SingleChoice -----------------------------
(***************************************************************************)
(* "Only one plan should have this set": the default plan, the most popular *)
(* plan and a department's active prompt (governance/views.py, models.py). *)
(* A transaction turns the others off and its own row on; statements take  *)
(* row locks and see the rows committed when they start (READ COMMITTED).  *)
(***************************************************************************)
EXTENDS Naturals, FiniteSets

CONSTANTS
    Choice,               \* the plans, or the prompt versions of a department
    Worker,               \* the requests under way
    MaxTx                 \* bound: transactions in a run

SingleChoiceConstants == MaxTx \in Nat /\ IsFiniteSet(Choice)

VARIABLES
    table,                \* "plans" or "prompts"
    committed,            \* is_default, is_most_popular or is_active of each row
    tx,                   \* the transaction of each worker
    begun,                \* transactions so far
    phantom               \* history: a row was inserted after a clearing statement began

vars == <<table, committed, tx, begun, phantom>>

Same == [c \in Choice |-> "same"]
NoTx == [pc |-> "idle", kind |-> "form", row |-> CHOOSE c \in Choice : TRUE, want |-> FALSE,
         seen |-> "none", todo |-> {}, wrote |-> Same]

TypeOK ==
    /\ table \in {"plans", "prompts"}
    /\ committed \in [Choice -> {"none", "on", "off"}]
    /\ begun \in 0 .. MaxTx /\ phantom \in BOOLEAN
    /\ \A w \in Worker :
         /\ tx[w].pc \in {"idle", "save", "unmark", "clear", "clearing", "mark", "commit"}
         /\ tx[w].wrote \in [Choice -> {"same", "on", "off"}]
         /\ tx[w].todo \subseteq {c \in Choice : committed[c] # "none"}
    \* A row is locked by the one transaction that wrote it.
    /\ \A c \in Choice : Cardinality({w \in Worker : tx[w].wrote[c] # "same"}) <= 1

Init ==
    /\ table \in {"plans", "prompts"}
    /\ committed \in [Choice -> {"none", "on", "off"}]
    /\ Cardinality({c \in Choice : committed[c] = "on"}) = 1
    /\ tx = [w \in Worker |-> NoTx]
    /\ begun = 0 /\ phantom = FALSE

-------------------------------------------------------------------------------
Free(w, c) == \A v \in Worker \ {w} : tx[v].wrote[c] = "same"

\* The request loads its row, or makes a new one, before its transaction.
Begin(w, kind, c, want) ==
    /\ tx[w].pc = "idle" /\ begun < MaxTx
    /\ CASE kind = "form" -> table = "plans"
         [] kind = "access" -> table = "plans" /\ committed[c] # "none"
         [] kind = "prompt" -> table = "prompts" /\ committed[c] = "none" /\ want
    /\ \A v \in Worker : tx[v].pc # "idle" => tx[v].row # c \/ committed[c] # "none"
    /\ tx' = [tx EXCEPT ![w] = [NoTx EXCEPT !.pc = IF kind = "prompt" THEN "clear" ELSE "save",
                                            !.kind = kind, !.row = c, !.want = want, !.seen = committed[c]]]
    /\ begun' = begun + 1
    /\ UNCHANGED <<table, committed, phantom>>

\* Mutant: no lock is waited for.
WriteAnyway(w, c, v, next) ==
    /\ tx' = [tx EXCEPT ![w].wrote[c] = v, ![w].pc = next]
    /\ UNCHANGED <<table, committed, begun, phantom>>

Write(w, c, v, next) ==
    /\ Free(w, c)
    /\ tx' = [tx EXCEPT ![w].wrote[c] = v, ![w].pc = next]
    /\ UNCHANGED <<table, committed, begun, phantom>>

\* PlanFormView saves every column as loaded; update_plan_access only its own.
Save(w) ==
    LET t == tx[w] IN
    /\ t.pc = "save"
    /\ Write(w, t.row,
             IF t.seen = "none" THEN "off" ELSE IF t.kind = "form" THEN t.seen ELSE committed[t.row],
             IF t.want THEN "clear" ELSE IF t.seen = "on" THEN "unmark" ELSE "commit")

Unmark(w) == tx[w].pc = "unmark" /\ Write(w, tx[w].row, "off", "commit")

\* update(...=False): the rows it will turn off are the ones committed by now.
StartClear(w) ==
    LET t == tx[w] IN
    /\ t.pc = "clear"
    /\ tx' = [tx EXCEPT ![w].pc = "clearing",
                        ![w].todo = {c \in Choice : committed[c] # "none" /\ (t.kind = "prompt" => committed[c] = "on")} \ {t.row}]
    /\ UNCHANGED <<table, committed, begun, phantom>>

\* Mutant: rows locked by another transaction are skipped.
ClearUnlocked(w) ==
    /\ tx[w].pc = "clearing"
    /\ tx' = [tx EXCEPT ![w].pc = "mark", ![w].todo = {},
                        ![w].wrote = [c \in Choice |-> IF c \in tx[w].todo /\ Free(w, c) THEN "off" ELSE @[c]]]
    /\ UNCHANGED <<table, committed, begun, phantom>>

\* Row by row, waiting for the lock of each.
Clear(w) ==
    LET t == tx[w] IN
    /\ t.pc = "clearing"
    /\ \/ \E c \in t.todo :
            /\ Free(w, c)
            /\ tx' = [tx EXCEPT ![w].todo = @ \ {c}, ![w].wrote[c] = "off"]
       \/ t.todo = {} /\ tx' = [tx EXCEPT ![w].pc = "mark"]
    /\ UNCHANGED <<table, committed, begun, phantom>>

Mark(w) == tx[w].pc = "mark" /\ Write(w, tx[w].row, "on", "commit")

\* Mutant: the transaction stays open.
CommitForgets(w) ==
    /\ tx[w].pc = "commit"
    /\ committed' = [c \in Choice |-> IF tx[w].wrote[c] = "same" THEN committed[c] ELSE tx[w].wrote[c]]
    /\ UNCHANGED <<table, tx, begun, phantom>>

Commit(w) ==
    LET t == tx[w] IN
    /\ t.pc = "commit"
    /\ committed' = [c \in Choice |-> IF t.wrote[c] = "same" THEN committed[c] ELSE t.wrote[c]]
    /\ tx' = [tx EXCEPT ![w] = NoTx]
    /\ phantom' = (phantom \/ (committed[t.row] = "none" /\
                     \E v \in Worker \ {w} : tx[v].pc \in {"clearing", "mark", "commit"}))
    /\ UNCHANGED <<table, begun>>

\* Each waits for a row of the other: the database aborts one of them.
Waits(w, v) ==
    LET t == tx[w]
        wanted == IF t.pc = "clearing" THEN t.todo ELSE {t.row}
    IN  t.pc \notin {"idle", "clear"} /\ \E c \in wanted : tx[v].wrote[c] # "same"

Abort(w) ==
    /\ \E v \in Worker \ {w} : Waits(w, v) /\ Waits(v, w)
    /\ tx' = [tx EXCEPT ![w] = NoTx]
    /\ UNCHANGED <<table, committed, begun, phantom>>

Step(w) == Save(w) \/ Unmark(w) \/ StartClear(w) \/ Clear(w) \/ Mark(w) \/ Commit(w) \/ Abort(w)

Next ==
    \E w \in Worker :
        \/ \E kind \in {"form", "access", "prompt"}, c \in Choice, want \in BOOLEAN : Begin(w, kind, c, want)
        \/ Step(w)

Spec == Init /\ [][Next]_vars /\ \A w \in Worker : WF_vars(Step(w))

-------------------------------------------------------------------------------
\* "at most one ... is ever active", "only one plan should have this set": with two
\* administrators choosing at once there is one choice at most, except when a row was
\* inserted that the other's clearing statement could not see.
OneChosen == ~phantom => Cardinality({c \in Choice : committed[c] = "on"}) <= 1

\* Two administrators who choose different rows lock them in opposite orders; no
\* request stays blocked: it commits or the database aborts one of the two.
RequestEnds == \A w \in Worker : tx[w].pc # "idle" ~> tx[w].pc = "idle"
===============================================================================
