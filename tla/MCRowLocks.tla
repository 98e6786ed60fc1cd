------------------------------ MODULE MCRowLocks ------------------------------
(***************************************************************************)
(* Requests that race for row locks, in one run: all that is done to one   *)
(* invoice, refunds and deletion included; checkout, overrides and         *)
(* deletions on three; and what a plan lets through in the chat.           *)
(***************************************************************************)
EXTENDS InvoicesProofs, FiniteSets, TLC

VARIABLE part

qvars == <<window, conv, messages, nextId, req>>

MCKindCap == [kind \in {"compare", "image", "media"} |-> 1]

MCInit == RequestsInit /\ Quota!Init /\ part \in {"one", "many", "media", "compare"}

One ==
    /\ Cardinality({i \in Invoice : status[i] # "none"}) <= 1
    /\ \A r \in Request : task[r].op # "checkout"

Many == today = 0 /\ \A r \in Request : task[r].op \in {"none", "checkout", "toggle"}

\* The kinds of message: comparisons do not meet the others in one behaviour.
Prompts == \A w \in Worker : req[w].kind # "compare"
Comparisons == \A w \in Worker : req[w].kind \notin {"image", "media"}

MCNext ==
    \/ part \in {"one", "many"} /\ RequestsNext /\ (IF part = "one" THEN One' ELSE Many')
       /\ UNCHANGED <<part, qvars>>
    \/ part \in {"media", "compare"} /\ Quota!Next /\ (IF part = "media" THEN Prompts' ELSE Comparisons')
       /\ UNCHANGED <<part, allvars>>

MCSpec == MCInit /\ [][MCNext]_<<allvars, part, qvars>>

Perms == Permutations(Request) \cup Permutations(Offer)
===============================================================================
