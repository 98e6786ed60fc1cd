---------------------------- MODULE FeatureToggles ----------------------------
(***************************************************************************)
(* What a role may see (governance/features.py) while SuperAdmins post the *)
(* Feature Visibility page (governance/views.py).  A post writes one row   *)
(* of each feature in one transaction, each row locked until it commits;   *)
(* the request of a user asks for the same features over and over, in its  *)
(* decorators and in every row of a template.                              *)
(***************************************************************************)
EXTENDS Integers, Sequences, SequencesExt

CONSTANTS
    Feature,              \* the keys of the registries, in their order
    Post, Visit,          \* the posts of the page, and the requests of users, under way
    MaxCommits,           \* bound: the posts that succeed
    None

\* No key is in the registries twice.
ToggleConstants ==
    /\ Feature \in Seq(STRING) /\ Feature # <<>> /\ MaxCommits \in Nat
    /\ \A m, n \in DOMAIN Feature : Feature[m] = Feature[n] => m = n
    /\ None \notin Post /\ None \notin BOOLEAN /\ None \notin [ToSet(Feature) -> BOOLEAN]

VARIABLES
    toggle,               \* the rows of RoleFeatureToggle; most features have none
    lock,                 \* the post that has a feature's row locked, or is inserting it
    post,                 \* each post: its check boxes and how many rows it has written
    visit,                \* each request: is it a SuperAdmin's, and its cache
    answers,              \* history: what a request was told
    last, commits         \* history: the last form that was committed, and how many were

vars == <<toggle, lock, post, visit, answers, last, commits>>

Keys == ToSet(Feature)
NoPost == [form |-> None, done |-> 0]
NoVisit == [open |-> FALSE, super |-> FALSE, cache |-> [k \in {} |-> TRUE]]

TypeOK ==
    /\ toggle \in [Keys -> BOOLEAN \cup {None}] /\ lock \in [Keys -> Post \cup {None}]
    /\ \A p \in Post : post[p].done \in 0 .. Len(Feature) /\ (post[p].form # None => post[p].form \in [Keys -> BOOLEAN])
    /\ \A v \in Visit : DOMAIN visit[v].cache \subseteq Keys /\ answers[v] \subseteq Keys \X BOOLEAN

Init ==
    /\ toggle = [k \in Keys |-> None] /\ lock = [k \in Keys |-> None]
    /\ post = [p \in Post |-> NoPost] /\ visit = [v \in Visit |-> NoVisit]
    /\ answers = [v \in Visit |-> {}] /\ last = None /\ commits = 0

-------------------------------------------------------------------------------
(* FeatureVisibilityView.post                                              *)

Submit(p, form) ==
    /\ post[p] = NoPost /\ post' = [post EXCEPT ![p].form = form]
    /\ UNCHANGED <<toggle, lock, visit, answers, last, commits>>

\* Mutant: the features that are switched on are written first.
OnFirst(p, n) ==
    LET on(k) == post[p].form[k] IN (SelectSeq(Feature, on) \o SelectSeq(Feature, LAMBDA k : ~ on(k)))[n]

\* The registries are gone through in their order, whatever was checked.
Nth(p, n) == Feature[n]

\* Mutant: no transaction, every row is committed as it is written.
SaveAlone(p, k) == lock[k] = None /\ toggle' = [toggle EXCEPT ![k] = post[p].form[k]] /\ UNCHANGED lock

\* update_or_create locks the row, or waits for who inserts the same key.
SaveRow(p, k) == lock[k] = None /\ lock' = [lock EXCEPT ![k] = p] /\ UNCHANGED toggle

SaveNext(p) ==
    /\ post[p].form # None /\ post[p].done < Len(Feature)
    /\ SaveRow(p, Nth(p, post[p].done + 1))
    /\ post' = [post EXCEPT ![p].done = @ + 1]
    /\ UNCHANGED <<visit, answers, last, commits>>

Release(p) == lock' = [k \in Keys |-> IF lock[k] = p THEN None ELSE lock[k]]

Commit(p) ==
    /\ post[p].done = Len(Feature) /\ commits < MaxCommits
    /\ toggle' = [k \in Keys |-> IF lock[k] = p THEN post[p].form[k] ELSE toggle[k]]
    /\ Release(p) /\ post' = [post EXCEPT ![p] = NoPost]
    /\ last' = post[p].form /\ commits' = commits + 1
    /\ UNCHANGED <<visit, answers>>

\* The worker dies, and the database undoes what it had written.
Abort(p) ==
    /\ post[p].form # None /\ Release(p) /\ post' = [post EXCEPT ![p] = NoPost]
    /\ UNCHANGED <<toggle, visit, answers, last, commits>>

-------------------------------------------------------------------------------
(* role_has_feature                                                        *)

Arrive(v, super) ==
    /\ ~ visit[v].open /\ visit' = [visit EXCEPT ![v] = [NoVisit EXCEPT !.open = TRUE, !.super = super]]
    /\ answers' = [answers EXCEPT ![v] = {}]
    /\ UNCHANGED <<toggle, lock, post, last, commits>>

\* No row means visible.
Visible(k) == toggle[k] # FALSE

\* Mutant: every question is a query.
AnswerNow(v, k) == visit[v].super \/ Visible(k)

Answer(v, k) ==
    \/ visit[v].super
    \/ IF k \in DOMAIN visit[v].cache THEN visit[v].cache[k] ELSE Visible(k)

Ask(v, k) ==
    /\ visit[v].open
    /\ answers' = [answers EXCEPT ![v] = @ \cup {<<k, Answer(v, k)>>}]
    /\ visit' = IF visit[v].super THEN visit
                ELSE [visit EXCEPT ![v].cache = [j \in {k} \cup DOMAIN @ |-> IF j = k THEN Answer(v, k) ELSE @[j]]]
    /\ UNCHANGED <<toggle, lock, post, last, commits>>

Leave(v) ==
    /\ visit[v].open /\ visit' = [visit EXCEPT ![v] = NoVisit] /\ answers' = [answers EXCEPT ![v] = {}]
    /\ UNCHANGED <<toggle, lock, post, last, commits>>

Next ==
    \/ \E p \in Post : SaveNext(p) \/ Commit(p) \/ Abort(p) \/ \E form \in [Keys -> BOOLEAN] : Submit(p, form)
    \/ \E v \in Visit :
         \/ \E super \in BOOLEAN : Arrive(v, super)
         \/ \E k \in Keys : Ask(v, k)
         \/ Leave(v)

Spec == Init /\ [][Next]_vars

-------------------------------------------------------------------------------
(* Properties.                                                             *)

\* The switches are those of one form: of two posts at once the later one is in force as a
\* whole, and a post that dies half way has changed nothing.
OneFormInForce == toggle = IF last = None THEN [k \in Keys |-> None] ELSE last

\* Two posts never wait for each other.
WaitsFor(p, q) == post[p].form # None /\ post[p].done < Len(Feature) /\ lock[Nth(p, post[p].done + 1)] = q
NoEmbrace == \A p, q \in Post : ~ (WaitsFor(p, q) /\ WaitsFor(q, p))

\* A request is not told two things about one feature, so a page never offers what the same
\* request refuses; a SuperAdmin is refused nothing.
OneAnswer ==
    \A v \in Visit :
      /\ \A a, b \in answers[v] : a[1] = b[1] => a[2] = b[2]
      /\ visit[v].super => \A a \in answers[v] : a[2]
===============================================================================
