----------------------------- MODULE SmtpSettings -----------------------------
(***************************************************************************)
(* The mail server the portal sends through (EmailSettings of              *)
(* notifications/models.py): forms that save it whole, tests that try what *)
(* is typed in a form and write their verdict on the saved row             *)
(* (governance/views.py), and the mails sent meanwhile                     *)
(* (notifications/emailing.py).                                            *)
(***************************************************************************)
EXTENDS Integers, FiniteSets

CONSTANTS
    Config,               \* host, port, encryption, user name and sender, as one value
    Password,
    Working,              \* the pairs of them the server accepts when it is up
    Request,
    MaxActs,              \* bound: the saves and the tests
    None

SmtpConstants == Working \subseteq Config \X Password /\ MaxActs \in Nat

VARIABLES
    saved,                \* the row: configuration, password, status
    req,                  \* each request: what was typed, and the row it loaded
    proven,               \* history: the pairs that have passed a test
    typed,                \* history: the last password typed in a form that was saved
    astray, stale,        \* history: the status is a verdict on something else; a save undid another write
    acts

vars == <<saved, req, proven, typed, astray, stale, acts>>

Status == {"unverified", "connected", "failed", "stale"}
Saved == [config : Config \cup {None}, password : Password \cup {None}, status : Status]
Idle == [pc |-> "idle", config |-> None, password |-> None, row |-> None]

TypeOK ==
    /\ saved \in Saved /\ typed \in Password \cup {None} /\ proven \subseteq Working /\ acts \in 0 .. MaxActs
    /\ \A r \in Request :
         /\ req[r].pc \in {"idle", "save", "connect", "accepted", "refused"}
         /\ req[r].pc # "idle" => req[r].row \in Saved

Init ==
    /\ saved = [config |-> None, password |-> None, status |-> "unverified"]
    /\ req = [r \in Request |-> Idle] /\ proven = {} /\ typed = None
    /\ astray = FALSE /\ stale = FALSE /\ acts = 0

-------------------------------------------------------------------------------
Load(r, pc, config, password) ==
    /\ req[r] = Idle /\ acts < MaxActs /\ acts' = acts + 1
    /\ req' = [req EXCEPT ![r] = [pc |-> pc, config |-> config, password |-> password, row |-> saved]]
    /\ UNCHANGED <<saved, proven, typed, astray, stale>>

\* update_email_settings: a blank password leaves the saved one alone.
OpenSave(r, config, password) == Load(r, "save", config, password)

\* Mutant: only what is shown in the form is compared.
ConfigOnly(q) == q.row.config # q.config

\* config_changed; whatever is typed as a password counts as a change.
Changed(q) == q.row.config # q.config \/ q.password # None

\* Mutant: the status says what it said.
SameStatus(q) == q.row.status

StatusAfter(q) ==
    IF ~ Changed(q) THEN q.row.status
    ELSE IF q.row.status \in {"connected", "failed"} THEN "stale" ELSE "unverified"

\* Mutant: a blank password is saved as one.
Typed(q) == q.password

PasswordAfter(q) == IF q.password = None THEN q.row.password ELSE q.password

\* settings_row.save(): every column, as loaded or as typed.
Save(r) ==
    LET q == req[r] IN
    /\ q.pc = "save"
    /\ saved' = [config |-> q.config, password |-> PasswordAfter(q), status |-> StatusAfter(q)]
    /\ typed' = IF q.password = None THEN typed ELSE q.password
    /\ stale' = (stale \/ q.row # saved) /\ astray' = (astray \/ q.row # saved)
    /\ req' = [req EXCEPT ![r] = Idle] /\ UNCHANGED <<proven, acts>>

\* send_test_email: what is typed is tried, with the saved password if none is.
OpenTest(r, config, password) ==
    Load(r, "connect", config, IF password = None THEN saved.password ELSE password)

Connect(r) ==
    LET pair == <<req[r].config, req[r].password>> IN
    /\ req[r].pc = "connect"
    /\ \/ pair \in Working /\ req' = [req EXCEPT ![r].pc = "accepted"] /\ proven' = proven \cup {pair}
       \/ req' = [req EXCEPT ![r].pc = "refused"] /\ UNCHANGED proven
    /\ UNCHANGED <<saved, typed, astray, stale, acts>>

\* The verdict alone is saved.
Mark(r) ==
    LET q == req[r] IN
    /\ q.pc \in {"accepted", "refused"}
    /\ saved' = [saved EXCEPT !.status = IF q.pc = "accepted" THEN "connected" ELSE "failed"]
    /\ astray' = (q.pc = "accepted" /\ <<q.config, q.password>> # <<saved.config, saved.password>>)
    /\ req' = [req EXCEPT ![r] = Idle] /\ UNCHANGED <<proven, typed, stale, acts>>

\* The worker dies.
Abandon(r) ==
    /\ req[r] # Idle /\ req' = [req EXCEPT ![r] = Idle]
    /\ UNCHANGED <<saved, proven, typed, astray, stale, acts>>

Next ==
    \E r \in Request :
      \/ \E c \in Config, p \in Password \cup {None} : OpenSave(r, c, p) \/ OpenTest(r, c, p)
      \/ Save(r) \/ Connect(r) \/ Mark(r) \/ Abandon(r)

Spec == Init /\ [][Next]_vars

-------------------------------------------------------------------------------
(* Properties.                                                             *)

\* "Verified working" is said of what has been tried, unless the test was of something that is
\* not saved, or a save crossed another request.
VerifiedWasTried == saved.status = "connected" /\ ~ astray => <<saved.config, saved.password>> \in proven

\* "an unedited submit can't accidentally overwrite it with nothing": the last password typed
\* is the one in use, unless a save crossed another.
PasswordKept == ~ stale => saved.password = typed
===============================================================================
