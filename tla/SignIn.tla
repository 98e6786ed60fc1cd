-------------------------------- MODULE SignIn --------------------------------
(***************************************************************************)
(* The sessions of one account (accounts/single_session.py, middleware.py, *)
(* views.py): every sign-in makes its browser the only current one, a      *)
(* request is checked against the user row it has loaded, and views and    *)
(* password resets write that row back.  Statements on the database are    *)
(* atomic; the requests of different browsers interleave between them.  A  *)
(* browser has one request at a time.                                      *)
(***************************************************************************)
EXTENDS Integers, FiniteSets

CONSTANTS
    Browser,              \* the browsers of the account's owner
    Timeout,              \* SESSION_TIMEOUT_MINUTES
    MaxTokens,            \* bound: how many session tokens are made in a run
    MaxResets,            \* bound: how often the password changes
    Ops                   \* bound: the views that are used in a run

AllOps == {"profile", "password", "everywhere", "google", "reset"}

SignInConstants ==
    Timeout \in Nat /\ MaxTokens \in Nat /\ MaxResets \in Nat /\ Ops \subseteq AllOps

VARIABLES
    row,                  \* User: active_session_token, the password, last_login
    session,              \* each browser's session
    req,                  \* where each browser's request is, the row it loaded, and signIns then
    issued,               \* the tokens made so far are 1 .. issued
    links,                \* the password reset links that were mailed
    used,                 \* history: the links a password was reset with
    signIns,              \* history: sign-ins and sign-outs everywhere so far
    lost                  \* history: a save has written back a token or a password that was older

vars == <<row, session, req, issued, links, used, signIns, lost>>

None == 0                 \* active_session_token = ""; no token in a session

Row == [token : 0 .. MaxTokens, pw : 0 .. MaxResets, lastLogin : Nat]
Link == [pw : 0 .. MaxResets, lastLogin : Nat]

\* auth is the session auth hash, idle the time since last_activity, since the
\* value of signIns when the session began.
Session == [in : BOOLEAN, mine : 0 .. MaxTokens, auth : 0 .. MaxResets, idle : 0 .. Timeout + 1, since : Nat]
SignedOut == [in |-> FALSE, mine |-> None, auth |-> 0, idle |-> 0, since |-> 0]
Legacy == [SignedOut EXCEPT !.in = TRUE]

Fresh == [token |-> None, pw |-> 0, lastLogin |-> 0]
Idle == [pc |-> "idle", seen |-> Fresh, at |-> 0, link |-> [pw |-> 0, lastLogin |-> 0]]

TypeOK ==
    /\ row \in Row /\ session \in [Browser -> Session]
    /\ req \in [Browser -> [pc : {"idle", "check", "view", "link", "login"}, seen : Row, at : Nat, link : Link]]
    /\ \A b \in Browser : req[b].pc \in {"check", "view"} => session[b].in
    /\ issued \in 0 .. MaxTokens
    /\ links \in SUBSET Link /\ used \in SUBSET Link
    /\ signIns \in Nat /\ lost \in BOOLEAN

\* Some browsers were signed in before there were tokens.
Init ==
    /\ row = Fresh
    /\ session \in [Browser -> {SignedOut, Legacy}]
    /\ req = [b \in Browser |-> Idle]
    /\ issued = 0 /\ links = {} /\ used = {} /\ signIns = 0 /\ lost = FALSE

-------------------------------------------------------------------------------
NewToken == issued + 1
CanIssue == issued < MaxTokens

\* A save without update_fields writes every column as it was loaded.
Save(seen, new) ==
    /\ row' = new
    /\ lost' = (lost \/ seen.token # row.token \/ seen.pw # row.pw)

\* login(): the session, the signal that stores the token, last_login.
StartSession(b) ==
    /\ CanIssue
    /\ issued' = NewToken
    /\ row' = [row EXCEPT !.token = NewToken, !.lastLogin = @ + 1]
    /\ signIns' = signIns + 1
    /\ session' = [session EXCEPT ![b] =
         [in |-> TRUE, mine |-> NewToken, auth |-> row.pw, idle |-> 0, since |-> signIns + 1]]

\* The last step of every way to sign in: password, code, Google, sign-up.
LogIn(b) ==
    /\ req[b].pc = "idle" /\ ~session[b].in
    /\ StartSession(b)
    /\ UNCHANGED <<req, links, used, lost>>

\* google_signin finds the account by the Google id or the address ...
FindFromGoogle(b) ==
    /\ "google" \in Ops
    /\ req[b].pc = "idle" /\ ~session[b].in
    /\ req' = [req EXCEPT ![b] = [Idle EXCEPT !.pc = "login", !.seen = row]]
    /\ UNCHANGED <<row, session, issued, links, used, signIns, lost>>

\* ... saves the whole row with the fresh Google fields, and signs in.
LogInFromGoogle(b) ==
    /\ req[b].pc = "login"
    /\ CanIssue
    /\ Save(req[b].seen, [req[b].seen EXCEPT !.token = NewToken, !.lastLogin = @ + 1])
    /\ issued' = NewToken /\ signIns' = signIns + 1
    /\ session' = [session EXCEPT ![b] =
         [in |-> TRUE, mine |-> NewToken, auth |-> req[b].seen.pw, idle |-> 0, since |-> signIns + 1]]
    /\ req' = [req EXCEPT ![b] = Idle]
    /\ UNCHANGED <<links, used>>

-------------------------------------------------------------------------------
\* AuthenticationMiddleware loads the row; a session of an older password or one
\* that was idle for too long is flushed.
LoadUser(b) ==
    /\ session[b].in /\ req[b].pc = "idle"
    /\ IF session[b].auth # row.pw \/ session[b].idle > Timeout
         THEN session' = [session EXCEPT ![b] = SignedOut] /\ UNCHANGED req
         ELSE /\ session' = [session EXCEPT ![b].idle = 0]
              /\ req' = [req EXCEPT ![b] = [Idle EXCEPT !.pc = "check", !.seen = row, !.at = signIns]]
    /\ UNCHANGED <<row, issued, links, used, signIns, lost>>

ServeOrSupersede(b, current) ==
    IF session[b].mine # None /\ session[b].mine = current
      THEN req' = [req EXCEPT ![b].pc = "view"] /\ UNCHANGED session
      ELSE req' = [req EXCEPT ![b] = Idle] /\ session' = [session EXCEPT ![b] = SignedOut]

\* Mutant: the UPDATE does not say WHERE active_session_token = "".
AdoptAlways(b) ==
    /\ row' = [row EXCEPT !.token = NewToken]
    /\ issued' = NewToken
    /\ session' = [session EXCEPT ![b].mine = NewToken, ![b].since = signIns]
    /\ req' = [req EXCEPT ![b].pc = "view", ![b].seen.token = NewToken]

\* The account's first token is adopted, unless another session came first.
Adopt(b) ==
    IF row.token = None
      THEN /\ row' = [row EXCEPT !.token = NewToken]
           /\ issued' = NewToken
           /\ session' = [session EXCEPT ![b].mine = NewToken, ![b].since = signIns]
           /\ req' = [req EXCEPT ![b].pc = "view", ![b].seen.token = NewToken]
      ELSE ServeOrSupersede(b, row.token) /\ UNCHANGED <<row, issued>>

\* Mutant: a session without a token passes.
CheckSessionLenient(b) ==
    /\ req[b].pc = "check"
    /\ IF req[b].seen.token = None \/ session[b].mine = None
         THEN req' = [req EXCEPT ![b].pc = "view"] /\ UNCHANGED <<row, issued, session>>
         ELSE ServeOrSupersede(b, req[b].seen.token) /\ UNCHANGED <<row, issued>>
    /\ UNCHANGED <<links, used, signIns, lost>>

\* SingleSessionMiddleware
CheckSession(b) ==
    /\ req[b].pc = "check"
    /\ IF req[b].seen.token = None
         THEN CanIssue /\ Adopt(b)
         ELSE ServeOrSupersede(b, req[b].seen.token) /\ UNCHANGED <<row, issued>>
    /\ UNCHANGED <<links, used, signIns, lost>>

-------------------------------------------------------------------------------
Viewing(b) == req[b].pc = "view" /\ req' = [req EXCEPT ![b] = Idle]

\* Any page, and the preferences that save their own column.
ViewPage(b) == Viewing(b) /\ UNCHANGED <<row, session, issued, links, used, signIns, lost>>

\* Mutant: the view goes on after logout().
LogOutGoesOn(b) ==
    /\ req[b].pc = "view"
    /\ session' = [session EXCEPT ![b] = SignedOut]
    /\ UNCHANGED <<row, req, issued, links, used, signIns, lost>>

LogOut(b) ==
    /\ Viewing(b)
    /\ session' = [session EXCEPT ![b] = SignedOut]
    /\ UNCHANGED <<row, issued, links, used, signIns, lost>>

\* ProfileForm.save()
SaveProfile(b) ==
    /\ "profile" \in Ops
    /\ Viewing(b)
    /\ Save(req[b].seen, req[b].seen)
    /\ UNCHANGED <<session, issued, links, used, signIns>>

NewPassword == row.pw + 1
CanChange == row.pw < MaxResets

\* The own session is kept (update_session_auth_hash).
ChangePassword(b) ==
    /\ "password" \in Ops /\ CanChange
    /\ Viewing(b)
    /\ Save(req[b].seen, [req[b].seen EXCEPT !.pw = NewPassword])
    /\ session' = [session EXCEPT ![b].auth = NewPassword]
    /\ UNCHANGED <<issued, links, used, signIns>>

\* sign_out_all_sessions
SignOutEverywhere(b) ==
    /\ "everywhere" \in Ops /\ CanIssue
    /\ Viewing(b)
    /\ row' = [row EXCEPT !.token = NewToken]
    /\ issued' = NewToken
    /\ session' = [session EXCEPT ![b] = SignedOut]
    /\ signIns' = signIns + 1
    /\ UNCHANGED <<links, used, lost>>

-------------------------------------------------------------------------------
\* password_reset_request: the link's token is a hash over these columns.
MailLink ==
    /\ "reset" \in Ops
    /\ links' = links \cup {[pw |-> row.pw, lastLogin |-> row.lastLogin]}
    /\ UNCHANGED <<row, session, req, issued, used, signIns, lost>>

\* Mutant: a new password does not end a link.
LinkOutlivesReset(l) == l.lastLogin = row.lastLogin

\* default_token_generator.check_token
LinkValid(l) == l.pw = row.pw /\ l.lastLogin = row.lastLogin

\* password_reset_confirm, by a browser that is not signed in ...
OpenLink(b, l) ==
    /\ req[b].pc = "idle" /\ ~session[b].in
    /\ l \in links /\ LinkValid(l)
    /\ req' = [req EXCEPT ![b] = [Idle EXCEPT !.pc = "link", !.seen = row, !.link = l]]
    /\ UNCHANGED <<row, session, issued, links, used, signIns, lost>>

\* ... PortalSetPasswordForm.save() writes the whole row.
ResetPassword(b) ==
    /\ req[b].pc = "link" /\ CanChange
    /\ Save(req[b].seen, [req[b].seen EXCEPT !.pw = NewPassword])
    /\ used' = used \cup {req[b].link}
    /\ req' = [req EXCEPT ![b] = Idle]
    /\ UNCHANGED <<session, issued, links, signIns>>

Tick(b) ==
    /\ session[b].in /\ req[b].pc = "idle" /\ session[b].idle <= Timeout
    /\ session' = [session EXCEPT ![b].idle = @ + 1]
    /\ UNCHANGED <<row, req, issued, links, used, signIns, lost>>

Next ==
    \/ \E b \in Browser :
         \/ LogIn(b) \/ FindFromGoogle(b) \/ LogInFromGoogle(b)
         \/ LoadUser(b) \/ CheckSession(b)
         \/ ViewPage(b) \/ LogOut(b) \/ SaveProfile(b) \/ ChangePassword(b) \/ SignOutEverywhere(b)
         \/ ResetPassword(b) \/ \E l \in links : OpenLink(b, l)
         \/ Tick(b)
    \/ MailLink

Spec == Init /\ [][Next]_vars
-------------------------------------------------------------------------------
\* "Signing in on a second browser or device signs the first one out": when a page
\* is served, nobody has signed in elsewhere, or out everywhere, between the
\* sign-in of this browser and the moment its request loaded the user, unless a
\* save has written an older row back.
OnlyNewestServed == \A b \in Browser :
    req[b].pc = "view" /\ ~lost => session[b].since = req[b].at

\* Every column keeps its type, and only the newest session is served.
SessionsSafe == TypeOK /\ OnlyNewestServed

\* "a race between two such sessions is settled by a conditional UPDATE, so exactly
\* one wins": a browser that has a token is signed out as superseded only when
\* somebody signed in, or signed out everywhere, after it.
SupersededByNewer ==
    [][\A b \in Browser :
         CheckSession(b) /\ session[b].mine # None /\ ~session'[b].in /\ ~lost =>
            signIns > session[b].since]_vars

\* A reset link is good for one new password: it is not accepted again, whatever
\* happened since, unless the old password was written back.
LinkGoodOnce == [][\A b \in Browser, l \in used : OpenLink(b, l) => lost]_vars

\* A session ends for a newer one, and a reset link changes the password once.
SessionsStep == SupersededByNewer /\ LinkGoodOnce
================================================================================
