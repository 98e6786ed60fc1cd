----------------------------- MODULE TrustedDevice -----------------------------
(***************************************************************************)
(* The second step of a sign-in (accounts/mfa.py, trusted_device.py and    *)
(* the views that use them): a code that is mailed, may be mistyped and    *)
(* may be asked for again, all of it kept in the browser's session, and    *)
(* the one browser of an account that is trusted to skip the step.  The    *)
(* registration of a device is two statements, and the sign-ins of several *)
(* browsers interleave between them.                                       *)
(***************************************************************************)
EXTENDS Integers, FiniteSets

CONSTANTS
    Browser,              \* the browsers that know the account's password
    MaxAttempts,          \* MAX_MFA_ATTEMPTS
    MaxResends,           \* MAX_MFA_RESENDS
    Expiry,               \* OTP_EXPIRY_MINUTES
    TrustTime,            \* TRUSTED_DEVICE_DAYS
    MaxTime,              \* bound: the last moment of the run
    MaxPasses             \* bound: how many codes are entered rightly in a run

TrustedDeviceConstants ==
    /\ MaxAttempts \in Nat /\ MaxResends \in Nat /\ Expiry \in Nat /\ TrustTime \in Nat
    /\ MaxTime \in Nat /\ MaxPasses \in Nat

VARIABLES
    required,             \* user_requires_mfa
    challenge,            \* the mfa_* keys of each browser's session
    devices,              \* the rows of TrustedDevice, in the order of their creation
    cookie,               \* the device whose token each browser carries, 0 for none
    registering,          \* where each browser's registration is
    now,                  \* the time
    revokes,              \* history: revoke_all calls so far
    guesses               \* history: wrong codes since the browser last gave its password

vars == <<required, challenge, devices, cookie, registering, now, revokes, guesses>>

NoChallenge == [on |-> FALSE, sent |-> 0, attempts |-> 0, resends |-> 0]
Challenge == [on : BOOLEAN, sent : 0 .. MaxTime, attempts : 0 .. MaxAttempts, resends : 0 .. MaxResends]

\* since is the value of revokes when the browser's code was accepted.
Registration == [pc : {"no", "revoke", "create"}, since : Nat]
NotRegistering == [pc |-> "no", since |-> 0]

Device == [expires : 0 .. MaxTime + TrustTime, revoked : BOOLEAN, by : Browser, made : 0 .. MaxTime,
           upTo : Nat, overtaken : BOOLEAN]

TypeOK ==
    /\ required \in BOOLEAN
    /\ challenge \in [Browser -> Challenge]
    /\ DOMAIN devices = 1 .. Cardinality(DOMAIN devices)
    /\ \A d \in DOMAIN devices : devices[d] \in Device
    /\ cookie \in [Browser -> {0} \cup DOMAIN devices]
    /\ registering \in [Browser -> Registration]
    /\ now \in 0 .. MaxTime /\ revokes \in Nat
    /\ guesses \in [Browser -> Nat]

Init ==
    /\ required \in BOOLEAN
    /\ challenge = [b \in Browser |-> NoChallenge]
    /\ devices = <<>> /\ cookie = [b \in Browser |-> 0]
    /\ registering = [b \in Browser |-> NotRegistering]
    /\ now = 0 /\ revokes = 0
    /\ guesses = [b \in Browser |-> 0]

-------------------------------------------------------------------------------
\* Mutant: nobody asks whether the device was revoked.
TrustedOnceMade(b) == cookie[b] # 0 /\ devices[cookie[b]].expires > now

\* is_trusted
Trusted(b) ==
    /\ cookie[b] # 0
    /\ ~devices[cookie[b]].revoked /\ devices[cookie[b]].expires > now

\* The password was right, or Google vouched: signed in at once, or a challenge.
EnterPassword(b) ==
    /\ registering[b].pc = "no"
    /\ IF ~required \/ Trusted(b)
         THEN UNCHANGED <<challenge, guesses>>
         ELSE /\ challenge' = [challenge EXCEPT ![b] = [NoChallenge EXCEPT !.on = TRUE, !.sent = now]]
              /\ guesses' = [guesses EXCEPT ![b] = 0]
    /\ UNCHANGED <<required, devices, cookie, registering, now, revokes>>

GiveUp(b) == challenge' = [challenge EXCEPT ![b] = NoChallenge]

Expired(b) == now > challenge[b].sent + Expiry

\* Mutant: one attempt too many.
ExhaustedLate(b) == challenge[b].attempts > MaxAttempts

Exhausted(b) == challenge[b].attempts >= MaxAttempts

\* MFAVerifyView.post on an expired or exhausted challenge, and resend_mfa_code
\* once too often: back to the password.
BackToPassword(b) ==
    /\ challenge[b].on
    /\ Expired(b) \/ Exhausted(b) \/ challenge[b].resends >= MaxResends
    /\ GiveUp(b)
    /\ UNCHANGED <<required, devices, cookie, registering, now, revokes, guesses>>

EnterWrongCode(b) ==
    /\ challenge[b].on /\ ~Expired(b) /\ ~Exhausted(b)
    /\ challenge' = [challenge EXCEPT ![b].attempts = @ + 1]
    /\ guesses' = [guesses EXCEPT ![b] = @ + 1]
    /\ UNCHANGED <<required, devices, cookie, registering, now, revokes>>

\* login(), then the registration begins.
EnterRightCode(b) ==
    /\ challenge[b].on /\ ~Expired(b) /\ ~Exhausted(b)
    /\ Cardinality(DOMAIN devices) < MaxPasses
    /\ GiveUp(b)
    /\ registering' = [registering EXCEPT ![b] = [pc |-> "revoke", since |-> revokes]]
    /\ UNCHANGED <<required, devices, cookie, now, revokes, guesses>>

\* Mutant: every challenge starts anew.
ResendAnew(b) ==
    /\ challenge[b].on /\ challenge[b].resends < MaxResends
    /\ challenge' = [challenge EXCEPT ![b] = [NoChallenge EXCEPT !.on = TRUE, !.sent = now]]
    /\ UNCHANGED <<required, devices, cookie, registering, now, revokes, guesses>>

\* resend_mfa_code: a new code with its own attempts; only the resends go on.
Resend(b) ==
    /\ challenge[b].on /\ challenge[b].resends < MaxResends
    /\ challenge' = [challenge EXCEPT ![b].sent = now, ![b].attempts = 0, ![b].resends = @ + 1]
    /\ UNCHANGED <<required, devices, cookie, registering, now, revokes, guesses>>

-------------------------------------------------------------------------------
\* revoke_all
RevokeAll ==
    /\ devices' = [d \in DOMAIN devices |-> [devices[d] EXCEPT !.revoked = TRUE]]
    /\ revokes' = revokes + 1

\* Mutant: a device is created without revoking the others first.
RegisterBeside(b) ==
    /\ registering[b].pc = "revoke"
    /\ registering' = [registering EXCEPT ![b].pc = "create"]
    /\ UNCHANGED <<required, challenge, devices, cookie, now, revokes, guesses>>

RevokeOthers(b) ==
    /\ registering[b].pc = "revoke"
    /\ RevokeAll
    /\ registering' = [registering EXCEPT ![b].pc = "create"]
    /\ UNCHANGED <<required, challenge, cookie, now, guesses>>

\* overtaken: others have revoked all devices since the code was accepted.
CreateDevice(b) ==
    LET n == Cardinality(DOMAIN devices) + 1
        d == [expires |-> now + TrustTime, revoked |-> FALSE, by |-> b, made |-> now,
              upTo |-> revokes, overtaken |-> revokes # registering[b].since + 1]
    IN  /\ registering[b].pc = "create"
        /\ devices' = [i \in 1 .. n |-> IF i = n THEN d ELSE devices[i]]
        /\ cookie' = [cookie EXCEPT ![b] = n]
        /\ registering' = [registering EXCEPT ![b] = NotRegistering]
        /\ UNCHANGED <<required, challenge, now, revokes, guesses>>

\* sign_out_all_sessions
SignOutEverywhere(b) ==
    /\ RevokeAll
    /\ cookie' = [cookie EXCEPT ![b] = 0]
    /\ UNCHANGED <<required, challenge, registering, now, guesses>>

\* The user's own toggle, or the SuperAdmin's for all admins.
ToggleRequired ==
    /\ required' = ~required
    /\ UNCHANGED <<challenge, devices, cookie, registering, now, revokes, guesses>>

Tick ==
    /\ now < MaxTime
    /\ now' = now + 1
    /\ UNCHANGED <<required, challenge, devices, cookie, registering, revokes, guesses>>

Next ==
    \/ \E b \in Browser :
         \/ EnterPassword(b) \/ EnterWrongCode(b) \/ EnterRightCode(b) \/ Resend(b) \/ BackToPassword(b)
         \/ RevokeOthers(b) \/ CreateDevice(b)
         \/ revokes < MaxPasses + 1 /\ SignOutEverywhere(b)
    \/ ToggleRequired \/ Tick

Spec == Init /\ [][Next]_vars
-------------------------------------------------------------------------------
\* MAX_MFA_RESENDS "caps the resend+retry cycle": however resends, expiries and
\* wrong codes are mixed, a password buys so many guesses and no more.
GuessesBounded == \A b \in Browser : guesses[b] <= MaxAttempts * (1 + MaxResends)

\* "A user has at most one non-revoked row": of two, one was created by a
\* registration that another one or a sign-out overtook.
OneDevice == \A d, e \in DOMAIN devices :
    ~devices[d].revoked /\ ~devices[e].revoked /\ d # e => devices[d].overtaken \/ devices[e].overtaken

\* "the next sign-in anywhere needs MFA again": a browser is trusted only if it
\* entered a code itself less than TrustTime ago, and no other browser did since, nor
\* anybody signed out everywhere, but for what overtook its registration.
SkipIsEarned == \A b \in Browser :
    Trusted(b) =>
        LET d == devices[cookie[b]] IN
        /\ d.by = b /\ now - d.made < TrustTime
        /\ d.overtaken \/ revokes = d.upTo
===============================================================================
