---------------------------- MODULE MCOrganization ----------------------------
(***************************************************************************)
(* The safety of what administrators manage and of what it means to users, *)
(* in one run, each part with its own state: a behaviour is one of the     *)
(* people of the organization, of what a department's Admins see and post, *)
(* of its files, of its branding, of which models may see a message, of    *)
(* the features a role may see, of the switches of the settings pages, or  *)
(* of the mail server's settings.                                          *)
(***************************************************************************)
EXTENDS OrganizationProofs, TLC

CONSTANTS u1, u2, u3, t1, t2, d1, d2, m1, p1, p2, b1, b2, c1, c2, c3, l1, v1

MCUser == {u1, u2, u3}
MCTeam == {t1, t2}
MCDept == {d1, d2}
MCDeptOf == t1 :> d1 @@ t2 :> d2
MCFile == {m1, p1, p2, b1, b2}
MCDirOf == m1 :> "message" @@ p1 :> "proof" @@ p2 :> "proof" @@ b1 :> "branding" @@ b2 :> "branding"
MCTier == <<"economy", "premium">>
MCPlans == {{2}}
MCFeature == <<"live", "search">>
MCWorking == {<<c2, p1>>}

VARIABLE part

mvars == <<ref, disk, job, scan, request, jobs, scans, deletes, lost, left>>
bvars == <<row, form, page, cache, saves, overlapped>>
avars == <<enabled, plan, permission, assigned, onTeam, teamOff, euOnly, zeroOnly, rule, fallback,
           acts, reply, since>>
fvars == <<toggle, lock, post, visit, answers, last, commits>>
svars == <<rowKind, stored, edit, named, aimed, deleted, written, crossed>>
evars == <<saved, test, proven, typed, astray, stale, tests>>
dvars == <<accounts, departments, planned, groups, limits, invoices, asked, log, sent, adminPost, moved, steps>>
\* The parts that are configuration.
config == <<fvars, svars, evars>>

Nobody == [role |-> "user", dept |-> None]

\* u1 is the Admin of a department whose one team is without a manager, u2 a user.
MCInit ==
    /\ part \in {"people", "scope", "files", "branding", "access", "features", "settings", "server"}
    /\ Init /\ users[u1] # New /\ users[u1].role = "admin" /\ users[u2] # New /\ manager[t1] = None
    /\ Files!Init /\ Brands!Init /\ Access!Init
    /\ Features!Init /\ Settings!Init /\ Server!Init /\ Scope!Init
    /\ part # "scope" => planned = {} /\ \A a \in Account : accounts[a] = Nobody
    /\ part # "settings" => rowKind = "settings"
    /\ part # "branding" => row.config = None
    /\ part # "access" => plan = None /\ rule = None /\ ~onTeam /\ ~euOnly
    /\ rule \in {None, 2}

MCPeople(A)   == part = "people" /\ A /\ UNCHANGED <<part, dvars, mvars, bvars, avars, config>>
MCScope(A)    == part = "scope" /\ A /\ UNCHANGED <<part, vars, mvars, bvars, avars, config>>
MCFiles(A)    == part = "files" /\ A /\ UNCHANGED <<part, vars, dvars, bvars, avars, config>>
MCBranding(A) == part = "branding" /\ A /\ UNCHANGED <<part, vars, dvars, mvars, avars, config>>
MCAccess(A)   == part = "access" /\ A /\ UNCHANGED <<part, vars, dvars, mvars, bvars, config>>

MCFeatures(A) == part = "features" /\ A /\ UNCHANGED <<part, vars, dvars, mvars, bvars, avars, svars, evars>>
MCSettings(A) == part = "settings" /\ A /\ UNCHANGED <<part, vars, dvars, mvars, bvars, avars, fvars, evars>>
MCServer(A)   == part = "server" /\ A /\ UNCHANGED <<part, vars, dvars, mvars, bvars, avars, fvars, svars>>

MCNext ==
    \/ MCPeople(Next) \/ MCScope(Scope!Next) \/ MCFiles(Files!Next) \/ MCBranding(Brands!Next)
    \/ MCAccess(Access!Next)
    \/ MCFeatures(Features!Next) \/ MCSettings(Settings!Next) \/ MCServer(Server!Next)

MCSpec == MCInit /\ [][MCNext]_<<part, vars, dvars, mvars, bvars, avars, config>>

\* The files and the models alone, for the runs of what is said of them.
FilesSpec  == MCSpec /\ part = "files"
AccessSpec == MCSpec /\ part = "access"

\* "Fresh, exact check against every place a file can be referenced from": the custom logo of
\* the branding row is not deleted from under it.
CustomLogosKept == part = "files" => Files!CustomLogosKept

\* "a hard ceiling on which providers this department's requests can ever reach".
NeverOutsideEU == part = "access" => Access!NeverOutsideEU
===============================================================================
