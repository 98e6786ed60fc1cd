------------------------------ MODULE AccessRules ------------------------------
(***************************************************************************)
(* Which models may see a user's message.  The plan, the manager's team    *)
(* list, personal permissions, the department's region, the zero-retention *)
(* switch and each model's own switch are rows that administrators change  *)
(* at any time; a reply reads them one after the other, several times over *)
(* (manual choice, routing rule, one tier after the other, budget          *)
(* fallback), and asks the models it has picked much later.                *)
(***************************************************************************)
EXTENDS Naturals, Sequences, FiniteSets, Functions

CONSTANTS
    Model,       \* ProviderModel rows, by their place in the price list
    Tier,        \* ProviderModel.tier
    EU,          \* the models whose provider is in the EU
    Trains,      \* those whose provider trains on what it is sent
    Claude,      \* those of the Anthropic adapter
    Pool,        \* those a manager may assign to a member
    Plans,       \* the plans, as the sets of models they allow
    None,
    MaxActs      \* bound: the changes of the administrators

AccessConstants ==
    /\ Model \subseteq Nat /\ IsFiniteSet(Model) /\ None \notin Model /\ None \notin BOOLEAN /\ \A s \in SUBSET Model : s # None
    /\ EU \cup Trains \cup Claude \cup Pool \subseteq Model /\ Plans \subseteq SUBSET Model
    /\ Tier \in [Model -> {"economy", "default", "premium"}] /\ MaxActs \in Nat

VARIABLES
    enabled,     \* ProviderModel.is_enabled
    plan,        \* the user's plan, None when there is none
    permission,  \* UserModelPermission.is_allowed of the legacy row of each model
    assigned,    \* the rows a manager has added
    onTeam, teamOff,     \* User.team, Team.disabled_models
    euOnly, zeroOnly,    \* Department.region_restriction, only_zero_retention_models
    rule, fallback,      \* the active routing rule's model; the plan's fallback, once over budget
    acts,
    reply,       \* the reply being generated
    since        \* history: for each filter, what has passed it since the reply began

rules == <<enabled, plan, permission, assigned, onTeam, teamOff, euOnly, zeroOnly, rule, fallback>>
vars == <<rules, acts, reply, since>>

\* The tiers in the order they are read, by the one that comes first.
Orders == {<<"economy", "default", "premium">>, <<"default", "economy", "premium">>, <<"premium", "economy", "default">>}

NoReply == [pc |-> "idle", want |-> None, research |-> FALSE, team |-> FALSE, eu |-> None, left |-> <<>>,
            target |-> None, passed |-> None, candidates |-> <<>>, told |-> {}, classifier |-> None]

-----------------------------------------------------------------------------
\* plans.py and router.py

With(p) == {m \in Model : permission[m] = p}

\* effective_allowed_provider_model_ids: without a plan not even a denial counts.
Allowed(team) ==
    IF plan = None THEN Model
    ELSE ((plan \ (IF team THEN teamOff ELSE {})) \cup With("allow") \cup assigned) \ With("deny")

\* region_allowed_provider_model_ids
Region(eu) == IF eu THEN EU ELSE Model

\* _apply_zero_retention_filter
Zero == IF zeroOnly THEN Model \ Trains ELSE Model

Filters == [zero |-> Zero, allowed |-> Allowed(reply.team), region |-> Region(euOnly), enabled |-> enabled]

\* The models of S in one sequence, the cheapest first.
ByPrice(S) == {s \in [1 .. Cardinality(S) -> S] : \A i, j \in DOMAIN s : i < j => s[i] < s[j]}

InTier(S, t) == {m \in S : Tier[m] = t}

Init ==
    /\ enabled = Model
    /\ plan \in Plans \cup {None}
    /\ permission = [m \in Model |-> "none"]
    /\ assigned = {}
    /\ onTeam \in BOOLEAN /\ teamOff = {}
    /\ euOnly \in BOOLEAN /\ zeroOnly = FALSE
    /\ rule \in Model \cup {None} /\ fallback = None
    /\ acts = 0
    /\ reply = NoReply
    /\ since = Filters

\* What every step does to the history.
Note == since' = IF reply.pc = "idle" \/ reply'.pc = "idle" THEN Filters'
                 ELSE [f \in DOMAIN since |-> since[f] \cup Filters'[f]]

-----------------------------------------------------------------------------
\* What administrators and the manager change while replies are generated

Act == acts < MaxActs /\ acts' = acts + 1 /\ UNCHANGED reply

Flip(S, m) == IF m \in S THEN S \ {m} ELSE S \cup {m}

ToggleProviderModel(m) == Act /\ enabled' = Flip(enabled, m)
    /\ UNCHANGED <<plan, permission, assigned, onTeam, teamOff, euOnly, zeroOnly, rule, fallback>>

ChangePlan(p) == Act /\ plan' = p
    /\ UNCHANGED <<enabled, permission, assigned, onTeam, teamOff, euOnly, zeroOnly, rule, fallback>>

\* The first click denies, every further one turns the row round: taking a denial
\* back leaves an explicit grant.
TogglePermission(m) == Act
    /\ permission' = [permission EXCEPT ![m] = IF @ = "deny" THEN "allow" ELSE "deny"]
    /\ UNCHANGED <<enabled, plan, assigned, onTeam, teamOff, euOnly, zeroOnly, rule, fallback>>

\* The manager of the user's team, from the pool of models that may be assigned.
ToggleAssigned(m) == Act /\ onTeam /\ m \in Pool \cap enabled /\ assigned' = Flip(assigned, m)
    /\ UNCHANGED <<enabled, plan, permission, onTeam, teamOff, euOnly, zeroOnly, rule, fallback>>

ToggleTeamModel(m) == Act /\ teamOff' = Flip(teamOff, m)
    /\ UNCHANGED <<enabled, plan, permission, assigned, onTeam, euOnly, zeroOnly, rule, fallback>>

RemoveMember == Act /\ onTeam /\ onTeam' = FALSE
    /\ UNCHANGED <<enabled, plan, permission, assigned, teamOff, euOnly, zeroOnly, rule, fallback>>

ClearOverrides == Act /\ permission' = [m \in Model |-> "none"] /\ assigned' = {}
    /\ UNCHANGED <<enabled, plan, onTeam, teamOff, euOnly, zeroOnly, rule, fallback>>

SetRegion == Act /\ euOnly' = ~euOnly
    /\ UNCHANGED <<enabled, plan, permission, assigned, onTeam, teamOff, zeroOnly, rule, fallback>>

ToggleZeroRetention == Act /\ zeroOnly' = ~zeroOnly
    /\ UNCHANGED <<enabled, plan, permission, assigned, onTeam, teamOff, euOnly, rule, fallback>>

\* Neither form asks whether the model it names is enabled, or whose it is.
SetRule(m) == Act /\ rule' = m
    /\ UNCHANGED <<enabled, plan, permission, assigned, onTeam, teamOff, euOnly, zeroOnly, fallback>>

\* update_budget_automation, or the month's spending passes the threshold.
SetFallback(m) == Act /\ fallback' = m
    /\ UNCHANGED <<enabled, plan, permission, assigned, onTeam, teamOff, euOnly, zeroOnly, rule>>

-----------------------------------------------------------------------------
\* stream_message

Reply(r) == reply' = r /\ UNCHANGED <<rules, acts>>

\* The model and the mode come with the URL; the user and the team are read once.
Begin(want, research) ==
    /\ reply.pc = "idle"
    /\ Reply([NoReply EXCEPT !.pc = IF want = None THEN "rule" ELSE "manual",
                             !.want = want, !.research = research, !.team = onTeam])

\* models_visible_to_user and _allowed_models_for_user, first half: the settings, the
\* plan, the permissions and the team's list. The department stays cached on the user.
Look ==
    LET eu == IF reply.eu = None THEN euOnly ELSE reply.eu IN
    /\ reply.pc \in {"manual", "rule", "tiers", "budget"} /\ reply.passed = None
    /\ CASE reply.pc = "rule" -> rule # None
         [] reply.pc = "tiers" -> reply.left # <<>>
         [] reply.pc = "budget" -> fallback # None
         [] OTHER -> TRUE
    /\ Reply([reply EXCEPT !.eu = eu, !.passed = Zero \cap Allowed(reply.team) \cap Region(eu),
                           !.target = CASE reply.pc = "manual" -> reply.want
                                        [] reply.pc = "rule" -> rule
                                        [] reply.pc = "budget" -> fallback
                                        [] OTHER -> None])

\* The second half, the query itself, with is_enabled.
Visible == reply.passed \cap enabled

Go(pc, candidates) ==
    Reply([reply EXCEPT !.pc = pc, !.passed = None, !.target = None, !.candidates = candidates])

\* Mutant: the model of the URL is trusted.
TakeManualTrusting ==
    /\ reply.pc = "manual" /\ reply.passed # None
    /\ Go("budget", <<reply.target>>)

TakeManual ==
    /\ reply.pc = "manual" /\ reply.passed # None
    /\ IF reply.target \in Visible THEN Go("budget", <<reply.target>>) ELSE Go("rule", <<>>)

\* Mutant: the rule's model is used whether or not it is visible.
TakeRuleAnyway ==
    /\ reply.pc = "rule" /\ reply.passed # None
    /\ Go("budget", <<reply.target>>) \/ Go("classify", <<>>)

\* match_routing_rule, whose condition the message meets or not
TakeRule ==
    /\ reply.pc = "rule" /\ reply.passed # None
    /\ \/ reply.target \in Visible /\ Go("budget", <<reply.target>>)
       \/ Go("classify", <<>>)

NoRule == reply.pc = "rule" /\ reply.passed = None /\ rule = None /\ Go("classify", <<>>)

\* classify_complexity: the message goes to the cheapest economy model of all, user=None.
\* No model or no answer means the default tier.
Classify ==
    LET cheap == InTier(enabled \cap Zero, "economy") IN
    /\ reply.pc = "classify"
    /\ \E order \in Orders, m \in cheap \cup {None} :
          /\ IF cheap = {} THEN Head(order) = "default" ELSE m # None /\ \A n \in cheap : m <= n
          /\ Reply([reply EXCEPT !.pc = "tiers", !.left = order, !.classifier = m])

\* select_model_candidates, one tier
TakeTier ==
    /\ reply.pc = "tiers" /\ reply.passed # None
    /\ \E s \in ByPrice(InTier(Visible, Head(reply.left))) :
          Reply([reply EXCEPT !.passed = None, !.left = Tail(@), !.candidates = @ \o s])

NoMoreTiers ==
    /\ reply.pc = "tiers" /\ reply.left = <<>>
    /\ IF reply.candidates = <<>> THEN Reply(NoReply) ELSE Go("budget", reply.candidates)

\* In research mode only Claude stays.
MayBeAsked == IF reply.research THEN Claude ELSE Model

\* The last choice.
Ask(candidates) ==
    IF Range(candidates) \cap MayBeAsked = {} THEN Reply(NoReply) ELSE Go("ask", candidates)

\* Mutant: the fallback is not checked against what the user may use.
TakeFallbackAnyway ==
    /\ reply.pc = "budget" /\ reply.passed # None
    /\ Ask(<<reply.target>>)

\* get_budget_automation_status
TakeFallback ==
    /\ reply.pc = "budget" /\ reply.passed # None
    /\ Ask(IF reply.target \in Visible THEN <<reply.target>> ELSE reply.candidates)

NoFallback == reply.pc = "budget" /\ reply.passed = None /\ fallback = None /\ Ask(reply.candidates)

\* The provider is called; a failure before the first word moves on to the next model.
\* What research mode leaves out is passed over.
Call ==
    /\ reply.pc = "ask" /\ reply.candidates # <<>>
    /\ Reply([reply EXCEPT !.told = @ \cup ({Head(reply.candidates)} \cap MayBeAsked), !.candidates = Tail(@)])

Finish == reply.pc = "ask" /\ reply.told # {} /\ Reply(NoReply)

Step ==
    \/ \E m \in Model : \/ ToggleProviderModel(m) \/ TogglePermission(m) \/ ToggleAssigned(m)
                        \/ ToggleTeamModel(m) \/ SetRule(m) \/ SetFallback(m)
    \/ \E p \in Plans : ChangePlan(p)
    \/ RemoveMember \/ ClearOverrides \/ SetRegion \/ ToggleZeroRetention
    \/ SetRule(None) \/ SetFallback(None)
    \/ \E want \in Model \cup {None}, research \in BOOLEAN : Begin(want, research)
    \/ Look \/ TakeManual \/ TakeRule \/ NoRule \/ Classify \/ TakeTier \/ NoMoreTiers
    \/ TakeFallback \/ NoFallback \/ Call \/ Finish

Next == Step /\ Note

Spec == Init /\ [][Next]_vars

-----------------------------------------------------------------------------
Replies ==
    [pc : {"idle", "manual", "rule", "classify", "tiers", "budget", "ask"},
     want : Model \cup {None}, research : BOOLEAN, team : BOOLEAN, eu : {None} \cup BOOLEAN,
     left : Seq({"economy", "default", "premium"}), target : Model \cup {None},
     passed : {None} \cup SUBSET Model, candidates : Seq(Model), told : SUBSET Model, classifier : Model \cup {None}]

RulesOK ==
    /\ enabled \cup assigned \cup teamOff \subseteq Model /\ plan \in Plans \cup {None}
    /\ permission \in [Model -> {"none", "allow", "deny"}]
    /\ {rule, fallback} \subseteq Model \cup {None} /\ {euOnly, zeroOnly, onTeam} \subseteq BOOLEAN

TypeOK ==
    /\ RulesOK /\ acts \in 0 .. MaxActs
    /\ reply \in Replies
    /\ since \in [{"zero", "allowed", "region", "enabled"} -> SUBSET Model]

\* Whatever path picked a model, and however late it is asked, each of the rules that
\* can forbid it has let it pass at some moment since the reply began: none is left
\* out on any path, and nothing from before the reply (the choice made when the message
\* was posted, the target of a rule, the fallback of a plan) is trusted.
AskedWasAllowed ==
    \A m \in reply.told : \A f \in DOMAIN since : m \in since[f]

\* In research mode nothing but Claude is asked for the reply, last-minute overrides included.
ResearchIsClaude == reply.research => reply.told \subseteq Claude

\* No model is asked that a rule forbade since the reply began.
AccessSafe == TypeOK /\ AskedWasAllowed /\ ResearchIsClaude

\* "A hard ceiling on which providers this department's requests can ever reach": no
\* model outside the EU is sent the text while the department has been restricted
\* since the reply began.
NeverOutsideEU ==
    since.region \subseteq EU => (reply.told \cup ({reply.classifier} \ {None})) \subseteq EU
===============================================================================
