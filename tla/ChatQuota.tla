------------------------------- MODULE ChatQuota -------------------------------
(***************************************************************************)
(* What one user's plan lets through in one window (a day or a month):     *)
(* new conversations, messages, uses of Compare, of Research, of attached  *)
(* images and of generated media, and tokens.  Every count is taken from   *)
(* the rows themselves; what differs is the lock it is taken under.        *)
(* create_conversation_within_quota holds the user's row, post_message,    *)
(* post_arena_message and edit_message hold one conversation, and          *)
(* generate_media, regenerate_message and the checks of one kind of        *)
(* message hold nothing.                                                   *)
(***************************************************************************)
EXTENDS Naturals, FiniteSets

CONSTANTS
    Conv,        \* the conversations that can be started
    Worker,      \* the requests that can be served at once
    None,
    SessionCap,  \* Plan.sessions_per_day_limit
    RequestCap,  \* Plan.max_requests_per_period
    ConvCap,     \* UsageLimit.session_limit, of one conversation
    TokenCap,    \* UsageLimit.daily_token_cap
    KindCap,     \* the caps of the kinds of message that are used
    MaxWindows,  \* bound: the windows of a behaviour
    MaxMessages  \* bound: the messages of a behaviour

Capped == DOMAIN KindCap
Kinds == Capped \cup {"chat"}

ChatQuotaConstants ==
    /\ IsFiniteSet(Conv) /\ IsFiniteSet(Worker) /\ Worker # {}
    /\ None \notin Conv /\ None \notin [window : 1 .. MaxWindows, live : BOOLEAN]
    /\ {SessionCap, RequestCap, ConvCap, TokenCap, MaxWindows, MaxMessages} \subseteq Nat /\ MaxWindows # 0
    /\ Capped \subseteq {"compare", "research", "image", "media"} /\ KindCap \in [Capped -> Nat]

VARIABLES
    window,    \* the current day or month
    conv,      \* the conversation rows: when they were started, is_deleted
    messages,  \* the message rows
    nextId,
    req        \* what each request in progress has read or locked

vars == <<window, conv, messages, nextId, req>>

Idle == [pc |-> "idle", conv |-> None, kind |-> "chat", id |-> 0]
NoReply == "none"

\* A row of Message; a reply that is pending has no tokens yet.
Row(id, c, role, kind, reply) ==
    [id |-> id, conv |-> c, role |-> role, kind |-> kind, window |-> window, reply |-> reply]

Init ==
    /\ window = 1
    /\ conv = [c \in Conv |-> None]
    /\ messages = {}
    /\ nextId = 1
    /\ req = [w \in Worker |-> Idle]

-----------------------------------------------------------------------------
\* The counts. They go through conversation__user, so they see the messages of
\* deleted conversations too.

Live == {c \in Conv : conv[c] # None /\ conv[c].live}

Now(role) == {m \in messages : m.role = role /\ m.window = window}

Requests == Cardinality(Now("user"))

Tokens == Cardinality({m \in Now("assistant") : m.reply = "spent"})

Sent(c) == Cardinality({m \in messages : m.conv = c /\ m.role = "user"})

\* Mutant: a reply counts when it is finished.
UsedFinished(kind) == Cardinality({m \in Now("assistant") : m.kind = kind /\ m.reply # "pending"})

\* The rows of a kind: a question and its replies carry it, the first reply counts.
\* check_attachment_monthly_limit counts attachment_kind = "image" of any role, so a
\* generated image is an image read as well.
Used(kind) == Cardinality({m \in Now("assistant") :
                              m.kind = kind \/ (kind = "image" /\ m.kind = "media")})

\* Mutant: the default manager, which hides what was deleted.
StartedLive == Cardinality({c \in Live : conv[c].window = window})

\* all_objects: deleted conversations count.
StartedToday == Cardinality({c \in Conv : conv[c] # None /\ conv[c].window = window})

\* check_usage_limits. The plan's state, an overdue invoice and the burst limit may
\* refuse besides: see Refuse.
WithinLimits(c) == Requests < RequestCap /\ Tokens < TokenCap /\ Sent(c) < ConvCap

\* Mutant: the row is read without a lock.
NoLock(c) == {}

\* select_for_update on the conversation, held from the check to the commit.
LockTaken(c) == {w \in Worker : req[w].pc = "checked" /\ req[w].conv = c
                                 /\ req[w].kind \notin {"media", "regenerate"}}

To(w, r) == req' = [req EXCEPT ![w] = r]
Step(w, pc) == To(w, [req[w] EXCEPT !.pc = pc])

-----------------------------------------------------------------------------
\* create_conversation_within_quota

CheckSession(w) ==
    /\ req[w].pc = "idle"
    /\ \A v \in Worker : req[v].pc # "starting"
    /\ StartedToday < SessionCap
    /\ Step(w, "starting")
    /\ UNCHANGED <<window, conv, messages, nextId>>

CreateConversation(w) ==
    /\ req[w].pc = "starting"
    /\ \E c \in Conv :
          /\ conv[c] = None
          /\ conv' = [conv EXCEPT ![c] = [window |-> window, live |-> TRUE]]
    /\ To(w, Idle)
    /\ UNCHANGED <<window, messages, nextId>>

\* Mutant: the row is deleted, and its messages with it.
Erase(c) ==
    /\ c \in Live
    /\ LockTaken(c) = {}
    /\ conv' = [conv EXCEPT ![c].live = FALSE]
    /\ messages' = {m \in messages : m.conv # c}
    /\ UNCHANGED <<window, nextId, req>>

\* A soft delete: the row is updated, so it waits for a lock on it.
DeleteConversation(c) ==
    /\ c \in Live
    /\ LockTaken(c) = {}
    /\ conv' = [conv EXCEPT ![c].live = FALSE]
    /\ UNCHANGED <<window, messages, nextId, req>>

-----------------------------------------------------------------------------
\* post_message, post_arena_message and generate_media. The limit of the kind is
\* checked first, without a lock.

CheckKind(w, c, kind) ==
    /\ req[w].pc = "idle"
    /\ conv[c] # None
    /\ kind \in Capped => Used(kind) < KindCap[kind]
    /\ To(w, [pc |-> "asked", conv |-> c, kind |-> kind, id |-> 0])
    /\ UNCHANGED <<window, conv, messages, nextId>>

\* The conversation's limits: only generate_media does not take the row's lock.
CheckLimits(w) ==
    LET c == req[w].conv IN
    /\ req[w].pc = "asked"
    /\ c \in Live
    /\ req[w].kind # "media" => LockTaken(c) = {}
    /\ WithinLimits(c)
    /\ Step(w, "checked")
    /\ UNCHANGED <<window, conv, messages, nextId>>

\* A question with its pending reply, or with the two of a comparison. A reply has
\* its question's number, or the next one; only one of the two carries the kind.
Question(c, kind) ==
    {Row(nextId, c, "user", kind, NoReply), Row(nextId, c, "assistant", kind, "pending")}
        \cup IF kind = "compare" THEN {Row(nextId + 1, c, "assistant", "chat", "pending")} ELSE {}

Ids(kind) == IF kind = "compare" THEN 2 ELSE 1

Post(w) ==
    LET kind == req[w].kind IN
    /\ req[w].pc = "checked"
    /\ kind \in Kinds \ {"media"}
    /\ nextId + Ids(kind) <= MaxMessages + 1
    /\ messages' = messages \cup Question(req[w].conv, kind)
    /\ nextId' = nextId + Ids(kind)
    /\ To(w, Idle)
    /\ UNCHANGED <<window, conv>>

\* The prompt is saved before the provider is asked, the file after it has answered.
PostPrompt(w) ==
    /\ req[w].pc = "checked"
    /\ req[w].kind = "media"
    /\ nextId <= MaxMessages
    /\ messages' = messages \cup {Row(nextId, req[w].conv, "user", "media", NoReply)}
    /\ nextId' = nextId + 1
    /\ Step(w, "generating")
    /\ UNCHANGED <<window, conv>>

SaveMedia(w) ==
    /\ req[w].pc = "generating"
    /\ nextId <= MaxMessages
    /\ \E kind \in {"media", "chat"} :   \* "chat": the provider failed, its error is the reply
          messages' = messages \cup {Row(nextId, req[w].conv, "assistant", kind, "free")}
    /\ nextId' = nextId + 1
    /\ To(w, Idle)
    /\ UNCHANGED <<window, conv>>

\* A refusal by any limit, the conversation's deletion, or a request that dies: a
\* transaction is rolled back and a prompt stays.
Refuse(w) ==
    /\ req[w].pc # "idle"
    /\ To(w, Idle)
    /\ UNCHANGED <<window, conv, messages, nextId>>

-----------------------------------------------------------------------------
\* edit_message, regenerate_message and the end of a reply

LoadQuestion(w, m) ==
    /\ req[w].pc = "idle"
    /\ m.role = "user" /\ m.conv \in Live
    /\ To(w, [pc |-> "asked", conv |-> m.conv, kind |-> "edit", id |-> m.id])
    /\ UNCHANGED <<window, conv, messages, nextId>>

\* The question and all that came after it make place for the new question.
Edit(w) ==
    LET c == req[w].conv IN
    /\ req[w].pc = "checked" /\ req[w].kind = "edit"
    /\ nextId <= MaxMessages
    /\ messages' = {m \in messages : m.conv # c \/ m.id < req[w].id} \cup Question(c, "chat")
    /\ nextId' = nextId + 1
    /\ To(w, Idle)
    /\ UNCHANGED <<window, conv>>

LoadReply(w, m) ==
    /\ req[w].pc = "idle"
    /\ m.role = "assistant" /\ m.conv \in Live
    /\ WithinLimits(m.conv)
    /\ To(w, [pc |-> "checked", conv |-> m.conv, kind |-> "regenerate", id |-> m.id])
    /\ UNCHANGED <<window, conv, messages, nextId>>

\* The same row is pending again, its tokens are gone; a row deleted meanwhile fails
\* the save.
Regenerate(w) ==
    /\ req[w].pc = "checked" /\ req[w].kind = "regenerate"
    /\ messages' = {IF m.id = req[w].id /\ m.role = "assistant" THEN [m EXCEPT !.reply = "pending"] ELSE m : m \in messages}
    /\ To(w, Idle)
    /\ UNCHANGED <<window, conv, nextId>>

\* stream_message ends: the reply has used tokens. (One that failed has used none: to the
\* counts it is as good as pending.)
Answer(m) ==
    /\ m.reply = "pending"
    /\ messages' = (messages \ {m}) \cup {[m EXCEPT !.reply = "spent"]}
    /\ UNCHANGED <<window, conv, nextId, req>>

NextWindow ==
    /\ window < MaxWindows
    /\ window' = window + 1
    /\ UNCHANGED <<conv, messages, nextId, req>>

Next ==
    \/ \E w \in Worker :
          \/ CheckSession(w) \/ CreateConversation(w) \/ CheckLimits(w) \/ Post(w)
          \/ PostPrompt(w) \/ SaveMedia(w) \/ Refuse(w) \/ Edit(w) \/ Regenerate(w)
          \/ \E c \in Conv, kind \in Kinds : CheckKind(w, c, kind)
          \/ \E m \in messages : LoadQuestion(w, m) \/ LoadReply(w, m)
    \/ \E c \in Conv : DeleteConversation(c)
    \/ \E m \in messages : Answer(m)
    \/ NextWindow

Spec == Init /\ [][Next]_vars

-----------------------------------------------------------------------------
Messages == [id : 1 .. MaxMessages, conv : Conv, role : {"user", "assistant"}, kind : Kinds,
             window : 1 .. MaxWindows, reply : {NoReply, "pending", "spent", "free"}]

Progress == [pc : {"idle", "starting", "asked", "checked", "generating"}, conv : Conv \cup {None},
             kind : Kinds \cup {"edit", "regenerate"}, id : 0 .. MaxMessages]

TypeOK ==
    /\ window \in 1 .. MaxWindows
    /\ conv \in [Conv -> {None} \cup [window : 1 .. MaxWindows, live : BOOLEAN]]
    /\ messages \subseteq Messages /\ IsFiniteSet(messages)
    /\ nextId \in 1 .. (MaxMessages + 1)
    /\ req \in [Worker -> Progress]
    \* Nothing is of a window to come, or of a conversation that was never started.
    /\ \A c \in Conv : conv[c] # None => conv[c].window <= window
    /\ \A m \in messages :
          /\ m.id < nextId /\ m.window <= window /\ conv[m.conv] # None
          /\ m.role = "user" <=> m.reply = NoReply

\* Starting conversations: the daily limit is exact, however many requests arrive at
\* once and however many of the conversations are deleted again (plans.py: "start,
\* delete, start, delete" and "two requests arriving together").
SessionsCapped == Cardinality({c \in Conv : conv[c] # None /\ conv[c].window = window}) <= SessionCap

\* A user's caps are checked under the lock of one conversation, or of none: requests
\* on different conversations pass them together, each once, and no further.
WindowOvershoot ==
    /\ Requests <= RequestCap + Cardinality(Worker) - 1
    /\ \A kind \in Capped :
          Cardinality({m \in Now("assistant") : m.kind = kind}) <= KindCap[kind] + Cardinality(Worker) - 1

\* The messages of one conversation: exact where the row is locked, so only the
\* prompts of generate_media, which do not lock it, go beyond the limit.
ConversationCapped ==
    \A c \in Conv : Sent(c) <= ConvCap
        + Cardinality({m \in messages : m.conv = c /\ m.role = "user" /\ m.kind = "media"})

\* What gets through a plan's limits when requests race: exactly what each lock allows.
QuotaSafe == TypeOK /\ SessionsCapped /\ WindowOvershoot /\ ConversationCapped

\* Within a window, only an edit gives messages back and only an edit or a new
\* version of a reply gives tokens back: deleting a conversation returns nothing.
OnlyRewritesReturn ==
    [][window' = window =>
          /\ Requests' < Requests => \E w \in Worker : req[w].kind = "edit"
          /\ Tokens' < Tokens => \E w \in Worker : req[w].kind \in {"edit", "regenerate"} /\ req[w].pc = "checked"]_vars
===============================================================================
