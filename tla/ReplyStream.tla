------------------------------ MODULE ReplyStream ------------------------------
(***************************************************************************)
(* How an AI reply is generated (chat/views.py).  A turn of a conversation *)
(* is a user message and the row of its reply, which is pending while its  *)
(* content is blank.  A browser opens an event stream on a pending reply:  *)
(* the connection claims the row, calls one provider after another until   *)
(* one answers, saves the text and releases the claim.  Tabs, automatic    *)
(* reconnects, Regenerate and Edit act on the same rows meanwhile.  Time   *)
(* is kept as ages, so a run has no last moment.                           *)
(***************************************************************************)
EXTENDS Integers, FiniteSets

CONSTANTS
    Turn,                 \* the turns the conversation may ever get, in order
    Conn,                 \* the connections that can be open at once
    Candidates,           \* how many models are tried for one reply
    CallTime,             \* the longest one provider call takes, retries included
    StaleTime,            \* STALE_GENERATION_TIMEOUT
    MaxKills,             \* bound: worker processes killed in a run
    MaxAsks,              \* bound: how often one reply is asked for
    Ops,                  \* bound: what users and the network do in a run
    NoTurn                \* the turn of a connection that is not open

AllOps == {"edit", "regenerate", "disconnect", "cache", "refuse", "blank", "fault"}

ASSUME ReplyStreamAssumption ==
    /\ Turn \subseteq Nat /\ NoTurn \notin Turn
    /\ Candidates \in Nat \ {0} /\ CallTime \in Nat \ {0} /\ StaleTime \in Nat
    /\ MaxKills \in Nat /\ MaxAsks \in Nat \ {0} /\ Ops \subseteq AllOps

VARIABLES
    turns,                \* the turns whose user message is in the table
    reply,                \* the reply's Message row of each turn
    conn,                 \* what each connection is doing
    discarded,            \* history: the turns an edit has discarded
    asks,                 \* history: how often each reply was asked for
    shown,                \* history: the replies that sent out text of a provider since they were asked for
    left,                 \* history: the turns whose claim was left behind, without the finally block
    crossed               \* history: the connections whose reply was asked for again, or left without a
                          \* word by another connection, while they were at work on it

history == <<discarded, asks, shown, left, crossed>>
vars == <<turns, reply, conn, history>>

\* age is the time since generation_started_at; it is only read while generating.
Row == [exists : BOOLEAN, content : {"", "text", "problem"}, generating : BOOLEAN, age : 0 .. StaleTime + 1]
NoRow   == [exists |-> FALSE, content |-> "", generating |-> FALSE, age |-> 0]
Pending == [NoRow EXCEPT !.exists = TRUE]

\* seen is the row as the connection loaded it, before its claim; text is the
\* partial_text it has received; held is the time since its claim; the other fields
\* place it in the fallback loop.
Connection == [pc : {"idle", "loaded", "claimed", "calling", "release", "release2"}, turn : Turn \cup {NoTurn},
               seen : Row, attempt : 0 .. Candidates, elapsed : 0 .. CallTime, held : 0 .. Candidates * CallTime,
               text : {"", "text"}]
Closed == [pc |-> "idle", turn |-> NoTurn, seen |-> NoRow, attempt |-> 0, elapsed |-> 0, held |-> 0, text |-> ""]

TypeOK ==
    /\ turns \in SUBSET Turn
    /\ reply \in [Turn -> Row]
    /\ conn \in [Conn -> Connection]
    /\ discarded \in SUBSET Turn /\ shown \in SUBSET Turn /\ left \in SUBSET Turn /\ crossed \in SUBSET Conn
    /\ asks \in [Turn -> 0 .. MaxAsks]

Init ==
    /\ turns = {}
    /\ reply = [t \in Turn |-> NoRow]
    /\ conn = [c \in Conn |-> Closed]
    /\ discarded = {} /\ shown = {} /\ left = {} /\ crossed = {}
    /\ asks = [t \in Turn |-> 0]

-------------------------------------------------------------------------------
Working(c, t) == conn[c].turn = t /\ conn[c].pc \notin {"idle", "loaded"}
Unanswered(t) == reply[t].exists /\ reply[t].content = ""

NextTurn(t) == asks[t] = 0 /\ \A u \in Turn : u < t => asks[u] > 0

\* post_message: the user message and its pending reply, in one transaction.
PostMessage(t) ==
    /\ NextTurn(t)
    /\ turns' = turns \cup {t}
    /\ reply' = [reply EXCEPT ![t] = Pending]
    /\ asks' = [asks EXCEPT ![t] = 1]
    /\ UNCHANGED <<conn, discarded, shown, left, crossed>>

\* edit_message: everything from the edited message on is deleted and a new turn
\* takes its place, in one transaction.
EditMessage(u, t) ==
    /\ "edit" \in Ops
    /\ u \in turns
    /\ NextTurn(t)
    /\ turns' = {v \in turns : v < u} \cup {t}
    /\ reply' = [v \in Turn |-> IF v = t THEN Pending ELSE IF v >= u THEN NoRow ELSE reply[v]]
    /\ asks' = [asks EXCEPT ![t] = 1]
    /\ discarded' = discarded \cup {v \in turns : v >= u}
    /\ UNCHANGED <<conn, shown, left, crossed>>

\* regenerate_message: the same row is pending again; its claim is not touched.
RegenerateMessage(t) ==
    /\ "regenerate" \in Ops
    /\ reply[t].exists
    /\ asks[t] < MaxAsks
    /\ reply' = [reply EXCEPT ![t].content = ""]
    /\ asks' = [asks EXCEPT ![t] = @ + 1]
    /\ shown' = shown \ {t}
    /\ crossed' = crossed \cup {c \in Conn : Working(c, t)}
    /\ UNCHANGED <<turns, conn, discarded, left>>

-------------------------------------------------------------------------------
\* The finally block knows the row's id and the partial text.
ToFinally(c) == conn' = [conn EXCEPT ![c] = [Closed EXCEPT !.pc = "release", !.turn = conn[c].turn, !.text = conn[c].text]]
Close(c)    == conn' = [conn EXCEPT ![c] = Closed]

\* For the history only: a step of c that has left its reply unanswered.  It had nothing
\* to save, or the claim it gives up may be another's.
LeavesBlank(c) ==
    /\ reply'[conn[c].turn].exists /\ reply'[conn[c].turn].content = ""
    /\ conn[c].text = "" \/ c \in crossed
Others(c) == {d \in Conn : Working(d, conn[c].turn)}

NoteBlank(c, over) ==
    /\ crossed' = (IF LeavesBlank(c) THEN crossed \cup Others(c) ELSE crossed) \ over
    /\ shown' = IF LeavesBlank(c) THEN shown \ {conn[c].turn} ELSE shown
    /\ UNCHANGED <<discarded, asks, left>>

\* stream_message: the pending row is loaded first ...
OpenStream(c, t) ==
    /\ conn[c].pc = "idle"
    /\ Unanswered(t)
    /\ conn' = [conn EXCEPT ![c] = [Closed EXCEPT !.pc = "loaded", !.turn = t, !.seen = reply[t]]]
    /\ UNCHANGED <<turns, reply, history>>

\* Mutants: only the blank content guards a reply; a stale claim is never taken over.
BlankIsClaimable(r) == r.exists /\ r.content = ""
FreeIsClaimable(r) == r.exists /\ r.content = "" /\ ~r.generating

\* ... and claimed by one conditional UPDATE.  A connection that does not get the
\* claim says nothing, or repeats the finished text, and ends.
Claimable(r) == r.exists /\ r.content = "" /\ (~r.generating \/ r.age > StaleTime)

Claim(c) ==
    LET t == conn[c].turn IN
    /\ conn[c].pc = "loaded"
    /\ IF Claimable(reply[t])
         THEN /\ reply' = [reply EXCEPT ![t].generating = TRUE, ![t].age = 0]
              /\ conn' = [conn EXCEPT ![c].pc = "claimed"]
         ELSE Close(c) /\ UNCHANGED reply
    /\ UNCHANGED <<turns, history>>

\* The history is loaded before the event stream, with its finally block, starts.
Prepare(c) ==
    /\ conn[c].pc = "claimed"
    /\ conn' = [conn EXCEPT ![c].pc = "calling", ![c].attempt = 1]
    /\ UNCHANGED <<turns, reply, history>>

\* An exception other than a ProviderError (the database, say): before the stream
\* starts nothing is released, later the finally block runs.
Fault(c) ==
    /\ "fault" \in Ops
    /\ \/ conn[c].pc = "claimed" /\ Close(c) /\ left' = left \cup {conn[c].turn}
       \/ conn[c].pc = "calling" /\ ToFinally(c) /\ UNCHANGED left
    /\ crossed' = IF conn[c].pc = "claimed" THEN crossed \ {c} ELSE crossed
    /\ UNCHANGED <<turns, reply, discarded, asks, shown>>

\* save(update_fields=...) fails on a row that is gone; the claim is released next
\* either way.
SaveContent(c, text) ==
    LET t == conn[c].turn IN
    /\ reply' = [reply EXCEPT ![t].content = IF reply[t].exists THEN text ELSE @]
    /\ ToFinally(c)

\* save() writes every column as loaded or set since: is_generating goes back to
\* what it was before the claim, and a row that is gone is inserted again.
SaveWholeRow(c, text) ==
    /\ reply' = [reply EXCEPT ![conn[c].turn] = [conn[c].seen EXCEPT !.content = text]]
    /\ ToFinally(c)

\* No provider has been called yet.
Starting(c) ==
    conn[c].pc = "calling" /\ conn[c].attempt = 1 /\ conn[c].elapsed = 0 /\ conn[c].text = ""

\* No model, an exceeded context limit, no story to ground the answer in: the
\* reason becomes the reply.
Refuse(c) ==
    /\ "refuse" \in Ops
    /\ Starting(c)
    /\ SaveContent(c, "problem")
    /\ UNCHANGED <<turns, history>>

\* The same question was answered within the last hour (chat/response_cache.py).
ServeFromCache(c) ==
    /\ "cache" \in Ops
    /\ Starting(c)
    /\ SaveWholeRow(c, "text")
    /\ UNCHANGED <<turns, history>>

ReceiveText(c) ==
    /\ conn[c].pc = "calling" /\ conn[c].text = ""
    /\ conn' = [conn EXCEPT ![c].text = "text"]
    /\ shown' = IF c \in crossed THEN shown ELSE shown \cup {conn[c].turn}
    /\ UNCHANGED <<turns, reply, discarded, asks, left, crossed>>

\* Mutant: the last candidate is not told apart.
TryAnotherCandidate(c) ==
    /\ conn[c].pc = "calling" /\ conn[c].text = ""
    /\ conn' = [conn EXCEPT ![c].attempt = @ + 1, ![c].elapsed = 0]
    /\ UNCHANGED <<turns, reply, history>>

\* A provider that fails before any text is replaced by the next candidate ...
TryNextCandidate(c) ==
    /\ conn[c].pc = "calling" /\ conn[c].text = ""
    /\ conn[c].attempt < Candidates
    /\ conn' = [conn EXCEPT ![c].attempt = @ + 1, ![c].elapsed = 0]
    /\ UNCHANGED <<turns, reply, history>>

\* ... otherwise what there is, or an apology, becomes the reply.
GiveUp(c) ==
    /\ conn[c].pc = "calling"
    /\ conn[c].text # "" \/ conn[c].attempt = Candidates
    /\ SaveContent(c, IF conn[c].text = "" THEN "problem" ELSE "text")
    /\ UNCHANGED <<turns, history>>

\* The provider is done, possibly without a word.
FinishReply(c) ==
    /\ conn[c].pc = "calling"
    /\ conn[c].text # "" \/ "blank" \in Ops
    /\ SaveWholeRow(c, conn[c].text)
    /\ NoteBlank(c, {})
    /\ UNCHANGED turns

\* The browser goes away: the generator is closed at the yield of a chunk, or of a
\* cached text that is not saved yet, and its finally block runs.
Disconnect(c) ==
    /\ "disconnect" \in Ops
    /\ \/ conn[c].pc = "calling" /\ conn[c].text # ""
       \/ "cache" \in Ops /\ Starting(c)
    /\ ToFinally(c)
    /\ UNCHANGED <<turns, reply, history>>

\* Mutants of the finally block: the partial text is dropped; a reply that has its
\* content keeps its claim.
ReleaseBlankOnly(c) ==
    /\ conn[c].pc = "release"
    /\ conn' = [conn EXCEPT ![c].pc = "release2"]
    /\ UNCHANGED <<turns, reply, history>>

\* The finally block: the partial text becomes the content of a reply that is
\* still blank, then the claim is released in any case.
ReleaseBlank(c) ==
    LET t == conn[c].turn IN
    /\ conn[c].pc = "release"
    /\ reply' = [reply EXCEPT ![t] =
         IF @.exists /\ @.content = "" /\ @.generating
           THEN [Pending EXCEPT !.content = conn[c].text] ELSE @]
    /\ conn' = [conn EXCEPT ![c].pc = "release2"]
    /\ NoteBlank(c, {})
    /\ UNCHANGED turns

ReleaseNothing(c) ==
    /\ conn[c].pc = "release2"
    /\ Close(c)
    /\ UNCHANGED <<turns, reply, history>>

ReleaseClaim(c) ==
    LET t == conn[c].turn IN
    /\ conn[c].pc = "release2"
    /\ reply' = [reply EXCEPT ![t].generating = FALSE, ![t].age = 0]
    /\ Close(c)
    /\ NoteBlank(c, {c})
    /\ UNCHANGED turns

\* The worker process is killed: no finally block runs.
Kill(c) ==
    /\ conn[c].pc \notin {"idle", "loaded"}
    /\ Cardinality(left) < MaxKills
    /\ Close(c)
    /\ left' = left \cup {conn[c].turn}
    /\ crossed' = crossed \ {c}
    /\ UNCHANGED <<turns, reply, discarded, asks, shown>>

\* Time passes for the claims and for the provider calls, which end in time; the
\* statements on the database take none of it.
Older(r) == [r EXCEPT !.age = IF r.generating /\ r.age <= StaleTime THEN @ + 1 ELSE @]

Tick ==
    /\ \A c \in Conn : conn[c].pc \in {"idle", "loaded", "calling"} /\ conn[c].elapsed < CallTime
    /\ reply' = [t \in Turn |-> Older(reply[t])]
    /\ conn' = [c \in Conn |->
         IF conn[c].pc = "calling"
           THEN [conn[c] EXCEPT !.seen = Older(@), !.elapsed = @ + 1, !.held = @ + 1]
           ELSE [conn[c] EXCEPT !.seen = Older(@)]]
    /\ UNCHANGED <<turns, history>>

ConnStep(c) ==
    \/ Claim(c) \/ Prepare(c) \/ Refuse(c) \/ ServeFromCache(c) \/ ReceiveText(c) \/ TryNextCandidate(c)
    \/ GiveUp(c) \/ FinishReply(c) \/ ReleaseBlank(c) \/ ReleaseClaim(c)

Next ==
    \/ \E t \in Turn : PostMessage(t) \/ RegenerateMessage(t) \/ \E u \in Turn : EditMessage(u, t)
    \/ \E c \in Conn :
         \/ \E t \in Turn : OpenStream(c, t)
         \/ ConnStep(c) \/ Fault(c) \/ Disconnect(c) \/ Kill(c)
    \/ Tick

Spec == Init /\ [][Next]_vars

\* A worker runs on unless it is killed, the browser's EventSource reconnects as
\* long as the reply is pending, and the clock does not stop.
FairSpec ==
    /\ Spec
    /\ WF_vars(Tick)
    /\ \A c \in Conn : WF_vars(ConnStep(c))
    /\ \A t \in Turn : WF_vars(\E c \in Conn : OpenStream(c, t))
-------------------------------------------------------------------------------
Calling(c, t) == conn[c].turn = t /\ conn[c].pc = "calling"

\* "doubling the real provider cost for one logical reply", and "so a claim is never
\* reclaimed out from under a request that's still legitimately running": two connections
\* never have a provider call running for the same reply.  It does not hold when all the
\* candidates together take longer than a claim is trusted.
OneCallPerReply == \A c, d \in Conn, t \in Turn :
    Calling(c, t) /\ Calling(d, t) => c = d

\* What does hold: of two calls that run for one reply one was claimed so long after the
\* other that the first was taken for dead, unless one of the two was crossed.  So each
\* further call costs another StaleTime.
Apart(c, d) == conn[c].held > conn[d].held + StaleTime \/ conn[d].held > conn[c].held + StaleTime

CallsApart == \A c, d \in Conn \ crossed, t \in Turn :
    Calling(c, t) /\ Calling(d, t) /\ c # d => Apart(c, d)

\* "a reload then shows the partial answer as-is rather than ... silently re-running (and
\* re-billing) the whole request": once text of a provider went out, whatever becomes of
\* its stream and its worker, the reply stays claimed or answered until the user asks
\* again; only a claim too old to be trusted is taken over.
NoSilentRerun ==
    [][\A c \in Conn : Claim(c) /\ conn'[c].pc = "claimed" /\ conn[c].turn \in shown =>
          reply[conn[c].turn].generating /\ reply[conn[c].turn].age > StaleTime]_vars

\* The same, as a state: nothing that was shown is free to be asked for once more.
ShownIsHeld == \A t \in shown : Unanswered(t) => reply[t].generating

\* "Claimed ... and released in its finally block": a reply is only left claimed
\* with no connection at work on it when the worker was killed, or failed before
\* its stream, and so its finally block, had started.
NotLeftClaimed == \A t \in Turn :
    reply[t].exists /\ reply[t].generating /\ t \notin left => \E c \in Conn : Working(c, t)

\* What the claim is for: no second call for a reply while the first is trusted, none once
\* something was shown, and a reply that went wrong can be asked for again.
ReplySafe == TypeOK /\ CallsApart /\ ShownIsHeld /\ NotLeftClaimed

\* "the original message and every reply that came after it are discarded": no
\* row of a turn that an edit discarded comes back.
EditDiscards == \A t \in discarded : ~reply[t].exists

\* A pending reply is resolved, even when workers die while generating it, or its
\* turn is discarded by an edit.
ReplyResolves == \A t \in Turn :
    reply[t].exists /\ reply[t].content = "" ~> reply[t].content # "" \/ ~reply[t].exists
===============================================================================
