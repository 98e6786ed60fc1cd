---------------------------- MODULE ContextWindow ----------------------------
(***************************************************************************)
(* What the request for a reply carries of its conversation                *)
(* (chat/context_window.py, and its use in stream_message of               *)
(* chat/views.py).  Four queries load a window of the newest turns and     *)
(* notes on the older ones while other requests of the user write to the   *)
(* same conversation; the window is then cut to the budget of the plan and *)
(* of each model that is tried.  Token counts are scaled down: a note, the *)
(* system prompt and what every turn costs besides its text are one token. *)
(***************************************************************************)
EXTENDS Integers, Sequences, FiniteSets, FiniteSetsExt, SequencesExt

CONSTANTS
    MaxRecent,            \* MAX_RECENT_MESSAGES
    MaxOlder,             \* MAX_OLDER_MESSAGES_FOR_NOTES
    MaxImages,            \* MAX_IMAGES
    ImageTokens,          \* IMAGE_TOKENS
    Reserve,              \* NOTES_RESERVE_TOKENS
    Header, Brief,        \* the tokens of the notes' first line and of BRIEF_MAX_CHARS
    NotesMax,             \* NOTES_MAX_CHARS, in notes
    Sizes,                \* the tokens of a message's text
    Plans, Models,        \* the budgets plans and models give
    Unlimited,            \* the budget of a plan without a limit
    Candidates,           \* how many models are tried
    MaxAsks, MaxActs,     \* bounds: the questions asked, the changes during a request
    None

WindowConstants ==
    /\ {MaxRecent, MaxImages, Reserve, Candidates, Header, Unlimited} \subseteq Nat \ {0}
    /\ {MaxOlder, ImageTokens, Brief, NotesMax, MaxAsks, MaxActs} \subseteq Nat
    /\ Sizes \subseteq Nat /\ Plans \subseteq 0 .. Unlimited /\ Models \subseteq 0 .. Unlimited - 1

VARIABLES
    msgs,                 \* the conversation: a question has an odd id, its reply the next one
    asks,                 \* the questions asked so far
    req,                  \* the request under way: what it has loaded
    sent,                 \* what it sent, or why it was refused
    acts, changed, newer  \* history: changes since it began, and turns after its own when it loaded them

vars == <<msgs, asks, req, sent, acts, changed, newer>>

Ids(s) == {s[i].id : i \in DOMAIN s}
Users(s) == SelectSeq(s, LAMBDA x : x.user)
IsBlank(x) == x.size = 0

TypeOK ==
    /\ \A i \in DOMAIN msgs : msgs[i].user = (msgs[i].id % 2 = 1)
    /\ \A i, j \in DOMAIN msgs : i < j => msgs[i].id < msgs[j].id
    /\ asks \in 0 .. MaxAsks /\ acts \in 0 .. MaxActs
    /\ req # None => req.pc \in {"count", "recent", "first", "older", "plan", "models", "asked"}

Init == msgs = <<>> /\ asks = 0 /\ req = None /\ sent = None /\ acts = 0 /\ changed = FALSE /\ newer = FALSE

-------------------------------------------------------------------------------
(* The conversation.  A change counts for the request under way.           *)

Change ==
    /\ IF req = None THEN UNCHANGED <<acts, changed>>
       ELSE acts < MaxActs /\ acts' = acts + 1 /\ changed' = TRUE
    /\ UNCHANGED <<req, sent>>

Pair(size, image) ==
    <<[id |-> 2 * asks + 1, user |-> TRUE, size |-> size, image |-> image],
      [id |-> 2 * asks + 2, user |-> FALSE, size |-> 0, image |-> FALSE]>>

\* A message may be an image without a text.
Ask(size, image) ==
    /\ asks < MaxAsks /\ asks' = asks + 1 /\ (size = 0 => image)
    /\ msgs' = msgs \o Pair(size, image)
    /\ newer' = (newer \/ (req # None /\ req.pc \in {"count", "recent"}))
    /\ Change

\* edit_message: the question, everything after it, and a new question at its place.
Edit(i, size) ==
    /\ asks < MaxAsks /\ asks' = asks + 1 /\ size > 0
    /\ msgs[i].user /\ msgs' = SubSeq(msgs, 1, i - 1) \o Pair(size, FALSE)
    /\ newer' = (newer \/ (req # None /\ req.pc \in {"count", "recent"}))
    /\ Change

\* Another reply is finished, or asked for again.
Answer(i, size) ==
    /\ ~ msgs[i].user /\ IsBlank(msgs[i]) /\ (req # None => msgs[i].id # req.reply)
    /\ msgs' = [msgs EXCEPT ![i].size = size]
    /\ UNCHANGED <<asks, newer>> /\ Change

Regenerate(i) ==
    /\ ~ msgs[i].user /\ ~ IsBlank(msgs[i]) /\ msgs' = [msgs EXCEPT ![i].size = 0]
    /\ UNCHANGED <<asks, newer>> /\ Change

-------------------------------------------------------------------------------
(* load_window.                                                            *)

\* stream_message, after its claim
Open(i) ==
    /\ req = None /\ ~ msgs[i].user /\ IsBlank(msgs[i])
    /\ req' = [pc |-> "count", reply |-> msgs[i].id, total |-> 0, turns |-> <<>>, older |-> 0,
               brief |-> 0, notes |-> <<>>, plan |-> 0, tried |-> 0]
    /\ newer' = (i # Len(msgs)) /\ sent' = None
    /\ UNCHANGED <<msgs, asks, acts, changed>>

\* Mutant: the pending reply itself is loaded.
EveryOne == msgs

Others == SelectSeq(msgs, LAMBDA x : x.id # req.reply)

Load(pc, with) == req' = [with EXCEPT !.pc = pc] /\ UNCHANGED <<msgs, asks, sent, acts, changed, newer>>

CountTurns == req # None /\ req.pc = "count" /\ Load("recent", [req EXCEPT !.total = Len(Others)])

\* Mutant: the oldest images are the ones sent again.
SomeImages(turns) ==
    LET old(i) == Cardinality({j \in 1 .. i - 1 : turns[j].image})
    IN [i \in DOMAIN turns |-> [turns[i] EXCEPT !.image = @ /\ old(i) < MaxImages]]

\* _turn_for: the newest images are sent again, the others are mentioned.
NewestImages(turns) ==
    LET later(i) == Cardinality({j \in i + 1 .. Len(turns) : turns[j].image})
    IN [i \in DOMAIN turns |-> [turns[i] EXCEPT !.image = @ /\ later(i) < MaxImages]]

LastOf(s, n) == SubSeq(s, Max({1, Len(s) - n + 1}), Len(s))

RecentTurns ==
    LET recent == LastOf(Others, MaxRecent)  older == Max({0, req.total - Len(recent)}) IN
    /\ req # None /\ req.pc = "recent"
    /\ Load(IF older > 0 THEN "first" ELSE "plan",
            [req EXCEPT !.turns = NewestImages(recent), !.older = older])

OpeningMessage ==
    /\ req # None /\ req.pc = "first"
    /\ Load("older", [req EXCEPT !.brief =
              IF Users(Others) = <<>> THEN 0 ELSE Min({Brief, Head(Users(Others)).size})])

\* Mutant: as many questions are skipped as turns were loaded.
SkipTurns == Len(req.turns)

Skip == Len(Users(req.turns))

\* The questions before those of the window, as far as the digest looks back.
OlderNotes ==
    LET before == SubSeq(Users(Others), 1, Len(Users(Others)) - Skip) IN
    /\ req # None /\ req.pc = "older"
    /\ Load("plan", [req EXCEPT !.notes = SelectSeq(LastOf(before, MaxOlder), LAMBDA x : ~ IsBlank(x))])

-------------------------------------------------------------------------------
(* fit                                                                     *)

Cost(turn) == turn.size + 1 + IF turn.image THEN ImageTokens ELSE 0
Total(turns) == FoldSeq(LAMBDA t, sum : Cost(t) + sum, 1, turns)
Base(turns) == Total(LastOf(turns, 1))

\* As many of the newest turns as fit, from a question on; the last one in any case.
Fill(turns, limit) ==
    LET n == Len(turns)
        whole == {1} \cup {k \in 1 .. n : Total(LastOf(turns, k)) <= limit}
        from == n - Max(whole) + 1
    IN SubSeq(turns, Min({n} \cup {i \in from .. n : turns[i].user}), n)

\* _notes_block: the first line, the brief, then the notes closest to the turns.
Notes(w, dropped, max) ==
    LET room  == max - Header
        brief == IF room > 1 THEN Min({w.brief, room \div 2}) ELSE 0
        all   == w.notes \o Users(dropped)
        noted == LastOf(all, Max({0, Min({NotesMax, room - brief, Len(all)})}))
    IN [ids |-> Ids(noted), tokens |-> Header + brief + Len(noted)]

\* Mutant: nothing is set aside for the notes.
AsideNothing(base, budget) == 0

Aside(base, budget) == IF budget = Unlimited THEN 0 ELSE Min({Reserve, Max({0, (budget - base) \div 4})})

Fitted(kept, omitted, fits, noted) ==
    [turns |-> kept, omitted |-> omitted, fits |-> fits, noted |-> noted.ids, tokens |-> Total(kept) + noted.tokens]

NoNotes == [ids |-> {}, tokens |-> 0]

Fit(w, budget) ==
    LET turns == w.turns
        fits  == budget = Unlimited \/ Base(turns) <= budget
        limit == IF budget = Unlimited THEN Total(turns) ELSE budget
        aside == Aside(Base(turns), budget)
        all   == Fill(turns, limit)
        kept  == Fill(turns, limit - aside)
        left  == w.older + Len(turns) - Len(kept)
    IN IF ~ fits THEN Fitted(LastOf(turns, 1), w.older + Len(turns) - 1, FALSE, NoNotes)
       ELSE IF w.older = 0 /\ all = turns THEN Fitted(all, 0, TRUE, NoNotes)
       ELSE Fitted(kept, left, TRUE,
                   Notes(w, SubSeq(turns, 1, Len(turns) - Len(kept)), IF aside > 0 THEN aside ELSE Reserve))

-------------------------------------------------------------------------------
(* stream_message: the plan first, then one model after another.           *)

\* validate_context_tokens: what every turn costs besides its text is not counted.
Estimate(fitted) == fitted.tokens - Len(fitted.turns)

End(what) == req' = None /\ sent' = what /\ acts' = 0 /\ changed' = FALSE /\ newer' = FALSE

Outcome(kind, fitted, budget) ==
    [kind |-> kind, fitted |-> fitted, budget |-> budget, base |-> Base(req.turns)]

\* No turn at all: an edit has discarded the question meanwhile.
CheckPlan(plan) ==
    /\ req # None /\ req.pc = "plan" /\ UNCHANGED <<msgs, asks>>
    /\ IF req.turns = <<>> THEN End(None)
       ELSE IF plan # Unlimited /\ Estimate(Fit(req, plan)) > plan
         THEN End(Outcome("refused", Fit(req, plan), plan))
         ELSE req' = [req EXCEPT !.pc = "models", !.plan = plan] /\ UNCHANGED <<sent, acts, changed, newer>>

\* The next model is tried at first, and when a model failed before it said anything.
TryModel(window) ==
    LET budget == Min({window, req.plan})  fitted == Fit(req, budget) IN
    /\ req # None /\ req.pc \in {"models", "asked"} /\ req.tried < Candidates
    /\ UNCHANGED <<msgs, asks>>
    /\ IF fitted.fits
         THEN /\ req' = [req EXCEPT !.pc = "asked", !.tried = @ + 1]
              /\ sent' = Outcome("asked", fitted, budget) /\ UNCHANGED <<acts, changed, newer>>
         ELSE IF req.tried + 1 = Candidates THEN End(Outcome("too large", fitted, budget))
         ELSE req' = [req EXCEPT !.pc = "models", !.tried = @ + 1] /\ sent' = None
              /\ UNCHANGED <<acts, changed, newer>>

\* The reply is saved; it may be blank, after a disconnect.
Finish(size) ==
    /\ req # None /\ req.pc = "asked" /\ End(None)
    /\ msgs' = [i \in DOMAIN msgs |-> IF msgs[i].id = req.reply THEN [msgs[i] EXCEPT !.size = size] ELSE msgs[i]]
    /\ UNCHANGED asks

Next ==
    \/ \E s \in Sizes, image \in BOOLEAN : Ask(s, image)
    \/ \E i \in DOMAIN msgs :
         \/ Open(i) \/ Regenerate(i) \/ \E s \in Sizes : Edit(i, s) \/ Answer(i, s)
    \/ CountTurns \/ RecentTurns \/ OpeningMessage \/ OlderNotes
    \/ \E p \in Plans : CheckPlan(p)
    \/ \E m \in Models : TryModel(m)
    \/ \E s \in Sizes : Finish(s)

Spec == Init /\ [][Next]_vars

-------------------------------------------------------------------------------
(* Properties, of what the last request sent.                              *)

Sent == sent # None /\ sent.kind = "asked"
Kept == sent.fitted.turns

\* There was room for the notes' first line beside the current message.
RoomForNotes == (sent.budget - sent.base) \div 4 >= Header

\* What is said to fit is within the budget; and a request is refused, by the plan or by the
\* last model, only when the current message alone is beyond it.  Both unless no room was
\* left for the notes, which are then sent all the same.
WithinBudget ==
    /\ Sent => sent.fitted.tokens <= sent.budget \/ ~ RoomForNotes
    /\ sent # None /\ sent.kind = "refused" => sent.base > sent.budget \/ ~ RoomForNotes
    /\ sent # None /\ sent.kind = "too large" => sent.base > sent.budget

\* The last turn sent is the question of this reply, unless it is not the last reply of the
\* conversation; and the first one is a question.
AnswersItsQuestion ==
    Sent => /\ ~ newer => Last(Kept).id = req.reply - 1
            /\ Head(Kept).user \/ Len(Kept) = 1

\* Nothing is left out silently: the turns sent have no gap, those left out are counted, and
\* the questions noted are the closest before them, none of them sent as a turn too.
NothingDroppedSilently ==
    Sent /\ ~ changed =>
      LET others == Ids(Others) IN
      /\ \A i \in others : i >= Head(Kept).id => i \in Ids(Kept)
      /\ sent.fitted.omitted = Cardinality(others \ Ids(Kept))
      /\ sent.fitted.noted \cap Ids(Kept) = {}
      /\ \A i \in DOMAIN msgs :
           /\ msgs[i].user /\ ~ IsBlank(msgs[i]) /\ msgs[i].id \notin Ids(Kept)
           /\ \E n \in sent.fitted.noted : n < msgs[i].id
           => msgs[i].id \in sent.fitted.noted

\* No more images than allowed, and of those sent none is older than one left out.
NewestImagesSent ==
    Sent => LET w == req.turns IN
      /\ Cardinality({i \in DOMAIN w : w[i].image}) <= MaxImages
      /\ ~ changed => \A i, j \in DOMAIN w :
           i < j /\ w[i].image => \A k \in DOMAIN msgs : msgs[k].id = w[j].id => msgs[k].image = w[j].image
===============================================================================
