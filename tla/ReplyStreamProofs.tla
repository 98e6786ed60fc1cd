--------------------------- MODULE ReplyStreamProofs ---------------------------
(***************************************************************************)
(* The reply streams for every number of turns, connections, candidates,   *)
(* asks and kills, and for calls and claims of any length.                 *)
(***************************************************************************)
EXTENDS ReplyStream, TLAPS

LEMMA Numbers ==
    /\ Candidates \in Nat /\ Candidates > 0 /\ CallTime \in Nat /\ CallTime > 0
    /\ StaleTime \in Nat /\ MaxAsks \in Nat /\ MaxAsks > 0
BY ReplyStreamAssumption

LEMMA Product ==
    ASSUME NEW a \in Nat, NEW b \in Nat, NEW k \in Nat, a <= b
    PROVE  a * k <= b * k
OBVIOUS

LEMMA CallsBound == Candidates * CallTime \in Nat
BY Numbers

LEMMA Bounds ==
    /\ 0 \in 0 .. Candidates /\ 1 \in 0 .. Candidates /\ 0 \in 0 .. CallTime
    /\ 0 \in 0 .. StaleTime + 1 /\ 0 \in 0 .. MaxAsks /\ 1 \in 0 .. MaxAsks
    /\ 0 \in 0 .. Candidates * CallTime
<1>1. 0 \in 0 .. Candidates * CallTime
  BY CallsBound
<1>2. QED
  BY <1>1, Numbers

LEMMA Rows == NoRow \in Row /\ Pending \in Row /\ ~NoRow.exists
BY Bounds DEF NoRow, Row, Pending

LEMMA OlderIsRow == \A r \in Row : Older(r) \in Row /\ Older(r).exists = r.exists
<1> SUFFICES ASSUME NEW r \in Row PROVE Older(r) \in Row /\ Older(r).exists = r.exists
  OBVIOUS
<1>1. r.age \in 0 .. StaleTime + 1
  BY DEF Row
<1>2. (IF r.generating /\ r.age <= StaleTime THEN r.age + 1 ELSE r.age) \in 0 .. StaleTime + 1
  BY <1>1, Numbers
<1>3. QED
  BY <1>2 DEF Older, Row

-------------------------------------------------------------------------------
\* A connection that is open has a turn, whose reply was asked for; a turn nobody
\* has written yet has no row and has shown nothing.
ConnAsked   == \A c \in Conn : conn[c].pc # "idle" => conn[c].turn \in Turn /\ asks[conn[c].turn] > 0
NotAskedYet == \A t \in Turn : asks[t] = 0 => ~reply[t].exists /\ t \notin shown

\* A claim is held through one call after the other.
InTime(k) ==
    IF k.pc = "calling"
      THEN k.attempt > 0 /\ k.held <= (k.attempt - 1) * CallTime + k.elapsed
      ELSE k.held = 0

HeldInTime == \A c \in Conn : InTime(conn[c])

Typed == TypeOK /\ ConnAsked /\ NotAskedYet /\ HeldInTime

LEMMA ClosedIsConnection == Closed \in Connection /\ Closed.pc = "idle" /\ InTime(Closed)
BY Bounds, Rows DEF Closed, Connection, InTime

\* What a step of a connection can change at most: itself, its row, and what is known
\* of its turn.
RowTouched(c) ==
    /\ reply' \in [Turn -> Row]
    /\ \A t \in Turn \ {conn[c].turn} : reply'[t] = reply[t]

HistoryTouched(c) ==
    /\ shown' \subseteq shown \cup {conn[c].turn}
    /\ \A t \in shown : t # conn[c].turn => t \in shown'
    /\ left' \in {left, left \cup {conn[c].turn}} /\ crossed' \subseteq Conn
    /\ UNCHANGED <<turns, discarded, asks>>

Touches(c) ==
    /\ conn[c].pc # "idle" /\ RowTouched(c) /\ HistoryTouched(c)
    /\ conn' \in [Conn -> Connection] /\ InTime(conn'[c])
    /\ conn'[c].pc = "idle" \/ conn'[c].turn = conn[c].turn
    /\ \A d \in Conn \ {c} : conn'[d] = conn[d]

LEMMA TouchesKeepsTyped ==
    ASSUME Typed, NEW c \in Conn, Touches(c)
    PROVE  Typed'
<1> USE DEF RowTouched, HistoryTouched
<1>1. conn[c].turn \in Turn /\ asks[conn[c].turn] > 0
  BY DEF Typed, ConnAsked, Touches
<1>2. TypeOK'
  BY <1>1 DEF Typed, TypeOK, Touches
<1>3. ConnAsked'
  BY <1>1 DEF Typed, ConnAsked, Touches
<1>4. NotAskedYet'
  BY <1>1 DEF Typed, NotAskedYet, Touches
<1>5. HeldInTime'
  BY DEF Typed, HeldInTime, InTime, Touches
<1>6. QED
  BY <1>2, <1>3, <1>4, <1>5 DEF Typed

LEMMA ConnTouches ==
    ASSUME Typed, NEW c \in Conn, conn[c].pc # "idle", RowTouched(c), HistoryTouched(c),
           NEW k \in Connection, conn' = [conn EXCEPT ![c] = k], InTime(k),
           k.pc = "idle" \/ k.turn = conn[c].turn
    PROVE  Touches(c) /\ conn'[c] = k
<1>1. conn' \in [Conn -> Connection] /\ conn'[c] = k /\ \A d \in Conn \ {c} : conn'[d] = conn[d]
  BY DEF Typed, TypeOK
<1>2. QED
  BY <1>1 DEF Touches

\* The three ways to go on: to close, to the finally block, and one statement further.
LEMMA ClosesTouch ==
    ASSUME Typed, NEW c \in Conn, conn[c].pc # "idle", RowTouched(c), HistoryTouched(c), Close(c)
    PROVE  Touches(c) /\ conn'[c] = Closed
BY ConnTouches, ClosedIsConnection DEF Close

LEMMA FinallyTouches ==
    ASSUME Typed, NEW c \in Conn, conn[c].pc # "idle", RowTouched(c), HistoryTouched(c), ToFinally(c)
    PROVE  Touches(c) /\ conn'[c].pc = "release" /\ conn'[c].text = conn[c].text
<1> DEFINE k == [Closed EXCEPT !.pc = "release", !.turn = conn[c].turn, !.text = conn[c].text]
<1>1. conn[c] \in Connection
  BY DEF Typed, TypeOK
<1>2. k \in Connection /\ k.pc = "release" /\ k.turn = conn[c].turn /\ k.text = conn[c].text /\ InTime(k)
  BY <1>1, ClosedIsConnection, Bounds, Rows DEF Connection, InTime, Closed
<1>3. conn' = [conn EXCEPT ![c] = k]
  BY DEF ToFinally
<1> HIDE DEF k
<1>4. QED
  BY <1>2, <1>3, ConnTouches

LEMMA GoesOnTouches ==
    ASSUME Typed, NEW c \in Conn, conn[c].pc \in {"loaded", "release"}, RowTouched(c), HistoryTouched(c),
           NEW pc \in {"claimed", "release2"}, conn' = [conn EXCEPT ![c].pc = pc]
    PROVE  Touches(c) /\ conn'[c] = [conn[c] EXCEPT !.pc = pc] /\ conn'[c].pc = pc
<1> DEFINE k == [conn[c] EXCEPT !.pc = pc]
<1>1. conn[c] \in Connection /\ conn[c].held = 0
  BY DEF Typed, TypeOK, HeldInTime, InTime
<1>2. k \in Connection /\ k.pc = pc /\ k.turn = conn[c].turn /\ InTime(k)
  BY <1>1 DEF Connection, InTime
<1>3. conn' = [conn EXCEPT ![c] = k]
  BY DEF Typed, TypeOK
<1> HIDE DEF k
<1>4. Touches(c) /\ conn'[c] = k
  BY <1>2, <1>3, ConnTouches
<1>5. QED
  BY <1>2, <1>4 DEF k

\* For the history of a step that may leave its reply blank.
LEMMA NoteTouches ==
    ASSUME Typed, NEW c \in Conn, NEW over \in {{}, {c}}, NoteBlank(c, over), UNCHANGED turns
    PROVE  HistoryTouched(c)
<1>1. Others(c) \subseteq Conn /\ crossed \subseteq Conn
  BY DEF Others, Typed, TypeOK
<1>2. QED
  BY <1>1 DEF NoteBlank, HistoryTouched

-------------------------------------------------------------------------------
Step(c) == ConnStep(c) \/ Fault(c) \/ Disconnect(c) \/ Kill(c)

\* What each step of a connection does to it, beside Touches.
LEMMA ClaimTouches ==
    ASSUME Typed, NEW c \in Conn, Claim(c)
    PROVE  /\ Touches(c) /\ conn[c].pc = "loaded" /\ UNCHANGED <<turns, history>>
           /\ \/ /\ Claimable(reply[conn[c].turn]) /\ conn'[c] = [conn[c] EXCEPT !.pc = "claimed"]
                 /\ conn'[c].pc = "claimed" /\ reply'[conn[c].turn].generating /\ reply'[conn[c].turn].age = 0
              \/ ~Claimable(reply[conn[c].turn]) /\ conn'[c] = Closed /\ reply' = reply
<1> DEFINE t == conn[c].turn
<1>1. conn[c].pc = "loaded" /\ t \in Turn /\ UNCHANGED <<turns, history>>
  BY DEF Claim, Typed, ConnAsked
<1>2. HistoryTouched(c)
  BY <1>1 DEF HistoryTouched, history, Typed, TypeOK
<1>3. CASE Claimable(reply[t])
  <2>1. reply[t] \in Row
    BY <1>1 DEF Typed, TypeOK
  <2>2. [reply[t] EXCEPT !.generating = TRUE, !.age = 0] \in Row
    BY <2>1, Bounds DEF Row
  <2>3. reply' = [reply EXCEPT ![t] = [reply[t] EXCEPT !.generating = TRUE, !.age = 0]]
    BY <1>1, <1>3 DEF Claim, Typed, TypeOK
  <2>4. RowTouched(c) /\ reply'[t].generating /\ reply'[t].age = 0
    BY <1>1, <2>1, <2>2, <2>3 DEF Typed, TypeOK, RowTouched, Row
  <2>5. conn' = [conn EXCEPT ![c].pc = "claimed"]
    BY <1>3 DEF Claim
  <2>6. QED
    BY <1>1, <1>2, <1>3, <2>4, <2>5, GoesOnTouches
<1>4. CASE ~Claimable(reply[t])
  <2>1. RowTouched(c) /\ Close(c) /\ reply' = reply
    BY <1>4 DEF Claim, RowTouched, Typed, TypeOK
  <2>2. QED
    BY <1>1, <1>2, <1>4, <2>1, ClosesTouch
<1>5. QED
  BY <1>3, <1>4

LEMMA CallTouches ==
    ASSUME Typed, NEW c \in Conn, Prepare(c) \/ ReceiveText(c) \/ TryNextCandidate(c)
    PROVE  /\ Touches(c) /\ reply' = reply /\ left' = left /\ crossed' = crossed
           /\ conn[c].pc \in {"claimed", "calling"} /\ conn'[c].pc = "calling" /\ conn'[c].held = conn[c].held
           /\ shown' = shown \/ (shown' = shown \cup {conn[c].turn} /\ conn[c].pc = "calling" /\ c \notin crossed)
<1> DEFINE k == IF Prepare(c) THEN [conn[c] EXCEPT !.pc = "calling", !.attempt = 1]
                ELSE IF ReceiveText(c) THEN [conn[c] EXCEPT !.text = "text"]
                ELSE [conn[c] EXCEPT !.attempt = @ + 1, !.elapsed = 0]
<1>1. conn[c] \in Connection /\ InTime(conn[c])
  BY DEF Typed, TypeOK, HeldInTime
<1>2. /\ reply' = reply /\ left' = left /\ crossed' = crossed /\ UNCHANGED <<turns, discarded, asks>>
      /\ conn[c].pc \in {"claimed", "calling"}
      /\ shown' = shown \/ (shown' = shown \cup {conn[c].turn} /\ conn[c].pc = "calling" /\ c \notin crossed)
  BY DEF Prepare, ReceiveText, TryNextCandidate, history
<1>3. RowTouched(c) /\ HistoryTouched(c) /\ conn[c].pc # "idle"
  BY <1>2 DEF RowTouched, HistoryTouched, Typed, TypeOK
<1>4. conn[c].attempt \in 0 .. Candidates /\ conn[c].elapsed \in 0 .. CallTime
        /\ conn[c].held \in 0 .. Candidates * CallTime
  BY <1>1 DEF Connection
<1>5. conn' = [conn EXCEPT ![c] = k] /\ k \in Connection /\ k.pc = "calling" /\ k.turn = conn[c].turn
        /\ k.held = conn[c].held /\ InTime(k)
  <2>1. CASE Prepare(c)
    <3>1. k = [conn[c] EXCEPT !.pc = "calling", !.attempt = 1] /\ conn[c].held = 0
      BY <1>1, <2>1 DEF Prepare, InTime
    <3>2. conn' = [conn EXCEPT ![c] = k] /\ k \in Connection /\ k.pc = "calling" /\ k.turn = conn[c].turn
            /\ k.held = 0 /\ k.attempt = 1 /\ k.elapsed = conn[c].elapsed
      BY <1>1, <2>1, <3>1, Bounds DEF Prepare, Connection, Typed, TypeOK
    <3>3. (1 - 1) * CallTime = 0
      BY Numbers
    <3>4. InTime(k)
      BY <1>4, <3>2, <3>3, Numbers DEF InTime
    <3>5. QED
      BY <3>1, <3>2, <3>4
  <2>2. CASE ~Prepare(c) /\ ReceiveText(c)
    <3>1. k = [conn[c] EXCEPT !.text = "text"] /\ conn[c].pc = "calling"
      BY <2>2 DEF ReceiveText
    <3>2. QED
      BY <1>1, <2>2, <3>1 DEF ReceiveText, Connection, InTime, Typed, TypeOK
  <2>3. CASE ~Prepare(c) /\ ~ReceiveText(c)
    <3>1. k = [conn[c] EXCEPT !.attempt = @ + 1, !.elapsed = 0] /\ conn[c].pc = "calling"
            /\ conn[c].attempt < Candidates /\ conn' = [conn EXCEPT ![c] = k]
      BY <2>3 DEF TryNextCandidate, Typed, TypeOK
    <3>2. conn[c].attempt + 1 \in 0 .. Candidates
      BY <1>4, <3>1, Numbers
    <3>3. k \in Connection /\ k.pc = "calling" /\ k.turn = conn[c].turn /\ k.held = conn[c].held
            /\ k.attempt = conn[c].attempt + 1 /\ k.elapsed = 0
      BY <1>1, <3>1, <3>2, Bounds DEF Connection
    <3>4. conn[c].attempt > 0 /\ conn[c].held <= (conn[c].attempt - 1) * CallTime + conn[c].elapsed
      BY <1>1, <3>1 DEF InTime
    <3>5. conn[c].held <= (conn[c].attempt + 1 - 1) * CallTime + 0
      <4>1. (conn[c].attempt + 1 - 1) * CallTime = (conn[c].attempt - 1) * CallTime + CallTime
        BY <1>4, Numbers
      <4>2. (conn[c].attempt - 1) * CallTime \in Int
        BY <1>4, Numbers
      <4>3. conn[c].held \in Int
        BY <1>4, CallsBound
      <4>4. QED
        BY <1>4, <3>4, <4>1, <4>2, <4>3, Numbers
    <3>6. InTime(k)
      BY <1>4, <3>3, <3>4, <3>5, Numbers DEF InTime
    <3>7. QED
      BY <3>1, <3>3, <3>6
  <2>4. QED
    BY <2>1, <2>2, <2>3
<1> HIDE DEF k
<1>6. Touches(c) /\ conn'[c] = k
  BY <1>3, <1>5, ConnTouches
<1>7. QED
  BY <1>2, <1>5, <1>6

\* The saves end the calls; what they leave blank is what LeavesBlank notes.
LEMMA SaveTouches ==
    ASSUME Typed, NEW c \in Conn, NEW t \in Turn, t = conn[c].turn, Refuse(c) \/ ServeFromCache(c) \/ GiveUp(c) \/ FinishReply(c)
    PROVE  /\ Touches(c) /\ conn[c].pc = "calling" /\ conn'[c].pc = "release"
           /\ \/ ~Unanswered(t)' /\ UNCHANGED <<shown, crossed>>
              \/ NoteBlank(c, {}) /\ (Unanswered(t)' => conn[c].text = "")
           /\ left' = left
<1>1. conn[c].pc = "calling" /\ turns' = turns /\ left' = left /\ UNCHANGED <<turns, discarded, asks>>
  BY DEF Refuse, ServeFromCache, GiveUp, FinishReply, Starting, NoteBlank, history
<1>2. reply[t] \in Row /\ conn[c] \in Connection /\ conn[c].seen \in Row
        /\ conn[c].text \in {"", "text"}
  BY <1>1 DEF Typed, TypeOK, ConnAsked, Connection
<1>3. PICK text \in {"", "text", "problem"} :
        /\ SaveContent(c, text) \/ SaveWholeRow(c, text)
        /\ \/ text # "" /\ UNCHANGED <<shown, crossed>>
           \/ text = conn[c].text /\ NoteBlank(c, {})
  <2>1. CASE Refuse(c)
    BY <2>1 DEF Refuse, history
  <2>2. CASE ServeFromCache(c)
    BY <2>2 DEF ServeFromCache, history
  <2>3. CASE GiveUp(c)
    BY <2>3 DEF GiveUp, history
  <2>4. CASE FinishReply(c)
    BY <1>2, <2>4 DEF FinishReply
  <2>5. QED
    BY <2>1, <2>2, <2>3, <2>4
<1>4. RowTouched(c) /\ (text # "" => ~Unanswered(t)')
  <2>1. CASE SaveContent(c, text)
    <3>1. reply' = [reply EXCEPT ![t] = [reply[t] EXCEPT !.content = IF reply[t].exists THEN text ELSE @]]
      BY <1>2, <2>1 DEF SaveContent, Typed, TypeOK
    <3>2. [reply[t] EXCEPT !.content = IF reply[t].exists THEN text ELSE @] \in Row
      BY <1>2 DEF Row
    <3>3. QED
      BY <1>2, <3>1, <3>2 DEF RowTouched, Unanswered, Typed, TypeOK, Row
  <2>2. CASE SaveWholeRow(c, text)
    <3>1. reply' = [reply EXCEPT ![t] = [conn[c].seen EXCEPT !.content = text]]
      BY <2>2 DEF SaveWholeRow
    <3>2. [conn[c].seen EXCEPT !.content = text] \in Row
      BY <1>2 DEF Row
    <3>3. QED
      BY <1>2, <3>1, <3>2 DEF RowTouched, Unanswered, Typed, TypeOK, Row
  <2>3. QED
    BY <1>3, <2>1, <2>2
<1>5. HistoryTouched(c)
  <2>1. CASE NoteBlank(c, {})
    BY <1>1, <2>1, NoteTouches
  <2>2. CASE UNCHANGED <<shown, crossed>>
    BY <1>1, <2>2 DEF HistoryTouched, Typed, TypeOK
  <2>3. QED
    BY <1>3, <2>1, <2>2
<1>6. ToFinally(c)
  BY <1>3 DEF SaveContent, SaveWholeRow
<1>7. QED
  BY <1>1, <1>3, <1>4, <1>5, <1>6, FinallyTouches

LEMMA ReleaseBlankTouches ==
    ASSUME Typed, NEW c \in Conn, NEW t \in Turn, t = conn[c].turn, ReleaseBlank(c)
    PROVE  /\ Touches(c) /\ conn[c].pc = "release" /\ conn'[c].pc = "release2" /\ left' = left
           /\ NoteBlank(c, {})
           /\ Unanswered(t)' => Unanswered(t)
           /\ Unanswered(t)' /\ conn[c].text # "" => ~reply[t].generating
<1>1. conn[c].pc = "release" /\ turns' = turns /\ left' = left /\ NoteBlank(c, {})
  BY DEF ReleaseBlank, NoteBlank
<1>2. reply[t] \in Row /\ conn[c].text \in {"", "text"}
  BY <1>1 DEF Typed, TypeOK, ConnAsked, Connection
<1>3. [Pending EXCEPT !.content = conn[c].text] \in Row
  BY <1>2, Rows DEF Row
<1>4. reply'[t] = IF Unanswered(t) /\ reply[t].generating
                    THEN [Pending EXCEPT !.content = conn[c].text] ELSE reply[t]
  BY <1>2 DEF ReleaseBlank, Typed, TypeOK, Unanswered
<1>5. RowTouched(c)
  BY <1>2, <1>3 DEF ReleaseBlank, RowTouched, Typed, TypeOK
<1>6. conn' = [conn EXCEPT ![c].pc = "release2"]
  BY DEF ReleaseBlank
<1>7. Touches(c) /\ conn'[c].pc = "release2"
  BY <1>1, <1>5, <1>6, NoteTouches, GoesOnTouches
<1>8. [Pending EXCEPT !.content = conn[c].text].content = conn[c].text
  BY Rows DEF Row
<1>9. QED
  BY <1>1, <1>4, <1>7, <1>8 DEF Unanswered

LEMMA ReleaseClaimTouches ==
    ASSUME Typed, NEW c \in Conn, NEW t \in Turn, t = conn[c].turn, ReleaseClaim(c)
    PROVE  /\ Touches(c) /\ conn[c].pc = "release2" /\ conn'[c].pc = "idle" /\ left' = left
           /\ NoteBlank(c, {c}) /\ ~reply'[t].generating
           /\ Unanswered(t)' => Unanswered(t)
<1>1. conn[c].pc = "release2" /\ turns' = turns /\ left' = left /\ NoteBlank(c, {c}) /\ Close(c)
  BY DEF ReleaseClaim, NoteBlank
<1>2. reply[t] \in Row
  BY <1>1 DEF Typed, TypeOK, ConnAsked
<1>3. reply' = [reply EXCEPT ![t] = [reply[t] EXCEPT !.generating = FALSE, !.age = 0]]
  BY <1>2 DEF ReleaseClaim, Typed, TypeOK
<1>4. [reply[t] EXCEPT !.generating = FALSE, !.age = 0] \in Row
  BY <1>2, Bounds DEF Row
<1>5. RowTouched(c) /\ ~reply'[t].generating /\ (Unanswered(t)' => Unanswered(t))
  BY <1>2, <1>3, <1>4 DEF RowTouched, Unanswered, Typed, TypeOK, Row
<1>6. Touches(c) /\ conn'[c] = Closed
  BY <1>1, <1>5, NoteTouches, ClosesTouch
<1>7. QED
  BY <1>1, <1>5, <1>6, ClosedIsConnection

LEMMA StopTouches ==
    ASSUME Typed, NEW c \in Conn, Fault(c) \/ Disconnect(c) \/ Kill(c)
    PROVE  /\ Touches(c) /\ reply' = reply /\ shown' = shown /\ conn[c].pc \notin {"idle", "loaded"}
           /\ \/ conn[c].pc = "calling" /\ conn'[c].pc = "release" /\ UNCHANGED <<left, crossed>>
              \/ conn'[c].pc = "idle" /\ left' = left \cup {conn[c].turn} /\ crossed' = crossed \ {c}
<1>1. /\ reply' = reply /\ shown' = shown /\ conn[c].pc \notin {"idle", "loaded"}
      /\ \/ conn[c].pc = "calling" /\ ToFinally(c) /\ UNCHANGED <<left, crossed>>
         \/ Close(c) /\ left' = left \cup {conn[c].turn} /\ crossed' = crossed \ {c}
      /\ UNCHANGED <<turns, discarded, asks>>
  BY DEF Fault, Disconnect, Kill, Starting, history
<1>2. RowTouched(c) /\ HistoryTouched(c) /\ conn[c].pc # "idle"
  BY <1>1 DEF RowTouched, HistoryTouched, Typed, TypeOK
<1>3. QED
  BY <1>1, <1>2, FinallyTouches, ClosesTouch, ClosedIsConnection

LEMMA StepTouches ==
    ASSUME Typed, NEW c \in Conn, Step(c)
    PROVE  Touches(c)
<1>1. conn[c].pc # "idle" => conn[c].turn \in Turn
  BY DEF Typed, ConnAsked
<1>2. conn[c].pc # "idle"
  BY DEF Step, ConnStep, Claim, Prepare, Refuse, ServeFromCache, ReceiveText, TryNextCandidate, GiveUp,
         FinishReply, ReleaseBlank, ReleaseClaim, Fault, Disconnect, Kill, Starting
<1>3. QED
  BY <1>1, <1>2, ClaimTouches, CallTouches, SaveTouches, ReleaseBlankTouches, ReleaseClaimTouches, StopTouches
     DEF Step, ConnStep

LEMMA TypedInit == Init => Typed
BY Bounds, Rows, ClosedIsConnection DEF Init, Typed, TypeOK, ConnAsked, NotAskedYet, HeldInTime

\* While time passes every connection at work is within one of its calls.
LEMMA TickedConn ==
    ASSUME Typed, Tick, NEW c \in Conn
    PROVE  /\ conn'[c] \in Connection /\ InTime(conn'[c])
           /\ conn'[c].pc = conn[c].pc /\ conn'[c].turn = conn[c].turn
           /\ conn[c].pc = "calling" => conn'[c].held = conn[c].held + 1
           /\ conn[c].pc # "calling" => conn'[c].held = conn[c].held
<1>1. conn[c] \in Connection /\ InTime(conn[c]) /\ Older(conn[c].seen) \in Row
  BY OlderIsRow DEF Typed, TypeOK, HeldInTime, Connection
<1>2. conn[c].attempt \in 0 .. Candidates /\ conn[c].elapsed \in 0 .. CallTime
        /\ conn[c].held \in 0 .. Candidates * CallTime /\ conn[c].elapsed < CallTime
  BY <1>1 DEF Connection, Tick
<1>3. CASE conn[c].pc = "calling"
  <2>1. conn'[c] = [conn[c] EXCEPT !.seen = Older(@), !.elapsed = @ + 1, !.held = @ + 1]
    BY <1>3 DEF Tick
  <2>2. conn[c].attempt > 0 /\ conn[c].held <= (conn[c].attempt - 1) * CallTime + conn[c].elapsed
    BY <1>1, <1>3 DEF InTime
  <2>3. (conn[c].attempt - 1) * CallTime \in Int /\ conn[c].held \in Nat
          /\ (conn[c].attempt - 1) * CallTime + CallTime = conn[c].attempt * CallTime
    BY <1>2, CallsBound, Numbers
  <2>4. conn[c].held + 1 <= (conn[c].attempt - 1) * CallTime + (conn[c].elapsed + 1)
    BY <1>2, <2>2, <2>3, Numbers
  <2>5. conn[c].attempt * CallTime <= Candidates * CallTime
    BY <1>2, Numbers, Product
  <2>6. conn[c].held + 1 \in 0 .. Candidates * CallTime
    <3>1. conn[c].held + 1 <= conn[c].attempt * CallTime /\ conn[c].attempt * CallTime \in Int
      BY <1>2, <2>3, <2>4, Numbers
    <3>2. QED
      BY <2>3, <2>5, <3>1, CallsBound
  <2>7. conn[c].elapsed + 1 \in 0 .. CallTime
    BY <1>2, Numbers
  <2>8. conn'[c] \in Connection /\ conn'[c].pc = conn[c].pc /\ conn'[c].turn = conn[c].turn
          /\ conn'[c].held = conn[c].held + 1 /\ conn'[c].elapsed = conn[c].elapsed + 1
          /\ conn'[c].attempt = conn[c].attempt
    BY <1>1, <2>1, <2>6, <2>7 DEF Connection
  <2>9. InTime(conn'[c])
    BY <1>3, <2>2, <2>4, <2>8 DEF InTime
  <2>10. QED
    BY <1>3, <2>8, <2>9
<1>4. CASE conn[c].pc # "calling"
  <2>1. conn'[c] = [conn[c] EXCEPT !.seen = Older(@)]
    BY <1>4 DEF Tick
  <2>2. QED
    BY <1>1, <1>4, <2>1 DEF Connection, InTime
<1>5. QED
  BY <1>3, <1>4

LEMMA TypedKept == Typed /\ [Next]_vars => Typed'
<1> SUFFICES ASSUME Typed, [Next]_vars PROVE Typed'
  OBVIOUS
<1> USE DEF Typed
<1>1. ASSUME NEW t \in Turn, PostMessage(t) PROVE Typed'
  BY <1>1, Rows, Bounds DEF PostMessage, TypeOK, ConnAsked, NotAskedYet, HeldInTime
<1>2. ASSUME NEW u \in Turn, NEW t \in Turn, EditMessage(u, t) PROVE Typed'
  <2>1. TypeOK'
    BY <1>2, Rows, Bounds DEF EditMessage, TypeOK
  <2>2. ConnAsked' /\ NotAskedYet' /\ HeldInTime'
    BY <1>2, Rows DEF EditMessage, TypeOK, ConnAsked, NotAskedYet, HeldInTime
  <2>3. QED
    BY <2>1, <2>2
<1>3. ASSUME NEW t \in Turn, RegenerateMessage(t) PROVE Typed'
  <2>1. reply' \in [Turn -> Row]
    BY <1>3 DEF RegenerateMessage, TypeOK, Row
  <2>2. asks[t] \in Nat /\ asks[t] + 1 \in 0 .. MaxAsks
    <3>1. asks[t] \in 0 .. MaxAsks /\ asks[t] < MaxAsks
      BY <1>3 DEF RegenerateMessage, TypeOK
    <3>2. QED
      BY <3>1, Numbers
  <2>3. TypeOK'
    BY <1>3, <2>1, <2>2 DEF RegenerateMessage, TypeOK
  <2>4. \A u \in Turn : asks'[u] = IF u = t THEN asks[t] + 1 ELSE asks[u]
    BY <1>3 DEF RegenerateMessage, TypeOK
  <2>5. \A u \in Turn : (asks'[u] = 0 => asks[u] = 0) /\ (asks[u] > 0 => asks'[u] > 0)
    BY <2>2, <2>4
  <2>6. \A u \in Turn : reply'[u].exists = reply[u].exists
    BY <1>3 DEF RegenerateMessage, TypeOK, Row
  <2>7. QED
    BY <1>3, <2>3, <2>5, <2>6 DEF RegenerateMessage, ConnAsked, NotAskedYet, HeldInTime
<1>4. ASSUME NEW c \in Conn, NEW t \in Turn, OpenStream(c, t) PROVE Typed'
  <2>1. [Closed EXCEPT !.pc = "loaded", !.turn = t, !.seen = reply[t]] \in Connection
          /\ InTime([Closed EXCEPT !.pc = "loaded", !.turn = t, !.seen = reply[t]])
    BY ClosedIsConnection DEF TypeOK, Connection, InTime, Closed
  <2>2. asks[t] > 0
    <3>1. asks[t] \in 0 .. MaxAsks /\ asks[t] # 0
      BY <1>4 DEF OpenStream, NotAskedYet, TypeOK, Unanswered
    <3>2. QED
      BY <3>1, Numbers
  <2>3. conn'[c] = [Closed EXCEPT !.pc = "loaded", !.turn = t, !.seen = reply[t]]
          /\ conn'[c].turn = t /\ \A d \in Conn \ {c} : conn'[d] = conn[d]
    BY <1>4, <2>1 DEF OpenStream, TypeOK, Connection
  <2>4. TypeOK' /\ ConnAsked' /\ NotAskedYet'
    BY <1>4, <2>1, <2>2, <2>3 DEF OpenStream, TypeOK, ConnAsked, NotAskedYet, history
  <2>5. HeldInTime'
    BY <2>1, <2>3 DEF HeldInTime
  <2>6. QED
    BY <2>4, <2>5
<1>5. ASSUME NEW c \in Conn, Step(c) PROVE Typed'
  BY <1>5, StepTouches, TouchesKeepsTyped
<1>6. CASE Tick
  <2>1. reply' \in [Turn -> Row] /\ \A t \in Turn : reply'[t].exists = reply[t].exists
    BY <1>6, OlderIsRow DEF Tick, TypeOK
  <2>2. \A c \in Conn : conn'[c] \in Connection /\ InTime(conn'[c])
                          /\ conn'[c].pc = conn[c].pc /\ conn'[c].turn = conn[c].turn
    BY <1>6, TickedConn
  <2>3. conn' \in [Conn -> Connection]
    <3>1. DOMAIN conn' = Conn /\ conn' = [c \in Conn |-> conn'[c]]
      BY <1>6 DEF Tick
    <3>2. QED
      BY <2>2, <3>1
  <2>4. UNCHANGED <<turns, discarded, asks, shown, left, crossed>>
    BY <1>6 DEF Tick, history
  <2>5. QED
    BY <2>1, <2>2, <2>3, <2>4 DEF TypeOK, ConnAsked, NotAskedYet, HeldInTime
<1>7. CASE UNCHANGED vars
  BY <1>7 DEF vars, history, TypeOK, ConnAsked, NotAskedYet, HeldInTime
<1>8. QED
  BY <1>1, <1>2, <1>3, <1>4, <1>5, <1>6, <1>7 DEF Next, Step

-------------------------------------------------------------------------------
\* The parts of a step that are no connection's: nobody starts, stops or resumes work.
Elsewhere == \A c \in Conn : conn'[c].turn = conn[c].turn /\ conn'[c].pc = conn[c].pc

\* A row that is claimed once the claim's connection has gone was left behind by a
\* killed worker or by a fault before the stream; it needs no other strengthening.
LEMMA ClaimKept ==
    ASSUME Typed, NotLeftClaimed, [Next]_vars
    PROVE  NotLeftClaimed'
<1>1. ASSUME NEW c \in Conn, Step(c) PROVE NotLeftClaimed'
  <2>0. Touches(c)
    BY <1>1, StepTouches
  <2>1. PICK t \in Turn : t = conn[c].turn
    BY <2>0 DEF Touches, Typed, ConnAsked
  <2>2. left \subseteq left'
    BY <2>0 DEF Touches, HistoryTouched
  <2>3. \A u \in Turn \ {t}, d \in Conn : Working(d, u) => Working(d, u)'
    BY <2>0, <2>1 DEF Touches, Working
  <2>4. \A u \in Turn \ {t} :
           reply'[u].exists /\ reply'[u].generating /\ u \notin left' => \E d \in Conn : Working(d, u)'
    BY <2>0, <2>1, <2>2, <2>3 DEF Touches, RowTouched, NotLeftClaimed
  <2>5. reply'[t].exists /\ reply'[t].generating /\ t \notin left' => \E d \in Conn : Working(d, t)'
    <3>1. CASE conn'[c].pc \notin {"idle", "loaded"}
      BY <2>0, <2>1, <3>1 DEF Touches, Working
    <3>2. CASE ReleaseClaim(c)
      BY <3>2, <2>1, ReleaseClaimTouches
    <3>3. CASE Claim(c) /\ conn'[c].pc # "claimed"
      <4>1. conn[c].pc = "loaded" /\ UNCHANGED <<reply, left>>
        BY <3>3, ClaimTouches DEF history
      <4>2. \A d \in Conn : Working(d, t) => Working(d, t)'
        BY <4>1, <2>0, <2>1 DEF Touches, Working
      <4>3. QED
        BY <4>1, <4>2, <2>1 DEF NotLeftClaimed
    <3>4. CASE Fault(c) \/ Disconnect(c) \/ Kill(c)
      <4>1. conn'[c].pc = "release" \/ left' = left \cup {t}
        BY <3>4, <2>1, StopTouches
      <4>2. QED
        BY <3>1, <4>1
    <3>5. CASE Refuse(c) \/ ServeFromCache(c) \/ GiveUp(c) \/ FinishReply(c) \/ ReleaseBlank(c)
      BY <2>1, <3>1, <3>5, SaveTouches, ReleaseBlankTouches
    <3>6. CASE Prepare(c) \/ ReceiveText(c) \/ TryNextCandidate(c)
      BY <3>1, <3>6, CallTouches
    <3>7. QED
      BY <1>1, <3>1, <3>2, <3>3, <3>4, <3>5, <3>6 DEF Step, ConnStep
  <2>6. QED
    BY <2>4, <2>5 DEF NotLeftClaimed
<1>2. ASSUME Elsewhere, UNCHANGED left,
             \A t \in Turn : reply'[t].exists /\ reply'[t].generating => reply[t].exists /\ reply[t].generating
      PROVE  NotLeftClaimed'
  BY <1>2 DEF Elsewhere, NotLeftClaimed, Working
<1>3. ASSUME NEW t \in Turn, PostMessage(t) \/ RegenerateMessage(t) \/ \E u \in Turn : EditMessage(u, t)
      PROVE  NotLeftClaimed'
  <2>1. Elsewhere /\ UNCHANGED left
    BY <1>3 DEF PostMessage, RegenerateMessage, EditMessage, Elsewhere
  <2>2. ~Pending.generating /\ ~NoRow.exists
    BY DEF Pending, NoRow
  <2>3. CASE RegenerateMessage(t)
    <3>1. \A u \in Turn : reply'[u].exists = reply[u].exists /\ reply'[u].generating = reply[u].generating
      BY <2>3 DEF RegenerateMessage, Typed, TypeOK, Row
    <3>2. QED
      BY <1>2, <2>1, <3>1
  <2>4. CASE PostMessage(t) \/ \E u \in Turn : EditMessage(u, t)
    BY <1>2, <2>1, <2>2, <2>4 DEF PostMessage, EditMessage, Typed, TypeOK
  <2>5. QED
    BY <1>3, <2>3, <2>4
<1>4. ASSUME NEW c \in Conn, NEW t \in Turn, OpenStream(c, t) PROVE NotLeftClaimed'
  <2>1. \A d \in Conn, u \in Turn : Working(d, u) => Working(d, u)'
    BY <1>4 DEF OpenStream, Working, Typed, TypeOK
  <2>2. QED
    BY <1>4, <2>1 DEF OpenStream, history, NotLeftClaimed
<1>5. CASE Tick
  <2>1. Elsewhere
    BY <1>5, TickedConn DEF Elsewhere
  <2>2. QED
    BY <1>2, <1>5, <2>1 DEF Tick, Older, history, Typed, TypeOK, Row
<1>6. CASE UNCHANGED vars
  BY <1>2, <1>6 DEF vars, history, Elsewhere
<1>7. QED
  BY <1>1, <1>3, <1>4, <1>5, <1>6 DEF Next, Step

\* Every variable keeps its type, whatever users, networks and workers do.
THEOREM StreamTypeCorrect == Spec => []TypeOK
<1>1. Typed => TypeOK
  BY DEF Typed
<1>2. QED
  BY <1>1, TypedInit, TypedKept, PTL DEF Spec

\* A claim outlives the work on its reply only when the worker was killed, or failed
\* before its stream had started: regenerations, edits, faults and cached answers included.
THEOREM ClaimsAreReleased == Spec => []NotLeftClaimed
<1>1. Init => NotLeftClaimed
  BY Rows DEF Init, NotLeftClaimed
<1>2. QED
  BY <1>1, TypedInit, TypedKept, ClaimKept, PTL DEF Spec

-------------------------------------------------------------------------------
\* What the two other properties need.  Whoever works on an unanswered reply and was not
\* crossed still finds it claimed, and the claim, its own or a later one, is no older than
\* its own: so it is stale only for whoever held it longer than StaleTime.
CrossedAtWork == \A c \in crossed : conn[c].pc \notin {"idle", "loaded"}

Holds(c, t) ==
    /\ conn[c].pc # "release2"
    /\ reply[t].generating
    /\ conn[c].pc # "release" => reply[t].age <= conn[c].held

ClaimHeld == \A c \in Conn \ crossed, t \in Turn : Working(c, t) /\ Unanswered(t) => Holds(c, t)

Trusting(c, t) == Working(c, t) /\ conn[c].pc \in {"claimed", "calling"}

ClaimsApart == \A c, d \in Conn \ crossed, t \in Turn :
    Trusting(c, t) /\ Trusting(d, t) /\ c # d => Apart(c, d)

ClaimInv == CrossedAtWork /\ ClaimHeld /\ ClaimsApart /\ ShownIsHeld
StreamInv == Typed /\ ClaimInv

\* A connection that crosses others is one of those at work, or has gone.
CrossesOnly(c) ==
    /\ crossed \ {c} \subseteq crossed'
    /\ crossed' \subseteq crossed \cup Others(c)
    /\ c \in crossed' => conn'[c].pc \notin {"idle", "loaded"}

LEMMA CrossesOnlyKeeps ==
    ASSUME StreamInv, NEW c \in Conn, Touches(c), CrossesOnly(c)
    PROVE  CrossedAtWork'
BY DEF StreamInv, ClaimInv, CrossedAtWork, CrossesOnly, Others, Working, Touches, Typed, TypeOK

\* What a step of another connection leaves as it was.
LEMMA NotTouched ==
    ASSUME StreamInv, NEW c \in Conn, Touches(c), CrossesOnly(c), NEW d \in Conn \ crossed', NEW u \in Turn, d # c
    PROVE  /\ d \notin crossed /\ conn'[d] = conn[d]
           /\ Working(d, u)' <=> Working(d, u)
           /\ Trusting(d, u)' <=> Trusting(d, u)
           /\ u # conn[c].turn => reply'[u] = reply[u] /\ (u \in shown' => u \in shown)
BY DEF Touches, RowTouched, HistoryTouched, CrossesOnly, Working, Trusting

\* The step of a connection that goes on calling, or stops, and leaves its row alone.
LEMMA KeepsCalling ==
    ASSUME StreamInv, NEW c \in Conn, Touches(c), CrossesOnly(c), reply' = reply,
           \/ conn'[c].pc = "idle"
           \/ /\ conn[c].pc \in {"claimed", "calling"} /\ crossed' = crossed
              /\ \/ conn'[c].pc = "calling" /\ conn'[c].held = conn[c].held
                 \/ conn'[c].pc = "release",
           shown' = shown \/ (shown' = shown \cup {conn[c].turn} /\ conn[c].pc = "calling" /\ c \notin crossed)
    PROVE  ClaimInv'
<1>1. CrossedAtWork'
  BY CrossesOnlyKeeps
<1>2. PICK t \in Turn : t = conn[c].turn
  BY DEF Touches, StreamInv, Typed, ConnAsked
<1>3. \A u \in Turn : Unanswered(u)' <=> Unanswered(u)
  BY DEF Unanswered
<1>4. ASSUME conn'[c].pc \notin {"idle", "loaded"}, c \notin crossed'
      PROVE  c \notin crossed /\ Working(c, t) /\ conn'[c].turn = t
  BY <1>2, <1>4 DEF Touches, Working
<1>5. ASSUME NEW d \in Conn \ crossed', NEW u \in Turn, Working(d, u)', Unanswered(u)'
      PROVE  Holds(d, u)'
  <2>1. CASE d = c
    <3>1. d \notin crossed /\ Working(c, t) /\ u = t
      BY <1>4, <1>5, <2>1 DEF Working
    <3>2. Holds(c, t)
      BY <1>3, <1>5, <2>1, <3>1 DEF StreamInv, ClaimInv, ClaimHeld
    <3>3. QED
      BY <1>5, <2>1, <3>1, <3>2 DEF Holds, Working
  <2>2. CASE d # c
    <3>1. d \notin crossed /\ conn'[d] = conn[d] /\ Working(d, u)
      BY <1>5, <2>2, NotTouched
    <3>2. Holds(d, u)
      BY <1>3, <1>5, <3>1 DEF StreamInv, ClaimInv, ClaimHeld
    <3>3. QED
      BY <3>1, <3>2 DEF Holds
  <2>3. QED
    BY <2>1, <2>2
<1>6. ASSUME NEW d \in Conn \ crossed', NEW u \in Turn, Trusting(d, u)'
      PROVE  d \notin crossed /\ Trusting(d, u) /\ conn'[d].held = conn[d].held
  <2>1. CASE d = c
    BY <1>4, <1>6, <2>1 DEF Working, Trusting
  <2>2. CASE d # c
    BY <1>6, <2>2, NotTouched
  <2>3. QED
    BY <2>1, <2>2
<1>7. ClaimsApart'
  BY <1>6 DEF StreamInv, ClaimInv, ClaimsApart, Apart
<1>8. ShownIsHeld'
  <2>1. ASSUME NEW u \in shown', Unanswered(u)' PROVE reply'[u].generating
    <3>1. u \in Turn /\ Unanswered(u)
      BY <1>2, <1>3, <2>1 DEF StreamInv, Typed, TypeOK
    <3>2. CASE u \in shown
      BY <3>1, <3>2 DEF StreamInv, ClaimInv, ShownIsHeld
    <3>3. CASE u \notin shown
      <4>1. u = t /\ Working(c, t) /\ c \notin crossed
        BY <1>2, <2>1, <3>3 DEF Working
      <4>2. QED
        BY <3>1, <4>1 DEF StreamInv, ClaimInv, ClaimHeld, Holds
    <3>4. QED
      BY <3>2, <3>3
  <2>2. QED
    BY <2>1 DEF ShownIsHeld
<1>9. QED
  BY <1>1, <1>5, <1>7, <1>8 DEF ClaimInv, ClaimHeld

\* The step of a connection that has done calling: its reply is answered, or everybody at
\* work on it is crossed and what was shown is forgotten.
LEMMA EndsCalling ==
    ASSUME StreamInv, NEW c \in Conn, NEW t \in Turn, t = conn[c].turn, Touches(c), CrossesOnly(c),
           conn'[c].pc \in {"idle", "release", "release2"},
           Unanswered(t)' => t \notin shown' /\ \A d \in Conn : Working(d, t)' => d \in crossed'
    PROVE  ClaimInv'
<1>1. CrossedAtWork'
  BY CrossesOnlyKeeps
<1>2. ASSUME NEW d \in Conn \ crossed', NEW u \in Turn, Working(d, u)', Unanswered(u)'
      PROVE  Holds(d, u)'
  <2>1. u # t
    BY <1>2
  <2>2. d # c
    BY <1>2, <2>1 DEF Touches, Working
  <2>3. d \notin crossed /\ conn'[d] = conn[d] /\ Working(d, u) /\ reply'[u] = reply[u]
    BY <1>2, <2>1, <2>2, NotTouched
  <2>4. Holds(d, u)
    BY <1>2, <2>3 DEF StreamInv, ClaimInv, ClaimHeld, Unanswered
  <2>5. QED
    BY <2>3, <2>4 DEF Holds
<1>3. ASSUME NEW d \in Conn \ crossed', NEW u \in Turn, Trusting(d, u)'
      PROVE  d \notin crossed /\ Trusting(d, u) /\ conn'[d] = conn[d]
  <2>1. d # c
    BY <1>3 DEF Trusting
  <2>2. QED
    BY <1>3, <2>1, NotTouched
<1>4. ClaimsApart'
  BY <1>3 DEF StreamInv, ClaimInv, ClaimsApart, Apart
<1>5. ShownIsHeld'
  BY DEF StreamInv, ClaimInv, ShownIsHeld, Unanswered, Touches, RowTouched, HistoryTouched, Typed, TypeOK
<1>6. QED
  BY <1>1, <1>2, <1>4, <1>5 DEF ClaimInv, ClaimHeld

LEMMA NoteCrosses ==
    ASSUME StreamInv, NEW c \in Conn, NEW t \in Turn, t = conn[c].turn, Touches(c), conn[c].pc # "loaded",
           NEW over \in {{}, {c}}, NoteBlank(c, over),
           IF over = {} THEN conn'[c].pc \notin {"idle", "loaded"} ELSE conn'[c].pc = "idle"
    PROVE  /\ CrossesOnly(c)
           /\ LeavesBlank(c) => t \notin shown' /\ \A d \in Conn : Working(d, t)' => d \in crossed'
<1>1. crossed' = (IF LeavesBlank(c) THEN crossed \cup Others(c) ELSE crossed) \ over
        /\ shown' = IF LeavesBlank(c) THEN shown \ {t} ELSE shown
  BY DEF NoteBlank
<1>2. CrossesOnly(c)
  <2>1. crossed \ {c} \subseteq crossed' /\ crossed' \subseteq crossed \cup Others(c)
    BY <1>1
  <2>2. c \in crossed' => conn'[c].pc \notin {"idle", "loaded"}
    BY <1>1
  <2>3. QED
    BY <2>1, <2>2 DEF CrossesOnly
<1>3. ASSUME NEW d \in Conn, Working(d, t)' PROVE d \in Others(c) \ over
  <2>1. CASE d = c
    BY <1>3, <2>1 DEF Working, Others, Touches
  <2>2. CASE d # c
    BY <1>3, <2>2 DEF Working, Others, Touches
  <2>3. QED
    BY <2>1, <2>2
<1>4. QED
  BY <1>1, <1>2, <1>3

LEMMA ConnKeepsInv ==
    ASSUME StreamInv, NEW c \in Conn, Step(c), ~Claim(c)
    PROVE  ClaimInv'
<1>1. Touches(c) /\ Typed
  BY StepTouches DEF StreamInv
<1>2. PICK t \in Turn : t = conn[c].turn
  BY <1>1 DEF Touches, Typed, ConnAsked
<1>3. CASE Prepare(c) \/ ReceiveText(c) \/ TryNextCandidate(c)
  <2>1. /\ reply' = reply /\ crossed' = crossed
        /\ conn[c].pc \in {"claimed", "calling"} /\ conn'[c].pc = "calling" /\ conn'[c].held = conn[c].held
        /\ shown' = shown \/ (shown' = shown \cup {conn[c].turn} /\ conn[c].pc = "calling" /\ c \notin crossed)
    BY <1>1, <1>3, CallTouches
  <2>2. CrossesOnly(c)
    BY <2>1 DEF CrossesOnly
  <2>3. QED
    BY <1>1, <2>1, <2>2, KeepsCalling
<1>4. CASE Fault(c) \/ Disconnect(c) \/ Kill(c)
  <2>1. /\ reply' = reply /\ shown' = shown
        /\ \/ conn[c].pc = "calling" /\ conn'[c].pc = "release" /\ crossed' = crossed
           \/ conn'[c].pc = "idle" /\ crossed' = crossed \ {c}
    BY <1>1, <1>4, StopTouches
  <2>2. CrossesOnly(c)
    BY <2>1 DEF CrossesOnly
  <2>3. QED
    BY <1>1, <2>1, <2>2, KeepsCalling
<1>5. CASE Refuse(c) \/ ServeFromCache(c) \/ GiveUp(c) \/ FinishReply(c)
  <2>1. /\ conn[c].pc = "calling" /\ conn'[c].pc = "release"
        /\ \/ ~Unanswered(t)' /\ UNCHANGED <<shown, crossed>>
           \/ NoteBlank(c, {}) /\ (Unanswered(t)' => conn[c].text = "")
    BY <1>1, <1>2, <1>5, SaveTouches
  <2>2. CASE ~Unanswered(t)' /\ UNCHANGED <<shown, crossed>>
    <3>1. CrossesOnly(c)
      BY <2>1, <2>2 DEF CrossesOnly
    <3>2. QED
      BY <1>1, <1>2, <2>1, <2>2, <3>1, EndsCalling
  <2>3. CASE NoteBlank(c, {}) /\ (Unanswered(t)' => conn[c].text = "")
    <3>1. Unanswered(t)' => LeavesBlank(c)
      BY <1>2, <2>3 DEF LeavesBlank, Unanswered
    <3>2. /\ CrossesOnly(c)
          /\ LeavesBlank(c) => t \notin shown' /\ \A d \in Conn : Working(d, t)' => d \in crossed'
      BY <1>1, <1>2, <2>1, <2>3, NoteCrosses
    <3>3. QED
      BY <1>1, <1>2, <2>1, <3>1, <3>2, EndsCalling
  <2>4. QED
    BY <2>1, <2>2, <2>3
<1>6. CASE ReleaseBlank(c)
  <2>1. /\ conn[c].pc = "release" /\ conn'[c].pc = "release2" /\ NoteBlank(c, {})
        /\ Unanswered(t)' => Unanswered(t)
        /\ Unanswered(t)' /\ conn[c].text # "" => ~reply[t].generating
    BY <1>1, <1>2, <1>6, ReleaseBlankTouches
  <2>2. Unanswered(t)' => LeavesBlank(c)
    <3>1. Unanswered(t)' /\ c \notin crossed => conn[c].text = ""
      BY <1>2, <2>1 DEF StreamInv, ClaimInv, ClaimHeld, Holds, Working
    <3>2. QED
      BY <1>2, <3>1 DEF LeavesBlank, Unanswered
  <2>3. /\ CrossesOnly(c)
        /\ LeavesBlank(c) => t \notin shown' /\ \A d \in Conn : Working(d, t)' => d \in crossed'
    BY <1>1, <1>2, <2>1, NoteCrosses
  <2>4. QED
    BY <1>1, <1>2, <2>1, <2>2, <2>3, EndsCalling
<1>7. CASE ReleaseClaim(c)
  <2>1. /\ conn[c].pc = "release2" /\ conn'[c].pc = "idle" /\ NoteBlank(c, {c})
        /\ Unanswered(t)' => Unanswered(t)
    BY <1>1, <1>2, <1>7, ReleaseClaimTouches
  <2>2. Unanswered(t)' => LeavesBlank(c)
    <3>1. Unanswered(t)' => c \in crossed
      BY <1>2, <2>1 DEF StreamInv, ClaimInv, ClaimHeld, Holds, Working
    <3>2. QED
      BY <1>2, <3>1 DEF LeavesBlank, Unanswered
  <2>3. /\ CrossesOnly(c)
        /\ LeavesBlank(c) => t \notin shown' /\ \A d \in Conn : Working(d, t)' => d \in crossed'
    BY <1>1, <1>2, <2>1, NoteCrosses
  <2>4. QED
    BY <1>1, <1>2, <2>1, <2>2, <2>3, EndsCalling
<1>8. QED
  BY <1>3, <1>4, <1>5, <1>6, <1>7 DEF Step, ConnStep

\* A claim that succeeds finds its reply free, or claimed for longer than it is trusted: so
\* every connection that still calls for it has held its own claim for longer, too.
LEMMA ClaimKeepsInv ==
    ASSUME StreamInv, NEW c \in Conn, Claim(c)
    PROVE  ClaimInv'
<1>1. /\ Typed /\ Touches(c) /\ conn[c].pc = "loaded" /\ UNCHANGED <<turns, history>>
      /\ \/ /\ Claimable(reply[conn[c].turn]) /\ conn'[c] = [conn[c] EXCEPT !.pc = "claimed"]
            /\ conn'[c].pc = "claimed" /\ reply'[conn[c].turn].generating /\ reply'[conn[c].turn].age = 0
         \/ ~Claimable(reply[conn[c].turn]) /\ conn'[c] = Closed /\ reply' = reply
  BY ClaimTouches DEF StreamInv
<1>2. PICK t \in Turn : t = conn[c].turn
  BY <1>1 DEF Typed, ConnAsked
<1>3. shown' = shown /\ crossed' = crossed /\ c \notin crossed
  BY <1>1 DEF history, StreamInv, ClaimInv, CrossedAtWork
<1>4. CrossesOnly(c)
  BY <1>3 DEF CrossesOnly
<1>5. CASE ~Claimable(reply[t])
  <2>1. conn'[c].pc = "idle" /\ reply' = reply
    BY <1>1, <1>2, <1>5, ClosedIsConnection
  <2>2. QED
    BY <1>1, <1>3, <1>4, <2>1, KeepsCalling
<1>6. CASE Claimable(reply[t])
  <2>1. /\ conn'[c] = [conn[c] EXCEPT !.pc = "claimed"] /\ conn'[c].pc = "claimed"
        /\ reply'[t].generating /\ reply'[t].age = 0
    BY <1>1, <1>2, <1>6
  <2>2. conn'[c].held = 0 /\ conn'[c].turn = t
    BY <1>1, <1>2, <2>1 DEF Typed, TypeOK, Connection, HeldInTime, InTime
  <2>3. Unanswered(t) /\ (reply[t].generating => reply[t].age > StaleTime)
    BY <1>6 DEF Claimable, Unanswered
  <2>4. ASSUME NEW d \in Conn \ crossed, Trusting(d, t)
        PROVE  reply[t].generating /\ conn[d].held > 0 + StaleTime
    <3>1. reply[t].generating /\ reply[t].age <= conn[d].held
      BY <2>3, <2>4 DEF StreamInv, ClaimInv, ClaimHeld, Holds, Trusting
    <3>2. reply[t].age \in 0 .. StaleTime + 1 /\ conn[d].held \in 0 .. Candidates * CallTime
      BY <1>1 DEF Typed, TypeOK, Row, Connection
    <3>3. conn[d].held \in Nat /\ reply[t].age \in Nat
      BY <3>2, Numbers, CallsBound
    <3>4. QED
      BY <2>3, <3>1, <3>3, Numbers
  <2>5. ASSUME NEW d \in Conn \ crossed', NEW u \in Turn, Working(d, u)', Unanswered(u)'
        PROVE  Holds(d, u)'
    <3>1. CASE d = c
      <4>1. u = t
        BY <2>2, <2>5, <3>1 DEF Working
      <4>2. reply'[t].age <= conn'[c].held
        BY <2>1, <2>2
      <4>3. Holds(c, t)'
        BY <2>1, <4>2 DEF Holds
      <4>4. QED
        BY <3>1, <4>1, <4>3
    <3>2. CASE d # c
      <4>1. d \notin crossed /\ conn'[d] = conn[d] /\ Working(d, u)
        BY <1>1, <1>4, <2>5, <3>2, NotTouched
      <4>2. CASE u = t
        <5>1. Holds(d, t)
          BY <2>3, <4>1, <4>2 DEF StreamInv, ClaimInv, ClaimHeld
        <5>2. conn[d].held \in Nat
          <6>1. conn[d].held \in 0 .. Candidates * CallTime
            BY <1>1 DEF Typed, TypeOK, Connection
          <6>2. QED
            BY <6>1, CallsBound
        <5>3. QED
          BY <2>1, <4>1, <4>2, <5>1, <5>2 DEF Holds
      <4>3. CASE u # t
        <5>1. reply'[u] = reply[u]
          BY <1>1, <1>2, <1>4, <2>5, <3>2, <4>3, NotTouched
        <5>2. Holds(d, u)
          BY <2>5, <4>1, <5>1 DEF StreamInv, ClaimInv, ClaimHeld, Unanswered
        <5>3. QED
          BY <4>1, <5>1, <5>2 DEF Holds
      <4>4. QED
        BY <4>2, <4>3
    <3>3. QED
      BY <3>1, <3>2
  <2>6. ASSUME NEW d \in Conn \ crossed', NEW u \in Turn, Trusting(d, u)', d # c
        PROVE  d \notin crossed /\ Trusting(d, u) /\ conn'[d] = conn[d]
    BY <1>1, <1>4, <2>6, NotTouched
  <2>7. ASSUME NEW d \in Conn \ crossed', d # c, Trusting(d, t)'
        PROVE  conn'[d].held > conn'[c].held + StaleTime
    BY <2>2, <2>4, <2>6, <2>7
  <2>8. ASSUME NEW u \in Turn, Trusting(c, u)' PROVE u = t
    BY <2>2, <2>8 DEF Trusting, Working
  <2>9. ClaimsApart'
    <3>1. SUFFICES ASSUME NEW d \in Conn \ crossed', NEW e \in Conn \ crossed', NEW u \in Turn,
                          Trusting(d, u)', Trusting(e, u)', d # e
                   PROVE  Apart(d, e)'
      BY DEF ClaimsApart
    <3>2. CASE d = c
      BY <2>7, <2>8, <3>1, <3>2 DEF Apart
    <3>3. CASE e = c
      BY <2>7, <2>8, <3>1, <3>3 DEF Apart
    <3>4. CASE d # c /\ e # c
      BY <2>6, <3>1, <3>4 DEF StreamInv, ClaimInv, ClaimsApart, Apart
    <3>5. QED
      BY <3>2, <3>3, <3>4
  <2>10. ShownIsHeld'
    <3>1. ASSUME NEW u \in shown', Unanswered(u)' PROVE reply'[u].generating
      <4>1. CASE u = t
        BY <2>1, <4>1
      <4>2. CASE u # t
        BY <1>1, <1>2, <1>3, <3>1, <4>2
           DEF StreamInv, ClaimInv, ShownIsHeld, Unanswered, Touches, RowTouched, Typed, TypeOK
      <4>3. QED
        BY <4>1, <4>2
    <3>2. QED
      BY <3>1 DEF ShownIsHeld
  <2>11. CrossedAtWork'
    BY <1>1, <1>4, CrossesOnlyKeeps
  <2>12. QED
    BY <2>5, <2>9, <2>10, <2>11 DEF ClaimInv, ClaimHeld
<1>7. QED
  BY <1>5, <1>6

\* A step that is no connection's: what it leaves unanswered was as much so before, or is
\* asked for for the first time, or crosses whoever works on it.
LEMMA OthersKeepInv ==
    ASSUME StreamInv, shown' \subseteq shown, crossed \subseteq crossed',
           \A d \in crossed' \ crossed : d \in Conn /\ conn[d].pc \notin {"idle", "loaded"},
           \A d \in Conn, u \in Turn : Working(d, u)' <=> Working(d, u),
           \A d \in Conn : conn[d].pc \notin {"idle", "loaded"} => conn'[d] = conn[d],
           \A u \in Turn : Unanswered(u)' =>
              \/ reply'[u] = reply[u]
              \/ asks[u] = 0
              \/ u \notin shown' /\ \A d \in Conn : Working(d, u) => d \in crossed'
    PROVE  ClaimInv'
<1>1. CrossedAtWork'
  BY DEF StreamInv, ClaimInv, CrossedAtWork, Typed, TypeOK
<1>2. \A d \in Conn, u \in Turn : Working(d, u) => asks[u] # 0 /\ conn'[d] = conn[d]
  BY DEF StreamInv, Typed, ConnAsked, Working
<1>3. ASSUME NEW d \in Conn \ crossed', NEW u \in Turn, Working(d, u)', Unanswered(u)' PROVE Holds(d, u)'
  <2>1. d \notin crossed /\ Working(d, u) /\ reply'[u] = reply[u] /\ conn'[d] = conn[d]
    BY <1>2, <1>3
  <2>2. Holds(d, u)
    BY <1>3, <2>1 DEF StreamInv, ClaimInv, ClaimHeld, Unanswered
  <2>3. QED
    BY <2>1, <2>2 DEF Holds
<1>4. ASSUME NEW d \in Conn \ crossed', NEW u \in Turn, Trusting(d, u)'
      PROVE  d \notin crossed /\ Trusting(d, u) /\ conn'[d] = conn[d]
  BY <1>2, <1>4 DEF Trusting
<1>5. ClaimsApart'
  BY <1>4 DEF StreamInv, ClaimInv, ClaimsApart, Apart
<1>6. ASSUME NEW u \in shown', Unanswered(u)' PROVE reply'[u].generating
  <2>1. u \in shown /\ u \in Turn /\ asks[u] # 0
    BY <1>6 DEF StreamInv, Typed, TypeOK, NotAskedYet
  <2>2. reply'[u] = reply[u]
    BY <1>6, <2>1
  <2>3. QED
    BY <1>6, <2>1, <2>2 DEF StreamInv, ClaimInv, ShownIsHeld, Unanswered
<1>7. QED
  BY <1>1, <1>3, <1>5, <1>6 DEF ClaimInv, ClaimHeld, ShownIsHeld

\* Time passes for a claim no faster than for the call it was made for.
LEMMA TickKeepsInv ==
    ASSUME StreamInv, Tick
    PROVE  ClaimInv'
<1>1. \A d \in Conn : /\ conn'[d].turn = conn[d].turn /\ conn'[d].pc = conn[d].pc
                      /\ conn[d].pc = "calling" => conn'[d].held = conn[d].held + 1
  BY TickedConn DEF StreamInv
<1>2. ASSUME NEW u \in Turn
      PROVE  /\ reply'[u].exists = reply[u].exists /\ reply'[u].content = reply[u].content
             /\ reply'[u].generating = reply[u].generating
             /\ reply[u].age \in Nat /\ reply'[u].age \in Nat /\ reply'[u].age <= reply[u].age + 1
  <2>1. reply[u] \in Row /\ reply'[u] = Older(reply[u])
    BY DEF Tick, StreamInv, Typed, TypeOK
  <2>2. reply[u].age \in 0 .. StaleTime + 1
    BY <2>1 DEF Row
  <2>3. reply[u].age \in Nat
    BY <2>2, Numbers
  <2>4. reply'[u].age = reply[u].age \/ reply'[u].age = reply[u].age + 1
    BY <2>1 DEF Older, Row
  <2>5. reply'[u].age <= reply[u].age + 1 /\ reply'[u].age \in Nat
    BY <2>3, <2>4
  <2>6. QED
    BY <2>1, <2>3, <2>5 DEF Older, Row
<1>3. \A d \in Conn, u \in Turn : (Working(d, u)' <=> Working(d, u)) /\ (Trusting(d, u)' <=> Trusting(d, u))
  BY <1>1 DEF Working, Trusting
<1>4. \A d \in Conn, u \in Turn : Working(d, u) => conn[d].pc = "calling"
  BY DEF Tick, Working
<1>5. shown' = shown /\ crossed' = crossed /\ \A u \in Turn : Unanswered(u)' <=> Unanswered(u)
  BY <1>2 DEF Tick, Unanswered, history
<1>6. \A d \in Conn : conn[d].held \in Nat
  <2>1. \A d \in Conn : conn[d].held \in 0 .. Candidates * CallTime
    BY DEF StreamInv, Typed, TypeOK, Connection
  <2>2. QED
    BY <2>1, CallsBound
<1>7. CrossedAtWork'
  BY <1>1, <1>5 DEF StreamInv, ClaimInv, CrossedAtWork, Typed, TypeOK
<1>8. ASSUME NEW d \in Conn \ crossed', NEW u \in Turn, Working(d, u)', Unanswered(u)' PROVE Holds(d, u)'
  <2>1. Holds(d, u) /\ conn[d].pc = "calling" /\ conn'[d].pc = "calling" /\ conn'[d].held = conn[d].held + 1
    BY <1>1, <1>3, <1>4, <1>5, <1>8 DEF StreamInv, ClaimInv, ClaimHeld
  <2>2. reply[u].generating /\ reply[u].age <= conn[d].held
    BY <2>1 DEF Holds
  <2>3. reply'[u].age <= conn'[d].held
    BY <1>2, <1>6, <2>1, <2>2
  <2>4. QED
    BY <1>2, <2>1, <2>2, <2>3 DEF Holds
<1>9. ClaimsApart'
  <2>1. SUFFICES ASSUME NEW d \in Conn \ crossed', NEW e \in Conn \ crossed', NEW u \in Turn,
                        Trusting(d, u)', Trusting(e, u)', d # e
                 PROVE  Apart(d, e)'
    BY DEF ClaimsApart
  <2>2. Apart(d, e)
    BY <1>3, <1>5, <2>1 DEF StreamInv, ClaimInv, ClaimsApart
  <2>3. conn'[d].held = conn[d].held + 1 /\ conn'[e].held = conn[e].held + 1
    BY <1>1, <1>3, <1>4, <2>1 DEF Trusting
  <2>4. QED
    BY <1>6, <2>2, <2>3, Numbers DEF Apart
<1>10. ShownIsHeld'
  BY <1>2, <1>5 DEF StreamInv, ClaimInv, ShownIsHeld, Typed, TypeOK
<1>11. QED
  BY <1>7, <1>8, <1>9, <1>10 DEF ClaimInv, ClaimHeld

LEMMA StreamInvInit == Init => StreamInv
<1> SUFFICES ASSUME Init PROVE ClaimInv
  BY TypedInit DEF StreamInv
<1> QED
  BY ClosedIsConnection DEF Init, ClaimInv, CrossedAtWork, ClaimHeld, ClaimsApart, ShownIsHeld, Working, Trusting

LEMMA StreamInvKept == StreamInv /\ [Next]_vars => StreamInv'
<1> SUFFICES ASSUME StreamInv, [Next]_vars PROVE ClaimInv'
  BY TypedKept DEF StreamInv
<1>1. ASSUME NEW c \in Conn, Step(c) PROVE ClaimInv'
  BY <1>1, ClaimKeepsInv, ConnKeepsInv
<1>2. ASSUME NEW t \in Turn, PostMessage(t) \/ \E u \in Turn : EditMessage(u, t)
      PROVE  ClaimInv'
  <2>1. conn' = conn /\ shown' = shown /\ crossed' = crossed /\ asks[t] = 0
    BY <1>2 DEF PostMessage, EditMessage, NextTurn
  <2>2. \A u \in Turn : Unanswered(u)' => reply'[u] = reply[u] \/ asks[u] = 0
    BY <1>2, <2>1, Rows DEF PostMessage, EditMessage, Unanswered, StreamInv, Typed, TypeOK
  <2>3. QED
    BY <2>1, <2>2, OthersKeepInv DEF Working
<1>3. ASSUME NEW t \in Turn, RegenerateMessage(t) PROVE ClaimInv'
  <2>1. conn' = conn /\ shown' = shown \ {t} /\ crossed' = crossed \cup {c \in Conn : Working(c, t)}
    BY <1>3 DEF RegenerateMessage
  <2>2. \A u \in Turn : u # t => reply'[u] = reply[u]
    BY <1>3 DEF RegenerateMessage, StreamInv, Typed, TypeOK
  <2>3. \A d \in crossed' \ crossed : d \in Conn /\ conn[d].pc \notin {"idle", "loaded"}
    BY <2>1 DEF Working
  <2>4. QED
    BY <2>1, <2>2, <2>3, OthersKeepInv DEF Working
<1>4. ASSUME NEW c \in Conn, NEW t \in Turn, OpenStream(c, t) PROVE ClaimInv'
  <2>1. conn[c].pc = "idle" /\ conn'[c].pc = "loaded" /\ reply' = reply /\ shown' = shown /\ crossed' = crossed
          /\ \A d \in Conn \ {c} : conn'[d] = conn[d]
    BY <1>4, ClosedIsConnection DEF OpenStream, history, StreamInv, Typed, TypeOK, Connection
  <2>2. /\ \A d \in Conn, u \in Turn : Working(d, u)' <=> Working(d, u)
        /\ \A d \in Conn : conn[d].pc \notin {"idle", "loaded"} => conn'[d] = conn[d]
    BY <2>1 DEF Working
  <2>3. QED
    BY <2>1, <2>2, OthersKeepInv
<1>5. CASE Tick
  BY <1>5, TickKeepsInv
<1>6. CASE UNCHANGED vars
  BY <1>6, OthersKeepInv DEF vars, history, Working
<1>7. QED
  BY <1>1, <1>2, <1>3, <1>4, <1>5, <1>6 DEF Next, Step

\* However many tabs, reconnects and candidates there are, however long a call takes and
\* whichever workers die: a second call for a reply is only made once the first was taken
\* for dead, unless it was crossed; nothing shown is free to be asked for again, and no
\* claim stays with a stream that went wrong.
THEOREM RepliesAreSafe == Spec => []ReplySafe
<1>1. StreamInv => CallsApart /\ ShownIsHeld
  <2> SUFFICES ASSUME StreamInv PROVE CallsApart
    BY DEF StreamInv, ClaimInv
  <2>1. \A c \in Conn, t \in Turn : Calling(c, t) => Trusting(c, t)
    BY DEF Calling, Trusting, Working
  <2>2. QED
    BY <2>1 DEF StreamInv, ClaimInv, ClaimsApart, CallsApart
<1>2. TypeOK /\ CallsApart /\ ShownIsHeld /\ NotLeftClaimed => ReplySafe
  BY DEF ReplySafe
<1>3. Spec => [](CallsApart /\ ShownIsHeld)
  BY <1>1, StreamInvInit, StreamInvKept, PTL DEF Spec
<1>4. QED
  BY <1>2, <1>3, StreamTypeCorrect, ClaimsAreReleased, PTL

\* ... and a request any of whose answer was shown is never run again by a reload: not
\* before its claim has grown too old to be trusted.
THEOREM NeverRerunSilently == Spec => NoSilentRerun
<1>1. ASSUME StreamInv, NEW c \in Conn, Claim(c), conn'[c].pc = "claimed", conn[c].turn \in shown
      PROVE  reply[conn[c].turn].generating /\ reply[conn[c].turn].age > StaleTime
  <2>1. Claimable(reply[conn[c].turn])
    BY <1>1, ClaimTouches, ClosedIsConnection DEF StreamInv
  <2>2. QED
    BY <1>1, <2>1 DEF StreamInv, ClaimInv, ShownIsHeld, Unanswered, Claimable
<1>2. StreamInv /\ [Next]_vars =>
        [\A c \in Conn : Claim(c) /\ conn'[c].pc = "claimed" /\ conn[c].turn \in shown =>
            reply[conn[c].turn].generating /\ reply[conn[c].turn].age > StaleTime]_vars
  BY <1>1
<1>3. QED
  BY <1>2, StreamInvInit, StreamInvKept, PTL DEF Spec, NoSilentRerun
================================================================================
