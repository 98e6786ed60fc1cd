----------------------------- MODULE MCReplyStream -----------------------------
(***************************************************************************)
(* What happens to a reply and what its request carries, in one run: two   *)
(* turns with edits and a killed worker; one turn whose reply is asked for *)
(* again while its stream goes wrong in every way; the window of the       *)
(* conversation that is sent; and the headlines a brief is written from.   *)
(***************************************************************************)
EXTENDS ReplyStream

CONSTANTS Category, None

VARIABLES
    instance,
    gTurns, gReply, gConn, gDiscarded, gAsks, gShown, gLeft, gCrossed,
    msgs, wAsks, req, sent, acts, changed, newer,
    nNow, fresh, last, cooldown, nReq, fetches, refreshes, good, faulty

gvars == <<gTurns, gReply, gConn, gDiscarded, gAsks, gShown, gLeft, gCrossed>>
wvars == <<msgs, wAsks, req, sent, acts, changed, newer>>
nvars == <<nNow, fresh, last, cooldown, nReq, fetches, refreshes, good, faulty>>

Regenerate == INSTANCE ReplyStream WITH
    Turn <- {1}, MaxAsks <- 2,
    Ops <- {"regenerate", "disconnect", "cache", "refuse", "blank", "fault"},
    turns <- gTurns, reply <- gReply, conn <- gConn, discarded <- gDiscarded, asks <- gAsks,
    shown <- gShown, left <- gLeft, crossed <- gCrossed

\* A window of three turns, one note and one image; a plan without a limit and one that is
\* too small for two images; a model that can take next to nothing.
Window == INSTANCE ContextWindow WITH
    MaxRecent <- 3, MaxOlder <- 1, MaxImages <- 1, ImageTokens <- 2, Reserve <- 3, Header <- 1,
    Brief <- 1, NotesMax <- 2, Sizes <- {0, 1}, Plans <- {8, 99}, Models <- {4, 11},
    Unlimited <- 99, Candidates <- 2, MaxAsks <- 4, MaxActs <- 1, asks <- wAsks

News == INSTANCE LiveNews WITH
    Request <- {1, 2}, FreshTtl <- 1, LastTtl <- 2, Cooldown <- 2, MaxTime <- 3, MaxFetches <- 2,
    now <- nNow, req <- nReq

ASSUME MCAssumption == Window!WindowConstants /\ News!NewsConstants

MCInit ==
    /\ instance \in {"stream", "regenerate", "window", "news"}
    /\ Init /\ Regenerate!Init /\ Window!Init /\ News!Init

MCStream(A) == instance = "stream" /\ A /\ UNCHANGED <<instance, gvars, wvars, nvars>>
MCRegenerate(A) == instance = "regenerate" /\ A /\ UNCHANGED <<instance, vars, wvars, nvars>>
MCWindow(A) == instance = "window" /\ A /\ UNCHANGED <<instance, vars, gvars, nvars>>
MCNews(A) == instance = "news" /\ A /\ UNCHANGED <<instance, vars, gvars, wvars>>

MCNext ==
    \/ MCStream(Next)
    \/ MCRegenerate(Regenerate!Next)
    \/ MCWindow(Window!Next)
    \/ MCNews(News!Next)

MCvars == <<instance, vars, gvars, wvars, nvars>>

MCSpec ==
    /\ MCInit /\ [][MCNext]_MCvars
    /\ WF_MCvars(MCStream(Tick))
    /\ \A c \in Conn : WF_MCvars(MCStream(ConnStep(c)))
    /\ \A t \in Turn : WF_MCvars(MCStream(\E c \in Conn : OpenStream(c, t)))

\* A stream that went wrong in any way leaves no claim behind, and lets nobody in beside a
\* call that is trusted.  What a request carries is within its budget, ends with the question
\* it answers and tells what it leaves out; and headlines are as old as they are said to be,
\* shown when there are any, and fetched on demand once a minute.
RequestSafe ==
    /\ Regenerate!ReplySafe
    /\ Window!TypeOK /\ Window!WithinBudget /\ Window!AnswersItsQuestion
    /\ Window!NothingDroppedSilently /\ Window!NewestImagesSent
    /\ News!TypeOK /\ News!LabelledHonestly /\ News!ShowsWhatItHas /\ News!OneRefreshAMinute

\* ReplyResolves, in the instance whose streams are fair.
PendingResolves == instance = "stream" => ReplyResolves
==============================================================================
