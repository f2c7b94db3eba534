----------------------------- MODULE LivePreview -----------------------------
(***************************************************************************)
(* The preview of the message the agent is writing: the driver replaces    *)
(* session.liveOutput as the text grows, the relay's pump puts the newest  *)
(* revision into the one replaceable cell the store keeps per channel, and *)
(* an opened transcript polls that cell.  None of it is retried and none   *)
(* of it orders anything; a message's canonical frame hides its preview.   *)
(* Code: #pumpLiveOutput (relay.ts), putLiveOutput and getLiveOutput       *)
(* (sqlite-multi.ts), readLiveOutput and visibleLiveItem (viewer.ts), the  *)
(* poll of Transcript (page.tsx).                                          *)
(*                                                                         *)
(* A coordinate is its revision: one relay incarnation serves a session.   *)
(***************************************************************************)
EXTENDS Naturals

CONSTANTS MaxRevisions,   \* bound: revisions of session.liveOutput
          MaxReloads      \* bound: pages loaded again

ASSUME RevisionsAssumption == MaxRevisions \in Nat

Messages == 1..MaxRevisions
NoItem == 0

VARIABLES
    liveOutput,  \* session.liveOutput: its revision and the message previewed, or NoItem
    finals,      \* messages whose canonical frame is published
    published,   \* revision the pump takes for published, 0 for none
    put,         \* the put in flight, with what the store answered it
    late,        \* puts the pump gave up and the store may yet execute
    stopped,     \* the pump ended on a timeout
    exists,      \* the session's channel is established
    cell,        \* the row of live_output: its watermark and message
    aged,        \* revisions up to this one are older than LIVE_OUTPUT_TTL_MS
    read,        \* the cell a poll of the page is opening
    latest,      \* the page's #liveOutputs watermark
    shown,       \* what the last poll gave the page
    messages,    \* canonical messages the page has
    reloads,     \* of MaxReloads
    peak         \* history: the newest revision a page has rendered

previewVars == <<liveOutput, finals, published, put, late, stopped, exists, cell, aged,
          read, latest, shown, messages, reloads, peak>>
previewPage == <<read, latest, shown, messages, reloads, peak>>
pump == <<published, put, late, stopped>>

Nothing == [rev |-> 0, msg |-> NoItem]
NoPut == [rev |-> 0, msg |-> NoItem, answer |-> "none"]

PreviewInit ==
    /\ liveOutput = Nothing /\ finals = {} /\ published = 0 /\ put = NoPut /\ late = {}
    /\ stopped = FALSE /\ exists = FALSE /\ cell = Nothing /\ aged = 0
    /\ read = Nothing /\ latest = Nothing /\ shown = Nothing /\ messages = {}
    /\ reloads = 0 /\ peak = 0

Current == CHOOSE m \in Messages : m \notin finals /\ \A k \in 1..(m - 1) : k \in finals

\* setLiveOutput with more text of the message being written.
Grow == /\ liveOutput.rev < MaxRevisions /\ Messages \ finals # {}
        /\ liveOutput' = [rev |-> liveOutput.rev + 1, msg |-> Current]
        /\ UNCHANGED <<finals, pump, exists, cell, aged, previewPage>>

\* The message is final: its frame is published and the preview withdrawn.
Finalize ==
    /\ liveOutput.rev < MaxRevisions /\ liveOutput.msg # NoItem
    /\ finals' = finals \union {liveOutput.msg}
    /\ liveOutput' = [rev |-> liveOutput.rev + 1, msg |-> NoItem]
    /\ exists' = TRUE
    /\ UNCHANGED <<pump, cell, aged, previewPage>>

\* The relay's first transcript frame establishes the channel.
Establish == ~exists /\ exists' = TRUE /\ UNCHANGED <<liveOutput, finals, pump, cell, aged, previewPage>>

\* #pumpLiveOutput
Put == /\ ~stopped /\ put = NoPut /\ liveOutput.rev # published
       /\ put' = [rev |-> liveOutput.rev, msg |-> liveOutput.msg, answer |-> "none"]
       /\ UNCHANGED <<liveOutput, finals, published, late, stopped, exists, cell, aged, previewPage>>

\* putLiveOutput: a coordinate at or below the stored one changes nothing.
ReplacesAlways(p) == exists
Replaces(p) == exists /\ p.rev > cell.rev
Written(p) == IF Replaces(p) THEN [rev |-> p.rev, msg |-> p.msg] ELSE cell

Store == /\ put # NoPut /\ put.answer = "none"
         /\ cell' = Written(put)
         /\ put' = [put EXCEPT !.answer = IF exists THEN "stored" ELSE "absent"]
         /\ UNCHANGED <<liveOutput, finals, published, late, stopped, exists, aged, previewPage>>

Answered == /\ put # NoPut /\ put.answer # "none"
            /\ published' = IF put.answer = "stored" THEN put.rev ELSE published
            /\ put' = NoPut
            /\ UNCHANGED <<liveOutput, finals, late, stopped, exists, cell, aged, previewPage>>

\* The put fails, stored or not, or yet to be stored: its revision is not sealed again.  A
\* timeout ends the pump.
Abandoned == IF put.answer = "none" THEN late \union {[rev |-> put.rev, msg |-> put.msg]} ELSE late
PutFails == /\ put # NoPut
            /\ published' = put.rev /\ put' = NoPut /\ late' = Abandoned
            /\ UNCHANGED <<liveOutput, finals, stopped, exists, cell, aged, previewPage>>
PutTimesOut == /\ put # NoPut
               /\ stopped' = TRUE /\ put' = NoPut /\ late' = Abandoned
               /\ UNCHANGED <<liveOutput, finals, published, exists, cell, aged, previewPage>>

StoreLate(p) == /\ cell' = Written(p) /\ late' = late \ {p}
                /\ UNCHANGED <<liveOutput, finals, published, put, stopped, exists, aged, previewPage>>

\* Time passes for what was sent so far.
Age == /\ aged < liveOutput.rev /\ aged' = aged + 1
       /\ UNCHANGED <<liveOutput, finals, pump, exists, cell, previewPage>>

\* The page: visibleLiveItem hides what is old, withdrawn, or there canonically.
Visible == shown.rev > aged /\ shown.msg # NoItem /\ shown.msg \notin messages
Rendered == peak' = IF Visible' /\ shown'.rev > peak THEN shown'.rev ELSE peak

\* getLiveOutput: nothing once the cell has expired.
Poll == /\ read = Nothing /\ cell.rev > aged
        /\ read' = cell
        /\ UNCHANGED <<liveOutput, finals, pump, exists, cell, aged, latest, shown, messages, reloads, peak>>

\* readLiveOutput after openFrame: the newer of the cell and the watermark, unless it is old.
Newer == IF read.rev > latest.rev THEN read ELSE latest
ReadOpened ==
    /\ read # Nothing
    /\ latest' = Newer
    /\ shown' = IF Newer.rev <= aged THEN Nothing ELSE Newer
    /\ read' = Nothing
    /\ UNCHANGED <<liveOutput, finals, pump, exists, cell, aged, messages, reloads>>
    /\ Rendered

\* The page is hidden or its link is lost: the poll is aborted, and an aborted read leaves the
\* watermark alone.
Hide == /\ (read # Nothing \/ shown # Nothing)
        /\ read' = Nothing /\ shown' = Nothing
        /\ UNCHANGED <<liveOutput, finals, pump, exists, cell, aged, latest, messages, reloads, peak>>

Receive(m) == /\ m \in finals \ messages
              /\ messages' = messages \union {m}
              /\ UNCHANGED <<liveOutput, finals, pump, exists, cell, aged, read, latest, shown, reloads>>
              /\ Rendered

Reload == /\ reloads < MaxReloads /\ reloads' = reloads + 1
          /\ read' = Nothing /\ latest' = Nothing /\ shown' = Nothing /\ messages' = {}
          /\ UNCHANGED <<liveOutput, finals, pump, exists, cell, aged, peak>>

PreviewNext ==
    \/ Grow \/ Finalize \/ Establish
    \/ Put \/ Store \/ Answered \/ PutFails \/ PutTimesOut \/ (\E p \in late : StoreLate(p))
    \/ Age \/ Poll \/ ReadOpened \/ Hide \/ (\E m \in finals : Receive(m)) \/ Reload

PreviewSpec == PreviewInit /\ [][PreviewNext]_previewVars

-----------------------------------------------------------------------------
\* A preview never goes back: whatever a page renders is at least as new as anything any
\* page of the session has rendered, although puts that failed for the relay are stored
\* late and a reloaded page has no watermark (putLiveOutput's coordinate comparison).  One page
\* and its reloads stand for all: pages share nothing but the stored message.
PreviewForward == Visible => shown.rev >= peak

\* The types of the variables.
Item == [rev : Nat, msg : Messages \union {NoItem}]
PutState == [rev : Nat, msg : Messages \union {NoItem}, answer : {"none", "stored", "absent"}]

PreviewTypeOK ==
    /\ liveOutput \in Item /\ finals \subseteq Messages
    /\ published \in Nat /\ put \in PutState /\ late \subseteq Item
    /\ stopped \in BOOLEAN /\ exists \in BOOLEAN /\ cell \in Item /\ aged \in Nat
    /\ read \in Item /\ latest \in Item /\ shown \in Item /\ messages \subseteq Messages
    /\ reloads \in Nat /\ peak \in Nat

\* The parts of the inductive invariant: the cell is as new as anything a page has rendered or
\* holds, a poll under way holds nothing older than what was rendered, and what is visible is
\* what was rendered last.
CellNewest == peak <= cell.rev /\ read.rev <= cell.rev /\ latest.rev <= cell.rev
PollFresh == read # Nothing => read.rev >= peak
VisibleIsPeak == Visible => shown.rev = peak
PreviewInv == PreviewTypeOK /\ CellNewest /\ PollFresh /\ VisibleIsPeak
=============================================================================
