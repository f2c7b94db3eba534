----------------------------- MODULE Attachments -----------------------------
(***************************************************************************)
(* Files sent from a browser to a native harness.  A viewer seals one      *)
(* message in parts and posts them one by one, among those of other        *)
(* viewers; the relay collects parts in a bounded buffer that outlives     *)
(* subscriptions, each of which reads the channel again from its start;    *)
(* a whole message is receipted, held in memory under a byte bound, written*)
(* to private files under a storage bound and submitted once.              *)
(* Code: packages/cli/src/host/rc/relay.ts, native-uploads.ts, session.ts, *)
(* codex/driver.ts, packages/cli/src/broker/client.ts,                     *)
(* apps/web/app/lib/viewer.ts.                                             *)
(*                                                                         *)
(* A message has two parts and one unit of bytes.                          *)
(***************************************************************************)
EXTENDS Integers, Sequences, FiniteSets

CONSTANTS
    Messages,
    NoMessage,
    MaxGroups,   \* MAX_INFLIGHT_ATTACHMENT_GROUPS
    MaxPending,  \* MAX_PENDING_IMAGE_BYTES
    MaxStored,   \* the byte limit of the upload store
    MaxFailures, \* INBOUND_FAILURE_ATTEMPTS
    MaxBreaks    \* bound: subscriptions that fail rather than rotate

Parts == {1, 2}

VARIABLES
    sent,      \* per message: the parts the viewer has posted
    gaveUp,    \* messages whose next POST failed: the rest is never sent
    channel,   \* the stored frames
    cursor,    \* frames this subscription has read
    groups,    \* #attachmentChunks, oldest first
    seen,      \* #seen
    fails,     \* consecutiveFailures of the pump
    breaks,    \* history: failed subscriptions
    queue,     \* downstream events with their files, oldest first
    closed,    \* the session closed, by its owner or by a fatal failure
    step,      \* the driver: "idle", "write", "gate", "sent", "discard", "fenced"
    at,        \* the message it has in hand
    reserved,  \* #reservedBytes of the upload store
    disk,      \* messages with files on disk
    attempted  \* messages submitted to the harness

viewers == <<sent, gaveUp, channel>>
relay == <<cursor, groups, seen, fails, breaks>>
driver == <<step, at, reserved, disk, attempted>>
attachVars == <<viewers, relay, queue, closed, driver>>

Init ==
    /\ sent = [m \in Messages |-> 0]
    /\ gaveUp = {}
    /\ channel = <<>>
    /\ cursor = 0
    /\ groups = <<>>
    /\ seen = {}
    /\ fails = 0 /\ breaks = 0
    /\ queue = <<>>
    /\ closed = FALSE
    /\ step = "idle" /\ at = NoMessage
    /\ reserved = 0 /\ disk = {} /\ attempted = {}

-----------------------------------------------------------------------------
(* The viewers: sendAttachment and postMessage                             *)

\* The next part is sealed and posted; a part is sent once the one before is stored.  Any
\* number of viewers may be sending.
PostPart(m) ==
    /\ sent[m] < Cardinality(Parts) /\ m \notin gaveUp
    /\ sent' = [sent EXCEPT ![m] = @ + 1]
    /\ channel' = Append(channel, [msg |-> m, part |-> sent'[m]])
    /\ UNCHANGED <<gaveUp, relay, queue, closed, driver>>

\* A POST fails: postMessage throws and no later part follows.
GiveUp(m) ==
    /\ sent[m] = 1 /\ m \notin gaveUp
    /\ gaveUp' = gaveUp \union {m}
    /\ UNCHANGED <<sent, channel, relay, queue, closed, driver>>

-----------------------------------------------------------------------------
(* The relay: #tailInbound and #collectAttachmentChunk                     *)

Held(m) == {i \in DOMAIN groups : groups[i].msg = m}

\* A new group evicts the oldest when the buffer is full.
Room == IF Len(groups) >= MaxGroups THEN Tail(groups) ELSE groups

\* The groups after one more part.
Collected(f) ==
    IF Held(f.msg) = {} THEN Append(Room, [msg |-> f.msg, parts |-> {f.part}])
    ELSE [i \in DOMAIN groups |->
            IF groups[i].msg = f.msg THEN [groups[i] EXCEPT !.parts = @ \union {f.part}]
            ELSE groups[i]]

Whole(gs) == {i \in DOMAIN gs : gs[i].parts = Parts}

Dropped(gs, i) == SubSeq(gs, 1, i - 1) \o SubSeq(gs, i + 1, Len(gs))

\* A part of a message not yet handled is collected; the part that completes it drops
\* the group, latches the message as seen, forgives earlier failures, publishes its
\* receipt and queues the event with its files.  Files past the byte bound of what is
\* queued throw inside the publication unit, which is fatal to the session.
Admit(m) ==
    /\ seen' = seen \union {m}
    /\ fails' = 0
    /\ IF Len(queue) < MaxPending
       THEN queue' = Append(queue, m) /\ UNCHANGED closed
       ELSE queue' = <<>> /\ closed' = TRUE

ReadPart ==
    /\ ~closed /\ cursor < Len(channel)
    /\ cursor' = cursor + 1
    /\ LET f == channel[cursor + 1]
           next == Collected(f)
       IN IF f.msg \in seen THEN UNCHANGED <<groups, seen, fails, queue, closed>>
          ELSE IF Whole(next) = {}
               THEN groups' = next /\ UNCHANGED <<seen, fails, queue, closed>>
               ELSE \E i \in Whole(next) : groups' = Dropped(next, i) /\ Admit(next[i].msg)
    /\ UNCHANGED <<viewers, breaks, driver>>

\* What a new subscription starts with: the buffer outlives the one before.
Forgotten == <<>>
Kept == groups

\* The broker rotates a stream that has long delivered what was stored, and the relay
\* reads the channel from the start.
Rotate ==
    /\ ~closed /\ cursor = Len(channel) /\ cursor > 0
    /\ cursor' = 0
    /\ groups' = Kept
    /\ UNCHANGED <<viewers, seen, fails, breaks, queue, closed, driver>>

\* A subscription fails; too many with nothing admitted between them close the session.
Break ==
    /\ ~closed /\ breaks < MaxBreaks
    /\ breaks' = breaks + 1
    /\ fails' = fails + 1
    /\ cursor' = 0
    /\ groups' = Kept
    /\ closed' = (fails' >= MaxFailures)
    /\ queue' = IF closed' THEN <<>> ELSE queue
    /\ UNCHANGED <<viewers, seen, driver>>

\* The owner closes the session: files still queued are released.
Close ==
    /\ ~closed
    /\ closed' = TRUE
    /\ queue' = <<>>
    /\ UNCHANGED <<viewers, relay, driver>>

-----------------------------------------------------------------------------
(* The driver: #injectText, NativeUploadStore.prepare and discard          *)

\* The event in hand keeps its bytes pending until it is released: it stays at the head
\* of the queue.  Its file bytes are reserved before anything is written; past the limit
\* the input is refused and the projection fenced.
Take ==
    /\ step = "idle" /\ ~closed /\ queue # <<>>
    /\ IF reserved < MaxStored
       THEN /\ reserved' = reserved + 1 /\ step' = "write" /\ at' = Head(queue)
            /\ UNCHANGED <<queue, closed>>
       ELSE /\ step' = "fenced" /\ closed' = TRUE /\ queue' = <<>>
            /\ UNCHANGED <<reserved, at>>
    /\ UNCHANGED <<viewers, relay, disk, attempted>>

\* The files are written; an abort or a file error discards what was written.
WriteFiles ==
    /\ step = "write"
    /\ \/ step' = "gate" /\ disk' = disk \union {at}
       \/ step' = "discard" /\ disk' \in {disk, disk \union {at}}
    /\ UNCHANGED <<viewers, relay, queue, closed, at, reserved, attempted>>

\* The harness is idle at last.  The session is looked at once more, and the submission
\* attempted in the same step.
PassGate ==
    /\ step = "gate"
    /\ IF closed THEN step' = "discard" /\ UNCHANGED attempted
       ELSE step' = "sent" /\ attempted' = attempted \union {at}
    /\ UNCHANGED <<viewers, relay, queue, closed, at, reserved, disk>>

\* The files once the submission was attempted, whatever became of it.
Retained == disk

\* The harness shows the input, and its bytes are released; any other outcome fences the
\* projection.  The input may still be taken up later.
Settle ==
    /\ step = "sent"
    /\ \/ /\ step' = "idle"
          /\ queue' = IF closed THEN queue ELSE Tail(queue)
          /\ UNCHANGED <<closed, disk>>
       \/ /\ step' = "fenced" /\ queue' = <<>> /\ closed' = TRUE
          /\ disk' = Retained
    /\ at' = NoMessage
    /\ UNCHANGED <<viewers, relay, reserved, attempted>>

\* Files that were never submitted are unlinked and their bytes given back; an unlink
\* that fails leaves both.
Discard ==
    /\ step = "discard"
    /\ \/ disk' = disk \ {at} /\ reserved' = reserved - 1
       \/ at \in disk /\ UNCHANGED <<disk, reserved>>
    /\ step' = "fenced"
    /\ at' = NoMessage
    /\ closed' = TRUE /\ queue' = <<>>
    /\ UNCHANGED <<viewers, relay, attempted>>
-----------------------------------------------------------------------------
Next ==
    \/ \E m \in Messages : PostPart(m) \/ GiveUp(m)
    \/ ReadPart \/ Rotate \/ Break \/ Close
    \/ Take \/ WriteFiles \/ PassGate \/ Settle \/ Discard

\* The relay reads what is stored and the broker rotates every stream; viewers, failures
\* and the harness owe nothing.
Fairness == WF_attachVars(ReadPart) /\ WF_attachVars(Rotate)

Spec == Init /\ [][Next]_attachVars /\ Fairness

-----------------------------------------------------------------------------
\* The other messages with a part between the parts of m, and those with a part before or
\* after them, which a reader passes on its way from the last part of m to the first again.
Place(m, p) == CHOOSE k \in DOMAIN channel : channel[k] = [msg |-> m, part |-> p]
Between(m) == {channel[k].msg : k \in (Place(m, 1) + 1)..(Place(m, 2) - 1)}
Around(m) == {channel[k].msg : k \in DOMAIN channel \ (Place(m, 1)..Place(m, 2))}

\* Enough other messages pass either way to push m out of the buffer before it is whole.
Crowded(m) == Cardinality(Between(m)) >= MaxGroups /\ Cardinality(Around(m)) >= MaxGroups

\* However parts interleave and the buffer evicts, abandoned messages included, a message
\* whose every part is stored is admitted in the end, unless the session closes or the
\* message is crowded: one of the two gaps between its parts is short enough for the buffer,
\* and what a later subscription reads again completes what the buffer kept.  Nothing in the
\* code prevents crowding, and messages that crowd one another are never admitted.
CompleteAdmitted ==
    []<>(closed \/ \A m \in Messages :
            sent[m] = Cardinality(Parts) /\ ~Crowded(m) => m \in seen)
=============================================================================
