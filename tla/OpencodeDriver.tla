---------------------------- MODULE OpencodeDriver ----------------------------
(***************************************************************************)
(* The companion of one OpenCode session it does not own.  The capture     *)
(* pump reads the server's event stream and reconciles it with the         *)
(* session's history and status; the inject pump reads the viewers'        *)
(* commands; the browser-turn pump admits their text one native turn at a  *)
(* time.  The terminal user of the same session is a second writer that    *)
(* no lock excludes, and every await of one pump lets the others run.      *)
(* Code: packages/cli/src/host/rc/opencode/driver.ts and client.ts.        *)
(*                                                                         *)
(* A native message is its position in the session's history; a part is    *)
(* the version of its message's content.  Child sessions and the opt-in    *)
(* permission mirror are left out.                                         *)
(***************************************************************************)
EXTENDS Integers, Sequences, FiniteSets, SequencesExt

CONSTANTS
    Prompts,        \* browser texts, each with its own part marker
    Locals,         \* texts the terminal user types
    Interrupts,     \* browser interrupts
    Attempts,       \* RECONNECT_ATTEMPTS
    MaxDrops,       \* bound: streams that break, and calls that fail
    MaxErrors,      \* bound: native runs that end with an error
    Budget,         \* bound: texts, interrupts and failures together
    NULL

ASSUME BoundsAssumption == Attempts \in Nat \ {0} /\ MaxDrops \in Nat /\ MaxErrors \in Nat /\ Budget \in Nat

ASSUME NamesAssumption ==
    /\ IsFiniteSet(Prompts) /\ IsFiniteSet(Locals) /\ Prompts \intersect (Locals \union Interrupts) = {}
    /\ NULL \notin [of : Prompts, sawBusy : BOOLEAN] \union [of : Prompts, at : {"sent", "applied", "answered"}]

VARIABLES
    \* the native server
    history,    \* the session's messages; the position is the id
    status,     \* "idle" | "busy", what GET /session/status answers
    handled,    \* users up to this id need no run any more
    \* the event stream
    conn,       \* "up" | "broken"
    sse,        \* events received and not yet read by the capture pump
    \* the viewers' commands
    inbox,      \* Session downstream, not yet read by the inject pump
    turns,      \* #browserTurns
    aborting,   \* the interrupt under way: "none" | "posted" | "applied"
    acked,      \* downstream events acknowledged
    \* admission and the active turn
    transport,  \* #transportReady
    nativeIdle, \* #nativeIdle
    turn,       \* #activeBrowserTurn
    post,       \* #browserTurnPump: the prompt_async it awaits, and how far it is
    \* the projection
    proj,       \* ledgers and the upstream log, see Projection
    shown,      \* session.workerStatus
    capture,    \* "connect" | "history" | "status" | "consume" | "errorstatus"
    mode,       \* "strict" | "live" reconciliation
    snap,       \* length of the history the reconciliation holds
    attempt,    \* reconnections tried, 0 for the start
    over,       \* the companion has ended
    \* ghosts and bounds
    posted,     \* texts whose prompt_async was called
    drops, errors

native  == <<history, status, handled>>
stream  == <<conn, sse>>
inbound == <<inbox, turns, aborting, acked>>
latch   == <<transport, nativeIdle>>
writer  == <<turn, post, posted>>
reader  == <<capture, mode, snap, attempt>>
bounds  == <<drops, errors>>
opencodeVars == <<native, stream, inbound, latch, writer, proj, shown, reader, over, bounds>>

Commands == Prompts \union Interrupts
MessageIds == 1..(2 * Cardinality(Prompts \union Locals))
Users == {i \in DOMAIN history : history[i].role = "user"}
LatestOf(S) == CHOOSE i \in S \union {0} : \A j \in S : j <= i
OpenReply == {i \in DOMAIN history : ~history[i].done}
Answered(u) == \E i \in DOMAIN history : history[i].parent = u

OpencodeInit ==
    /\ history = <<>> /\ status = "idle" /\ handled = 0
    /\ conn = "broken" /\ sse = <<>>
    /\ inbox = <<>> /\ turns = <<>> /\ aborting = "none" /\ acked = {}
    /\ transport = FALSE /\ nativeIdle = FALSE
    /\ turn = NULL /\ post = NULL /\ posted = {}
    /\ proj = [order |-> <<>>, latest |-> 0, roles |-> {}, parents |-> {}, buf |-> [i \in MessageIds |-> 0],
               emitted |-> [i \in MessageIds |-> 0], up |-> <<>>, bound |-> 0, bad |-> FALSE]
    /\ shown = "idle"
    /\ capture = "connect" /\ mode = "strict" /\ snap = 0 /\ attempt = 0
    /\ over = FALSE /\ drops = 0 /\ errors = 0

-----------------------------------------------------------------------------
(* The native server, as the client's calls and the events show it         *)

Arrive(events) == sse' = IF conn = "up" THEN sse \o events ELSE sse
\* A native step leaves the companion alone; after its end nobody looks any more.
Quiet == ~over /\ UNCHANGED <<conn, inbound, latch, turn, posted, proj, shown, reader, over>>

AppendUser(text) ==
    /\ history' = Append(history, [role |-> "user", of |-> text, parent |-> 0, ver |-> 1, done |-> TRUE])
    /\ Arrive(<<[t |-> "user", id |-> Len(history) + 1]>>)

Asked == ToSet(inbox) \union ToSet(turns) \union posted \union acked
Inputs == Asked \union {history[i].of : i \in Users}
Affordable == Cardinality(Inputs) + drops + errors < Budget

LocalPrompt(l) ==
    /\ Affordable /\ \A i \in Users : history[i].of # l
    /\ AppendUser(l)
    /\ UNCHANGED <<status, handled, post, bounds>> /\ Quiet

\* prompt_async reaches the server: the user message exists before its run does.
ApplyPrompt ==
    /\ post # NULL /\ post.at = "sent"
    /\ AppendUser(post.of)
    /\ post' = [post EXCEPT !.at = "applied"]
    /\ UNCHANGED <<status, handled, bounds>> /\ Quiet

StartRun ==
    /\ status = "idle" /\ LatestOf(Users) > handled
    /\ status' = "busy"
    /\ Arrive(<<[t |-> "busy", id |-> 0]>>)
    /\ UNCHANGED <<history, handled, post, bounds>> /\ Quiet

\* The run answers the latest user; the reply is resent whole until complete.
BeginReply ==
    /\ status = "busy" /\ OpenReply = {}
    /\ LET u == LatestOf(Users) IN
       /\ u > handled /\ ~Answered(u)
       /\ history' = Append(history, [role |-> "assistant", of |-> NULL, parent |-> u, ver |-> 1, done |-> FALSE])
    /\ Arrive(<<[t |-> "assistant", id |-> Len(history) + 1], [t |-> "part", id |-> Len(history) + 1, ver |-> 1]>>)
    /\ UNCHANGED <<status, handled, post, bounds>> /\ Quiet

CompleteReply ==
    /\ \E i \in OpenReply :
       /\ history' = [history EXCEPT ![i].ver = 2, ![i].done = TRUE]
       /\ Arrive(<<[t |-> "part", id |-> i, ver |-> 2], [t |-> "done", id |-> i]>>)
    /\ UNCHANGED <<status, handled, post, bounds>> /\ Quiet

EndRun ==
    /\ status = "busy" /\ OpenReply = {} /\ Answered(LatestOf(Users))
    /\ status' = "idle" /\ handled' = LatestOf(Users)
    /\ Arrive(<<[t |-> "idle", id |-> 0]>>)
    /\ UNCHANGED <<history, post, bounds>> /\ Quiet

\* What ends a run early: the open reply, of which there is one at most, stays as it is
\* and counts as complete.
Settle(i) == [history[i] EXCEPT !.done = TRUE]
StopRun(first) ==
    /\ history' = [i \in DOMAIN history |-> Settle(i)]
    /\ status' = "idle" /\ handled' = LatestOf(Users)
    /\ LET open == IF OpenReply = {} THEN <<>> ELSE <<[t |-> "done", id |-> CHOOSE i \in OpenReply : TRUE]>> IN
       Arrive(first \o open \o <<[t |-> "idle", id |-> 0]>>)

FailRun ==
    /\ status = "busy" /\ OpenReply # {} /\ errors < MaxErrors /\ Affordable
    /\ StopRun(<<[t |-> "error", id |-> 0]>>)
    /\ errors' = errors + 1
    /\ UNCHANGED <<post, drops>> /\ Quiet

ApplyAbort ==
    /\ aborting = "posted" /\ ~over
    /\ aborting' = "applied"
    /\ IF status = "busy"
       THEN StopRun(<<>>)
       ELSE Arrive(<<[t |-> "idle", id |-> 0]>>) /\ UNCHANGED native
    /\ UNCHANGED <<conn, inbox, turns, acked, latch, writer, proj, shown, reader, over, bounds>>

NativeStep == StartRun \/ BeginReply \/ CompleteReply \/ EndRun

-----------------------------------------------------------------------------
(* Projecting native messages                                              *)

\* An operation that throws leaves the projection bad, and the pump ends.
Throw(p) == [p EXCEPT !.bad = TRUE]

\* #recordLiveMessage
Record(p, id) ==
    IF id \in ToSet(p.order) THEN p
    ELSE IF p.order # <<>> /\ id <= Last(p.order) THEN Throw(p)
    ELSE [p EXCEPT !.order = Append(@, id)]

Buffer(p, id, ver) == [p EXCEPT !.buf[id] = ver]

\* #tryBindBrowserMutation: the buffered user carries the active marker.
Bind(p, id) ==
    IF turn # NULL /\ history[id].of = turn.of /\ p.buf[id] # 0 THEN [p EXCEPT !.bound = id] ELSE p

\* #flushMessage: one immutable admission per message, then one upstream push.
Flush(q, id) ==
    LET p == Bind(q, id) IN
    CASE p.buf[id] = 0 /\ p.emitted[id] # 0 -> p
      [] p.buf[id] # 0 /\ p.emitted[id] = 0 ->
            [p EXCEPT !.buf[id] = 0, !.emitted[id] = p.buf[id], !.up = Append(@, [id |-> id, ver |-> p.buf[id]])]
      [] p.buf[id] = p.emitted[id] -> [p EXCEPT !.buf[id] = 0]
      [] OTHER -> Throw(p)

FlushAll(p, ids) ==
    LET after[n \in 0..Len(history)] ==
            IF n = 0 THEN p ELSE IF n \in ids THEN Flush(after[n - 1], n) ELSE after[n - 1]
    IN after[Len(history)]
Buffered(p) == {i \in MessageIds : p.buf[i] # 0}
FlushUsers(p) == FlushAll(p, Buffered(p) \intersect p.roles \intersect Users)

\* #recordAssistantParent
RecordParent(p, id) ==
    IF id \in p.parents THEN p
    ELSE IF history[id].parent # p.latest THEN Throw(p)
    ELSE [p EXCEPT !.parents = @ \union {id}]

KnowRole(p, id) == [p EXCEPT !.roles = @ \union {id}]

\* message.updated of an assistant; then its users surface, and itself once complete.
OnAssistant(p, id) == FlushUsers(RecordParent(KnowRole(Record(p, id), id), id))
OnUser(p, id) ==
    LET q == KnowRole(Record(p, id), id) IN
    IF p.emitted[id] # 0 THEN q
    ELSE [Buffer(q, id, 1) EXCEPT !.latest = IF id > @ THEN id ELSE @]

\* message.part.updated: a part of a projected message must be what was projected.
OnPart(p, id, ver) ==
    IF p.emitted[id] = 0 THEN Buffer(Record(p, id), id, ver)
    ELSE IF p.emitted[id] = ver THEN p ELSE Throw(p)

BackfillPartial(p, id) == Flush(Bind(Buffer(KnowRole(p, id), id, history[id].ver), id), id)

\* One row of #backfillHistory, which replaces what was buffered before.
Backfill(p, id) ==
    LET m == history[id]
        q == Bind(Buffer(KnowRole(p, id), id, m.ver), id) IN
    IF m.done THEN Flush(q, id) ELSE IF p.emitted[id] # 0 THEN Throw(q) ELSE q

Reconciled(p) ==
    LET ids  == [i \in DOMAIN history |-> i]
        r    == IF ~IsPrefix(p.order, ids) THEN Throw(p)
                ELSE [p EXCEPT !.order = ids, !.latest = LatestOf(Users), !.parents = @ \union (DOMAIN history \ Users)]
        after[n \in 0..Len(history)] == IF n = 0 THEN r ELSE Backfill(after[n - 1], n)
    IN after[Len(history)]

-----------------------------------------------------------------------------
(* The capture pump                                                        *)

Breaks == drops < MaxDrops /\ Affordable /\ drops' = drops + 1
Fence == over' = TRUE /\ UNCHANGED <<latch, turn, shown, capture, mode, snap, attempt>>
Calm  == UNCHANGED <<native, inbound, post, posted, bounds>>
MarkRunning == shown' = "running" /\ nativeIdle' = FALSE
Resume == capture' = "consume" /\ attempt' = 0 /\ UNCHANGED <<mode, snap>>

\* #openConnection and the version and identity checks behind it.
Connect ==
    /\ capture = "connect" /\ ~over
    /\ conn' = "up" /\ sse' = <<>>
    /\ capture' = "history" /\ mode' = "strict"
    /\ UNCHANGED <<snap, attempt, latch, turn, proj, shown, over>> /\ Calm

\* A candidate that fails before its reconciliation ends: at the start it ends
\* the companion, and so do Attempts failures in a row.
ConnectFails ==
    /\ capture \in {"connect", "history", "status"} /\ mode = "strict" /\ ~over
    /\ Breaks
    /\ conn' = "broken" /\ sse' = <<>>
    /\ attempt' = attempt + 1
    /\ over' = (attempt \in {0, Attempts})
    /\ capture' = "connect"
    /\ UNCHANGED <<native, inbound, latch, writer, proj, shown, mode, snap, errors>>

\* A read that fails in the live mode counts as the loss of the stream.
ReadFails ==
    /\ capture \in {"history", "status", "errorstatus"} /\ mode = "live" /\ ~over
    /\ Breaks
    /\ conn' = "broken" /\ sse' = <<>>
    /\ transport' = FALSE /\ nativeIdle' = FALSE
    /\ capture' = "connect" /\ attempt' = 1 /\ mode' = "strict"
    /\ UNCHANGED <<native, inbound, writer, proj, shown, snap, over, errors>>

\* The stream breaks: nothing more arrives on it, and its last events may be lost.
Drop ==
    /\ conn = "up" /\ ~over
    /\ Breaks
    /\ conn' = "broken"
    /\ \E n \in {0, Len(sse)} : sse' = SubSeq(sse, 1, n)
    /\ UNCHANGED <<native, inbound, latch, writer, proj, shown, reader, over, errors>>

\* The pump reads the end: writes pause until a new stream has been reconciled.
NoticeLoss ==
    /\ capture = "consume" /\ conn = "broken" /\ sse = <<>> /\ ~over
    /\ transport' = FALSE /\ nativeIdle' = FALSE
    /\ capture' = "connect" /\ attempt' = 1 /\ mode' = "strict"
    /\ UNCHANGED <<snap, stream, turn, proj, shown, over>> /\ Calm

\* #backfillHistory: the answer to GET /session/{id}/message.
ReadHistory ==
    /\ capture = "history" /\ ~over
    /\ proj' = Reconciled(proj)
    /\ IF proj'.bad THEN Fence
       ELSE /\ capture' = "status" /\ snap' = Len(history)
            /\ UNCHANGED <<mode, attempt, latch, turn, shown, over>>
    /\ UNCHANGED stream /\ Calm

\* #reconcileNativeTurnState, the rest: the status decides with the history that
\* was read before it, and with the turn that is active after it.
Marked == {i \in Users : i <= snap /\ history[i].of = turn.of}
ReleaseStrict ==
    /\ nativeIdle' = (nativeIdle \/ mode = "strict") /\ transport' = (transport \/ mode = "strict")
    /\ shown' = "idle" /\ turn' = NULL

Release ==
    /\ nativeIdle' = TRUE /\ transport' = (transport \/ mode = "strict")
    /\ shown' = "idle" /\ turn' = NULL

\* The status was not idle.
StayBusy ==
    /\ MarkRunning
    /\ transport' = (transport \/ mode = "strict")
    /\ turn' = IF turn = NULL THEN NULL ELSE [turn EXCEPT !.sawBusy = TRUE]

SeenOrNot == FALSE

\* An idle before the turn was seen busy is not its own: the live mode waits.
Unproved == mode = "live" /\ ~turn.sawBusy
Hold == nativeIdle' = FALSE /\ UNCHANGED <<transport, turn, shown>>

ReadStatus ==
    /\ capture = "status" /\ ~over
    /\ \/ status = "busy" /\ StayBusy /\ Resume /\ UNCHANGED <<over, proj>>
       \/ status = "idle" /\ turn = NULL /\ Release /\ Resume /\ UNCHANGED <<over, proj>>
       \/ /\ status = "idle" /\ turn # NULL /\ Marked = {}
          /\ IF Unproved THEN Hold /\ Resume /\ UNCHANGED over ELSE Fence
          /\ UNCHANGED proj
       \/ /\ status = "idle" /\ turn # NULL /\ Marked # {}
          /\ proj' = [proj EXCEPT !.bound = LatestOf(Marked)]
          /\ IF proj.latest \notin Marked THEN Fence
             ELSE /\ Resume /\ UNCHANGED over
                  /\ IF Unproved THEN Hold ELSE Release
    /\ UNCHANGED stream /\ Calm

\* One event of the stream, #onEvent.
Event(t) == capture = "consume" /\ sse # <<>> /\ Head(sse).t = t /\ ~over /\ sse' = Tail(sse) /\ UNCHANGED conn

Project(p) ==
    /\ proj' = p
    /\ over' = p.bad

ReadUser ==
    /\ Event("user")
    /\ LET id == Head(sse).id IN
       /\ Project(OnUser(proj, id))
       /\ IF id \in proj.roles THEN UNCHANGED <<nativeIdle, shown>> ELSE MarkRunning
    /\ UNCHANGED <<transport, turn, reader>> /\ Calm

ReadMessage ==
    /\ \/ Event("part") /\ Project(OnPart(proj, Head(sse).id, Head(sse).ver))
       \/ Event("assistant") /\ Project(OnAssistant(proj, Head(sse).id))
       \/ Event("done") /\ Project(Flush(OnAssistant(proj, Head(sse).id), Head(sse).id))
    /\ UNCHANGED <<latch, turn, shown, reader>> /\ Calm

ReadBusy ==
    /\ Event("busy")
    /\ MarkRunning
    /\ turn' = IF turn = NULL THEN NULL ELSE [turn EXCEPT !.sawBusy = TRUE]
    /\ UNCHANGED <<transport, proj, reader, over>> /\ Calm

\* session.idle only triggers a reconciliation.
ReadIdle ==
    /\ Event("idle")
    /\ capture' = "history" /\ mode' = "live"
    /\ UNCHANGED <<snap, attempt, latch, turn, proj, shown, over>> /\ Calm

\* session.error surfaces what is buffered, then re-reads the status for display.
ReadError ==
    /\ Event("error")
    /\ Project(FlushAll(proj, Buffered(proj)))
    /\ capture' = "errorstatus"
    /\ UNCHANGED <<mode, snap, attempt, latch, turn, shown>> /\ Calm

ShowStatus ==
    /\ capture = "errorstatus" /\ ~over
    /\ shown' = IF status = "busy" THEN "running" ELSE "idle"
    /\ capture' = "consume"
    /\ UNCHANGED <<mode, snap, attempt, stream, latch, turn, proj, over>> /\ Calm

CaptureStep ==
    \/ Connect \/ NoticeLoss \/ ReadHistory \/ ReadStatus
    \/ ReadUser \/ ReadMessage \/ ReadBusy \/ ReadIdle \/ ReadError \/ ShowStatus

-----------------------------------------------------------------------------
(* The inject pump and the browser-turn pump                               *)

Started == attempt # 0 \/ mode = "live" \/ capture \in {"consume", "errorstatus"}

\* The relay hands a viewer's command down, once the bridge has started.
Send(c) ==
    /\ Started /\ ~over
    /\ Affordable /\ c \notin Asked
    /\ inbox' = Append(inbox, c)
    /\ UNCHANGED <<native, stream, turns, aborting, acked, latch, writer, proj, shown, reader, over, bounds>>

Still == UNCHANGED <<native, stream, shown, reader, bounds>>
Reads(kinds) == ~over /\ inbox # <<>> /\ Head(inbox) \in kinds

\* Text moves to the turn queue whatever the native state.
QueueText ==
    /\ Reads(Prompts)
    /\ turns' = Append(turns, Head(inbox)) /\ inbox' = Tail(inbox)
    /\ UNCHANGED <<aborting, acked, latch, writer, proj, over>> /\ Still

\* An interrupt waits for the transport only, and closes the latch.
PostAbort ==
    /\ Reads(Interrupts) /\ aborting = "none" /\ transport
    /\ nativeIdle' = FALSE
    /\ aborting' = "posted"
    /\ UNCHANGED <<inbox, turns, acked, transport, writer, proj, over>> /\ Still

AbortAnswered ==
    /\ Reads(Interrupts) /\ aborting = "applied"
    /\ aborting' = "none"
    /\ acked' = acked \union {Head(inbox)} /\ inbox' = Tail(inbox)
    /\ UNCHANGED <<turns, latch, writer, proj, over>> /\ Still

\* claimTurn, the active turn and the post follow each other without an await.
ClaimTurn ==
    /\ ~over /\ turns # <<>> /\ post = NULL
    /\ transport /\ nativeIdle
    /\ nativeIdle' = FALSE
    /\ turns' = Tail(turns)
    /\ IF turn # NULL
       THEN over' = TRUE /\ UNCHANGED <<writer, proj>>
       ELSE /\ turn' = [of |-> Head(turns), sawBusy |-> FALSE]
            /\ proj' = [proj EXCEPT !.bound = 0]
            /\ post' = [of |-> Head(turns), at |-> "sent"]
            /\ posted' = posted \union {Head(turns)}
            /\ UNCHANGED over
    /\ UNCHANGED <<inbox, aborting, acked, transport>> /\ Still

PromptAnswered ==
    /\ ~over /\ post # NULL /\ post.at = "applied"
    /\ post' = [post EXCEPT !.at = "answered"]
    /\ UNCHANGED <<inbound, latch, turn, posted, proj, over>> /\ Still

Acknowledge ==
    /\ acked' = acked \union {post.of}
    /\ post' = NULL
    /\ UNCHANGED <<inbox, turns, aborting, latch, turn, posted, proj, over>> /\ Still

\* The 204 names no message: the capture pump must have bound the marker.
AckText == ~over /\ post # NULL /\ post.at = "answered" /\ proj.bound # 0 /\ Acknowledge

\* A mutation is refused or passes its wall: nothing is retried, the projection is
\* fenced and the native session left alone.  The relay's end and the owner's signal
\* stop the companion in the same way at any point, and need no action of their own.
MutationFails ==
    /\ ~over /\ (post # NULL \/ aborting # "none")
    /\ Breaks
    /\ over' = TRUE
    /\ UNCHANGED <<native, stream, inbound, latch, writer, proj, shown, reader, errors>>

WriterStep == QueueText \/ PostAbort \/ AbortAnswered \/ ClaimTurn \/ PromptAnswered \/ AckText

-----------------------------------------------------------------------------
(* The specification                                                       *)

OpencodeNext ==
    \/ NativeStep \/ ApplyPrompt \/ ApplyAbort \/ FailRun
    \/ \E l \in Locals : LocalPrompt(l)
    \/ CaptureStep \/ ConnectFails \/ ReadFails \/ Drop
    \/ \E c \in Commands : Send(c)
    \/ WriterStep \/ MutationFails

OpencodeSpec == OpencodeInit /\ [][OpencodeNext]_opencodeVars

\* When a step of the capture pump is enabled; FairSpec states its weak fairness with
\* this predicate, because TLC evaluates ENABLED CaptureStep very slowly.
CanCapture == ~over /\ (capture = "consume" => sse # <<>> \/ conn = "broken")

\* The event loop runs what is ready, and the native server answers and runs.
CompanionFairness ==
    /\ WF_opencodeVars(NativeStep \/ ApplyPrompt \/ ApplyAbort)
    /\ WF_opencodeVars(WriterStep)
    /\ []<>~CanCapture \/ []<><<CaptureStep>>_opencodeVars
FairSpec == OpencodeSpec /\ CompanionFairness

-----------------------------------------------------------------------------
(* Properties                                                              *)

\* However the live stream and the history overlap, the transcript shows a native
\* message once, and a reply after the text it answers; as long as no run ends with
\* an error, which surfaces what is buffered, only in its final form.
ProjectionFaithful ==
    \A i \in DOMAIN proj.up : LET m == proj.up[i] IN
        /\ \A j \in DOMAIN proj.up : proj.up[j].id = m.id => i = j
        /\ errors = 0 => history[m.id].done /\ history[m.id].ver = m.ver
        /\ history[m.id].parent # 0 => \E j \in 1..(i - 1) : proj.up[j].id = history[m.id].parent

\* docs/opencode-driver.md: the turn must have crossed a native busy epoch before live
\* idle releases the next writer, which keeps concurrent text out: of two browser texts
\* the run of one has ended.  A busy of an earlier run that is still queued counts too.
Finished(p) == \E u \in Users : history[u].of = p /\ u <= handled
OneTextAtATime == \A p, q \in posted : p = q \/ Finished(p) \/ Finished(q)

\* While the browser is the only writer, no stream is lost and at most one interrupt was
\* sent, whose idle may be that of no run, a text is posted only when the run of every
\* earlier one has ended.
OnlyBrowser == drops = 0 /\ \A i \in Users : history[i].of \in Prompts
OneInterrupt == \A c, d \in Asked \intersect Interrupts : c = d
BrowserTurnsSerial ==
    [][OnlyBrowser /\ OneInterrupt /\ posted' # posted => \A p \in posted : Finished(p)]_opencodeVars

\* Every browser text is in the end acknowledged, or the companion has ended.
TextsSettle == \A p \in Prompts : p \in ToSet(inbox) ~> p \in acked \/ over

-----------------------------------------------------------------------------
(* The inductive invariant                                                 *)

Replies == DOMAIN history \ Users
NativeMessages == [role : {"user", "assistant"}, of : Prompts \union Locals \union {NULL}, parent : Nat, ver : {1, 2},
                   done : BOOLEAN]
Events == [t : {"user", "assistant", "done", "busy", "idle", "error"}, id : Nat] \union [t : {"part"}, id : Nat, ver : {1, 2}]
Projections ==
    [order : Seq(Nat), latest : Nat, roles : SUBSET Nat, parents : SUBSET Nat, buf : [MessageIds -> 0..2],
     emitted : [MessageIds -> 0..2], up : Seq([id : MessageIds, ver : {1, 2}]), bound : Nat, bad : BOOLEAN]
OpencodeTypeOK ==
    /\ history \in Seq(NativeMessages) /\ status \in {"idle", "busy"} /\ handled \in Nat
    /\ conn \in {"up", "broken"} /\ sse \in Seq(Events)
    /\ inbox \in Seq(Commands) /\ turns \in Seq(Prompts) /\ aborting \in {"none", "posted", "applied"}
    /\ acked \subseteq Commands /\ transport \in BOOLEAN /\ nativeIdle \in BOOLEAN
    /\ turn # NULL => turn \in [of : Prompts, sawBusy : BOOLEAN]
    /\ post # NULL => post \in [of : Prompts, at : {"sent", "applied", "answered"}]
    /\ posted \subseteq Prompts /\ proj \in Projections /\ shown \in {"idle", "running"}
    /\ capture \in {"connect", "history", "status", "consume", "errorstatus"} /\ mode \in {"strict", "live"}
    /\ snap \in Nat /\ attempt \in Nat /\ over \in BOOLEAN /\ drops \in Nat /\ errors \in Nat

\* A text is there once and answered once, and whatever runs has a user to answer.
ServerOK ==
    /\ \A u \in Users : history[u].done /\ history[u].ver = 1 /\ history[u].parent = 0
                        /\ history[u].of \in Prompts \union Locals
    /\ \A i \in Replies : history[i].parent \in Users /\ history[i].parent < i
    /\ \A u, v \in Users : history[u].of = history[v].of => u = v
    /\ \A i, j \in Replies : history[i].parent = history[j].parent => i = j
    /\ status = "busy" => \E u \in Users : u > handled

\* A command is in one place, and a text posted once.
TextsOK ==
    /\ \A u \in Users : history[u].of \in Prompts => history[u].of \in posted
    /\ post # NULL => post.of \in posted /\ (post.at = "sent" => \A u \in Users : history[u].of # post.of)
    /\ \A k \in DOMAIN turns : turns[k] \notin posted /\ \A l \in DOMAIN turns : turns[l] = turns[k] => l = k
    /\ \A k \in DOMAIN inbox :
          /\ inbox[k] \notin posted \union acked
          /\ \A l \in DOMAIN turns : turns[l] # inbox[k]
          /\ \A l \in DOMAIN inbox : inbox[l] = inbox[k] => l = k
    /\ aborting # "none" => inbox # <<>> /\ Head(inbox) \in Interrupts

\* The ledger is what was shown; a reply is met after its user, and shown after it.
Met(p, i) == p.emitted[i] # 0 \/ p.buf[i] # 0
LedgerOK(p) ==
    /\ \A i \in MessageIds : Met(p, i) => i \in DOMAIN history
    /\ \A u \in Users : p.buf[u] # 0 => p.buf[u] = 1 /\ u \in p.roles
    /\ \A i \in Replies : Met(p, i) => Met(p, history[i].parent)
    /\ \A i \in MessageIds : p.emitted[i] # 0 => \E k \in DOMAIN p.up : p.up[k].id = i
    /\ \A k \in DOMAIN p.up : LET m == p.up[k] IN
          /\ p.emitted[m.id] = m.ver
          /\ \A l \in DOMAIN p.up : p.up[l].id = m.id => l = k
          /\ errors = 0 => history[m.id].done /\ history[m.id].ver = m.ver
          /\ history[m.id].parent # 0 => \E j \in 1..(k - 1) : p.up[j].id = history[m.id].parent

\* A user is met, will be read by the reconciliation, or is on its way before what
\* answers it.
Unread == capture = "connect" \/ (capture = "history" /\ mode = "strict")
Said(u) == [t |-> "user", id |-> u]
StreamOK(p, s) ==
    /\ \A k \in DOMAIN s :
          /\ s[k].t = "user" => s[k].id \in Users
          /\ s[k].t = "error" => errors > 0
          /\ s[k].t \in {"assistant", "part", "done"} =>
                /\ s[k].id \in Replies
                /\ LET u == history[s[k].id].parent IN Unread \/ Met(p, u) \/ \E j \in 1..(k - 1) : s[j] = Said(u)
    /\ conn = "up" => \A u \in Users : Unread \/ Met(p, u) \/ \E k \in DOMAIN s : s[k] = Said(u)

\* What a reply says now is buffered, shown, will be read, or is on its way, before the
\* event that completes it and after whatever it said earlier.
Latest(i) == [t |-> "part", id |-> i, ver |-> history[i].ver]
Fresh(p, i) == Unread \/ p.emitted[i] # 0 \/ p.buf[i] = history[i].ver
FreshOK(p, s) ==
    /\ \A k \in DOMAIN s : s[k].t = "done" =>
          history[s[k].id].done /\ (Fresh(p, s[k].id) \/ \E j \in 1..(k - 1) : s[j] = Latest(s[k].id))
    /\ conn = "up" => \A i \in Replies : Fresh(p, i) \/ \E k \in DOMAIN s : s[k] = Latest(i)
    /\ \A k \in DOMAIN s : s[k].t = "part" /\ s[k] # Latest(s[k].id) =>
          /\ conn = "up" => \E l \in DOMAIN s : l > k /\ s[l] = Latest(s[k].id)
          /\ \A d \in DOMAIN s : d > k /\ s[d].t = "done" /\ s[d].id = s[k].id
                => \E l \in (k + 1)..(d - 1) : s[l] = Latest(s[k].id)

\* While the browser is alone: whatever was posted is over, but for the active turn; a turn
\* seen busy has run; and its busy is on its way only until the idle that may release it,
\* because one idle at most, the interrupt's, is not that of its run.
Alone == OnlyBrowser /\ OneInterrupt
Ran(p) == \E u \in Users : history[u].of = p /\ (status = "busy" \/ u <= handled)
Spent == aborting = "applied" \/ acked \intersect Interrupts # {}
Ended == turn # NULL /\ Finished(turn.of)
Deciding == capture \in {"history", "status"} /\ mode = "live"
Idles(s) == {k \in DOMAIN s : s[k].t = "idle"}
One(b) == IF b THEN 1 ELSE 0
SerialOK ==
    /\ \A p \in posted : turn = NULL \/ p # turn.of => Finished(p)
    /\ turn # NULL /\ turn.sawBusy => Ran(turn.of)
    /\ mode = "strict" /\ capture \in {"connect", "history", "status"} => turn = NULL /\ ~transport
    /\ IF capture = "connect" THEN mode = "strict" ELSE conn = "up"
    /\ \A k \in DOMAIN sse : sse[k].t = "busy" =>
          /\ turn # NULL /\ Ran(turn.of)
          /\ \A l \in DOMAIN sse : sse[l].t = "busy" => l = k
          /\ Deciding \/ turn.sawBusy => \A l \in Idles(sse) : l > k
          /\ ~(Deciding /\ turn.sawBusy)
          /\ \A l, m \in Idles(sse) : l < k /\ m < k => l = m
    /\ Cardinality(Idles(sse)) + One(Deciding) <= One(Spent) + One(Ended)

OpencodeInv ==
    /\ OpencodeTypeOK /\ ServerOK /\ TextsOK /\ LedgerOK(proj) /\ StreamOK(proj, sse)
    /\ errors = 0 => FreshOK(proj, sse)
    /\ Alone => SerialOK
=============================================================================
