----------------------------- MODULE CodexDriver -----------------------------
(***************************************************************************)
(* The companion of one Codex thread.  One socket carries, in order, the   *)
(* answers to the companion's requests and the notifications and requests  *)
(* of the app-server.  The client takes a message apart when it arrives:   *)
(* an answer wakes the pump that asked, everything else waits in a queue   *)
(* for the capture pump.  Three more pumps run between those awaits: the   *)
(* inject pump (interrupts, decisions), the browser-turn pump (text) and   *)
(* the history-repair pump.  The terminal user is a second writer and a    *)
(* second answerer of approvals.                                           *)
(* Code: packages/cli/src/host/rc/codex/{driver,client,approvals,          *)
(* file-approvals}.ts, for app-server 0.154.0.                             *)
(*                                                                         *)
(* An item is its position in the thread and its content a version; the    *)
(* approval of an item is named by the item.  Choice forms share the life  *)
(* of a command approval; settings, uploads and size limits are left out.  *)
(***************************************************************************)
EXTENDS Integers, Sequences, FiniteSets, SequencesExt

CONSTANTS
    Prompts,        \* browser texts
    Locals,         \* texts the terminal user types
    Interrupts,     \* browser interrupts
    Kinds,          \* kinds of reply items: subset of {"agent", "cmd", "patch"}
    MaxReplies,     \* bound: reply items of the thread
    MaxErrors,      \* bound: turns that end with a system error
    MaxDecisions,   \* bound: decisions the viewers send
    Budget,         \* bound: texts, interrupts, errors, replays, decisions and failures together
    NULL

ASSUME BoundsAssumption ==
    /\ MaxReplies \in Nat /\ MaxErrors \in Nat /\ MaxDecisions \in Nat /\ Budget \in Nat
    /\ Kinds \subseteq {"agent", "cmd", "patch"}

ASSUME NamesAssumption ==
    /\ IsFiniteSet(Prompts) /\ IsFiniteSet(Locals)
    /\ \A p \in Prompts : p \notin Locals \union Interrupts \union Nat
    /\ NULL \notin [of : Prompts, at : {"sent", "applied", "answered"}]

VARIABLES
    \* the app-server
    thread,     \* items: turn, kind, of, ver (1 partial, 2 complete), ask
    turn,       \* number of the latest turn
    status,     \* "idle" | "active" | "systemError"
    mode,       \* historyMode: "paginated" | "legacy"
    \* the socket
    wire,       \* messages on their way to the client
    decisions,  \* the companion's approval decisions: "none" | "sent" | "applied"
    \* the client
    queue,      \* #queue
    received,   \* #serverRequests: every request ever received
    live,       \* #liveServerRequests: those still answerable
    \* the driver
    reading,    \* the request of the startup or of the history-repair pump
    phase,      \* "attach" | "drain" | "run"
    gate,       \* IdleGate.#idle
    proj,       \* the reconciler, the repair queue and the approval cards
    inbox,      \* Session downstream, not yet read by the inject pump
    turns,      \* #browserTurns
    writer,     \* the browser-turn pump's text: [of, at]
    stop,       \* the inject pump's interrupt: [step, at, turn]
    lastStopped,\* #lastInterruptedTurn
    acked,      \* downstream events acknowledged
    over,       \* the companion has ended
    \* ghosts and bounds
    posted, errors, decided, replays

native == <<thread, turn, status, mode>>
client == <<queue, received, live>>
inbound == <<inbox, turns, acked>>
ghosts == <<posted, errors, decided, replays>>
codexVars == <<native, wire, decisions, client, reading, phase, gate, proj, inbound, writer, stop, lastStopped, over, ghosts>>

Ids == 1..(Cardinality(Prompts \union Locals) + MaxReplies)
Users == {i \in DOMAIN thread : thread[i].kind = "user"}
Replies == DOMAIN thread \ Users
Terminal(t) == t < turn \/ (t = turn /\ status # "active")
OpenItems == {i \in DOMAIN thread : thread[i].turn = turn /\ thread[i].ver = 1 /\ status = "active"}
NoRequest == [step |-> "none", at |-> "none", turn |-> 0, pos |-> 0, terminal |-> {}, got |-> <<>>, more |-> FALSE]
Request(step, t) == [NoRequest EXCEPT !.step = step, !.at = "sent", !.turn = t]

CodexInit ==
    /\ thread = <<>> /\ turn = 0 /\ status = "idle" /\ mode \in {"paginated", "legacy"}
    /\ wire = <<>> /\ decisions = [i \in Ids |-> "none"]
    /\ queue = <<>> /\ received = {} /\ live = {}
    /\ reading = Request("resume", 0) /\ phase = "attach" /\ gate = FALSE
    /\ proj = [seen |-> [i \in Ids |-> 0], up |-> <<>>, deferred |-> {}, ready |-> <<>>, starts |-> {},
               draft |-> 0, overlap |-> FALSE, bound |-> {}, fresh |-> {}, cards |-> [i \in Ids |-> "none"], bad |-> FALSE]
    /\ inbox = <<>> /\ turns = <<>> /\ writer = NULL /\ stop = NoRequest /\ lastStopped = 0
    /\ acked = {} /\ over = FALSE
    /\ posted = {} /\ errors = 0 /\ decided = <<>> /\ replays = 0

-----------------------------------------------------------------------------
(* The app-server, as the client's calls and the notifications show it     *)

\* Nothing is sent to a connection that has not resumed the thread.
Subscribed == reading.step # "resume" \/ reading.at # "sent"
Emit(msgs) == wire' = IF Subscribed THEN wire \o msgs ELSE wire
Msg(t, id) == [t |-> t, id |-> id]
NewItem(t, kind, of, ver) == [turn |-> t, kind |-> kind, of |-> of, ver |-> ver, ask |-> "none"]

Asked == ToSet(inbox) \union ToSet(turns) \union posted \union acked
Inputs == (Asked \ Ids) \union {thread[i].of : i \in Users}
Affordable == Cardinality(Inputs) + errors + replays + Len(decided) < Budget

\* The companion is not part of a native step, and after its end nobody looks.
Companion == <<client, reading, phase, gate, proj, inbound, writer, stop, lastStopped, over>>

\* User input starts a turn, or joins the one that runs.
AcceptInput(text, before, after) ==
    /\ turn' = IF status = "active" THEN turn ELSE turn + 1
    /\ status' = "active"
    /\ thread' = Append(thread, NewItem(turn', "user", text, 2))
    /\ LET active == IF status = "active" THEN <<>> ELSE <<Msg("active", 0)>> IN
       Emit(before \o active \o <<Msg("completed", Len(thread) + 1)>> \o after)
    /\ UNCHANGED mode

LocalPrompt(l) ==
    /\ ~over /\ Affordable /\ \A i \in Users : thread[i].of # l
    /\ AcceptInput(l, <<>>, <<>>)
    /\ UNCHANGED <<Companion, decisions, ghosts>>

\* The answer to turn/start may come before or after the notifications.
ApplyStart ==
    /\ ~over /\ writer # NULL /\ writer.at = "sent"
    /\ LET answer == <<Msg("answer", "writer")>> IN
       \/ AcceptInput(writer.of, answer, <<>>)
       \/ AcceptInput(writer.of, <<>>, answer)
    /\ writer' = [writer EXCEPT !.at = "applied"]
    /\ UNCHANGED <<client, reading, phase, gate, proj, inbound, stop, lastStopped, over, ghosts, decisions>>

\* A reply item; a command or a patch asks before it runs.
Asks(k) == k # "agent"
BeginItem(k) ==
    /\ ~over /\ status = "active" /\ Cardinality(Replies) < MaxReplies
    /\ Asks(k) => \A i \in DOMAIN thread : thread[i].ask = "none"
    /\ thread' = Append(thread, [NewItem(turn, k, NULL, 1) EXCEPT !.ask = IF Asks(k) THEN "open" ELSE "none"])
    /\ LET id == Len(thread) + 1 IN
       Emit(IF Asks(k) THEN <<Msg("started", id), Msg("request", id)>> ELSE <<Msg("started", id)>>)
    /\ UNCHANGED <<turn, status, mode, Companion, decisions, ghosts>>

\* The first answer wins: the terminal user's, or a decision of the companion.
Resolve(i) ==
    /\ thread[i].ask = "open"
    /\ thread' = [thread EXCEPT ![i].ask = "closed"]
    /\ Emit(<<Msg("resolved", i)>>)
    /\ UNCHANGED <<turn, status, mode>>

AnswerLocally ==
    /\ ~over /\ \E i \in DOMAIN thread : Resolve(i)
    /\ UNCHANGED <<Companion, decisions, ghosts>>

ApplyDecision ==
    /\ ~over
    /\ \E i \in DOMAIN thread :
       /\ decisions[i] = "sent"
       /\ decisions' = [decisions EXCEPT ![i] = "applied"]
       /\ IF thread[i].ask = "open" THEN Resolve(i) ELSE UNCHANGED <<native, wire>>
    /\ UNCHANGED <<Companion, ghosts>>

CompleteItem ==
    /\ ~over
    /\ \E i \in OpenItems :
       /\ thread[i].ask \in {"none", "closed"}
       /\ thread' = [thread EXCEPT ![i].ver = 2]
       /\ Emit(<<Msg("completed", i)>>)
    /\ UNCHANGED <<turn, status, mode, Companion, decisions, ghosts>>

EndTurn ==
    /\ ~over /\ status = "active" /\ OpenItems = {}
    /\ (\E i \in Replies : thread[i].turn = turn) \/ Cardinality(Replies) = MaxReplies
    /\ status' = "idle"
    /\ Emit(<<Msg("turn", turn), Msg("idle", 0)>>)
    /\ UNCHANGED <<thread, turn, mode, Companion, decisions, ghosts>>

\* The ids of S, a subset of the thread's, in the thread's order, and a message for each.
InOrder(S) ==
    LET upTo[n \in 0..Len(thread)] ==
            IF n = 0 THEN <<>> ELSE IF n \in S THEN Append(upTo[n - 1], n) ELSE upTo[n - 1]
    IN upTo[Len(thread)]
Each(t, S) == [k \in DOMAIN InOrder(S) |-> Msg(t, InOrder(S)[k])]
Pending == {i \in DOMAIN thread : thread[i].ask = "open"}

\* A turn that is cut short: its open items stay as they are, its requests close.
CutTurn(first, last) ==
    /\ status = "active"
    /\ thread' = [i \in DOMAIN thread |->
          IF thread[i].turn = turn /\ thread[i].ask # "none" THEN [thread[i] EXCEPT !.ask = "closed"] ELSE thread[i]]
    /\ Emit(first \o Each("resolved", Pending) \o <<Msg("turn", turn), Msg(last, 0)>>)
    /\ UNCHANGED <<turn, mode>>

FailTurn ==
    /\ ~over /\ Affordable /\ errors < MaxErrors
    /\ status' = "systemError" /\ CutTurn(<<>>, "systemError")
    /\ errors' = errors + 1
    /\ UNCHANGED <<Companion, decisions, posted, decided, replays>>

\* Another client of the thread resumes it, and its pending requests are sent again.
ReplayRequest ==
    /\ ~over /\ Affordable /\ Subscribed
    /\ \E i \in DOMAIN thread : thread[i].ask = "open" /\ Emit(<<Msg("request", i)>>)
    /\ replays' = replays + 1
    /\ UNCHANGED <<native, Companion, decisions, posted, errors, decided>>

\* Reads of the startup and of the repair: answered with what the thread is now.
NextPage ==
    LET rest == IF mode = "legacy" THEN {t \in 1..turn : t > reading.pos}
                ELSE {i \in DOMAIN thread : i > reading.pos /\ (reading.turn # 0 => thread[i].turn = reading.turn)}
        k    == CHOOSE n \in rest \union {0} : n # 0 /\ \A m \in rest : n <= m
        items == IF rest = {} THEN <<>>
                 ELSE IF mode = "legacy" THEN InOrder({i \in DOMAIN thread : thread[i].turn = k}) ELSE <<k>>
        entry(i) == [id |-> i, turn |-> thread[i].turn, ver |-> thread[i].ver, ended |-> Terminal(thread[i].turn)]
    IN [got  |-> [j \in DOMAIN items |-> entry(items[j])],
        pos  |-> IF rest = {} THEN reading.pos ELSE k,
        more |-> \E n \in rest : n > k]

AnswerRead ==
    /\ ~over /\ reading.at = "sent"
    /\ LET answer == Msg("answer", "reading") IN
       \/ /\ reading.step = "resume"
          /\ reading' = [reading EXCEPT !.at = "applied", !.got = status]
          /\ wire' = <<answer>> \o Each("request", Pending)
       \/ /\ reading.step = "meta"
          /\ reading' = [reading EXCEPT !.at = "applied", !.terminal = {t \in 1..turn : Terminal(t)}]
          /\ Emit(<<answer>>)
       \/ /\ reading.step = "page"
          /\ LET slice == NextPage IN
             reading' = [reading EXCEPT !.at = "applied", !.got = slice.got, !.pos = slice.pos, !.more = slice.more]
          /\ Emit(<<answer>>)
    /\ UNCHANGED <<native, decisions, client, phase, gate, proj, inbound, writer, stop, lastStopped, over, ghosts>>

\* thread/turns/list for the latest turn, then turn/interrupt, which rejects a turn
\* that is not the active one; the rejection is a no-op.
AnswerStop ==
    /\ ~over /\ stop.at = "sent"
    /\ LET answer == <<Msg("answer", "stop")>> IN
       \/ /\ stop.step = "ask"
          /\ stop' = [stop EXCEPT !.at = "applied", !.turn = IF status = "active" THEN turn ELSE 0]
          /\ Emit(answer) /\ UNCHANGED native
       \/ /\ stop.step = "post"
          /\ stop' = [stop EXCEPT !.at = "applied"]
          /\ IF status = "active" /\ turn = stop.turn
             THEN status' = "idle" /\ CutTurn(answer, "idle")
             ELSE Emit(answer) /\ UNCHANGED native
    /\ UNCHANGED <<decisions, client, reading, phase, gate, proj, inbound, writer, lastStopped, over, ghosts>>

NativeStep ==
    \/ \E k \in Kinds : BeginItem(k)
    \/ ApplyDecision \/ CompleteItem \/ EndTurn
Server == ApplyStart \/ AnswerRead \/ AnswerStop

-----------------------------------------------------------------------------
(* The reconciler and the approval helpers                                 *)

Throw(p) == [p EXCEPT !.bad = TRUE]
Row(id, what) == [id |-> id, what |-> what]
Show(p, id, what) == [p EXCEPT !.up = Append(@, Row(id, what))]

\* #admit: one immutable content for a coordinate.
Admit(p, id, ver, told) ==
    IF p.seen[id] = 0 THEN [told EXCEPT !.seen[id] = ver]
    ELSE IF p.seen[id] = ver THEN p ELSE Throw(p)

\* accept, by the type of the item.  A text's mutation is known from before it is posted.
MineAnswered(id) == writer # NULL /\ writer.of = thread[id].of /\ writer.at = "answered"
Mine(id) == writer # NULL /\ writer.of = thread[id].of
AcceptUser(p, id) ==
    LET told == Show(p, id, "user")
    IN Admit(p, id, 2, IF Mine(id) THEN [told EXCEPT !.bound = @ \union {writer.of}] ELSE told)

AcceptAgent(p, id, ver) ==
    LET q == IF p.draft = id THEN [p EXCEPT !.draft = 0] ELSE p
    IN Admit(q, id, ver, Show(q, id, "text"))

\* A command is projected only when finished, with its call unless that was shown at its start.
AcceptCommand(p, id, ver) ==
    IF ver = 1 THEN p
    ELSE LET called == IF id \in p.starts THEN p ELSE Show(p, id, "call")
         IN Admit(p, id, ver, [Show(called, id, "result") EXCEPT !.starts = @ \ {id}])

Accept(p, id, ver) ==
    CASE thread[id].kind = "user"  -> AcceptUser(p, id)
      [] thread[id].kind = "agent" -> AcceptAgent(p, id, ver)
      [] thread[id].kind = "cmd"   -> AcceptCommand(p, id, ver)
      [] OTHER -> p

\* observeLive: at most one open text has a preview, and none that is projected.
Preview(p, id) ==
    IF p.seen[id] # 0 \/ p.overlap \/ p.draft = id THEN p
    ELSE IF p.draft # 0 THEN [p EXCEPT !.overlap = TRUE, !.draft = 0]
    ELSE [p EXCEPT !.draft = id]

\* observeCommandStart
CommandStart(p, id) ==
    IF p.seen[id] # 0 \/ id \in p.starts THEN p
    ELSE [Show(p, id, "call") EXCEPT !.starts = @ \union {id}]

\* item/started: a patch that starts now may be approved, one from history may not.
Started(p, id) ==
    CASE thread[id].kind = "agent" -> Preview(p, id)
      [] thread[id].kind = "cmd"   -> CommandStart(p, id)
      [] OTHER -> [p EXCEPT !.fresh = @ \union {id}]

\* CodexCommandApprovals.observe and CodexFileApprovals.observe
Observe(p, id) ==
    IF p.cards[id] \in {"open", "submitted"} \/ (thread[id].kind = "patch" /\ (id \notin p.fresh \/ p.cards[id] # "none"))
    THEN p
    ELSE [p EXCEPT !.cards[id] = "open"]

CloseUnanswered(p, id) ==
    IF p.cards[id] = "open" THEN [p EXCEPT !.cards[id] = "closed", !.fresh = @ \ {id}] ELSE p

\* resolve, and the completion of a patch: the card closes and nobody may answer it.
CloseCard(p, id) ==
    IF p.cards[id] \in {"open", "submitted"} THEN [p EXCEPT !.cards[id] = "closed", !.fresh = @ \ {id}] ELSE p

Completed(p, id) ==
    IF thread[id].kind = "patch" THEN [CloseCard(p, id) EXCEPT !.fresh = @ \ {id}] ELSE Accept(p, id, 2)

\* HistoryRepairQueue.complete
TurnEnds(p, t) ==
    LET q == [p EXCEPT !.draft = 0, !.overlap = FALSE] IN
    IF t \in p.deferred THEN [q EXCEPT !.deferred = @ \ {t}, !.ready = Append(@, t)] ELSE q

\* #acceptInbound, without what it does to the gate.
Inbound(p, m) ==
    CASE m.t = "started"   -> Started(p, m.id)
      [] m.t = "completed" -> Completed(p, m.id)
      [] m.t = "turn"      -> TurnEnds(p, m.id)
      [] m.t = "request"   -> Observe(p, m.id)
      [] m.t = "resolved"  -> CloseCard(p, m.id)
      [] OTHER -> p

FinalByNow(e) == Terminal(e.turn)

\* Text of a turn is final when the turn was terminal before its items were read.
Final(e) ==
    IF mode = "legacy" THEN e.ended ELSE reading.turn # 0 \/ e.turn \in reading.terminal

\* One entry of #reconcileHistory.
Entry(p, e) ==
    IF reading.turn # 0 /\ e.turn # reading.turn THEN p
    ELSE IF thread[e.id].kind = "agent" /\ ~Final(e)
    THEN IF reading.turn # 0 THEN Throw(p) ELSE [p EXCEPT !.deferred = @ \union {e.turn}]
    ELSE Accept(p, e.id, e.ver)

Reconcile(p, entries) ==
    LET after[n \in 0..Len(entries)] == IF n = 0 THEN p ELSE Entry(after[n - 1], entries[n])
    IN after[Len(entries)]

-----------------------------------------------------------------------------
(* The client: a message is taken apart when it arrives                    *)

Woken(slot, me) == IF me THEN [slot EXCEPT !.at = "answered"] ELSE slot

ReceiveAnswer ==
    /\ ~over /\ wire # <<>> /\ Head(wire).t = "answer" /\ wire' = Tail(wire)
    /\ LET who == Head(wire).id IN
       /\ reading' = Woken(reading, who = "reading")
       /\ writer' = Woken(writer, who = "writer")
       /\ stop' = Woken(stop, who = "stop")
    /\ UNCHANGED <<native, decisions, client, phase, gate, proj, inbound, lastStopped, over, ghosts>>

\* #onMessage of one message that is no answer: a request that has been received
\* before is queued again only while it is live.
Deliver(c, m) ==
    CASE m.t = "request" /\ m.id \notin c.received ->
            [queue |-> Append(c.queue, m), received |-> c.received \union {m.id}, live |-> c.live \union {m.id}]
      [] m.t = "request" /\ m.id \in c.received \ c.live -> c
      [] m.t = "resolved" -> [c EXCEPT !.queue = Append(@, m), !.live = @ \ {m.id}]
      [] OTHER -> [c EXCEPT !.queue = Append(@, m)]

Delivered(c, msgs) ==
    LET after[n \in 0..Len(msgs)] == IF n = 0 THEN c ELSE Deliver(after[n - 1], msgs[n])
    IN after[Len(msgs)]

\* The messages that have arrived; startup handles the queue in one go.
ReceiveOthers ==
    /\ ~over /\ phase # "drain" /\ wire # <<>> /\ Head(wire).t # "answer"
    /\ LET answers == {k \in DOMAIN wire : wire[k].t = "answer"}
           n == IF answers = {} THEN Len(wire) ELSE (CHOOSE k \in answers : \A l \in answers : k <= l) - 1
           c == Delivered([queue |-> queue, received |-> received, live |-> live], SubSeq(wire, 1, n)) IN
       /\ wire' = SubSeq(wire, n + 1, Len(wire))
       /\ queue' = c.queue /\ received' = c.received /\ live' = c.live
    /\ UNCHANGED <<native, decisions, reading, phase, gate, proj, inbound, writer, stop, lastStopped, over, ghosts>>

-----------------------------------------------------------------------------
(* Attach, history and its repair                                          *)

Reads(step) == ~over /\ reading.at = "answered" /\ reading.step = step
HistoryFrame == UNCHANGED <<native, wire, decisions, client, inbound, writer, stop, lastStopped, ghosts>>
FirstPage(t) == Request(IF mode = "paginated" /\ t = 0 THEN "meta" ELSE "page", t)

\* A thread whose status is systemError is not attached.
Resumed ==
    /\ Reads("resume")
    /\ gate' = (reading.got = "idle")
    /\ over' = (reading.got = "systemError")
    /\ reading' = FirstPage(0)
    /\ UNCHANGED <<phase, proj>> /\ HistoryFrame

HaveMetadata ==
    /\ Reads("meta")
    /\ reading' = [reading EXCEPT !.step = "page", !.at = "sent"]
    /\ UNCHANGED <<phase, gate, proj, over>> /\ HistoryFrame

ReadPage ==
    /\ Reads("page")
    /\ proj' = Reconcile(proj, reading.got)
    /\ over' = proj'.bad
    /\ IF reading.more
       THEN reading' = [reading EXCEPT !.at = "sent"] /\ UNCHANGED phase
       ELSE reading' = NoRequest /\ phase' = IF phase = "attach" THEN "drain" ELSE phase
    /\ UNCHANGED gate /\ HistoryFrame

\* #historyRepairPump
Repair ==
    /\ ~over /\ phase = "run" /\ reading = NoRequest /\ proj.ready # <<>>
    /\ reading' = FirstPage(Head(proj.ready))
    /\ proj' = [proj EXCEPT !.ready = Tail(@)]
    /\ UNCHANGED <<phase, gate, over>> /\ HistoryFrame

\* The startup drain has emptied the queue, and the bridge starts.
Start ==
    /\ ~over /\ phase = "drain" /\ queue = <<>>
    /\ phase' = "run"
    /\ UNCHANGED <<reading, gate, proj, over>> /\ HistoryFrame

\* One message of the queue, #acceptInbound: a system error ends the startup, and
\* later it only closes the gate.
TakeInbound ==
    /\ ~over /\ phase \in {"drain", "run"} /\ queue # <<>>
    /\ LET m == Head(queue) IN
       /\ queue' = Tail(queue)
       /\ proj' = Inbound(proj, m)
       /\ gate' = IF m.t \in {"active", "idle", "systemError"} THEN m.t = "idle" ELSE gate
       /\ over' = (proj'.bad \/ (m.t = "systemError" /\ phase = "drain"))
    /\ UNCHANGED <<native, wire, decisions, received, live, reading, phase, inbound, writer, stop, lastStopped, ghosts>>

-----------------------------------------------------------------------------
(* The viewers' commands                                                   *)

WriterFrame == UNCHANGED <<native, wire, client, reading, phase, proj, errors, replays>>

Send(c) ==
    /\ ~over /\ phase = "run" /\ Affordable /\ c \notin Asked
    /\ inbox' = Append(inbox, c)
    /\ UNCHANGED <<native, wire, decisions, client, reading, phase, gate, proj, turns, acked, writer, stop, lastStopped, over, ghosts>>

\* Viewers see a card until they see it closed, and several may decide.
Shown(i) == proj.cards[i] # "none"
Decide ==
    /\ ~over /\ phase = "run" /\ Affordable /\ Len(decided) < MaxDecisions
    /\ \E i \in DOMAIN thread :
       /\ Shown(i)
       /\ inbox' = Append(inbox, i)
       /\ decided' = Append(decided, i)
    /\ UNCHANGED <<native, wire, decisions, client, reading, phase, gate, proj, turns, acked, writer, stop, lastStopped, over, posted, errors, replays>>

Next1(kind) == ~over /\ phase = "run" /\ inbox # <<>> /\ Head(inbox) \in kind /\ inbox' = Tail(inbox)

QueueText ==
    /\ Next1(Prompts)
    /\ turns' = Append(turns, Head(inbox))
    /\ UNCHANGED <<decisions, gate, acked, writer, stop, lastStopped, over, posted, decided>> /\ WriterFrame

\* respond, and #respondToRequest: one attempt, and only while the request is live.
Answerable(i) == proj.cards[i] = "open" /\ i \in live

Respond ==
    /\ Next1(Ids)
    /\ LET i == Head(inbox) IN
       /\ decisions' = IF Answerable(i) THEN [decisions EXCEPT ![i] = "sent"] ELSE decisions
       /\ live' = IF Answerable(i) THEN live \ {i} ELSE live
       /\ proj' = IF proj.cards[i] = "open" THEN [proj EXCEPT !.cards[i] = "submitted"] ELSE proj
    /\ UNCHANGED <<native, wire, queue, received, reading, phase, gate, turns, acked, writer, stop, lastStopped, over, ghosts>>

\* #interruptCurrent: bind one observed turn, stop it once, and let the status tell.
StopFrame == UNCHANGED <<decisions, gate, turns, writer, over, posted, decided>> /\ WriterFrame

AskTurn ==
    /\ ~over /\ phase = "run" /\ inbox # <<>> /\ Head(inbox) \in Interrupts /\ stop = NoRequest
    /\ stop' = Request("ask", 0)
    /\ UNCHANGED <<inbox, acked, lastStopped>> /\ StopFrame

PostStop ==
    /\ ~over /\ stop.step = "ask" /\ stop.at = "answered" /\ stop.turn \notin {0, lastStopped}
    /\ stop' = Request("post", stop.turn)
    /\ lastStopped' = stop.turn
    /\ UNCHANGED <<inbox, acked>> /\ StopFrame

AckStop ==
    /\ Next1(Interrupts) /\ stop.at = "answered"
    /\ stop.step = "post" \/ stop.turn \in {0, lastStopped}
    /\ stop' = NoRequest
    /\ acked' = acked \union {Head(inbox)}
    /\ UNCHANGED lastStopped /\ StopFrame

\* #injectText: the gate is claimed and the turn started without an await between.
TextFrame == UNCHANGED <<decisions, inbox, stop, lastStopped, over, decided>> /\ WriterFrame

StartText ==
    /\ ~over /\ writer = NULL /\ turns # <<>> /\ gate
    /\ gate' = FALSE
    /\ writer' = [of |-> Head(turns), at |-> "sent"] /\ turns' = Tail(turns)
    /\ posted' = posted \union {Head(turns)}
    /\ UNCHANGED acked /\ TextFrame

\* The acknowledgement waits for the native item that carries the text's id.
Correlated == writer.of \in proj.bound

AckText ==
    /\ ~over /\ writer # NULL /\ writer.at = "answered" /\ Correlated
    /\ acked' = acked \union {writer.of}
    /\ writer' = NULL
    /\ UNCHANGED <<gate, turns, posted>> /\ TextFrame

\* A request that fails or times out, a text that is not correlated in time, and the
\* loss of the socket end the companion; nothing is retried.
Fails ==
    /\ ~over /\ Affordable
    /\ reading.at \in {"sent", "applied"} \/ stop.at \in {"sent", "applied"} \/ writer # NULL
    /\ over' = TRUE
    /\ UNCHANGED <<native, wire, decisions, client, reading, phase, gate, proj, inbound, writer, stop, lastStopped, ghosts>>

-----------------------------------------------------------------------------
(* The specification                                                       *)

Pumps ==
    \/ ReceiveAnswer \/ ReceiveOthers
    \/ Resumed \/ HaveMetadata \/ ReadPage \/ Repair \/ Start \/ TakeInbound
WriterStep == QueueText \/ Respond \/ AskTurn \/ PostStop \/ AckStop \/ StartText \/ AckText

CodexNext ==
    \/ NativeStep \/ Server \/ AnswerLocally \/ FailTurn \/ ReplayRequest
    \/ \E l \in Locals : LocalPrompt(l)
    \/ Pumps
    \/ \E c \in Prompts \union Interrupts : Send(c)
    \/ Decide \/ WriterStep \/ Fails

CodexSpec == CodexInit /\ [][CodexNext]_codexVars

\* When a step of the pumps is enabled; FairSpec states weak fairness with these
\* predicates, because TLC evaluates ENABLED of the actions very slowly.
CanPump ==
    /\ ~over
    /\ \/ wire # <<>> /\ (phase # "drain" \/ Head(wire).t = "answer")
       \/ reading.at = "answered" \/ phase = "drain"
       \/ phase = "run" /\ (queue # <<>> \/ (reading = NoRequest /\ proj.ready # <<>>))
CanWrite ==
    /\ ~over /\ phase = "run"
    /\ \/ inbox # <<>> /\ (Head(inbox) \in Interrupts => stop = NoRequest \/ stop.at = "answered")
       \/ writer = NULL /\ turns # <<>> /\ gate
       \/ writer # NULL /\ writer.at = "answered" /\ Correlated

\* The app-server answers and runs, the terminal user answers, the event loop runs
\* what is ready.
FairSpec ==
    /\ CodexSpec
    /\ WF_codexVars(NativeStep \/ AnswerLocally) /\ WF_codexVars(Server)
    /\ []<>~CanPump \/ []<><<Pumps>>_codexVars
    /\ []<>~CanWrite \/ []<><<WriterStep>>_codexVars

-----------------------------------------------------------------------------
(* Properties                                                              *)

\* However the history, its repair and the live items overlap, an item is shown once
\* and a reply after the text it answers; no partial text is shown as final unless
\* its turn was cut short.
Before(i, id, what) == \E j \in 1..(i - 1) : proj.up[j] = Row(id, what)
TranscriptFaithful ==
    /\ \A i \in DOMAIN proj.up : LET e == proj.up[i] IN
       /\ \A j \in DOMAIN proj.up : proj.up[j] = e => i = j
       /\ e.what = "result" => Before(i, e.id, "call")
       /\ e.what # "user" => \E u \in Users : thread[u].turn = thread[e.id].turn /\ u < e.id /\ Before(i, u, "user")
       /\ e.what = "text" => proj.seen[e.id] = thread[e.id].ver /\ (thread[e.id].ver = 2 \/ Terminal(thread[e.id].turn))
    /\ ~proj.bad

\* A card that can be answered is for a request that is open, or its closing is on
\* its way.
CardsTruthful ==
    \A i \in DOMAIN thread : proj.cards[i] \in {"open", "submitted"} /\ thread[i].ask = "closed"
        => Msg("resolved", i) \in ToSet(wire) \union ToSet(queue)

\* The companion answers a request once, and not after it has received its resolution.
Unresolved(i) == thread[i].ask = "open" \/ Msg("resolved", i) \in ToSet(wire)
DecisionsOnce ==
    [][\A i \in DOMAIN thread : decisions'[i] = "sent" /\ decisions[i] # "sent"
           => decisions[i] = "none" /\ Unresolved(i)]_codexVars

\* Unless the thread is in system error, a browser text is acknowledged or the
\* companion ends.
TextsSettle == []<>(over \/ status = "systemError" \/ Asked \intersect Prompts \subseteq acked)

-----------------------------------------------------------------------------
(* The inductive invariant                                                 *)

Items == [turn : Nat, kind : {"user"} \union Kinds, of : Prompts \union Locals \union {NULL}, ver : {1, 2},
          ask : {"none", "open", "closed"}]
Notices == {"started", "completed", "request", "resolved", "turn", "active", "idle", "systemError"}
WireMessages == [t : Notices, id : Nat] \union [t : {"answer"}, id : {"reading", "writer", "stop"}]
Entries == [id : Nat, turn : Nat, ver : {1, 2}, ended : BOOLEAN]
Shows == [id : Ids, what : {"user", "text", "call", "result"}]
Projections ==
    [seen : [Ids -> 0..2], up : Seq(Shows), deferred : SUBSET Nat, ready : Seq(Nat), starts : SUBSET Ids,
     draft : Nat, overlap : BOOLEAN, bound : SUBSET Prompts, fresh : SUBSET Ids,
     cards : [Ids -> {"none", "open", "submitted", "closed"}], bad : BOOLEAN]
TypeOK ==
    /\ thread \in Seq(Items) /\ turn \in Nat /\ status \in {"idle", "active", "systemError"}
    /\ mode \in {"paginated", "legacy"}
    /\ wire \in Seq(WireMessages) /\ queue \in Seq(WireMessages)
    /\ decisions \in [Ids -> {"none", "sent", "applied"}] /\ received \subseteq Ids /\ live \subseteq Ids
    /\ reading \in [step : {"none", "resume", "meta", "page"}, at : {"none", "sent", "applied", "answered"}, turn : Nat,
                    pos : Nat, terminal : SUBSET Nat, got : {reading.got}, more : BOOLEAN]
    /\ phase \in {"attach", "drain", "run"} /\ gate \in BOOLEAN /\ over \in BOOLEAN
    /\ proj \in Projections
    /\ writer # NULL => writer \in [of : Prompts, at : {"sent", "applied", "answered"}]
    /\ inbox \in Seq(Prompts \union Interrupts \union Ids) /\ turns \in Seq(Prompts)
    /\ posted \subseteq Prompts

\* Every turn that runs or has a reply was started by a user, and no user's text is there twice.
Leads(u, i) == u \in Users /\ u < i /\ thread[u].turn = thread[i].turn
ThreadOK ==
    /\ \A i \in DOMAIN thread : thread[i].turn \in 1..turn
    /\ \A u \in Users : thread[u].ver = 2 /\ thread[u].of \in Prompts \union Locals
    /\ \A i \in Replies : \E u \in Users : Leads(u, i)
    /\ status = "active" => \E u \in Users : thread[u].turn = turn
    /\ Cardinality(Replies) <= MaxReplies
    /\ \A u, v \in Users : thread[u].of = thread[v].of => u = v

\* A browser text is in one place, and is posted once.
TextsOK ==
    /\ \A u \in Users : thread[u].of \in Prompts => thread[u].of \in posted
    /\ writer # NULL => writer.of \in posted /\ (writer.at = "sent" => \A u \in Users : thread[u].of # writer.of)
    /\ \A k \in DOMAIN turns : turns[k] \notin posted /\ \A l \in DOMAIN turns : turns[l] = turns[k] => l = k
    /\ \A k \in DOMAIN inbox : inbox[k] \in Prompts =>
          /\ inbox[k] \notin posted /\ \A l \in DOMAIN turns : turns[l] # inbox[k]
          /\ \A l \in DOMAIN inbox : inbox[l] = inbox[k] => l = k

\* What is on its way is true of the thread; an answer comes once, to whom it was asked.
Says(m) ==
    /\ m.t \in {"started", "completed", "request", "resolved"} => m.id \in DOMAIN thread
    /\ m.t = "completed" => thread[m.id].ver = 2
    /\ m.t = "request" => thread[m.id].ask # "none"
    /\ m.t = "turn" => m.id \in 1..turn /\ Terminal(m.id)
ChannelOK ==
    /\ \A k \in DOMAIN queue : Says(queue[k]) /\ queue[k].t # "answer"
    /\ \A k \in DOMAIN wire : Says(wire[k])
    /\ \A k \in DOMAIN wire : wire[k].t = "answer" /\ wire[k].id = "reading" => reading.at = "applied"
    /\ \A k \in DOMAIN wire : wire[k].t = "answer" /\ wire[k].id = "writer" => writer # NULL /\ writer.at = "applied"
    /\ \A k, l \in DOMAIN wire :
          wire[k].t = "answer" /\ wire[l].t = "answer" /\ wire[l].id = wire[k].id /\ wire[k].id # "stop" => k = l
    /\ ~Subscribed => wire = <<>> /\ queue = <<>> /\ live = {}

\* Where the startup and the repair stand.
Beyond(u) == IF mode = "legacy" THEN thread[u].turn > reading.pos ELSE u > reading.pos
Got(u) == \E k \in DOMAIN reading.got : reading.got[k].id = u
PageHere == reading.step = "page" /\ reading.at \in {"applied", "answered"}
ReadingOK ==
    /\ phase = "attach" => reading.turn = 0 /\ reading.step # "none" /\ \A i \in Ids : proj.cards[i] = "none"
    /\ phase = "drain" => reading = NoRequest
    /\ phase = "run" => reading = NoRequest \/ (reading.turn # 0 /\ reading.step = "page")
    /\ reading.at = "none" => reading = NoRequest
    /\ reading.turn # 0 => reading.turn \in 1..turn /\ Terminal(reading.turn)
    /\ \A t \in reading.terminal : t \in 1..turn /\ Terminal(t)
    /\ mode = "paginated" => reading.pos <= Len(thread)
    /\ reading.step \in {"resume", "meta"} => reading.pos = 0
    /\ \A k \in DOMAIN proj.ready : proj.ready[k] \in 1..turn /\ Terminal(proj.ready[k])

\* A page holds what the thread had: a user before its replies, and the final text of
\* what may be shown.
PageOK ==
    /\ PageHere => reading.got \in Seq(Entries) /\ \A k \in DOMAIN reading.got : LET e == reading.got[k] IN
          /\ e.id \in DOMAIN thread /\ e.turn = thread[e.id].turn
          /\ e.ver = 2 => thread[e.id].ver = 2
          /\ Final(e) => e.ver = thread[e.id].ver /\ Terminal(e.turn)
          /\ e.turn = reading.turn => Final(e)
          /\ e.id \in Replies => \E u \in Users :
                Leads(u, e.id) /\ (proj.seen[u] # 0 \/ \E j \in 1..(k - 1) : reading.got[j].id = u)
    /\ mode = "paginated" /\ reading.step = "page" =>
          \A u \in Users : u <= reading.pos /\ (reading.turn # 0 => thread[u].turn = reading.turn)
             => proj.seen[u] # 0 \/ (PageHere /\ Got(u))

\* Every user is shown, will be read by the startup, or is on its way before what follows it.
Covered(u) ==
    /\ phase = "attach"
    /\ \/ reading.step \in {"resume", "meta"}
       \/ reading.step = "page" /\ reading.at = "sent" /\ Beyond(u)
       \/ PageHere /\ (Got(u) \/ (reading.more /\ Beyond(u)))
Known(u) == proj.seen[u] # 0 \/ Covered(u)
In(m, s) == \E k \in DOMAIN s : s[k] = m
Precedes(m, s, k) == \E j \in 1..(k - 1) : s[j] = m
OrderOK(q, w) ==
    /\ \A u \in Users : Known(u) \/ In(Msg("completed", u), q) \/ In(Msg("completed", u), w)
    /\ \A k \in DOMAIN q : \A u \in Users :
          q[k].t \in {"started", "completed"} /\ u < q[k].id => Known(u) \/ Precedes(Msg("completed", u), q, k)
    /\ \A k \in DOMAIN w : \A u \in Users :
          w[k].t \in {"started", "completed"} /\ u < w[k].id
             => Known(u) \/ In(Msg("completed", u), q) \/ Precedes(Msg("completed", u), w, k)

\* A card and a request of an answered item have its resolution behind them, and so has a
\* request that can still be answered.
Later(m, s, k) == \E l \in DOMAIN s : l > k /\ s[l] = m
Closed(i) == i \in DOMAIN thread /\ thread[i].ask = "closed"
CardsOK(q, w) ==
    /\ \A i \in Ids : Closed(i) /\ proj.cards[i] \in {"open", "submitted"}
          => In(Msg("resolved", i), q) \/ In(Msg("resolved", i), w)
    /\ \A k \in DOMAIN q : q[k].t = "request" /\ Closed(q[k].id)
          => Later(Msg("resolved", q[k].id), q, k) \/ In(Msg("resolved", q[k].id), w)
    /\ \A k \in DOMAIN w : w[k].t = "request" /\ Closed(w[k].id) => Later(Msg("resolved", w[k].id), w, k)
LiveOK(w, rc, lv) ==
    /\ lv \subseteq rc
    /\ \A i \in lv : i \in DOMAIN thread /\ (thread[i].ask = "open" \/ In(Msg("resolved", i), w))
    /\ \A i \in Ids : i \in lv \/ i \notin rc => decisions[i] = "none"

\* The ledger and what was shown.
ShownOK(p) ==
    /\ ~p.bad
    /\ \A i \in Ids : p.seen[i] # 0 \/ i \in p.starts => i \in DOMAIN thread
    /\ \A i \in Ids : p.seen[i] # 0 =>
          IF thread[i].kind = "agent"
          THEN p.seen[i] = thread[i].ver /\ (thread[i].ver = 2 \/ Terminal(thread[i].turn))
          ELSE p.seen[i] = 2
    /\ \A i \in Users : p.seen[i] # 0 => In(Row(i, "user"), p.up)
    /\ \A i \in p.starts : In(Row(i, "call"), p.up)
    /\ \A k \in DOMAIN p.up : LET e == p.up[k] IN
          /\ e.id \in DOMAIN thread /\ (p.seen[e.id] # 0 \/ (e.what = "call" /\ e.id \in p.starts))
          /\ thread[e.id].kind = CASE e.what = "user" -> "user" [] e.what = "text" -> "agent" [] OTHER -> "cmd"
          /\ \A j \in DOMAIN p.up : p.up[j] = e => j = k
          /\ e.what = "result" => Precedes(Row(e.id, "call"), p.up, k)
          /\ e.what # "user" => \E u \in Users : Leads(u, e.id) /\ Precedes(Row(u, "user"), p.up, k)

CodexInv ==
    /\ TypeOK /\ ThreadOK /\ TextsOK /\ ChannelOK /\ ReadingOK /\ PageOK /\ OrderOK(queue, wire)
    /\ CardsOK(queue, wire) /\ LiveOK(wire, received, live) /\ ShownOK(proj)
=============================================================================
