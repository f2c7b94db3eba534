----------------------------- MODULE HostRelay -----------------------------
(***************************************************************************)
(* The bridge between one live agent session and its broker channel.  Two  *)
(* pumps run concurrently: the upstream pump publishes what the agent      *)
(* says, the inbound pump reads the viewers' commands off the channel and  *)
(* drives the agent.  Both hand whole units (every broker post of one      *)
(* action and its synchronous effect on the agent) to one head-of-line     *)
(* queue, whose first failure ends the session.  A post that timed out may *)
(* still commit later, and a relay started over on the same channel takes  *)
(* its two cursors from the durable log.                                   *)
(* Code: packages/cli/src/host/rc/relay.ts and drivers/bridge.ts.          *)
(*                                                                         *)
(* The model is the single-part, durable path of a driver whose            *)
(* permission gates the viewer's answer resolves (Claude over the MITM).   *)
(***************************************************************************)
EXTENDS Integers, Sequences, FiniteSets, SequencesExt

CONSTANTS
    Prompts,          \* `user` commands, each a message of its own
    Interrupts,       \* `interrupt` commands
    Devices,          \* viewers: each may answer a gate once
    Texts,            \* assistant events of the agent
    Gates,            \* permission requests of the agent
    FailureLimit,     \* INBOUND_FAILURE_ATTEMPTS
    MaxLives,         \* bound: relays started on the channel
    MaxPostFailures,  \* bound: posts answered by an error or the timeout
    MaxBreaks,        \* bound: inbound subscriptions that end
    MaxCommands,      \* bound: commands the viewers send in all
    MaxEvents,        \* bound: events and cancellations the agent emits in all
    NULL

ASSUME BoundsAssumption ==
    /\ FailureLimit \in Nat \ {0} /\ MaxLives \in Nat \ {0}
    /\ MaxPostFailures \in Nat /\ MaxBreaks \in Nat
    /\ MaxCommands \in Nat /\ MaxEvents \in Nat

Answers  == Devices \X Gates
Commands == Prompts \union Interrupts \union Answers
Events   == Texts \union Gates
NoSeq    == -1

\* A command has one type, and none is an event of the agent.
ASSUME KindsAssumption ==
    /\ Prompts \intersect Interrupts = {} /\ (Prompts \union Interrupts) \intersect Answers = {}
    /\ Commands \intersect Events = {}

VARIABLES
    \* the broker channel
    log,          \* durable rows in publish order
    wire,         \* posts sent and not yet decided by the broker
    \* the relay
    life,         \* the relay incarnation
    phase,        \* "prepare" | "count" | "serving"
    closed,       \* Session.closed
    fatal,        \* #fatal
    seq,          \* #seq
    start,        \* #inboundStartIndex
    pos,          \* frames read by the live subscription, NULL when the pump has ended
    failures,     \* consecutiveFailures
    seen,         \* #seen
    openPerms,    \* #openPerms
    queue,        \* units on #publicationTail, the head running or next
    step,         \* of the head: "idle" before it runs, else what it awaits
    unitSeq,      \* the seq the head has allocated
    wait,         \* the post the head awaits
    \* the agent
    emitted,      \* events and gate cancellations the agent is past, over all lives
    applied,      \* commands the agent was driven with, over all lives
    sentTo,       \* per command: the life that had announced itself when it was sent, else 0
    \* bounds
    postFailures, breaks

broker == <<log, wire>>
cursors == <<life, phase, start>>
pumpIn == <<pos, failures, seen>>
unit   == <<queue, step, unitSeq, wait>>
agent  == <<emitted, applied>>
bounds == <<postFailures, breaks>>
vars == <<broker, cursors, closed, fatal, seq, pumpIn, openPerms, unit, agent, sentTo, bounds>>

\* A frame: `id` is its msgId, fixed by kind and coordinate; posts of two lives
\* with the same id differ in bytes, since each seals with a fresh nonce.
Frame(kind, coord, s, of) ==
    [life |-> life, id |-> <<kind, coord>>, seq |-> s, of |-> of]
InFrame(c) == [life |-> 0, id |-> <<"in", c>>, seq |-> NoSeq, of |-> c]
Accepted(s, c) == Frame("accepted", s, NoSeq, c)
Echo(s, c)     == Frame("user", s, s, c)
Event(s, e)    == Frame(IF e \in Gates THEN "permission_request" ELSE "assistant", s, s, e)
Resolved(g)    == Frame("permresolved", g, NoSeq, g)

Logged   == ToSet(log)
AnnouncedBeforeCount == phase # "prepare"
\* startBridgeSession announces once prepare() has both cursors.
Announced == phase = "serving"
Pumping(p) == \E i \in DOMAIN queue : queue[i].pump = p
MaxSeq(rows) == LET S == {f.seq : f \in rows} \union {NoSeq} IN CHOOSE s \in S : \A t \in S : t <= s

Init ==
    /\ log = <<>> /\ wire = {}
    /\ life = 1 /\ phase = "prepare" /\ start = 0
    /\ closed = FALSE /\ fatal = FALSE
    /\ seq = 0
    /\ pos = NULL /\ failures = 0 /\ seen = {}
    /\ openPerms = {}
    /\ queue = <<>> /\ step = "idle" /\ unitSeq = NoSeq /\ wait = NULL
    /\ emitted = {} /\ applied = <<>>
    /\ sentTo = [c \in Commands |-> 0]
    /\ postFailures = 0 /\ breaks = 0

-----------------------------------------------------------------------------
(* The broker and the viewers                                              *)

\* publish: the unique (msg_id, part) row; another frame under a stored id is
\* refused (PublishCollisionError) and leaves the log alone.
Store(f) ==
    /\ f \in wire
    /\ wire' = wire \ {f}
    /\ log' = IF \E g \in Logged : g.id = f.id THEN log ELSE Append(log, f)
    /\ UNCHANGED <<cursors, closed, fatal, seq, pumpIn, openPerms, unit, agent, sentTo, bounds>>

\* A viewer publishes a command; it answers only a gate it has been shown.
Send(c) ==
    /\ InFrame(c) \notin Logged
    /\ Cardinality({d \in Commands : InFrame(d) \in Logged}) < MaxCommands
    /\ c \in Answers => \E f \in Logged : f.of = c[2] /\ f.id[1] = "permission_request"
    /\ log' = Append(log, InFrame(c))
    /\ sentTo' = [sentTo EXCEPT ![c] = IF Announced THEN life ELSE 0]
    /\ UNCHANGED <<wire, cursors, closed, fatal, seq, pumpIn, openPerms, unit, agent, bounds>>

-----------------------------------------------------------------------------
(* The life of a relay                                                     *)

\* What the broker's cursor routes answer.
SeqCursor == MaxSeq(Logged)
FrameCount == Len(log)

\* prepare(): first the outbound counter from the durable MAX(seq) ...
ResumeSeq ==
    /\ phase = "prepare" /\ ~closed
    /\ seq' = SeqCursor + 1
    /\ phase' = "count"
    /\ UNCHANGED <<broker, life, start, closed, fatal, pumpIn, openPerms, unit, agent, sentTo, bounds>>

ResumeFromZero ==
    /\ phase = "count" /\ ~closed
    /\ start' = 0 /\ pos' = 0
    /\ phase' = "serving"
    /\ UNCHANGED <<broker, life, closed, fatal, seq, failures, seen, openPerms, unit, agent, sentTo, bounds>>

\* ... then the inbound cursor from the frame count; only now the bridge announces,
\* serves, and the inbound pump subscribes from that cursor.
ResumeStart ==
    /\ phase = "count" /\ ~closed
    /\ start' = FrameCount /\ pos' = FrameCount
    /\ phase' = "serving"
    /\ UNCHANGED <<broker, life, closed, fatal, seq, failures, seen, openPerms, unit, agent, sentTo, bounds>>

\* The owner's signal, the agent's own end, or exhausted cursor reads.
Close ==
    /\ ~closed
    /\ closed' = TRUE
    /\ UNCHANGED <<broker, cursors, fatal, seq, pumpIn, openPerms, unit, agent, sentTo, bounds>>

\* The process dies, or a closed relay has finished, and another is started on
\* the channel: memory and agent are new, the posts under way are not taken back.
Restart ==
    /\ life < MaxLives
    /\ life' = life + 1
    /\ phase' = "prepare"
    /\ closed' = FALSE /\ fatal' = FALSE
    /\ seq' = 0 /\ start' = 0
    /\ pos' = NULL /\ failures' = 0 /\ seen' = {}
    /\ openPerms' = {}
    /\ queue' = <<>> /\ step' = "idle" /\ unitSeq' = NoSeq /\ wait' = NULL
    /\ emitted' = emitted \union {<<"cancel", g>> : g \in Gates \intersect emitted}
    /\ UNCHANGED <<broker, applied, sentTo, bounds>>

-----------------------------------------------------------------------------
(* The upstream pump                                                       *)

Pulls(x) ==
    /\ phase = "serving" /\ ~fatal /\ ~Pumping("up")
    /\ x \notin emitted /\ Cardinality(emitted) < MaxEvents
    /\ emitted' = emitted \union {x}

\* followUpstream yields a content event, one of an already taken slice even after
\* the close: it joins the queue and the pump waits for its unit.
PullEvent(e) ==
    /\ Pulls(e)
    /\ queue' = Append(queue, [pump |-> "up", of |-> e])
    /\ UNCHANGED <<broker, cursors, closed, fatal, seq, pumpIn, openPerms, step, unitSeq, wait, applied, sentTo, bounds>>

\* control_cancel_request, for a gate the agent no longer waits on, acts at once.
PullCancel(g) ==
    /\ g \in emitted /\ Pulls(<<"cancel", g>>)
    /\ openPerms' = openPerms \ {g}
    /\ UNCHANGED <<broker, cursors, closed, fatal, seq, pumpIn, unit, applied, sentTo, bounds>>

-----------------------------------------------------------------------------
(* The inbound pump                                                        *)

NextCommand == {i \in (pos + 1)..Len(log) : log[i].id[1] = "in" /\ log[i].of \notin seen}

\* The next command not yet seen; the relay's own frames and replays before it
\* are dropped.  The session may close before the pump notices.
Read ==
    /\ phase = "serving" /\ pos # NULL /\ ~Pumping("in") /\ NextCommand # {}
    /\ LET i == CHOOSE k \in NextCommand : \A j \in NextCommand : k <= j IN
       /\ pos' = i
       /\ seen' = seen \union {log[i].of}
       /\ queue' = Append(queue, [pump |-> "in", of |-> log[i].of])
    /\ UNCHANGED <<broker, cursors, closed, fatal, seq, failures, openPerms, step, unitSeq, wait, agent, sentTo, bounds>>

\* The subscription ends: cleanly, by planned rotation, or with a failure, of
\* which FailureLimit in a row end the session.  The pump subscribes again from
\* the same cursor unless the session is over.
Break ==
    /\ phase = "serving" /\ pos # NULL /\ ~Pumping("in") /\ breaks < MaxBreaks
    /\ breaks' = breaks + 1
    /\ \E f \in {0, failures, failures + 1} :
       /\ failures' = IF closed THEN failures ELSE f
       /\ fatal' = (fatal \/ failures' = FailureLimit)
       /\ closed' = (closed \/ failures' = FailureLimit)
       /\ pos' = IF closed' THEN NULL ELSE start
    /\ UNCHANGED <<broker, cursors, seq, seen, openPerms, unit, agent, sentTo, postFailures>>

-----------------------------------------------------------------------------
(* The publication queue: #publishUnit runs one unit at a time             *)

\* The unit succeeded; a unit of the inbound pump was an admission.
Finish ==
    /\ queue' = Tail(queue)
    /\ step' = "idle" /\ unitSeq' = NoSeq /\ wait' = NULL
    /\ failures' = IF Head(queue).pump = "in" THEN 0 ELSE failures
    /\ UNCHANGED pos

FailAndGoOn ==
    /\ UNCHANGED <<fatal, closed, failures, pos>>
    /\ queue' = Tail(queue)
    /\ step' = "idle" /\ unitSeq' = NoSeq /\ wait' = NULL

\* The first failure latches and closes the session, every successor on the
\* tail rejects before it runs, and both pumps end.
Fail ==
    /\ fatal' = TRUE /\ closed' = TRUE
    /\ queue' = <<>>
    /\ step' = "idle" /\ unitSeq' = NoSeq /\ wait' = NULL
    /\ pos' = NULL
    /\ UNCHANGED failures

Post(f, s) ==
    /\ wire' = wire \union {f} /\ wait' = f
    /\ step' = s

\* At the head a closed session refuses the unit.
Reject ==
    /\ queue # <<>> /\ step = "idle" /\ closed
    /\ Fail
    /\ UNCHANGED <<broker, cursors, seq, seen, openPerms, agent, sentTo, bounds>>

Runs(kinds) == queue # <<>> /\ step = "idle" /\ ~closed /\ Head(queue).of \in kinds

\* An agent event: the gate opens before its request is posted, the seq is taken here.
RunEvent ==
    /\ Runs(Events)
    /\ LET e == Head(queue).of IN
       /\ openPerms' = openPerms \union (Gates \intersect {e})
       /\ unitSeq' = seq /\ seq' = seq + 1
       /\ Post(Event(seq, e), "event")
    /\ UNCHANGED <<log, cursors, closed, fatal, pumpIn, queue, agent, sentTo, bounds>>

RunPrompt ==
    /\ Runs(Prompts)
    /\ unitSeq' = seq /\ seq' = seq + 1
    /\ Post(Accepted(seq, Head(queue).of), "accept")
    /\ UNCHANGED <<log, cursors, closed, fatal, pumpIn, openPerms, queue, agent, sentTo, bounds>>

\* An answer consumes its gate first; one for a gate that is not open does nothing.
RunAnswer ==
    /\ Runs(Answers)
    /\ LET g == Head(queue).of[2] IN
       IF g \in openPerms
       THEN /\ openPerms' = openPerms \ {g}
            /\ Post(Resolved(g), "resolve")
            /\ UNCHANGED <<queue, unitSeq, pos, failures>>
       ELSE Finish /\ UNCHANGED <<wire, openPerms>>
    /\ UNCHANGED <<log, cursors, closed, fatal, seq, seen, agent, sentTo, bounds>>

\* An interrupt past its expiry is dropped; otherwise it abandons every open gate.
RunInterrupt ==
    /\ Runs(Interrupts)
    /\ Finish
    /\ \/ applied' = Append(applied, Head(queue).of) /\ openPerms' = {}
       \/ UNCHANGED <<applied, openPerms>>
    /\ UNCHANGED <<broker, cursors, closed, fatal, seq, seen, emitted, sentTo, bounds>>

Answered(s) == step = s /\ wait \in Logged

\* The acknowledgement is stored: post the echo at the same seq.
PostEcho ==
    /\ Answered("accept")
    /\ Post(Echo(unitSeq, Head(queue).of), "echo")
    /\ UNCHANGED <<log, cursors, closed, fatal, seq, pumpIn, openPerms, queue, unitSeq, agent, sentTo, bounds>>

EventPublished ==
    /\ Answered("event")
    /\ Finish
    /\ UNCHANGED <<broker, cursors, closed, fatal, seq, seen, openPerms, agent, sentTo, bounds>>

DriveOnAccept ==
    /\ Answered("accept") \/ Answered("resolve")
    /\ IF closed
       THEN Fail /\ UNCHANGED applied
       ELSE /\ Finish
            /\ applied' = Append(applied, Head(queue).of)
            /\ UNCHANGED <<closed, fatal>>
    /\ UNCHANGED <<broker, cursors, seq, seen, openPerms, emitted, sentTo, bounds>>

\* assertSessionOpen, then the agent is driven in the same synchronous step.
DriveAgent ==
    /\ Answered("echo") \/ Answered("resolve")
    /\ IF closed
       THEN Fail /\ UNCHANGED applied
       ELSE /\ Finish
            /\ applied' = Append(applied, Head(queue).of)
            /\ UNCHANGED <<closed, fatal>>
    /\ UNCHANGED <<broker, cursors, seq, seen, openPerms, emitted, sentTo, bounds>>

\* The awaited post is refused, or fails, or passes its wall: its unit fails,
\* and a gate whose request failed is withdrawn.
PostFails ==
    /\ wait # NULL
    /\ \/ wait \notin wire \union Logged /\ UNCHANGED postFailures
       \/ postFailures < MaxPostFailures /\ postFailures' = postFailures + 1
    /\ Fail
    /\ openPerms' = IF step = "event" THEN openPerms \ {Head(queue).of} ELSE openPerms
    /\ UNCHANGED <<broker, cursors, seq, seen, agent, sentTo, breaks>>

-----------------------------------------------------------------------------
(* The specification                                                       *)

RunUnit ==
    \/ Reject \/ RunEvent \/ RunPrompt \/ RunAnswer \/ RunInterrupt
    \/ PostEcho \/ EventPublished \/ DriveAgent

Next ==
    \/ \E f \in wire : Store(f)
    \/ \E c \in Commands : Send(c)
    \/ ResumeSeq \/ ResumeStart \/ Close \/ Restart
    \/ \E e \in Events : PullEvent(e)
    \/ \E g \in Gates : PullCancel(g)
    \/ Read \/ Break
    \/ RunUnit \/ PostFails

Spec == Init /\ [][Next]_vars

\* The event loop runs every settled promise; the broker decides the post the
\* live relay awaits, not those of the dead.
Fairness ==
    /\ WF_vars(Read) /\ WF_vars(RunUnit)
    /\ WF_vars(wait # NULL /\ Store(wait))
    /\ WF_vars(wait \notin wire \union Logged /\ PostFails)

-----------------------------------------------------------------------------
(* Properties                                                              *)

\* Every variable has its type, a unit awaits a post exactly while it is past
\* its start, and each pump has at most one unit on the queue.
Frames == [life : 0..MaxLives, id : {"in"} \X Commands
                                 \union {"accepted", "user", "assistant", "permission_request"} \X Nat
                                 \union {"permresolved"} \X Gates,
           seq : Nat \union {NoSeq}, of : Commands \union Events]
Units  == [pump : {"up"}, of : Events] \union [pump : {"in"}, of : Commands]
ASSUME NullAssumption == NULL \notin Frames

TypeOK ==
    /\ log \in Seq(Frames) /\ wire \subseteq Frames
    /\ life \in 1..MaxLives /\ phase \in {"prepare", "count", "serving"}
    /\ closed \in BOOLEAN /\ fatal \in BOOLEAN
    /\ seq \in Nat /\ start \in Nat
    /\ pos \in Nat \union {NULL}
    /\ failures \in 0..FailureLimit /\ (failures = FailureLimit => closed)
    /\ seen \subseteq Commands /\ openPerms \subseteq Gates
    /\ queue \in Seq(Units)
    /\ \A i, j \in DOMAIN queue : queue[i].pump = queue[j].pump => i = j
    /\ step \in {"idle", "event", "accept", "echo", "resolve"}
    /\ unitSeq \in Nat \union {NoSeq}
    /\ wait \in Frames \union {NULL} /\ (wait = NULL <=> step = "idle")
    /\ applied \in Seq(Commands)
    /\ sentTo \in [Commands -> 0..MaxLives]

\* However often the relay resubscribes or is started over on the same channel,
\* no command drives the agent twice, and no gate is answered by two devices.
DrivenOnce ==
    \A i, j \in DOMAIN applied : i # j =>
        /\ applied[i] # applied[j]
        /\ applied[i] \in Answers /\ applied[j] \in Answers => applied[i][2] # applied[j][2]

\* The agent is never driven by what no viewer can see: a prompt is in the
\* durable log with its acknowledgement and echo at one seq, an answer with
\* its request and its resolution, when the agent gets it and ever after.
DrivenIsPublished ==
    \A i \in DOMAIN applied : LET c == applied[i] IN
        /\ c \in Prompts => \E f, g \in Logged :
              /\ f.of = c /\ f.id[1] = "user"
              /\ g.of = c /\ g.id = <<"accepted", f.seq>>
        /\ c \in Answers => \E f, g \in Logged :
              /\ f.of = c[2] /\ f.id[1] = "permission_request"
              /\ g.of = c[2] /\ g.id[1] = "permresolved"

\* A life's content frames enter the log in seq order without a hole: a failed
\* post burns at most the last seq of a life, also when it commits late.
ContentOf(n) == {i \in DOMAIN log : log[i].life = n /\ log[i].seq # NoSeq}
GapOnlyAtTail ==
    \A n \in 1..MaxLives : \A i, j \in ContentOf(n) :
        i < j => /\ log[i].seq < log[j].seq
                 /\ \A s \in log[i].seq..log[j].seq : \E k \in i..j : k \in ContentOf(n) /\ log[k].seq = s

\* What makes these inductive.  The head is driven by what its unit is and awaits its own post;
\* an echo is posted over its stored acknowledgement.
HeadOf(kinds) == queue # <<>> /\ Head(queue).of \in kinds
HeadAwaits ==
    /\ step = "event" => HeadOf(Events)
    /\ step \in {"event", "accept", "echo"} => unitSeq \in Nat
    /\ step \in {"accept", "echo"} => HeadOf(Prompts) /\ wait.of = Head(queue).of
    /\ step = "accept" => wait.id = <<"accepted", unitSeq>>
    /\ step = "echo" => /\ wait.id[1] = "user" /\ wait.seq = unitSeq
                        /\ \E g \in Logged : g.of = Head(queue).of /\ g.id = <<"accepted", unitSeq>>
    /\ step = "resolve" => /\ HeadOf(Answers)
                           /\ wait.of = Head(queue).of[2] /\ wait.id[1] = "permresolved"

\* A command has one row, and an answer one only after its gate's request.
CommandRows ==
    /\ \A f \in wire : f.id[1] # "in"
    /\ \A i \in DOMAIN log : log[i].id[1] = "in" => log[i].of \in Commands /\ log[i] = InFrame(log[i].of)
    /\ \A i, j \in DOMAIN log :
          log[i].id[1] = "in" /\ log[j].id[1] = "in" /\ log[i].of = log[j].of => i = j
    /\ \A c \in Answers : InFrame(c) \in Logged =>
          \E f \in Logged : f.of = c[2] /\ f.id[1] = "permission_request"

\* A life reads behind the cursor it resumed at.
ReadBehindCursor ==
    /\ start <= Len(log) /\ (pos # NULL => pos \in start..Len(log))
    /\ phase # "serving" => pos = NULL /\ seen = {} /\ queue = <<>>

\* What drove the agent lies before that cursor or was seen by this life.
DrivenIsBehind ==
    \A i \in DOMAIN applied : \E k \in DOMAIN log :
        log[k] = InFrame(applied[i]) /\ (phase = "serving" => k <= start \/ applied[i] \in seen)

\* What waits to drive it is in the log, was seen, and has not driven it.
QueuedIsFresh ==
    \A i \in DOMAIN queue : queue[i].pump = "in" =>
        /\ queue[i].of \in seen /\ InFrame(queue[i].of) \in Logged
        /\ \A j \in DOMAIN applied : applied[j] # queue[i].of

\* A gate is asked for, opened, answered and driven in this order, each at most once.
Asked(g) == \E i \in DOMAIN queue : queue[i].of = g /\ (i # 1 \/ step = "idle")
Resolving(g) == step = "resolve" /\ Head(queue).of[2] = g
AnsweredGate(g) == \E i \in DOMAIN applied : applied[i] \in Answers /\ applied[i][2] = g
GateStages ==
    \A g \in Gates :
        /\ Asked(g) \/ g \in openPerms \/ Resolving(g) \/ AnsweredGate(g) => g \in emitted
        /\ Asked(g) => g \notin openPerms /\ ~Resolving(g) /\ ~AnsweredGate(g)
        /\ g \in openPerms => ~Resolving(g) /\ ~AnsweredGate(g)
        /\ Resolving(g) => ~AnsweredGate(g)

\* The durable counter's maximum exists.
SeqHasMax == LET S == {f.seq : f \in Logged} \union {NoSeq} IN \E m \in S : \A t \in S : t <= m

\* A content frame of life n; what the log has of the life lies below s, up to s - 1.
Content(f, n) == f.life = n /\ f.seq # NoSeq
Behind(n, s) ==
    \A f \in Logged : Content(f, n) =>
        f.seq < s /\ \E g \in Logged : Content(g, n) /\ g.seq = s - 1

\* Seqs are taken one by one; a life has one content post under way, which it awaits unless
\* it is over, and which the log has everything of the life behind.
SeqTaken ==
    /\ step \in {"accept", "event", "echo"} => unitSeq = seq - 1
    /\ step \in {"event", "echo"} => Content(wait, life) /\ wait.seq = unitSeq
RowsOfLives ==
    /\ \A f \in Logged : f.life \in 0..life
    /\ \A f \in wire : f.life \in 1..life
    /\ phase # "serving" => \A f \in Logged \union wire : ~Content(f, life)
OnePost ==
    /\ \A f, g \in wire : f.life = g.life /\ f.seq # NoSeq /\ g.seq # NoSeq => f = g
    /\ \A f \in wire : Content(f, life) =>
          (step \in {"event", "echo"} /\ f = wait) \/ (step = "idle" /\ closed)
PostsFit == \A f \in wire : f.seq # NoSeq => Behind(f.life, f.seq)
RoomAhead ==
    /\ step = "accept" => Behind(life, unitSeq)
    /\ step = "resolve" \/ (step = "idle" /\ ~closed) => Behind(life, seq)
    /\ step \in {"event", "echo"} => \A f \in Logged : Content(f, life) => f.seq < seq
SeqChain == SeqTaken /\ RowsOfLives /\ OnePost /\ PostsFit /\ RoomAhead

DriveInv == /\ TypeOK /\ SeqHasMax /\ HeadAwaits /\ CommandRows /\ ReadBehindCursor
            /\ DrivenIsBehind /\ QueuedIsFresh /\ GateStages /\ DrivenOnce /\ DrivenIsPublished
OrderInv == SeqChain /\ GapOnlyAtTail

\* A prompt sent to a relay that had announced itself is injected, and an
\* answer settles its gate, unless that relay ends.
Settled(c) == IF c \in Answers THEN c[2] \notin openPerms ELSE c \in ToSet(applied)
CommandsSettle ==
    \A c \in Prompts \union Answers :
        sentTo[c] = life ~> Settled(c) \/ closed \/ sentTo[c] # life

\* relay.test.ts: "resumes seq = durable MAX + 1 so a restart doesn't collide
\* with prior frames": no post of a live relay meets a row of an earlier life
\* under its message id or at its seq.
RestartNeverCollides ==
    \A f \in wire, g \in Logged : f.life = life /\ g.life \in 1..(life - 1) =>
        f.id # g.id /\ (f.seq # NoSeq => f.seq # g.seq)

=============================================================================
