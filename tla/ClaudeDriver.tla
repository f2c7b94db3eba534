----------------------------- MODULE ClaudeDriver -----------------------------
(***************************************************************************)
(* The companion of one native Claude Remote Control session.  The         *)
(* provider keeps one log of events; the companion reads it through one    *)
(* SSE stream and through pages of history, and writes to it with POSTs.   *)
(* Its capture pump owns every observation, its inject pump is the one     *)
(* writer of browser input, and a third task reads the native settings.    *)
(* The Claude process (the worker) executes what the log says, and the     *)
(* terminal user and other clients of the session write as well.           *)
(* Code: packages/cli/src/host/rc/anthropic/{driver,controls,client,       *)
(* transport,credentials}.ts.                                              *)
(*                                                                         *)
(* An event is its position in the log, which is its sequence number.      *)
(* Every approval and question form is an "ask".  Control requests that    *)
(* travel beside the log, uploads, size and count limits and the shape     *)
(* checks of provider events are left out.                                 *)
(***************************************************************************)
EXTENDS Integers, Sequences, FiniteSets, SequencesExt

CONSTANTS
    Prompts,        \* browser texts
    Locals,         \* texts the terminal user types
    Interrupts,     \* browser interrupts
    Models,         \* native models
    ChosenModels,   \* models the browser chooses
    Kinds,          \* kinds of worker output: subset of {"reply", "ask"}
    MaxOutputs,     \* bound: worker outputs and terminal texts in the log
    MaxDecisions,   \* bound: decisions the viewers send
    PageSize,       \* HISTORY_PAGE_LIMIT
    Attempts,       \* RECONNECT_ATTEMPTS
    Budget,         \* bound: inputs of the clients, drops and failures together
    NULL

ASSUME BoundsAssumption ==
    /\ MaxOutputs \in Nat /\ MaxDecisions \in Nat /\ Budget \in Nat
    /\ PageSize \in Nat \ {0} /\ Attempts \in Nat \ {0}
    /\ ChosenModels \subseteq Models /\ Kinds \subseteq {"reply", "ask"}

\* A command is not an event, what the terminal user types is no browser text, and NULL
\* is no POST.
ASSUME NamesAssumption ==
    /\ \A c \in Prompts \union Locals \union Interrupts \union Models \union {NULL} : c \notin Int
    /\ (Prompts \union Locals) \intersect (Interrupts \union Models \union {NULL}) = {}
    /\ Prompts \intersect Locals = {} /\ NULL \notin Interrupts \union Models
    /\ NULL \notin [of : Int, at : {"sent"}, retried : BOOLEAN]

VARIABLES
    \* the provider and the worker
    log,        \* events: kind, of, val, src ("client" | "worker": the source history names)
    model,      \* the worker's model
    \* the stream
    up,         \* the provider still sends to the companion's connection
    buf,        \* events sent to it and not yet consumed: seq, src
    \* the capture pump
    phase,      \* "open" | "read" | "accept" | "live"
    started,    \* the bridge has started
    hist,       \* the pages collected so far
    tries,      \* reconnect attempts
    proj,       \* the reconciler, the controls, the interrupt, the model and its reader
    gate,       \* WriteGate.#ready
    \* the writers
    inbox,      \* Session downstream, not yet read by the inject pump
    writer,     \* the inject pump's POST: of, at, retried
    acked,      \* downstream events acknowledged
    strays,     \* model requests given up on that may still reach the provider
    over,       \* the companion has ended
    \* ghosts and bounds
    asked,      \* commands in the order the viewers sent them
    reads,      \* settings reads posted
    since,      \* settings reads posted before the latest choice
    faults      \* n: drops, failures and changes of the terminal user's model;
                \* spoiled: one of those after which a choice may stay unconfirmed

provider == <<log, model>>
stream == <<up, buf>>
capture == <<phase, started, hist, tries>>
vars == <<provider, stream, capture, proj, gate, inbox, writer, acked, strays, over, asked, reads, since, faults>>

Event(kind, of, val, src) == [kind |-> kind, of |-> of, val |-> val, src |-> src]
Item(n, src) == [seq |-> n, src |-> src]
Outputs == {n \in DOMAIN log : log[n].kind \in {"reply", "ask"} \/ log[n].of \in Locals}

\* Choosing the model that the worker has already is no choice; LocalModel may still
\* bring that about.
Init ==
    /\ log = <<>> /\ model \in Models \ ChosenModels
    /\ up = FALSE /\ buf = <<>>
    /\ phase = "open" /\ started = FALSE /\ hist = <<>> /\ tries = 0
    /\ proj = [seen |-> {}, last |-> 0, shown |-> <<>>, users |-> {}, open |-> {}, used |-> {}, asks |-> {},
               stop |-> NULL, stopped |-> "no", expected |-> NULL, done |-> FALSE, expects |-> 0,
               reading |-> 0, current |-> NULL, task |-> "none", want |-> FALSE, bad |-> FALSE]
    /\ gate = FALSE /\ inbox = <<>> /\ writer = NULL /\ acked = {} /\ strays = {} /\ over = FALSE
    /\ asked = <<>> /\ reads = 0 /\ since = 0 /\ faults = [n |-> 0, spoiled |-> FALSE]

Others == {n \in DOMAIN log : log[n].val = "peer" \/ log[n].kind = "again"}
Fault(spoils) == [n |-> faults.n + 1, spoiled |-> faults.spoiled \/ spoils]
Affordable == Len(asked) + faults.n + Cardinality(Others) < Budget

-----------------------------------------------------------------------------
(* The provider and the worker                                             *)

Companion == <<capture, proj, gate, inbox, writer, acked, strays, over, asked, reads, since>>
Send(item) == buf' = IF up THEN Append(buf, item) ELSE buf
Emit(e) == log' = Append(log, e) /\ Send(Item(Len(log) + 1, e.src))

LocalPrompt(l) ==
    /\ ~over /\ Cardinality(Outputs) < MaxOutputs /\ \A n \in DOMAIN log : log[n].of # l
    /\ Emit(Event("user", l, NULL, "worker"))
    /\ UNCHANGED <<model, up, Companion, faults>>

\* The worker takes a client's prompt, and the log shows it a second time: as an
\* event of its own, or under the identity of the client's.
Echo ==
    LET fresh == {n \in DOMAIN log : log[n].kind = "user" /\ log[n].src = "client"
                    /\ \A m \in DOMAIN log : log[m].of = log[n].of => m <= n} IN
    /\ ~over
    /\ \E n \in fresh :
       /\ \A m \in fresh : n <= m
       /\ \/ Emit(Event("echo", log[n].of, NULL, "worker"))
          \/ log' = [log EXCEPT ![n].src = "worker"] /\ Send(Item(n, "worker"))
    /\ UNCHANGED <<model, up, Companion, faults>>

Output(kind) ==
    /\ ~over /\ Cardinality(Outputs) < MaxOutputs
    /\ \E n \in DOMAIN log : log[n].kind \in {"user", "echo"} /\ log[n].src = "worker"
    /\ Emit(Event(kind, NULL, NULL, "worker"))
    /\ UNCHANGED <<model, up, Companion, faults>>

\* The worker asks again what is open, under a new event.
AskAgain(n) ==
    /\ ~over /\ Affordable /\ log[n].kind = "ask"
    /\ \A m \in DOMAIN log : log[m].of # n
    /\ Emit(Event("again", n, NULL, "worker"))
    /\ UNCHANGED <<model, up, Companion, faults>>

\* Another client answers, or whoever answers first lets the tool finish.
Open(n) == log[n].kind = "ask" /\ \A m \in DOMAIN log : log[m].of = n => log[m].kind # "result"
PeerAnswers(n) ==
    /\ ~over /\ Affordable /\ Open(n) /\ \A m \in DOMAIN log : log[m].of = n => log[m].val # "peer"
    /\ Emit(Event("answer", n, "peer", "client"))
    /\ UNCHANGED <<model, up, Companion, faults>>
Finish(n) ==
    /\ ~over /\ Open(n)
    /\ Emit(Event("result", n, NULL, "worker"))
    /\ UNCHANGED <<model, up, Companion, faults>>

LocalModel(m) ==
    /\ ~over /\ Affordable /\ m # model
    /\ model' = m /\ faults' = Fault(TRUE)
    /\ UNCHANGED <<log, stream, Companion>>

Drop ==
    /\ ~over /\ Affordable /\ up
    /\ up' = FALSE /\ buf' = <<>> /\ faults' = Fault(FALSE)
    /\ UNCHANGED <<provider, Companion>>

\* #modelReadTask ends, or goes round for the read that was asked for meanwhile.
ReadEnds(p) == [p EXCEPT !.task = IF p.want THEN "wait" ELSE "none", !.want = FALSE]

\* A read of the settings is named by a negative number.
Read(n) == -n

\* The POSTs of the companion as the provider admits them.  The worker answers a
\* control request in the next event, and may refuse an interrupt.
AdmitText(c) ==
    c \in Prompts /\ Emit(Event("user", c, NULL, "client")) /\ UNCHANGED <<model, faults>>
AdmitDecision(n) ==
    n \in DOMAIN log /\ Emit(Event("answer", n, NULL, "client")) /\ UNCHANGED <<model, faults>>
AdmitInterrupt(c) ==
    /\ c \in Interrupts /\ UNCHANGED model
    /\ \/ Emit(Event("ok", c, NULL, "worker")) /\ UNCHANGED faults
       \/ Affordable /\ Emit(Event("fail", c, NULL, "worker")) /\ faults' = Fault(FALSE)
AdmitModelControl(c) ==
    /\ c \in Models \/ \E n \in 1..reads : c = Read(n)
    /\ model' = IF c \in Models THEN c ELSE model
    /\ Emit(Event("ok", c, model', "worker"))
    /\ UNCHANGED faults
Admit(c) == AdmitText(c) \/ AdmitDecision(c) \/ AdmitInterrupt(c) \/ AdmitModelControl(c)

ApplyPost ==
    /\ ~over /\ writer # NULL /\ writer.at = "sent"
    /\ Admit(writer.of)
    /\ writer' = [writer EXCEPT !.at = "applied"]
    /\ UNCHANGED <<up, capture, proj, gate, inbox, acked, strays, over, asked, reads, since>>
ApplyRead ==
    /\ ~over /\ proj.task = "sent"
    /\ Admit(Read(reads))
    /\ proj' = ReadEnds(proj)
    /\ UNCHANGED <<up, capture, gate, inbox, writer, acked, strays, over, asked, reads, since>>
ApplyStray ==
    /\ ~over
    /\ \E c \in strays : Admit(c) /\ strays' = strays \ {c}
    /\ UNCHANGED <<up, capture, proj, gate, inbox, writer, acked, over, asked, reads, since>>

-----------------------------------------------------------------------------
(* The reconciler and its observers                                        *)

Throw(p) == [p EXCEPT !.bad = TRUE]

UserByEvent(p, e) == [p EXCEPT !.shown = Append(@, e.seq)]

\* A prompt is correlated by its UUID: the second source of it is not shown again.
User(p, e) ==
    LET of == log[e.seq].of
        first == {u \in p.users : u.of = of} IN
    IF first = {} THEN [p EXCEPT !.users = @ \union {[of |-> of, src |-> e.src]}, !.shown = Append(@, e.seq)]
    ELSE IF [of |-> of, src |-> e.src] \in first THEN Throw(p)
    ELSE p

\* ClaudeNativeControls.observe: only a request that is first seen live gets a card,
\* and the answer of any client uses the card up.
Ask(p, id, live) ==
    IF id \in p.asks THEN p
    ELSE [p EXCEPT !.asks = @ \union {id}, !.open = IF live THEN @ \union {id} ELSE @]
UseUp(p, id) == IF id \in p.open THEN [p EXCEPT !.used = @ \union {id}] ELSE p

\* #observeInterruptResponse
StopAnswered(p, e) ==
    IF p.stop = log[e.seq].of THEN [p EXCEPT !.stopped = IF log[e.seq].kind = "ok" THEN "ok" ELSE "failed"] ELSE p

\* #refreshModel: one task, and one more read behind the one that runs.
Refresh(p) == IF p.task = "none" THEN [p EXCEPT !.task = "wait"] ELSE [p EXCEPT !.want = TRUE]

\* #observeModelResponse: the answer of the setter asks for a read, and the answer of
\* the read that was posted last is the current model.
ModelAnswered(p, e) ==
    LET id == log[e.seq].of IN
    IF log[e.seq].kind # "ok" THEN p
    ELSE IF p.expected # NULL /\ id = p.expected
    THEN IF p.done THEN p ELSE Refresh([p EXCEPT !.done = TRUE])
    ELSE IF p.reading = 0 \/ id # Read(p.reading) THEN p
    ELSE LET match == p.expects = p.reading /\ p.expected = log[e.seq].val IN
         [p EXCEPT !.reading = 0, !.current = log[e.seq].val, !.expected = IF match THEN NULL ELSE @]

\* #project
Project(p, e, live) ==
    LET n == log[e.seq] IN
    CASE n.kind \in {"user", "echo"} -> User(p, e)
      [] n.kind = "reply"  -> [p EXCEPT !.shown = Append(@, e.seq)]
      [] n.kind = "ask"    -> Ask(p, e.seq, live)
      [] n.kind = "again"  -> Ask(p, n.of, live)
      [] n.kind = "answer" -> UseUp(p, n.of)
      [] n.kind = "result" -> [p EXCEPT !.open = @ \ {n.of}, !.shown = Append(@, e.seq)]
      [] n.kind \in {"ok", "fail"} -> ModelAnswered(StopAnswered(p, e), e)
      [] OTHER -> p

\* NativeReconciler.accept
Accept(p, e, live) ==
    IF e \in p.seen THEN p
    ELSE IF \E s \in p.seen : s.seq = e.seq THEN Project(p, e, live)
    ELSE IF e.seq <= p.last THEN Throw(p)
    ELSE Project([p EXCEPT !.seen = @ \union {e}, !.last = e.seq], e, live)

\* Observations, one after the other.
Accepted(p, items, live) ==
    LET after[n \in 0..Len(items)] == IF n = 0 THEN p ELSE Accept(after[n - 1], items[n], live)
    IN  after[Len(items)]

-----------------------------------------------------------------------------
(* The capture pump                                                        *)

Writers == <<inbox, writer, acked, strays, asked, reads, since>>

\* The stream is open before history is read.
OpenConnection ==
    /\ ~over /\ phase = "open"
    /\ up' = TRUE /\ buf' = <<>> /\ hist' = <<>> /\ phase' = "read"
    /\ UNCHANGED <<provider, started, tries, proj, gate, over, faults, Writers>>

\* A page; behind the last one the provider may name a cursor that leads to an empty page.
ReadPage ==
    /\ ~over /\ phase = "read"
    /\ LET to == IF Len(hist) + PageSize < Len(log) THEN Len(hist) + PageSize ELSE Len(log) IN
       /\ hist' = hist \o [k \in 1..(to - Len(hist)) |-> Item(Len(hist) + k, log[Len(hist) + k].src)]
       /\ phase' \in IF to = Len(hist) THEN {"accept"} ELSE IF to = Len(log) THEN {"accept", "read"} ELSE {"read"}
    /\ UNCHANGED <<provider, stream, started, tries, proj, gate, over, faults, Writers>>

\* A page or a connection that fails: only a reconnect tries again.
CaptureFails ==
    /\ ~over /\ Affordable /\ phase \in {"open", "read"}
    /\ up' = FALSE /\ buf' = <<>> /\ phase' = "open" /\ tries' = tries + 1 /\ faults' = Fault(FALSE)
    /\ over' = (~started \/ tries' = Attempts)
    /\ UNCHANGED <<provider, started, hist, proj, gate, Writers>>

\* WriteGate.resume
Resume == TRUE

\* The collected history is accepted in one go; then writing resumes and a read of the
\* settings is asked for.
ReconcileHistory ==
    /\ ~over /\ phase = "accept"
    /\ LET p == Accepted(proj, hist, FALSE) IN
       /\ proj' = Refresh(p)
       /\ over' = p.bad
    /\ phase' = "live" /\ started' = TRUE /\ gate' = Resume /\ tries' = 0 /\ hist' = <<>>
    /\ UNCHANGED <<provider, stream, faults, Writers>>

\* The events that have arrived.
Consume ==
    /\ ~over /\ phase = "live" /\ buf # <<>>
    /\ proj' = Accepted(proj, buf, TRUE)
    /\ buf' = <<>> /\ over' = proj'.bad
    /\ UNCHANGED <<provider, up, capture, gate, faults, Writers>>

\* The end of the stream stops the writers, and with a card open the companion.
StreamEnded ==
    /\ ~over /\ phase = "live" /\ ~up /\ buf = <<>>
    /\ gate' = FALSE /\ phase' = "open"
    /\ over' = (proj.open # {})
    /\ UNCHANGED <<provider, stream, started, hist, tries, proj, faults, Writers>>

-----------------------------------------------------------------------------
(* The inject pump and the settings reader                                 *)

InboxFrame == UNCHANGED <<provider, stream, capture, proj, gate, writer, acked, strays, over, reads, since, faults>>
Order(c) ==
    /\ ~over /\ started /\ Affordable /\ c \notin ToSet(asked)
    /\ inbox' = Append(inbox, c) /\ asked' = Append(asked, c)
    /\ InboxFrame

\* Several viewers may answer a card that they see.
Decisions == Len(SelectSeq(asked, LAMBDA c : c \in DOMAIN log))
Decide(n) ==
    /\ ~over /\ Affordable /\ Decisions < MaxDecisions /\ n \in proj.open
    /\ inbox' = Append(inbox, n) /\ asked' = Append(asked, n)
    /\ InboxFrame

WriterFrame == UNCHANGED <<provider, stream, capture, gate, strays, asked, reads>>
Turn(kind) == ~over /\ writer = NULL /\ inbox # <<>> /\ Head(inbox) \in kind /\ gate /\ inbox' = Tail(inbox)
Sent(c) == [of |-> c, at |-> "sent", retried |-> FALSE]

\* One command at a time; an interrupt is registered before it is posted.
PostText ==
    /\ Turn(Prompts)
    /\ writer' = Sent(Head(inbox))
    /\ UNCHANGED <<proj, acked, over, since, faults>> /\ WriterFrame
PostInterrupt ==
    /\ Turn(Interrupts)
    /\ writer' = Sent(Head(inbox))
    /\ proj' = [proj EXCEPT !.stop = Head(inbox), !.stopped = "no"]
    /\ UNCHANGED <<acked, over, since, faults>> /\ WriterFrame

UsableCard(n) == n \in proj.open

\* respond: a card is used up before its answer is posted.
Usable(n) == n \in proj.open \ proj.used
Respond ==
    /\ Turn(DOMAIN log)
    /\ LET n == Head(inbox) IN
       IF Usable(n)
       THEN writer' = Sent(n) /\ proj' = [proj EXCEPT !.used = @ \union {n}] /\ UNCHANGED acked
       ELSE acked' = acked \union {n} /\ UNCHANGED <<writer, proj>>
    /\ UNCHANGED <<over, since, faults>> /\ WriterFrame

ExpectOnly(p, m) == [p EXCEPT !.expected = m, !.done = FALSE, !.expects = 0]

\* #setModel: a choice is dropped while an earlier one is unconfirmed, and when it has
\* expired or changes nothing.
Expect(p, m) == [p EXCEPT !.expected = m, !.done = FALSE, !.expects = 0, !.reading = 0]
SetModel ==
    /\ Turn(ChosenModels)
    /\ LET m == Head(inbox) IN
       \/ /\ proj.current \notin {NULL, m} /\ proj.expected = NULL
          /\ writer' = Sent(m) /\ proj' = Expect(proj, m) /\ since' = reads
          /\ UNCHANGED acked
       \/ acked' = acked \union {m} /\ UNCHANGED <<writer, proj, since>>
    /\ UNCHANGED <<over, faults>> /\ WriterFrame

\* The acknowledgement of an interrupt waits for the worker's answer as well.
Stopped == writer.of \in Interrupts => proj.stopped = "ok"
AckPost ==
    /\ ~over /\ writer # NULL /\ writer.at = "applied" /\ Stopped
    /\ acked' = acked \union {writer.of} /\ writer' = NULL
    /\ proj' = [proj EXCEPT !.stop = NULL]
    /\ UNCHANGED <<inbox, over, since, faults>> /\ WriterFrame

\* A refused bearer: text alone is posted again, once, with a token that has changed.
RefreshToken ==
    /\ ~over /\ Affordable /\ writer # NULL /\ writer.at = "sent" /\ ~writer.retried
    /\ writer' = [writer EXCEPT !.at = "refresh"]
    /\ over' = (writer.of \notin Prompts) /\ faults' = Fault(FALSE)
    /\ UNCHANGED <<inbox, proj, acked, since>> /\ WriterFrame
PostAgain ==
    /\ ~over /\ writer # NULL /\ writer.at = "refresh"
    /\ writer' = [writer EXCEPT !.at = "sent", !.retried = TRUE]
    /\ UNCHANGED <<inbox, proj, acked, over, since, faults>> /\ WriterFrame

\* A POST fails, or its answer is lost, or an interrupt stays unanswered: the companion
\* ends, except that a choice of model is only left unconfirmed.
GiveUp == over' = TRUE /\ UNCHANGED writer
PostFails ==
    /\ ~over /\ Affordable /\ writer # NULL /\ faults' = Fault(writer.of \in Models)
    /\ IF writer.of \in ChosenModels
       THEN /\ writer' = NULL /\ acked' = acked \union {writer.of} /\ UNCHANGED over
            /\ strays' \in IF writer.at = "sent" THEN {strays, strays \union {writer.of}} ELSE {strays}
       ELSE GiveUp /\ UNCHANGED <<acked, strays>>
    /\ UNCHANGED <<provider, stream, capture, gate, asked, reads, inbox, proj, since>>

\* The worker refuses an interrupt.
InterruptRefused ==
    /\ ~over /\ writer # NULL /\ writer.at = "applied" /\ proj.stopped = "failed"
    /\ GiveUp
    /\ UNCHANGED <<inbox, proj, acked, since, faults>> /\ WriterFrame

\* The settings reader; a failed read is given up on.
ReaderFrame == UNCHANGED <<provider, stream, capture, gate, inbox, writer, acked, over, asked, since>>
PostRead ==
    /\ ~over /\ proj.task = "wait" /\ gate
    /\ reads' = reads + 1
    /\ proj' = [proj EXCEPT !.task = "sent", !.reading = reads', !.expects = IF proj.expected # NULL THEN reads' ELSE @]
    /\ UNCHANGED <<strays, faults>> /\ ReaderFrame
ReadFails ==
    /\ ~over /\ Affordable /\ proj.task = "sent"
    /\ proj' = ReadEnds(proj) /\ faults' = Fault(TRUE)
    /\ strays' \in {strays, strays \union {Read(reads)}}
    /\ UNCHANGED reads /\ ReaderFrame

-----------------------------------------------------------------------------
(* The specification                                                       *)

Worker ==
    \/ Echo
    \/ \E k \in Kinds : Output(k)
Provider == ApplyPost \/ ApplyRead
Pumps ==
    \/ OpenConnection \/ ReadPage \/ ReconcileHistory \/ Consume \/ StreamEnded
    \/ PostRead
WriterStep == PostText \/ PostInterrupt \/ Respond \/ SetModel \/ AckPost \/ PostAgain \/ InterruptRefused

Next ==
    \/ Worker \/ Provider \/ ApplyStray
    \/ \E l \in Locals : LocalPrompt(l)
    \/ \E m \in Models : LocalModel(m)
    \/ \E n \in DOMAIN log : AskAgain(n) \/ PeerAnswers(n) \/ Finish(n)
    \/ Drop \/ CaptureFails \/ PostFails \/ ReadFails \/ RefreshToken
    \/ \E c \in Prompts \union Interrupts \union ChosenModels : Order(c)
    \/ \E n \in DOMAIN log : Decide(n)
    \/ Pumps \/ WriterStep

Spec == Init /\ [][Next]_vars

-----------------------------------------------------------------------------
(* Properties                                                              *)

\* Whatever the stream loses and the history repeats, what the companion has seen is a
\* prefix of the log, shown in its order and every prompt once.
ProjectionComplete ==
    /\ {s.seq : s \in proj.seen} = 1..proj.last
    /\ \A i, j \in DOMAIN proj.shown : i < j =>
         /\ proj.shown[i] < proj.shown[j]
         /\ log[proj.shown[i]].of = log[proj.shown[j]].of => log[proj.shown[i]].of = NULL
    /\ ~proj.bad

\* The companion answers a request at most once, and not after it has seen another
\* client's answer or the result.
Gone(n) == \E s \in proj.seen : log[s.seq].of = n /\ log[s.seq].kind \in {"answer", "result"}
DecisionsOnce ==
    [][\A n \in DOMAIN log : writer' = Sent(n) /\ writer' # writer => ~Gone(n) /\ n \notin acked]_vars

\* The model the viewers see, and the release of an unconfirmed choice, come from a
\* read that was posted after the latest choice.
ModelFresh ==
    [][proj.reading # 0 /\ proj'.reading = 0 /\ proj.current # proj'.current => proj.reading > since']_vars

\* The types of what the proofs read.
Sources == {"client", "worker"}
Commands == Prompts \union Interrupts \union ChosenModels
Named == Prompts \union Locals \union Interrupts \union Models \union Int \union {NULL}
Values == Models \union {NULL, "peer"}
Events == [kind : {"user", "echo", "reply", "ask", "again", "answer", "result", "ok", "fail"},
           of : Named, val : Values, src : Sources]
Items == [seq : Nat \ {0}, src : Sources]
Posts == [of : Commands \union Int, at : {"sent", "applied", "refresh"}, retried : BOOLEAN]
Projections ==
    [seen : SUBSET Items, last : Nat, shown : Seq(Nat), users : SUBSET [of : Named, src : Sources],
     open : SUBSET Nat, used : SUBSET Nat, asks : SUBSET Nat,
     stop : Interrupts \union {NULL}, stopped : {"no", "ok", "failed"},
     expected : Models \union {NULL}, done : BOOLEAN, expects : Nat, reading : Nat, current : Values,
     task : {"none", "wait", "sent"}, want : BOOLEAN, bad : BOOLEAN]

TypeOK ==
    /\ log \in Seq(Events) /\ model \in Models
    /\ up \in BOOLEAN /\ buf \in Seq(Items) /\ hist \in Seq(Items)
    /\ phase \in {"open", "read", "accept", "live"}
    /\ proj \in Projections
    /\ inbox \in Seq(Commands \union Int) /\ writer \in Posts \union {NULL}
    /\ acked \subseteq Commands \union Int
    /\ \A c \in strays : c \in Models \/ (c \in Int /\ c <= 0)
    /\ asked \in Seq(Commands \union Int) /\ reads \in Nat /\ since \in Nat

\* The log: a text has one event of its own; an echo follows the client's event, which then
\* keeps its source; what is about an ask comes behind it; an ask has one result.
EventOK(n) ==
    LET e == log[n] IN
    /\ e.kind = "user" => e.of \in Prompts \union Locals /\ (e.of \in Locals => e.src = "worker")
    /\ e.kind = "echo" =>
         /\ e.of \in Prompts /\ e.src = "worker"
         /\ \E m \in 1..(n - 1) : log[m].kind = "user" /\ log[m].of = e.of /\ log[m].src = "client"
    /\ e.kind \in {"reply", "ask"} => e.of = NULL
    /\ e.kind \in {"again", "answer", "result"} => e.of \in 1..(n - 1) /\ log[e.of].kind = "ask"
LogOK ==
    /\ \A n \in DOMAIN log : EventOK(n)
    /\ \A m, n \in DOMAIN log :
         m # n /\ log[m].kind = log[n].kind /\ log[n].kind \in {"user", "result"} => log[m].of # log[n].of

\* An observation names an event; only a client's text has ever had another source.
ItemOK(item) ==
    /\ item.seq \in DOMAIN log
    /\ log[item.seq].kind # "user" \/ log[item.seq].src = "client" => item.src = log[item.seq].src

\* What the reconciler and its observers know after the events 1 .. last.
SeenOK(p) ==
    /\ p.last <= Len(log)
    /\ \A s \in p.seen : s.seq \in 1..p.last /\ ItemOK(s)
    /\ \A s, t \in p.seen : s.seq = t.seq => s = t
    /\ \A q \in 1..p.last : \E s \in p.seen : s.seq = q
UsersOK(p) ==
    /\ \A u \in p.users : \E s \in p.seen : log[s.seq].kind = "user" /\ log[s.seq].of = u.of /\ s.src = u.src
    /\ \A q \in 1..p.last : log[q].kind = "user" => \E u \in p.users : u.of = log[q].of
ShownOK(p) ==
    /\ \A i \in DOMAIN p.shown : p.shown[i] \in 1..p.last /\ log[p.shown[i]].kind \in {"user", "reply", "result"}
    /\ \A i, j \in DOMAIN p.shown : i < j => p.shown[i] < p.shown[j]
CardsOK(p) ==
    /\ p.open \subseteq p.asks /\ p.used \subseteq p.asks
    /\ \A n \in p.asks : n \in 1..p.last /\ log[n].kind = "ask"
    /\ \A q \in 1..p.last :
         /\ log[q].kind = "ask" => q \in p.asks
         /\ log[q].kind = "result" => log[q].of \notin p.open
         /\ log[q].kind = "answer" => log[q].of \notin p.open \ p.used
ProjOK(p) == p \in Projections /\ SeenOK(p) /\ UsersOK(p) /\ ShownOK(p) /\ CardsOK(p) /\ ~p.bad

\* What the stream has still to give follows the events up to b without a gap.
Covered(b) ==
    /\ up => \A q \in (b + 1)..Len(log) : \E i \in DOMAIN buf : buf[i].seq = q
    /\ \A i \in DOMAIN buf : \A q \in (b + 1)..(buf[i].seq - 1) : \E j \in 1..(i - 1) : buf[j].seq = q
StreamOK ==
    /\ \A i \in DOMAIN buf : ItemOK(buf[i])
    /\ ~up => buf = <<>>
    /\ Len(hist) <= Len(log) /\ \A k \in DOMAIN hist : hist[k].seq = k /\ ItemOK(hist[k])
    /\ phase = "read" => \E b \in 0..Len(log) : Covered(b)
    /\ phase = "accept" => Covered(Len(hist))
    /\ phase = "live" => Covered(proj.last)

\* A text is asked for once and in one place; a decision in the writer's hands or behind it
\* is about a card that is used up or gone.
Admitted(c) == \E n \in DOMAIN log : log[n].kind = "user" /\ log[n].of = c
Ordered(c)  == \E i \in DOMAIN asked : asked[i] = c
TextsOK ==
    /\ \A c \in Prompts : Admitted(c) => Ordered(c)
    /\ \A i \in DOMAIN inbox : inbox[i] \in Prompts =>
         /\ Ordered(inbox[i]) /\ ~Admitted(inbox[i])
         /\ \A j \in DOMAIN inbox : i # j => inbox[i] # inbox[j]
         /\ writer # NULL => writer.of # inbox[i]
    /\ writer # NULL /\ writer.of \in Prompts =>
         Ordered(writer.of) /\ (writer.at # "applied" => ~Admitted(writer.of))
Spent(n) == n \in proj.asks /\ n \notin proj.open \ proj.used
AnswersOK ==
    /\ \A i \in DOMAIN inbox : inbox[i] \in Int => inbox[i] \in proj.asks
    /\ writer # NULL /\ writer.of \in Int => Spent(writer.of)
    /\ \A n \in acked : n \in Int => Spent(n)

\* A read of the settings under way was posted after the latest choice.
ReadsOK == since <= reads /\ (proj.reading # 0 => proj.reading > since)

ClaudeInv == TypeOK /\ LogOK /\ ProjOK(proj) /\ StreamOK /\ TextsOK /\ AnswersOK /\ ReadsOK

=============================================================================
