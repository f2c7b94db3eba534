------------------------------ MODULE HostLaunch ------------------------------
(***************************************************************************)
(* The launcher's life: the child process runs behind the proxy, every     *)
(* session it registers gets a ReadyBridge and a bridge to the broker, and *)
(* when the child exits the launcher fences them all, waits for the        *)
(* relays at most until a deadline, waits for the tombstones however long  *)
(* their own attempts take, and closes the proxy; then the process exits.  *)
(*                                                                         *)
(* Code: launch.ts (registerSession, teardown), drivers/ready-bridge.ts,   *)
(* drivers/bridge.ts, relay.ts (presence).  Of a relay only its first      *)
(* announce and its tombstone are kept; Presence has the later announces,  *)
(* HostRelay the pumps.                                                    *)
(***************************************************************************)
EXTENDS Naturals, FiniteSets

CONSTANTS
    Sessions,   \* sessions the child may register
    Retries     \* TERMINAL_POST_RETRIES

VARIABLES
    launch,     \* "child", "closing", "settling", "proxy" or "done"
    session,    \* the native session: "none", "open" or "closed"
    bridge,     \* ReadyBridge: "none", "ready" or "closed"
    prepared,   \* the barrier of relay.prepare(): "none", "pending", "passed" or "failed"
    announce,   \* the promise `announced`: "waiting", "posting" or "settled"
    post,       \* the announce may still be stored
    started,    \* #presenceStarted
    serving,    \* relay.serve: "waiting", "running" or "ended"
    relays,     \* bridges whose `served` is pending
    tomb,       \* the tombstone: [state, failed, live]
    terminals,  \* terminalTasks
    bus         \* what the bus shows of the session: "nothing", "live" or "ended"

native == <<session, bridge>>
bridging == <<prepared, announce, post, started, serving, relays>>
ending == <<tomb, terminals>>
launchVars == <<launch, native, bridging, ending, bus>>

LaunchInit ==
    /\ launch = "child"
    /\ session = [s \in Sessions |-> "none"]
    /\ bridge = [s \in Sessions |-> "none"]
    /\ prepared = [s \in Sessions |-> "none"]
    /\ announce = [s \in Sessions |-> "waiting"]
    /\ serving = [s \in Sessions |-> "waiting"]
    /\ post = {} /\ started = {} /\ relays = {} /\ terminals = {}
    /\ tomb = [s \in Sessions |-> [state |-> "none", failed |-> 0, live |-> FALSE]]
    /\ bus = [s \in Sessions |-> "nothing"]

TearingDown == launch # "child"
\* ownerEnded: the ReadyBridge's signal is aborted, or the session is closed.
OwnerEnded(s) == bridge[s] = "closed" \/ session[s] = "closed"
Settled(s) == tomb[s].state \in {"over", "gave up"}

-----------------------------------------------------------------------------
(* A session opens and closes                                              *)

\* terminalizePresence: once per relay, and a tombstone only when an announce was posted.
Terminalized(s) ==
    IF tomb[s].state # "none" THEN tomb[s]
    ELSE IF s \in started THEN [state |-> "trying", failed |-> 0, live |-> TRUE]
    ELSE [state |-> "over", failed |-> 0, live |-> FALSE]

\* terminalize: the task joins terminalTasks unless it is over.
Tracked(S) == terminals \union {s \in S : Terminalized(s).state = "trying"}

\* onSession: the bridge starts at once, or the new session is closed with its owner.
Register(s) ==
    /\ session[s] = "none" /\ launch \notin {"proxy", "done"}
    /\ IF TearingDown
       THEN /\ session' = [session EXCEPT ![s] = "closed"]
            /\ bridge' = [bridge EXCEPT ![s] = "closed"]
            /\ UNCHANGED bridging
       ELSE /\ session' = [session EXCEPT ![s] = "open"]
            /\ bridge' = [bridge EXCEPT ![s] = "ready"]
            /\ prepared' = [prepared EXCEPT ![s] = "pending"]
            /\ relays' = relays \union {s}
            /\ UNCHANGED <<announce, post, started, serving>>
    /\ UNCHANGED <<launch, ending, bus>>

\* Session.close by the child or by a relay that failed; its observer terminalizes the
\* presence, which no launcher waits for yet.
SessionCloses(s) ==
    /\ session[s] = "open"
    /\ session' = [session EXCEPT ![s] = "closed"]
    /\ tomb' = [tomb EXCEPT ![s] = Terminalized(s)]
    /\ UNCHANGED <<launch, bridge, bridging, terminals, bus>>

\* The barrier is passed: announce and serve start together, unless the owner has ended.
Prepared(s) ==
    /\ prepared[s] = "pending"
    /\ prepared' = [prepared EXCEPT ![s] = "passed"]
    /\ IF OwnerEnded(s)
       THEN /\ announce' = [announce EXCEPT ![s] = "settled"]
            /\ serving' = [serving EXCEPT ![s] = "ended"]
            /\ tomb' = [tomb EXCEPT ![s] = Terminalized(s)]
            /\ terminals' = Tracked({s})
            /\ UNCHANGED <<post, started>>
       ELSE /\ announce' = [announce EXCEPT ![s] = "posting"]
            /\ post' = post \union {s} /\ started' = started \union {s}
            /\ serving' = [serving EXCEPT ![s] = "running"]
            /\ UNCHANGED ending
    /\ UNCHANGED <<launch, native, relays, bus>>

\* The cursor reads are exhausted: the session ends, and nothing was announced.
PrepareFails(s) ==
    /\ prepared[s] = "pending"
    /\ prepared' = [prepared EXCEPT ![s] = "failed"]
    /\ announce' = [announce EXCEPT ![s] = "settled"]
    /\ serving' = [serving EXCEPT ![s] = "ended"]
    /\ session' = [session EXCEPT ![s] = "closed"]
    /\ tomb' = [tomb EXCEPT ![s] = Terminalized(s)]
    /\ terminals' = Tracked({s})
    /\ UNCHANGED <<launch, bridge, post, started, relays, bus>>

-----------------------------------------------------------------------------
(* The bus                                                                 *)

\* The store drops an announce behind the session's tombstone.
Stored(s, what) == IF bus[s] = "ended" THEN bus ELSE [bus EXCEPT ![s] = what]

\* An announce is stored, also when nobody waits for its answer any more.
AnnounceStored(s) ==
    /\ s \in post
    /\ post' = post \ {s} /\ bus' = Stored(s, "live")
    /\ UNCHANGED <<launch, native, prepared, announce, started, serving, relays, ending>>

\* It is answered, fails, or is aborted by the tombstone.
AnnounceSettles(s) ==
    /\ announce[s] = "posting"
    /\ announce' = [announce EXCEPT ![s] = "settled"]
    /\ UNCHANGED <<launch, native, prepared, post, started, serving, relays, ending, bus>>

TombStored(s) ==
    /\ tomb[s].live
    /\ tomb' = [tomb EXCEPT ![s].live = FALSE]
    /\ bus' = Stored(s, "ended")
    /\ UNCHANGED <<launch, native, bridging, terminals>>
TombAnswered(s) ==
    /\ tomb[s].state = "trying" /\ ~tomb[s].live
    /\ tomb' = [tomb EXCEPT ![s].state = "over"]
    /\ terminals' = terminals \ {s}
    /\ UNCHANGED <<launch, native, bridging, bus>>

\* An attempt fails or passes TERMINAL_POST_TIMEOUT_MS.
TombFails(s) ==
    /\ tomb[s].state = "trying"
    /\ IF tomb[s].failed < Retries
       THEN /\ tomb' = [tomb EXCEPT ![s].failed = @ + 1, ![s].live = TRUE]
            /\ UNCHANGED terminals
       ELSE /\ tomb' = [tomb EXCEPT ![s].state = "gave up"]
            /\ terminals' = terminals \ {s}
    /\ UNCHANGED <<launch, native, bridging, bus>>

-----------------------------------------------------------------------------
(* The end of a bridge, and of the launch                                  *)

\* relay.serve ends when its session or its owner has; `served` goes on to terminalize.
ServeEnds(s) ==
    /\ serving[s] = "running" /\ OwnerEnded(s)
    /\ serving' = [serving EXCEPT ![s] = "ended"]
    /\ tomb' = [tomb EXCEPT ![s] = Terminalized(s)]
    /\ terminals' = Tracked({s})
    /\ UNCHANGED <<launch, native, prepared, announce, post, started, relays, bus>>

\* `served` resolves after every presence request, and the bridge is retired.
Served(s) ==
    /\ s \in relays /\ serving[s] = "ended" /\ announce[s] = "settled" /\ Settled(s)
    /\ relays' = relays \ {s}
    /\ bridge' = [bridge EXCEPT ![s] = "closed"]
    /\ UNCHANGED <<launch, session, prepared, announce, post, started, serving, ending, bus>>

\* The child exits.  The abort reaches each ReadyBridge, its session and its terminalize
\* before anything is awaited.
Announcing == {s \in Sessions : bridge[s] = "ready" /\ serving[s] = "running"}
Fenced == {s \in Sessions : bridge[s] = "ready"}
ChildExits ==
    /\ launch = "child" /\ launch' = "closing"
    /\ bridge' = [s \in Sessions |-> IF s \in Fenced THEN "closed" ELSE bridge[s]]
    /\ session' = [s \in Sessions |-> IF s \in Fenced THEN "closed" ELSE session[s]]
    /\ tomb' = [s \in Sessions |-> IF s \in Fenced THEN Terminalized(s) ELSE tomb[s]]
    /\ terminals' = Tracked(Fenced)
    /\ UNCHANGED <<bridging, bus>>

\* waitForTasks on the bridges and then on the relays, both the `served` promises, until
\* one deadline, RELAY_TEARDOWN_WAIT_MS after the exit: they resolve, or it passes.
AllServed ==
    /\ launch = "closing" /\ relays = {} /\ launch' = "settling"
    /\ UNCHANGED <<native, bridging, ending, bus>>
RelaysWaited ==
    /\ launch = "closing" /\ launch' = "settling"
    /\ UNCHANGED <<native, bridging, ending, bus>>

\* settleTasks(terminalTasks): no deadline.
TerminalsSettled ==
    /\ launch = "settling" /\ terminals = {} /\ launch' = "proxy"
    /\ UNCHANGED <<native, bridging, ending, bus>>

\* proxy.close closes every session that is left; then the process exits.
ProxyClosed ==
    /\ launch = "proxy" /\ launch' = "done"
    /\ session' = [s \in Sessions |-> IF session[s] = "open" THEN "closed" ELSE session[s]]
    /\ UNCHANGED <<bridge, bridging, ending, bus>>

\* After "done" only what is on the wire moves.
Running(s) ==
    \/ Register(s) \/ SessionCloses(s) \/ Prepared(s) \/ PrepareFails(s)
    \/ AnnounceSettles(s) \/ TombAnswered(s) \/ TombFails(s) \/ ServeEnds(s) \/ Served(s)
LaunchNext ==
    \/ \E s \in Sessions : launch # "done" /\ Running(s)
    \/ \E s \in Sessions : AnnounceStored(s) \/ TombStored(s)
    \/ ChildExits \/ RelaysWaited \/ TerminalsSettled \/ ProxyClosed

\* The timers of the teardown fire and the sockets close.  The broker owes no answer.
LaunchFairness ==
    /\ WF_launchVars(RelaysWaited \/ TerminalsSettled \/ ProxyClosed)
    /\ \A s \in Sessions : WF_launchVars(launch # "done" /\ TombFails(s))

LaunchSpec == LaunchInit /\ [][LaunchNext]_launchVars /\ LaunchFairness

-----------------------------------------------------------------------------
Tombstone == [state : {"none", "trying", "over", "gave up"}, failed : Nat, live : BOOLEAN]

\* The types of the variables.
LaunchTypeOK ==
    /\ launch \in {"child", "closing", "settling", "proxy", "done"}
    /\ session \in [Sessions -> {"none", "open", "closed"}]
    /\ bridge \in [Sessions -> {"none", "ready", "closed"}]
    /\ prepared \in [Sessions -> {"none", "pending", "passed", "failed"}]
    /\ announce \in [Sessions -> {"waiting", "posting", "settled"}]
    /\ serving \in [Sessions -> {"waiting", "running", "ended"}]
    /\ post \subseteq Sessions /\ started \subseteq Sessions
    /\ relays \subseteq Sessions /\ terminals \subseteq Sessions
    /\ tomb \in [Sessions -> Tombstone]
    /\ bus \in [Sessions -> {"nothing", "live", "ended"}]

\* No ghost: when the process exits, every session it has announced is shown as ended and
\* stays so, whatever raced the exit (a registration, the cursor reads, an announce that
\* stalled, the session's own end), unless all attempts to say so have failed.
NoGhost ==
    launch = "done" => \A s \in started : bus[s] = "ended" \/ tomb[s].state = "gave up"

\* "A permanently stalled broker cannot hang process exit": the launch ends after its child.
TeardownEnds == launch = "closing" ~> launch = "done"

\* The parts of NoGhost's inductive invariant.  A bridge is closed with its session; only a
\* prepared bridge has announced or serves, and one that serves no more has no session.
BridgeOfSession(s) ==
    /\ session[s] = "none" <=> bridge[s] = "none"
    /\ bridge[s] = "closed" => session[s] = "closed"
    /\ prepared[s] # "none" => bridge[s] # "none"
    /\ s \in started => prepared[s] = "passed"
    /\ serving[s] = "running" => s \in started
    /\ serving[s] = "ended" => session[s] = "closed"
\* A tombstone is for a session that closed; behind a closed bridge an announced session
\* has one, and the launcher waits for its attempts.
TombOfSession(s) ==
    /\ tomb[s].state # "none" => session[s] = "closed"
    /\ tomb[s].state = "trying" => s \in started
    /\ bridge[s] = "closed" /\ s \in started => tomb[s].state # "none"
    /\ bridge[s] = "closed" /\ tomb[s].state = "trying" => s \in terminals
\* Once an attempt at the tombstone was stored, and none is due, the bus shows the end.
TombIsStored(s) ==
    s \in started /\ tomb[s].state \in {"trying", "over"} =>
        IF tomb[s].live THEN tomb[s].state = "trying" ELSE bus[s] = "ended"
\* The exit leaves no bridge open, and the proxy closes after the last attempt.
Fence ==
    /\ TearingDown => \A s \in Sessions : bridge[s] # "ready"
    /\ launch \in {"proxy", "done"} => \A s \in Sessions : tomb[s].state # "trying"
LaunchInv ==
    /\ LaunchTypeOK /\ Fence
    /\ \A s \in Sessions : BridgeOfSession(s) /\ TombOfSession(s) /\ TombIsStored(s)
===============================================================================
