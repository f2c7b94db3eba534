----------------------------- MODULE BrokerStream -----------------------------
(***************************************************************************)
(* A subscription from end to end: the channel of LocalBackend             *)
(* (apps/web/lib/broker/local.ts), the event stream the route wraps it in  *)
(* (sseResponse, sseEmptyResponse), BrokerClient.streamFrames that reads   *)
(* it, and the relay's inbound pump that opens one after another and       *)
(* admits each frame once.  Connections fail, are cut, go silent; the      *)
(* route rotates a healthy one; the channel may be closed and reopened.    *)
(***************************************************************************)
EXTENDS Integers, Sequences, SequencesExt

CONSTANTS
    Attempts,       \* INBOUND_FAILURE_ATTEMPTS
    MaxFrames,      \* bound on frames published
    MaxCloses,      \* bound on closes of the channel
    MaxRotations,   \* bound on streams the route rotates
    MaxFaults,      \* bound on connections that fail
    MaxWire         \* bound on records in flight when a keepalive is sent

VARIABLES
    present, log,       \* the channel, and its frames
    attached, source,   \* the subscriber is registered; frames its controller holds
    server, held,       \* the event stream's loop; what its pending read resolved to (0: nothing)
    wire, dead,         \* records on their way to the client; the connection went silent
    client, disposition,
    fails, admitted,    \* consecutiveFailures; frames admitted, in order
    next, closes, rotations, faults

backend == <<present, log, next, closes>>
route == <<attached, source, server, held, rotations>>
transport == <<wire, dead, faults>>
pump == <<client, disposition, fails, admitted>>
streamVars == <<backend, route, transport, pump>>

Mark(kind) == [kind |-> kind, frame |-> 0]
Data(f) == [kind |-> "data", frame |-> f]

Init == /\ present = FALSE /\ log = <<>> /\ next = 0 /\ closes = 0
        /\ attached = FALSE /\ source = <<>> /\ server = "none" /\ held = 0 /\ rotations = 0
        /\ wire = <<>> /\ dead = FALSE /\ faults = 0
        /\ client = "waiting" /\ disposition = "unknown" /\ fails = 0 /\ admitted = <<>>

-------------------------------------------------------------------------------
(* The channel                                                               *)

\* Only a publish brings a channel into existence; the fan-out is synchronous.
Publish ==
    /\ next < MaxFrames
    /\ next' = next + 1
    /\ present' = TRUE
    /\ log' = Append(log, next')
    /\ source' = IF attached THEN Append(source, next') ELSE source
    /\ UNCHANGED <<closes, attached, server, held, rotations, transport, pump>>

\* The close sentinel ends every live stream, once what it holds is read, and frees the token.
CloseChannel ==
    /\ present /\ closes < MaxCloses
    /\ closes' = closes + 1
    /\ present' = FALSE /\ log' = <<>> /\ attached' = FALSE
    /\ UNCHANGED <<next, source, server, held, rotations, transport, pump>>

-------------------------------------------------------------------------------
(* The route                                                                 *)

\* GET /api/stream answers: nothing connected is an empty stream, else the replay is
\* buffered and the subscriber registered in one synchronous step.
Replayed == log
Connect ==
    /\ client = "waiting"
    /\ client' = "reading" /\ disposition' = "unknown" /\ dead' = FALSE
    /\ IF present
       THEN /\ attached' = TRUE /\ source' = Replayed /\ server' = "open" /\ held' = 0
            /\ wire' = <<Mark("open")>>
       ELSE /\ wire' = <<Mark("empty"), Mark("eof")>>
            /\ UNCHANGED <<attached, source, server, held>>
    /\ UNCHANGED <<backend, rotations, faults, fails, admitted>>

\* The one outstanding read settles.
Resolve ==
    /\ server = "open" /\ held = 0 /\ source # <<>>
    /\ held' = Head(source) /\ source' = Tail(source)
    /\ UNCHANGED <<backend, attached, server, rotations, transport, pump>>

\* The read wins the race: its frame is sent and the next read is issued.
Emit ==
    /\ server = "open" /\ held # 0
    /\ wire' = Append(wire, Data(held)) /\ held' = 0
    /\ UNCHANGED <<backend, attached, source, server, rotations, dead, faults, pump>>

\* The keepalive wins the race: the read stays outstanding, also one that has just settled.
AfterPing == held
Ping ==
    /\ server = "open" /\ Len(wire) < MaxWire
    /\ wire' = Append(wire, Mark("ping"))
    /\ held' = AfterPing
    /\ UNCHANGED <<backend, attached, source, server, rotations, dead, faults, pump>>

\* The loop is over: the reader is cancelled, which drops the subscriber, and the body closes.
Finished(marks) ==
    /\ server' = "none" /\ held' = 0 /\ attached' = FALSE /\ source' = <<>>
    /\ wire' = wire \o marks \o <<Mark("eof")>>
    /\ UNCHANGED <<backend, dead, pump>>

\* The rotation timer wins the race.
Rotate ==
    /\ server = "open" /\ rotations < MaxRotations
    /\ rotations' = rotations + 1
    /\ Finished(<<Mark("rotate")>>)
    /\ UNCHANGED faults

\* The source ended: EOF without a disposition.
SourceEnds ==
    /\ server = "open" /\ ~attached /\ source = <<>> /\ held = 0
    /\ Finished(<<>>)
    /\ UNCHANGED <<rotations, faults>>

\* A read of the source rejects.
SourceFails ==
    /\ server = "open" /\ held = 0 /\ faults < MaxFaults
    /\ faults' = faults + 1
    /\ Finished(<<Mark("error")>>)
    /\ UNCHANGED rotations

-------------------------------------------------------------------------------
(* The connection                                                            *)

\* The connection is cut, or the function killed: the client reads what arrived, then EOF;
\* the body's cancel releases the subscriber.
Cut ==
    /\ server = "open" /\ faults < MaxFaults
    /\ faults' = faults + 1
    /\ \E k \in 0..Len(wire) : wire' = SubSeq(wire, 1, k) \o <<Mark("eof")>>
    /\ server' = "none" /\ held' = 0 /\ attached' = FALSE /\ source' = <<>>
    /\ UNCHANGED <<backend, rotations, dead, pump>>

\* It goes silent: nothing more arrives, no EOF either.
GoSilent ==
    /\ client = "reading" /\ ~dead /\ faults < MaxFaults
    /\ faults' = faults + 1
    /\ dead' = TRUE /\ wire' = <<>>
    /\ server' = "none" /\ held' = 0 /\ attached' = FALSE /\ source' = <<>>
    /\ UNCHANGED <<backend, rotations, pump>>

-------------------------------------------------------------------------------
(* The client and the pump                                                   *)

\* What a record makes of the stream's disposition; "invalid" is thrown as a 502.
After(kind) ==
    CASE disposition = "rotate" -> "invalid"
      [] kind = "error" -> "invalid"
      [] disposition = "empty" -> "invalid"
      [] kind = "empty" -> IF disposition = "unknown" THEN "empty" ELSE "invalid"
      [] kind = "rotate" -> IF disposition = "open" THEN "rotate" ELSE "invalid"
      [] OTHER -> "open"

\* The subscription ended: how is what decides the retry budget.
CleanEnd(d) == d = "empty"
Ended(how) ==
    /\ fails' = CASE how = "clean" -> 0 [] how = "rotation" -> fails [] OTHER -> fails + 1
    /\ client' = IF fails' >= Attempts THEN "fatal" ELSE "waiting"
    /\ wire' = <<>> /\ dead' = FALSE /\ disposition' = "unknown"
    /\ server' = "none" /\ held' = 0 /\ attached' = FALSE /\ source' = <<>>

\* A frame not seen before is admitted, and only that forgives failures.
Admit(f) ==
    IF f \in Range(admitted) THEN UNCHANGED <<admitted, fails>>
    ELSE admitted' = Append(admitted, f) /\ fails' = 0

Read ==
    /\ client = "reading" /\ wire # <<>> /\ Head(wire).kind # "eof"
    /\ LET record == Head(wire) IN
       \/ /\ After(record.kind) = "invalid"
          /\ Ended("failure")
          /\ UNCHANGED admitted
       \/ /\ After(record.kind) # "invalid"
          /\ disposition' = After(record.kind)
          /\ wire' = Tail(wire)
          /\ IF record.kind = "data" THEN Admit(record.frame) ELSE UNCHANGED <<admitted, fails>>
          /\ UNCHANGED <<client, dead, attached, source, server, held>>
    /\ UNCHANGED <<backend, rotations, faults>>

\* EOF: the explicit empty marker is clean, a rotation spares the budget, the rest failed.
ReadEnd ==
    /\ client = "reading" /\ wire # <<>> /\ Head(wire).kind = "eof"
    /\ Ended(IF CleanEnd(disposition) THEN "clean"
             ELSE IF disposition = "rotate" THEN "rotation" ELSE "failure")
    /\ UNCHANGED <<backend, rotations, faults, admitted>>

\* No byte for SSE_IDLE_MS, more than twice the keepalive: the watchdog ends the stream.
SilentNever == FALSE
Silent == dead
Watchdog ==
    /\ client = "reading" /\ Silent
    /\ Ended("failure")
    /\ UNCHANGED <<backend, rotations, faults, admitted>>

\* The request fails, is rejected, or its headers miss the deadline.
ConnectFails ==
    /\ client = "waiting" /\ faults < MaxFaults
    /\ faults' = faults + 1
    /\ Ended("failure")
    /\ UNCHANGED <<backend, rotations, admitted>>

\* The owner aborts: the iteration returns whatever it was waiting for.
Shutdown ==
    /\ client \in {"waiting", "reading"}
    /\ client' = "stopped"
    /\ wire' = <<>> /\ dead' = FALSE /\ disposition' = "unknown"
    /\ server' = "none" /\ held' = 0 /\ attached' = FALSE /\ source' = <<>>
    /\ UNCHANGED <<backend, rotations, faults, fails, admitted>>

Next == \/ Publish \/ CloseChannel
        \/ Connect \/ Resolve \/ Emit \/ Ping \/ Rotate \/ SourceEnds \/ SourceFails
        \/ Cut \/ GoSilent
        \/ Read \/ ReadEnd \/ Watchdog \/ ConnectFails \/ Shutdown

\* The event loops of the two processes run; nothing obliges publishers, timers of a healthy
\* stream, or faults.
RouteRuns == Resolve \/ Emit \/ SourceEnds
PumpRuns == Connect \/ Read \/ ReadEnd \/ Watchdog

Fairness == WF_streamVars(RouteRuns) /\ WF_streamVars(PumpRuns)

Spec == Init /\ [][Next]_streamVars /\ Fairness

-------------------------------------------------------------------------------
\* A subscription that rots is left and opened again: again and again the pump has admitted
\* every frame of the channel, unless its failure budget is spent or its owner stopped it.
EveryFrameArrives ==
    []<>(client \in {"fatal", "stopped"} \/ Range(log) \subseteq Range(admitted))

===============================================================================
