------------------------------ MODULE MCStreams ------------------------------
(* The processes of a host and the streams they read, for TLC: the         *)
(* worker's stream of a Claude session and the batches it posts back, the   *)
(* proxy in front of the two and the launcher that owns it, a plain Claude  *)
(* in its pane, the poll-tail stream of a broker channel, and a             *)
(* subscription from end to end.  A behaviour follows one part and leaves   *)
(* the others at rest: the two halves of a session share nothing but        *)
(* `closed`, which each already sets at any time on behalf of the other     *)
(* (Close, CloseIntake), and so do proxy and launcher.                      *)
EXTENDS WorkerStream, MitmProxy, HostLaunch, NativeIntake, ChannelStream, TmuxDriver

CONSTANTS
    Attempts, MaxFrames, MaxCloses, MaxRotations, MaxBreaks, MaxWire

VARIABLES
    part,      \* the part this behaviour follows
    present, log, attached, source, server, held, sse, dead, reader, disposition,
    failures, admitted, next, closes, rotations, breaks

\* Every batch of up to two of the worker's first three events, repeated, changed, invalid
\* or regrouped.
SmallBatches == UNION {[1..n -> [uuid : 0..MaxUuid, bytes : Bytes]] : n \in 0..2}

\* Start indexes: from the start, past one row, past the end, and the last row only.
Starts == {0, 1, 3, -1}

Subscription == INSTANCE BrokerStream
    WITH wire <- sse, client <- reader, fails <- failures, faults <- breaks, MaxFaults <- MaxBreaks

downVars == <<dsSeq, attempted, acked, workerGen, follower, socket, wire, received>>
workerVars == <<closed, downVars>>
sessionVars == <<workerVars, intakeVars>>
subscriptionVars == <<present, log, attached, source, server, held, sse, dead, reader,
                      disposition, failures, admitted, next, closes, rotations, breaks>>

PartsInit ==
    /\ Init /\ IntakeInit /\ ProxyInit /\ LaunchInit /\ StreamInit /\ PaneInit /\ Subscription!Init
    /\ part \in {"worker", "intake", "proxy", "launch", "pane", "channel", "subscription"}

PartsNext ==
    \/ /\ part = "worker" /\ Next
       /\ UNCHANGED <<part, intakeVars, proxyVars, launchVars, streamVars, subscriptionVars, paneVars>>
    \/ /\ part = "intake" /\ IntakeNext
       /\ UNCHANGED <<part, workerVars, proxyVars, launchVars, streamVars, subscriptionVars, paneVars>>
    \/ /\ part = "proxy" /\ ProxyNext
       /\ UNCHANGED <<part, sessionVars, launchVars, streamVars, subscriptionVars, paneVars>>
    \/ /\ part = "launch" /\ LaunchNext
       /\ UNCHANGED <<part, sessionVars, proxyVars, streamVars, subscriptionVars, paneVars>>
    \/ /\ part = "pane" /\ PaneNext
       /\ UNCHANGED <<part, sessionVars, proxyVars, launchVars, streamVars, subscriptionVars>>
    \/ /\ part = "channel" /\ StreamNext
       /\ UNCHANGED <<part, sessionVars, proxyVars, launchVars, subscriptionVars, paneVars>>
    \/ /\ part = "subscription" /\ Subscription!Next
       /\ UNCHANGED <<part, sessionVars, proxyVars, launchVars, streamVars, paneVars>>

\* The fairness each part states; only the subscription could move while at rest.
PartsSpec ==
    /\ PartsInit
    /\ [][PartsNext]_<<part, sessionVars, proxyVars, launchVars, streamVars, subscriptionVars, paneVars>>
    /\ Fairness
    /\ LaunchFairness
    /\ \A s \in Subscribers : WF_streamVars(Poll(s))
    /\ WF_subscriptionVars(Subscription!RouteRuns)
    /\ WF_subscriptionVars(part = "subscription" /\ Subscription!PumpRuns)

\* The property of the subscription, as its module states it.
EveryFrameArrives == Subscription!EveryFrameArrives
==============================================================================
