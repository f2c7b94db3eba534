---------------------------- MODULE WorkerStream ----------------------------
(***************************************************************************)
(* The downstream half of a Claude-native session: prompts and control     *)
(* verbs wait in a log that only grows, and one worker reads it over a     *)
(* server-sent event stream it may reconnect at any time.  A write to a    *)
(* socket that is already dead is lost without a trace, so every mutating  *)
(* event is attempted at most once, and a session whose last attempt is    *)
(* still unacknowledged ends rather than move to another stream.           *)
(* Code: packages/cli/src/host/rc/session.ts and #streamWorker of mitm.ts. *)
(*                                                                         *)
(* An event is its sequenceNum; event 1 is `initialize`, pushed when the   *)
(* session is created and the only one that may be written again.          *)
(***************************************************************************)
EXTENDS Integers, Sequences, FiniteSetsExt

CONSTANTS
    MaxEvents,   \* bound: events pushed downstream, `initialize` included
    MaxStreams   \* bound: streams the worker opens in the life of a session

ASSUME BoundsAssumption == MaxEvents \in Nat \ {0} /\ MaxStreams \in Nat \ {0}

Initialize == 1
Events  == 1..MaxEvents
Gens    == 1..MaxStreams

VARIABLES
    closed,      \* Session.closed
    dsSeq,       \* length of #downstream
    attempted,   \* #downstreamWriteAttempted, and Initialize once #initializeWriteAttempted
    acked,       \* #acked
    workerGen,   \* #workerGen: the stream that owns the session, 0 before the first
    follower,    \* per stream: the generator followDownstream and its consumer
    socket,      \* per stream: "none", "open", "broken" (peer gone, unnoticed), "gone" (close event ran)
    wire,        \* per stream: frames written and not yet read by the worker
    received     \* external: the frames the worker has read, over all streams

vars == <<closed, dsSeq, attempted, acked, workerGen, follower, socket, wire, received>>
downstream == <<closed, dsSeq, attempted, acked, workerGen>>

\* pc: "none"; "wait" parked on the gate; "each" inside the snapshot; "held"
\* between the yield and the write; "ended" after the generator returned.
NoFollower == [pc |-> "none", queue |-> {}, sent |-> {}, held |-> 0]

Init ==
    /\ closed = FALSE
    /\ dsSeq = 1                    \* pushInitialize runs before onSession announces the session
    /\ attempted = {} /\ acked = {}
    /\ workerGen = 0
    /\ follower = [g \in Gens |-> NoFollower]
    /\ socket = [g \in Gens |-> "none"]
    /\ wire = [g \in Gens |-> <<>>]
    /\ received = <<>>

-----------------------------------------------------------------------------
(* Predicates of the session                                               *)

\* An event no stream may write any more.
FencedEvent(e) == e \in acked \/ (e # Initialize /\ e \in attempted)

\* #hasUnackedNativeMutationAttempt: the worker may or may not have seen a mutation.
AmbiguousNewest == dsSeq \in attempted \ {Initialize} /\ dsSeq \notin acked
Ambiguous == \E e \in attempted \ {Initialize} : e \notin acked

\* The stop predicate of a follower; `gone` is the flag the close event sets.
Stopped(g) == closed \/ socket[g] = "gone" \/ g # workerGen

Pending(g) == {e \in 1..dsSeq : e \notin follower[g].sent /\ ~FencedEvent(e)}

\* claimDownstreamWriteAttempt, the synchronous fence before the write.
MayAttempt(g, e) == ~closed /\ g = workerGen /\ ~FencedEvent(e)

-----------------------------------------------------------------------------
(* The session's producers and its end                                     *)

\* pushUserInput, pushControlRequest, pushControlResponse (each throws when closed).
PushDownstream ==
    /\ ~closed /\ dsSeq < MaxEvents
    /\ dsSeq' = dsSeq + 1
    /\ UNCHANGED <<closed, attempted, acked, workerGen, follower, socket, wire, received>>

\* close() from any other cause: teardown, an invalid worker request, an upstream rejection.
Close ==
    /\ ~closed
    /\ closed' = TRUE
    /\ UNCHANGED <<dsSeq, attempted, acked, workerGen, follower, socket, wire, received>>

-----------------------------------------------------------------------------
(* The worker's stream                                                     *)

\* GET /worker/events/stream: claimNativeWorkerStream, 410 when it refuses.
OpenStream ==
    IF closed \/ Ambiguous
    THEN /\ closed' = TRUE
         /\ UNCHANGED <<dsSeq, attempted, acked, workerGen, follower, socket, wire, received>>
    ELSE /\ workerGen < MaxStreams
         /\ workerGen' = workerGen + 1
         /\ follower' = [follower EXCEPT ![workerGen'].pc = "wait"]
         /\ socket' = [socket EXCEPT ![workerGen'] = "open"]
         /\ UNCHANGED <<closed, dsSeq, attempted, acked, wire, received>>

\* followDownstream wakes and takes a snapshot of what is pending.
Collect(g) ==
    /\ follower[g].pc = "wait" /\ ~Stopped(g) /\ Pending(g) # {}
    /\ follower' = [follower EXCEPT ![g].pc = "each", ![g].queue = Pending(g)]
    /\ UNCHANGED <<downstream, socket, wire, received>>

\* The next event of the snapshot is checked again, then yielded or skipped.
YieldNext(g) ==
    /\ follower[g].pc = "each" /\ follower[g].queue # {} /\ ~Stopped(g)
    /\ LET e == Min(follower[g].queue) IN
       follower' = [follower EXCEPT
           ![g].queue = @ \ {e},
           ![g].sent = IF FencedEvent(e) THEN @ ELSE @ \union {e},
           ![g].held = IF FencedEvent(e) THEN 0 ELSE e,
           ![g].pc = IF FencedEvent(e) THEN "each" ELSE "held"]
    /\ UNCHANGED <<downstream, socket, wire, received>>

SnapshotDone(g) ==
    /\ follower[g].pc = "each" /\ follower[g].queue = {} /\ ~Stopped(g)
    /\ follower' = [follower EXCEPT ![g].pc = "wait"]
    /\ UNCHANGED <<downstream, socket, wire, received>>

\* #streamWorker: the fence and the write, with no await between them.
WriteHeld(g) ==
    /\ follower[g].pc = "held"
    /\ LET e == follower[g].held
           writes == socket[g] # "gone" /\ MayAttempt(g, e) IN
       /\ attempted' = IF writes THEN attempted \union {e} ELSE attempted
       /\ wire' = IF writes /\ socket[g] = "open" THEN [wire EXCEPT ![g] = Append(@, e)] ELSE wire
    /\ follower' = [follower EXCEPT ![g].pc = "each", ![g].held = 0]
    /\ UNCHANGED <<closed, dsSeq, acked, workerGen, socket, received>>

\* endNativeWorkerStream(gen)
EndClosesSessionStale(g) == g # workerGen /\ Ambiguous
EndClosesSession(g) == g = workerGen /\ Ambiguous
EndStream(g) == closed' = (closed \/ EndClosesSession(g))

\* The generator returns and the finally block retires the stream.
FollowerReturns(g) ==
    /\ follower[g].pc \in {"wait", "each"} /\ Stopped(g)
    /\ follower' = [follower EXCEPT ![g] = [NoFollower EXCEPT !.pc = "ended"]]
    /\ EndStream(g)
    /\ UNCHANGED <<dsSeq, attempted, acked, workerGen, socket, wire, received>>

\* External: the connection dies; what is in flight is lost.
SocketBreaks(g) ==
    /\ socket[g] = "open"
    /\ socket' = [socket EXCEPT ![g] = "broken"]
    /\ wire' = [wire EXCEPT ![g] = <<>>]
    /\ UNCHANGED <<downstream, follower, received>>

\* The response's close event.
SocketClosed(g) ==
    /\ socket[g] = "broken"
    /\ socket' = [socket EXCEPT ![g] = "gone"]
    /\ EndStream(g)
    /\ UNCHANGED <<dsSeq, attempted, acked, workerGen, follower, wire, received>>

\* External: the worker reads the next frame of a stream.
WorkerReads(g) ==
    /\ wire[g] # <<>>
    /\ received' = Append(received, Head(wire[g]))
    /\ wire' = [wire EXCEPT ![g] = Tail(@)]
    /\ UNCHANGED <<downstream, follower, socket>>

\* POST /worker/events/delivery: acknowledgeNativeDeliveryBatch is all or nothing
\* and an unattempted id is terminal.  The worker acknowledges, in any order and
\* any number of times, only what it has read, or an id it made up.
Read == {received[i] : i \in DOMAIN received}
Accepts(batch) == batch \subseteq attempted
Acknowledge(batch) ==
    /\ batch \subseteq Read \/ ~(batch \subseteq attempted)
    /\ IF Accepts(batch)
       THEN acked' = acked \union batch /\ closed' = closed
       ELSE acked' = acked /\ closed' = TRUE
    /\ UNCHANGED <<dsSeq, attempted, workerGen, follower, socket, wire, received>>

Follow(g) == Collect(g) \/ YieldNext(g) \/ SnapshotDone(g) \/ WriteHeld(g) \/ FollowerReturns(g)

Next ==
    \/ PushDownstream \/ Close \/ OpenStream
    \/ \E g \in Gens : Follow(g) \/ SocketBreaks(g) \/ SocketClosed(g) \/ WorkerReads(g)
    \/ \E batch \in SUBSET Events \ {{}} : Acknowledge(batch)

Spec == Init /\ [][Next]_vars

\* The event loop resumes a runnable generator and delivers a close event.
Fairness == \A g \in Gens : WF_vars(Follow(g)) /\ WF_vars(SocketClosed(g))

-----------------------------------------------------------------------------
(* Properties                                                              *)

FollowerState == [pc : {"none", "wait", "each", "held", "ended"},
                  queue : SUBSET Events, sent : SUBSET Events, held : 0..MaxEvents]

\* Every variable stays in its domain, and nothing is acknowledged before an attempt.
TypeOK ==
    /\ closed \in BOOLEAN
    /\ dsSeq \in Events
    /\ attempted \subseteq 1..dsSeq /\ acked \subseteq attempted
    /\ workerGen \in 0..MaxStreams
    /\ follower \in [Gens -> FollowerState]
    /\ socket \in [Gens -> {"none", "open", "broken", "gone"}]
    /\ wire \in [Gens -> Seq(Events)]
    /\ received \in Seq(Events)

\* Whatever streams break, overlap or take over, the worker applies the session's prompts
\* and verbs once each, in order, with none missing before one it has applied.
MutationsGapless ==
    \A i \in DOMAIN received : received[i] # Initialize =>
        /\ \A j \in 1..(i - 1) : received[j] < received[i]
        /\ \A e \in 2..(received[i] - 1) : \E j \in 1..(i - 1) : received[j] = e

OwnerIs(state) == workerGen \in Gens /\ socket[workerGen] = state

\* A mutation lost with its stream ends in an acknowledgement or a closed session.
AmbiguityEnds == Ambiguous /\ OwnerIs("broken") ~> closed \/ ~Ambiguous

\* The parts of the inductive invariant of MutationsGapless.  A stream that has not been
\* opened has nothing; a follower holds an event only between its yield and its write.
Unopened == \A g \in Gens : g > workerGen =>
    follower[g] = NoFollower /\ socket[g] = "none" /\ wire[g] = <<>>
Snapshots == \A g \in Gens :
    /\ follower[g].queue \subseteq 1..dsSeq /\ follower[g].held \in 0..dsSeq
    /\ follower[g].pc = "held" <=> follower[g].held # 0

\* Before an event the owner's follower is still to write, every mutation was attempted or
\* comes first in the same snapshot; what it sent, it attempted.
InTurn == \A g \in Gens : ~Stopped(g) =>
    LET f == follower[g] IN
    /\ f.sent \ {f.held} \subseteq attempted
    /\ \A e \in f.queue : f.held < e
    /\ \A e \in f.queue \union {f.held} : \A d \in 2..(e - 1) :
          d \in attempted \union f.queue \union {f.held}
AttemptedInOrder == \A e \in attempted : \A d \in 2..(e - 1) : d \in attempted

\* Only what was read is acknowledged, only what was attempted is read; while the owner's
\* socket lives, it carries every attempted mutation the worker has not read.
AckedWasRead == acked \subseteq Read /\ Read \subseteq attempted
Carries(g, e) == \E i \in DOMAIN wire[g] : wire[g][i] = e
OwnerCarries == OwnerIs("open") =>
    \A e \in attempted \ {Initialize} : e \in Read \/ Carries(workerGen, e)

\* A mutation travels on the owner's live socket only, behind every earlier one.
WireInOrder == \A g \in Gens : \A j \in DOMAIN wire[g] : LET e == wire[g][j] IN
    /\ e \in attempted
    /\ e # Initialize =>
        /\ g = workerGen /\ socket[g] = "open"
        /\ \A i \in 1..(j - 1) : wire[g][i] < e
        /\ \A i \in DOMAIN received : received[i] < e
        /\ \A d \in 2..(e - 1) : d \in Read \/ \E i \in 1..(j - 1) : wire[g][i] = d

DownInv ==
    /\ TypeOK /\ Unopened /\ Snapshots /\ InTurn /\ AttemptedInOrder
    /\ AckedWasRead /\ OwnerCarries /\ WireInOrder /\ MutationsGapless
=============================================================================
