---------------------------- MODULE StreamProofs ----------------------------
(***************************************************************************)
(* What is read off connections that break, for every bound.               *)
(*                                                                         *)
(* The worker's stream: each mutating event of the session is read once at *)
(* most, in order, and none before one that was pushed earlier.  Mutations *)
(* are attempted in order (InTurn, AttemptedInOrder); while the owner's    *)
(* socket lives nothing attempted is lost (OwnerCarries); and a stream is  *)
(* opened only when every attempted mutation is acknowledged, hence was    *)
(* read (AckedWasRead), so a mutation never travels on a stream that was   *)
(* taken over (WireInOrder).                                               *)
(*                                                                         *)
(* The batches it posts: the log holds its events once, in emission order, *)
(* and the relay was handed a beginning of it.                             *)
(*                                                                         *)
(* The poll-tail stream of a channel: what a subscriber was given is the   *)
(* rows of the generation it joined, gapless, up to its cursor.            *)
(***************************************************************************)
EXTENDS WorkerStream, NativeIntake, ChannelStream,
        NaturalsInduction, WellFoundedInduction, FiniteSetTheorems, TLAPS

-----------------------------------------------------------------------------
(* The worker's stream                                                     *)

-----------------------------------------------------------------------------
(* The operators                                                           *)

LEMMA LeastNatural == ASSUME NEW S \in SUBSET Nat, S # {} PROVE \E n \in S : \A m \in S : n <= m
<1>1. PICK x \in S : \A y \in S : ~(<<y, x>> \in OpToRel(<, Nat))
  BY NatLessThanWellFounded, WFMin
<1>2. \A y \in S : <<y, x>> \in OpToRel(<, Nat) <=> y < x
  BY DEF OpToRel
<1>3. \A y \in S : ~(y < x)
  BY <1>1, <1>2, Zenon
<1> QED
  BY <1>3

LEMMA MinIs ==
  ASSUME NEW S \in SUBSET Events, S # {}
  PROVE  Min(S) \in S /\ \A y \in S : Min(S) <= y
<1>1. \E x \in S : \A y \in S : x <= y
  BY LeastNatural, BoundsAssumption DEF Events
<1> QED
  BY <1>1 DEF Min

\* What a step of a follower leaves: its own state, and the others'.
LEMMA CollectIs ==
  ASSUME TypeOK, NEW g \in Gens, Collect(g)
  PROVE  /\ follower' \in [Gens -> FollowerState]
         /\ follower'[g].pc = "each" /\ follower'[g].queue = Pending(g)
         /\ follower'[g].sent = follower[g].sent /\ follower'[g].held = follower[g].held
         /\ \A h \in Gens \ {g} : follower'[h] = follower[h]
<1> DEFINE next == [follower[g] EXCEPT !.pc = "each", !.queue = Pending(g)]
<1>1. follower[g] \in FollowerState
  BY DEF TypeOK
<1>2. Pending(g) \in SUBSET Events
  BY BoundsAssumption DEF TypeOK, Pending, Events
<1>3. next \in FollowerState /\ next.pc = "each" /\ next.queue = Pending(g)
      /\ next.sent = follower[g].sent /\ next.held = follower[g].held
  BY <1>1, <1>2 DEF FollowerState
<1>4. follower' = [follower EXCEPT ![g] = next]
  BY DEF Collect, TypeOK
<1> QED
  BY <1>3, <1>4 DEF TypeOK

LEMMA YieldIs ==
  ASSUME TypeOK, NEW g \in Gens, YieldNext(g)
  PROVE  /\ follower' \in [Gens -> FollowerState]
         /\ \E e \in follower[g].queue :
              /\ \A d \in follower[g].queue : e <= d
              /\ follower'[g].queue = follower[g].queue \ {e}
              /\ \/ /\ FencedEvent(e) /\ follower'[g].sent = follower[g].sent
                    /\ follower'[g].held = 0 /\ follower'[g].pc = "each"
                 \/ /\ ~FencedEvent(e) /\ follower'[g].sent = follower[g].sent \union {e}
                    /\ follower'[g].held = e /\ follower'[g].pc = "held"
         /\ \A h \in Gens \ {g} : follower'[h] = follower[h]
<1> DEFINE e == Min(follower[g].queue)
           skipped == [follower[g] EXCEPT !.queue = follower[g].queue \ {e}, !.held = 0, !.pc = "each"]
           yielded == [follower[g] EXCEPT !.queue = follower[g].queue \ {e},
                         !.sent = follower[g].sent \union {e}, !.held = e, !.pc = "held"]
<1>1. follower[g] \in FollowerState
  BY DEF TypeOK
<1>2. follower[g].queue \in SUBSET Events /\ follower[g].queue # {}
  BY <1>1 DEF YieldNext, FollowerState
<1>3. e \in follower[g].queue /\ \A d \in follower[g].queue : e <= d
  BY <1>2, MinIs
<1>4. e \in Events
  BY <1>2, <1>3
<1>5. \/ FencedEvent(e) /\ follower' = [follower EXCEPT ![g] = skipped]
      \/ ~FencedEvent(e) /\ follower' = [follower EXCEPT ![g] = yielded]
  <2>1. CASE FencedEvent(e)
    BY <1>1, <2>1 DEF YieldNext, TypeOK, FollowerState
  <2>2. CASE ~FencedEvent(e)
    BY <1>1, <2>2 DEF YieldNext, TypeOK, FollowerState
  <2> QED
    BY <2>1, <2>2
<1> HIDE DEF e
<1>6. skipped \in FollowerState /\ yielded \in FollowerState
  <2>1. e \in 0..MaxEvents /\ 0 \in 0..MaxEvents
    BY <1>4, BoundsAssumption DEF Events
  <2> QED
    BY <1>1, <1>2, <1>4, <2>1 DEF FollowerState
<1>7. /\ skipped.queue = follower[g].queue \ {e} /\ skipped.sent = follower[g].sent
      /\ skipped.held = 0 /\ skipped.pc = "each"
      /\ yielded.queue = follower[g].queue \ {e} /\ yielded.sent = follower[g].sent \union {e}
      /\ yielded.held = e /\ yielded.pc = "held"
  BY <1>1 DEF FollowerState
<1> HIDE DEF skipped, yielded
<1>8. follower \in [Gens -> FollowerState]
  BY DEF TypeOK
<1>9. CASE FencedEvent(e) /\ follower' = [follower EXCEPT ![g] = skipped]
  BY <1>3, <1>6, <1>7, <1>8, <1>9
<1>10. CASE ~FencedEvent(e) /\ follower' = [follower EXCEPT ![g] = yielded]
  BY <1>3, <1>6, <1>7, <1>8, <1>10
<1> QED
  BY <1>5, <1>9, <1>10

LEMMA SnapshotDoneIs ==
  ASSUME TypeOK, NEW g \in Gens, SnapshotDone(g)
  PROVE  /\ follower' \in [Gens -> FollowerState]
         /\ follower'[g].pc = "wait" /\ follower'[g].queue = {}
         /\ follower'[g].sent = follower[g].sent /\ follower'[g].held = follower[g].held
         /\ \A h \in Gens \ {g} : follower'[h] = follower[h]
<1> DEFINE next == [follower[g] EXCEPT !.pc = "wait"]
<1>1. follower[g] \in FollowerState
  BY DEF TypeOK
<1>2. next \in FollowerState /\ next.pc = "wait" /\ next.queue = follower[g].queue
      /\ next.sent = follower[g].sent /\ next.held = follower[g].held
  BY <1>1 DEF FollowerState
<1>3. follower' = [follower EXCEPT ![g] = next] /\ follower[g].queue = {}
  BY DEF SnapshotDone, TypeOK
<1> QED
  BY <1>2, <1>3 DEF TypeOK

LEMMA WrittenIs ==
  ASSUME TypeOK, NEW g \in Gens, WriteHeld(g)
  PROVE  /\ follower' \in [Gens -> FollowerState]
         /\ follower'[g].pc = "each" /\ follower'[g].held = 0
         /\ follower'[g].queue = follower[g].queue /\ follower'[g].sent = follower[g].sent
         /\ \A h \in Gens \ {g} : follower'[h] = follower[h]
<1> DEFINE next == [follower[g] EXCEPT !.pc = "each", !.held = 0]
<1>1. follower[g] \in FollowerState
  BY DEF TypeOK
<1>2. next \in FollowerState /\ next.pc = "each" /\ next.held = 0
      /\ next.queue = follower[g].queue /\ next.sent = follower[g].sent
  <2>1. 0 \in 0..MaxEvents
    BY BoundsAssumption
  <2> QED
    BY <1>1, <2>1 DEF FollowerState
<1>3. follower' = [follower EXCEPT ![g] = next]
  BY DEF WriteHeld, TypeOK
<1> QED
  BY <1>2, <1>3 DEF TypeOK

LEMMA ReturnedIs ==
  ASSUME TypeOK, NEW g \in Gens, FollowerReturns(g)
  PROVE  /\ follower' \in [Gens -> FollowerState]
         /\ follower'[g].pc = "ended" /\ follower'[g].held = 0
         /\ follower'[g].queue = {} /\ follower'[g].sent = {}
         /\ \A h \in Gens \ {g} : follower'[h] = follower[h]
<1> DEFINE next == [NoFollower EXCEPT !.pc = "ended"]
<1>1. next \in FollowerState /\ next.pc = "ended" /\ next.held = 0 /\ next.queue = {} /\ next.sent = {}
  BY BoundsAssumption DEF FollowerState, NoFollower
<1>2. follower' = [follower EXCEPT ![g] = next]
  BY DEF FollowerReturns
<1> QED
  BY <1>1, <1>2 DEF TypeOK

LEMMA OpenedIs ==
  ASSUME TypeOK, Unopened, OpenStream, ~(closed \/ Ambiguous)
  PROVE  /\ workerGen' = workerGen + 1 /\ workerGen' \in Gens /\ workerGen \in Nat
         /\ follower' \in [Gens -> FollowerState]
         /\ follower'[workerGen'].pc = "wait" /\ follower'[workerGen'].held = 0
         /\ follower'[workerGen'].queue = {} /\ follower'[workerGen'].sent = {}
         /\ \A h \in Gens \ {workerGen'} : follower'[h] = follower[h]
         /\ socket' = [socket EXCEPT ![workerGen'] = "open"]
         /\ UNCHANGED <<closed, dsSeq, attempted, acked, wire, received>>
<1> DEFINE next == [NoFollower EXCEPT !.pc = "wait"]
<1>1. workerGen < MaxStreams /\ workerGen' = workerGen + 1
      /\ follower' = [follower EXCEPT ![workerGen'].pc = "wait"]
      /\ socket' = [socket EXCEPT ![workerGen'] = "open"]
      /\ UNCHANGED <<closed, dsSeq, attempted, acked, wire, received>>
  BY Zenon DEF OpenStream
<1>2. workerGen' \in Gens /\ workerGen' > workerGen /\ workerGen \in Nat
  BY <1>1, BoundsAssumption DEF TypeOK, Gens
<1>3. follower[workerGen'] = NoFollower
  BY <1>2 DEF Unopened
<1>4. next \in FollowerState /\ next.pc = "wait" /\ next.held = 0 /\ next.queue = {} /\ next.sent = {}
  BY BoundsAssumption DEF FollowerState, NoFollower
<1>5. follower' = [follower EXCEPT ![workerGen'] = next]
  BY <1>1, <1>3 DEF TypeOK
<1> HIDE DEF next
<1>6. follower \in [Gens -> FollowerState]
  BY DEF TypeOK
<1>7. /\ follower' \in [Gens -> FollowerState]
      /\ follower'[workerGen'] = next
      /\ \A h \in Gens \ {workerGen'} : follower'[h] = follower[h]
  BY <1>2, <1>4, <1>5, <1>6
<1> QED
  BY <1>1, <1>2, <1>4, <1>7

\* A write, if the event is not fenced and the stream still the session's.
LEMMA WriteIs ==
  ASSUME TypeOK, Snapshots, NEW g \in Gens, WriteHeld(g)
  PROVE  /\ follower[g].held \in 1..dsSeq /\ follower[g].held \in Events
         /\ UNCHANGED <<closed, dsSeq, acked, workerGen, socket, received>>
         /\ \/ /\ Stopped(g) \/ FencedEvent(follower[g].held)
               /\ attempted' = attempted /\ wire' = wire
            \/ /\ ~Stopped(g) /\ ~FencedEvent(follower[g].held)
               /\ attempted' = attempted \union {follower[g].held}
               /\ \/ socket[g] # "open" /\ wire' = wire
                  \/ /\ socket[g] = "open"
                     /\ wire' = [wire EXCEPT ![g] = Append(wire[g], follower[g].held)]
<1>1. follower[g].held \in 1..dsSeq /\ follower[g].held \in Events
  BY BoundsAssumption DEF TypeOK, Snapshots, WriteHeld, Events
<1> DEFINE e == follower[g].held
           writes == socket[g] # "gone" /\ MayAttempt(g, e)
<1>2. /\ attempted' = IF writes THEN attempted \union {e} ELSE attempted
      /\ wire' = IF writes /\ socket[g] = "open" THEN [wire EXCEPT ![g] = Append(wire[g], e)] ELSE wire
      /\ UNCHANGED <<closed, dsSeq, acked, workerGen, socket, received>>
  BY DEF WriteHeld, TypeOK
<1>3. writes <=> ~Stopped(g) /\ ~FencedEvent(e)
  BY DEF MayAttempt, Stopped
<1> HIDE DEF e, writes
<1>4. CASE writes
  BY <1>1, <1>2, <1>3, <1>4 DEF e
<1>5. CASE ~writes
  BY <1>1, <1>2, <1>3, <1>5 DEF e
<1> QED
  BY <1>4, <1>5

\* An appended frame is the last.
LEMMA AppendIs ==
  ASSUME TypeOK, NEW g \in Gens, NEW e \in Events, wire' = [wire EXCEPT ![g] = Append(wire[g], e)]
  PROVE  /\ wire' \in [Gens -> Seq(Events)]
         /\ DOMAIN wire[g] = 1..Len(wire[g]) /\ Len(wire[g]) \in Nat
         /\ DOMAIN wire'[g] = 1..(Len(wire[g]) + 1)
         /\ wire'[g][Len(wire[g]) + 1] = e
         /\ \A i \in 1..Len(wire[g]) : wire'[g][i] = wire[g][i]
         /\ \A h \in Gens \ {g} : wire'[h] = wire[h]
<1>1. wire[g] \in Seq(Events)
  BY DEF TypeOK
<1>2. Append(wire[g], e) \in Seq(Events) /\ wire'[g] = Append(wire[g], e)
  BY <1>1 DEF TypeOK
<1>3. wire' \in [Gens -> Seq(Events)] /\ \A h \in Gens \ {g} : wire'[h] = wire[h]
  BY <1>2 DEF TypeOK
<1> QED
  BY <1>1, <1>2, <1>3

\* The worker's read: the first frame of the stream joins what it has received.
LEMMA ReadIs ==
  ASSUME TypeOK, NEW g \in Gens, WorkerReads(g)
  PROVE  /\ received' \in Seq(Events) /\ wire' \in [Gens -> Seq(Events)]
         /\ Len(received) \in Nat /\ DOMAIN received = 1..Len(received)
         /\ 1 \in DOMAIN wire[g] /\ wire[g][1] \in Events
         /\ DOMAIN received' = 1..(Len(received) + 1)
         /\ received'[Len(received) + 1] = wire[g][1]
         /\ \A i \in 1..Len(received) : received'[i] = received[i]
         /\ \A i \in DOMAIN wire'[g] : i \in Nat \ {0} /\ i + 1 \in DOMAIN wire[g] /\ wire'[g][i] = wire[g][i + 1]
         /\ \A i \in DOMAIN wire[g] : i # 1 => i - 1 \in DOMAIN wire'[g]
         /\ \A h \in Gens \ {g} : wire'[h] = wire[h]
         /\ UNCHANGED <<closed, dsSeq, attempted, acked, workerGen, follower, socket>>
<1>1. wire[g] \in Seq(Events) /\ received \in Seq(Events) /\ wire[g] # <<>>
  BY DEF TypeOK, WorkerReads
<1>2. /\ received' = Append(received, Head(wire[g]))
      /\ wire' = [wire EXCEPT ![g] = Tail(wire[g])]
      /\ UNCHANGED <<closed, dsSeq, attempted, acked, workerGen, follower, socket>>
  BY DEF WorkerReads, downstream, TypeOK
<1>3. /\ Head(wire[g]) = wire[g][1] /\ wire[g][1] \in Events /\ 1 \in DOMAIN wire[g]
      /\ Tail(wire[g]) \in Seq(Events) /\ Len(Tail(wire[g])) = Len(wire[g]) - 1
      /\ \A i \in 1..(Len(wire[g]) - 1) : Tail(wire[g])[i] = wire[g][i + 1]
  BY <1>1
<1>4. wire' \in [Gens -> Seq(Events)] /\ wire'[g] = Tail(wire[g])
      /\ \A h \in Gens \ {g} : wire'[h] = wire[h]
  BY <1>2, <1>3 DEF TypeOK
<1>5. /\ received' \in Seq(Events) /\ Len(received) \in Nat /\ DOMAIN received = 1..Len(received)
      /\ DOMAIN received' = 1..(Len(received) + 1)
      /\ received'[Len(received) + 1] = wire[g][1]
      /\ \A i \in 1..Len(received) : received'[i] = received[i]
  BY <1>1, <1>2, <1>3
<1>6. /\ \A i \in DOMAIN wire'[g] : i \in Nat \ {0} /\ i + 1 \in DOMAIN wire[g] /\ wire'[g][i] = wire[g][i + 1]
      /\ \A i \in DOMAIN wire[g] : i # 1 => i - 1 \in DOMAIN wire'[g]
  BY <1>1, <1>3, <1>4
<1> QED
  BY <1>2, <1>3, <1>4, <1>5, <1>6

\* A broken stream loses its frames.
LEMMA BrokenIs ==
  ASSUME TypeOK, NEW g \in Gens, SocketBreaks(g)
  PROVE  /\ wire' \in [Gens -> Seq(Events)] /\ DOMAIN wire'[g] = {} /\ wire'[g] = <<>>
         /\ \A h \in Gens \ {g} : wire'[h] = wire[h] /\ socket'[h] = socket[h]
         /\ socket[g] = "open" /\ socket'[g] = "broken"
         /\ socket' \in [Gens -> {"none", "open", "broken", "gone"}]
         /\ UNCHANGED <<closed, dsSeq, attempted, acked, workerGen, follower, received>>
<1>1. wire' = [wire EXCEPT ![g] = <<>>] /\ <<>> \in Seq(Events) /\ DOMAIN <<>> = {}
  BY DEF SocketBreaks
<1> QED
  BY <1>1 DEF SocketBreaks, TypeOK, downstream

-----------------------------------------------------------------------------
(* The type invariant                                                      *)

LEMMA TypeStep ==
  TypeOK /\ Unopened /\ Snapshots /\ [Next]_vars => TypeOK' /\ Unopened' /\ Snapshots'
<1> SUFFICES ASSUME TypeOK, Unopened, Snapshots, [Next]_vars
             PROVE  TypeOK' /\ Unopened' /\ Snapshots'
  OBVIOUS
<1>0. workerGen \in Nat /\ (workerGen > 0 => workerGen \in Gens)
  BY BoundsAssumption DEF TypeOK, Gens
<1>1. CASE PushDownstream
  BY <1>1, BoundsAssumption DEF PushDownstream, TypeOK, Unopened, Snapshots, Events
<1>2. CASE Close
  BY <1>2 DEF Close, TypeOK, Unopened, Snapshots
<1>3. CASE OpenStream
  <2>1. CASE closed \/ Ambiguous
    BY <1>3, <2>1 DEF OpenStream, TypeOK, Unopened, Snapshots
  <2>2. CASE ~(closed \/ Ambiguous)
    <3>1. TypeOK'
      <4>1. workerGen' \in 0..MaxStreams
        BY <1>3, <2>2, OpenedIs, BoundsAssumption DEF Gens
      <4>2. socket' \in [Gens -> {"none", "open", "broken", "gone"}]
        BY <1>3, <2>2, OpenedIs DEF TypeOK
      <4> QED
        BY <1>3, <2>2, <4>1, <4>2, OpenedIs DEF TypeOK
    <3>2. Unopened'
      <4>1. \A h \in Gens : h > workerGen + 1 => h > workerGen /\ h # workerGen + 1
        BY <1>0 DEF Gens
      <4> QED
        BY <1>3, <2>2, <4>1, OpenedIs DEF TypeOK, Unopened
    <3>3. Snapshots'
      <4>1. 0 \in 0..dsSeq
        BY BoundsAssumption DEF TypeOK, Events
      <4> QED
        BY <1>3, <2>2, <4>1, OpenedIs DEF Snapshots
    <3> QED
      BY <3>1, <3>2, <3>3
  <2> QED
    BY <2>1, <2>2
<1>4. ASSUME NEW g \in Gens, Collect(g) PROVE TypeOK' /\ Unopened' /\ Snapshots'
  <2>1. UNCHANGED <<closed, dsSeq, attempted, acked, workerGen, socket, wire, received>>
        /\ g = workerGen /\ follower[g].pc = "wait" /\ Pending(g) \subseteq 1..dsSeq
    BY <1>4 DEF Collect, Stopped, downstream, Pending
  <2>10. TypeOK'
    BY <1>0, <1>4, <2>1, CollectIs DEF TypeOK
  <2>11. Unopened'
    BY <1>0, <1>4, <2>1, CollectIs DEF Unopened
  <2>12. Snapshots'
    <3>1. follower[g].held = 0 /\ follower[g].held \in 0..dsSeq
      BY <2>1 DEF Snapshots
    <3>2. /\ follower'[g].pc = "each" /\ follower'[g].held = 0 /\ follower'[g].queue = Pending(g)
          /\ \A h \in Gens \ {g} : follower'[h] = follower[h]
      BY <1>4, <3>1, CollectIs
    <3> QED
      BY <2>1, <3>1, <3>2 DEF Snapshots
  <2> QED
    BY <2>10, <2>11, <2>12
<1>5. ASSUME NEW g \in Gens, YieldNext(g) PROVE TypeOK' /\ Unopened' /\ Snapshots'
  <2>1. UNCHANGED <<closed, dsSeq, attempted, acked, workerGen, socket, wire, received>>
        /\ g = workerGen /\ follower[g].pc = "each"
    BY <1>5 DEF YieldNext, Stopped, downstream
  <2>2. TypeOK'
    BY <1>5, <2>1, YieldIs DEF TypeOK
  <2>3. Unopened'
    BY <1>0, <1>5, <2>1, YieldIs DEF Unopened
  <2>4. PICK e \in follower[g].queue :
          /\ follower'[g].queue = follower[g].queue \ {e}
          /\ \/ follower'[g].held = 0 /\ follower'[g].pc = "each"
             \/ follower'[g].held = e /\ follower'[g].pc = "held"
    BY <1>5, YieldIs
  <2>5. e \in 1..dsSeq /\ 0 \in 0..dsSeq
    BY <2>4, BoundsAssumption DEF Snapshots, TypeOK, Events
  <2>6. Snapshots'
    BY <1>5, <2>1, <2>4, <2>5, YieldIs DEF Snapshots
  <2> QED
    BY <2>2, <2>3, <2>6
<1>6. ASSUME NEW g \in Gens, SnapshotDone(g) PROVE TypeOK' /\ Unopened' /\ Snapshots'
  <2>1. UNCHANGED <<closed, dsSeq, attempted, acked, workerGen, socket, wire, received>>
        /\ g = workerGen /\ follower[g].pc = "each"
    BY <1>6 DEF SnapshotDone, Stopped, downstream
  <2>10. TypeOK'
    BY <1>0, <1>6, <2>1, SnapshotDoneIs DEF TypeOK
  <2>11. Unopened'
    BY <1>0, <1>6, <2>1, SnapshotDoneIs DEF Unopened
  <2>12. Snapshots'
    BY <1>0, <1>6, <2>1, SnapshotDoneIs DEF Snapshots
  <2> QED
    BY <2>10, <2>11, <2>12
<1>7. ASSUME NEW g \in Gens, WriteHeld(g) PROVE TypeOK' /\ Unopened' /\ Snapshots'
  <2>1. follower[g].held # 0 /\ ~(g > workerGen)
    BY <1>7 DEF WriteHeld, Snapshots, Unopened, NoFollower
  <2>2. TypeOK' /\ Snapshots'
    <3>1. 0 \in 0..dsSeq
      BY BoundsAssumption DEF TypeOK, Events
    <3>2. wire' \in [Gens -> Seq(Events)]
      BY <1>7, WriteIs, AppendIs DEF TypeOK
    <3>3. attempted' \subseteq 1..dsSeq /\ acked \subseteq attempted'
      BY <1>7, WriteIs DEF TypeOK
    <3>4. TypeOK'
      BY <1>7, <3>2, <3>3, WriteIs, WrittenIs DEF TypeOK
    <3>5. Snapshots'
      BY <1>7, <3>1, WriteIs, WrittenIs DEF Snapshots
    <3> QED
      BY <3>4, <3>5
  <2>3. Unopened'
    BY <1>7, <2>1, WriteIs, WrittenIs, AppendIs DEF Unopened
  <2> QED
    BY <2>2, <2>3
<1>8. ASSUME NEW g \in Gens, FollowerReturns(g) PROVE TypeOK' /\ Unopened' /\ Snapshots'
  <2>1. UNCHANGED <<dsSeq, attempted, acked, workerGen, socket, wire, received>>
        /\ closed' \in BOOLEAN /\ follower[g].pc \in {"wait", "each"}
    BY <1>8 DEF FollowerReturns, EndStream, EndClosesSession, TypeOK
  <2>2. ~(g > workerGen) /\ 0 \in 0..dsSeq
    BY <2>1, BoundsAssumption DEF Unopened, NoFollower, TypeOK, Events
  <2>10. TypeOK'
    BY <1>8, <2>1, <2>2, ReturnedIs DEF TypeOK
  <2>11. Unopened'
    BY <1>8, <2>1, <2>2, ReturnedIs DEF Unopened
  <2>12. Snapshots'
    BY <1>8, <2>1, <2>2, ReturnedIs DEF Snapshots
  <2> QED
    BY <2>10, <2>11, <2>12
<1>9. ASSUME NEW g \in Gens, SocketBreaks(g) PROVE TypeOK' /\ Unopened' /\ Snapshots'
  <2>1. TypeOK'
    BY <1>9, BrokenIs DEF TypeOK
  <2>2. Unopened' /\ Snapshots'
    BY <1>9, BrokenIs DEF Unopened, Snapshots
  <2> QED
    BY <2>1, <2>2
<1>10. ASSUME NEW g \in Gens, SocketClosed(g) PROVE TypeOK' /\ Unopened' /\ Snapshots'
  BY <1>10 DEF SocketClosed, EndStream, EndClosesSession, TypeOK, Unopened, Snapshots
<1>11. ASSUME NEW g \in Gens, WorkerReads(g) PROVE TypeOK' /\ Unopened' /\ Snapshots'
  <2>1. ~(g > workerGen)
    BY <1>11 DEF WorkerReads, Unopened
  <2>10. TypeOK'
    BY <1>11, <2>1, ReadIs DEF TypeOK
  <2>11. Unopened'
    <3>1. UNCHANGED <<workerGen, follower, socket>> /\ \A h \in Gens \ {g} : wire'[h] = wire[h]
      BY <1>11, ReadIs
    <3> QED
      BY <2>1, <3>1 DEF Unopened
  <2>12. Snapshots'
    BY <1>11, <2>1, ReadIs DEF Snapshots
  <2> QED
    BY <2>10, <2>11, <2>12
<1>12. ASSUME NEW batch \in SUBSET Events, Acknowledge(batch) PROVE TypeOK' /\ Unopened' /\ Snapshots'
  BY <1>12 DEF Acknowledge, Accepts, TypeOK, Unopened, Snapshots
<1>13. CASE UNCHANGED vars
  BY <1>13 DEF vars, TypeOK, Unopened, Snapshots
<1> QED
  BY <1>1, <1>2, <1>3, <1>4, <1>5, <1>6, <1>7, <1>8, <1>9, <1>10, <1>11, <1>12, <1>13 DEF Next, Follow

-----------------------------------------------------------------------------
(* Mutations are attempted in order                                        *)

\* What is before the event a live follower holds was attempted.
LEMMA BeforeHeld ==
  ASSUME TypeOK, Snapshots, InTurn, NEW g \in Gens, ~Stopped(g), WriteHeld(g)
  PROVE  \A d \in 2..(follower[g].held - 1) : d \in attempted
<1>1. follower[g].held \in Nat /\ \A e \in follower[g].queue : follower[g].held < e
  BY WriteIs DEF Events, InTurn
<1>2. \A d \in 2..(follower[g].held - 1) :
        d \in attempted \union follower[g].queue \union {follower[g].held}
  BY DEF InTurn
<1> QED
  <2>1. follower[g].queue \subseteq Nat
    BY BoundsAssumption DEF TypeOK, FollowerState, Events
  <2> QED
    BY <1>1, <1>2, <2>1

LEMMA OrderStep == DownInv /\ [Next]_vars => AttemptedInOrder'
<1> SUFFICES ASSUME DownInv, [Next]_vars PROVE AttemptedInOrder'
  OBVIOUS
<1> USE DEF DownInv
<1>1. ASSUME NEW g \in Gens, WriteHeld(g) PROVE AttemptedInOrder'
  <2>1. CASE attempted' = attempted
    BY <2>1 DEF AttemptedInOrder
  <2>2. CASE ~Stopped(g) /\ attempted' = attempted \union {follower[g].held}
    BY <1>1, <2>2, BeforeHeld DEF AttemptedInOrder
  <2> QED
    BY <1>1, <2>1, <2>2, WriteIs
<1>2. CASE UNCHANGED attempted
  BY <1>2 DEF AttemptedInOrder
<1>3. (\E g \in Gens : WriteHeld(g)) \/ UNCHANGED attempted
  BY DEF Next, Follow, PushDownstream, Close, OpenStream, Collect, YieldNext, SnapshotDone, FollowerReturns,
     SocketBreaks, SocketClosed, WorkerReads, Acknowledge, downstream, vars
<1> QED
  BY <1>1, <1>2, <1>3

\* InTurn for one stream.
TurnOf(g) == ~Stopped(g) =>
    /\ follower[g].sent \ {follower[g].held} \subseteq attempted
    /\ \A e \in follower[g].queue : follower[g].held < e
    /\ \A e \in follower[g].queue \union {follower[g].held} : \A d \in 2..(e - 1) :
          d \in attempted \union follower[g].queue \union {follower[g].held}

LEMMA TurnStep == DownInv /\ [Next]_vars => InTurn'
<1> SUFFICES ASSUME DownInv, [Next]_vars, NEW h \in Gens PROVE TurnOf(h)'
  BY DEF InTurn, TurnOf
<1> USE DEF DownInv
<1>0. TurnOf(h) /\ follower[h] \in FollowerState
  BY DEF InTurn, TurnOf, TypeOK
<1>1. CASE PushDownstream \/ Close
  BY <1>0, <1>1 DEF PushDownstream, Close, TurnOf, Stopped
<1>2. CASE OpenStream
  <2>1. CASE closed \/ Ambiguous
    BY <1>2, <2>1 DEF OpenStream, TurnOf, Stopped
  <2>2. CASE ~(closed \/ Ambiguous) /\ h = workerGen'
    BY <1>2, <2>2, OpenedIs DEF TurnOf
  <2>3. CASE ~(closed \/ Ambiguous) /\ h # workerGen'
    BY <2>3 DEF TurnOf, Stopped
  <2> QED
    BY <2>1, <2>2, <2>3
<1>3. ASSUME NEW g \in Gens, Collect(g) PROVE TurnOf(h)'
  <2>1. UNCHANGED <<closed, dsSeq, attempted, acked, workerGen, socket>>
        /\ ~Stopped(g) /\ follower[g].pc = "wait" /\ follower[g].held = 0
    BY <1>3 DEF Collect, downstream, Snapshots
  <2>2. CASE h = g
    <3>1. follower[g].sent \subseteq attempted
      <4>1. 0 \notin follower[g].sent
        BY <1>0, <2>2 DEF FollowerState, Events
      <4> QED
        BY <1>0, <2>1, <2>2, <4>1 DEF TurnOf
    <3>2. \A e \in Pending(g) : \A d \in 2..(e - 1) : d \in attempted \union Pending(g)
      <4> SUFFICES ASSUME NEW e \in Pending(g), NEW d \in 2..(e - 1), d \notin Pending(g)
                   PROVE  d \in attempted
        OBVIOUS
      <4>1. d \in 1..dsSeq /\ dsSeq \in Nat
        BY BoundsAssumption DEF Pending, TypeOK, Events
      <4>2. d \in follower[g].sent \/ FencedEvent(d)
        BY <4>1 DEF Pending
      <4> QED
        BY <3>1, <4>2 DEF FencedEvent, TypeOK
    <3>3. /\ follower'[g].queue = Pending(g) /\ follower'[g].held = 0
          /\ follower'[g].sent = follower[g].sent
      BY <1>3, <2>1, CollectIs
    <3>4. \A e \in Pending(g) : 0 < e
      BY DEF Pending
    <3> QED
      BY <2>1, <2>2, <3>1, <3>2, <3>3, <3>4 DEF TurnOf
  <2>3. CASE h # g
    BY <1>0, <1>3, <2>1, <2>3, CollectIs DEF TurnOf, Stopped
  <2> QED
    BY <2>2, <2>3
<1>4. ASSUME NEW g \in Gens, YieldNext(g) PROVE TurnOf(h)'
  <2>1. UNCHANGED <<closed, dsSeq, attempted, acked, workerGen, socket>>
        /\ ~Stopped(g) /\ follower[g].pc = "each" /\ follower[g].held = 0
    BY <1>4 DEF YieldNext, downstream, Snapshots
  <2>2. CASE h = g
    <3>1. follower[g].sent \subseteq attempted /\ follower[g].queue \subseteq Nat
      <4>1. 0 \notin follower[g].sent /\ follower[g].queue \subseteq Nat
        BY <1>0, <2>2 DEF FollowerState, Events
      <4> QED
        BY <1>0, <2>1, <2>2, <4>1 DEF TurnOf
    <3>2. \A e \in follower[g].queue : \A d \in 2..(e - 1) : d \in attempted \union follower[g].queue
      BY <1>0, <2>1, <2>2 DEF TurnOf
    <3>3. PICK e \in follower[g].queue :
            /\ \A d \in follower[g].queue : e <= d
            /\ follower'[g].queue = follower[g].queue \ {e}
            /\ \/ /\ FencedEvent(e) /\ follower'[g].sent = follower[g].sent
                  /\ follower'[g].held = 0
               \/ /\ follower'[g].sent = follower[g].sent \union {e}
                  /\ follower'[g].held = e
      BY <1>4, YieldIs
    <3>4. FencedEvent(e) => e \in attempted
      BY DEF FencedEvent, TypeOK
    <3>5. \A d \in follower[g].queue \ {e} : 0 < d /\ e < d
      BY <3>1, <3>3, <1>0, <2>2 DEF FollowerState, Events
    <3>6. CASE FencedEvent(e) /\ follower'[g].sent = follower[g].sent /\ follower'[g].held = 0
      <4>1. \A b \in follower'[g].queue \union {0} : \A d \in 2..(b - 1) :
              d \in attempted \union follower'[g].queue \union {0}
        BY <3>2, <3>3, <3>4, <3>6
      <4> QED
        BY <2>1, <2>2, <3>1, <3>3, <3>5, <3>6, <4>1 DEF TurnOf
    <3>7. CASE follower'[g].sent = follower[g].sent \union {e} /\ follower'[g].held = e
      <4>1. \A b \in follower'[g].queue \union {e} : \A d \in 2..(b - 1) :
              d \in attempted \union follower'[g].queue \union {e}
        BY <3>2, <3>3
      <4> QED
        BY <2>1, <2>2, <3>1, <3>3, <3>5, <3>7, <4>1 DEF TurnOf
    <3> QED
      BY <3>3, <3>6, <3>7
  <2>3. CASE h # g
    BY <1>0, <1>4, <2>1, <2>3, YieldIs DEF TurnOf, Stopped
  <2> QED
    BY <2>2, <2>3
<1>5. ASSUME NEW g \in Gens, SnapshotDone(g) PROVE TurnOf(h)'
  <2>1. UNCHANGED <<closed, attempted, workerGen, socket>> /\ follower[g].queue = {}
    BY <1>5 DEF SnapshotDone, downstream
  <2>2. /\ follower'[h].queue = follower[h].queue /\ follower'[h].sent = follower[h].sent
        /\ follower'[h].held = follower[h].held
    BY <1>5, <2>1, SnapshotDoneIs
  <2> QED
    BY <1>0, <2>1, <2>2 DEF TurnOf, Stopped
<1>6. ASSUME NEW g \in Gens, WriteHeld(g) PROVE TurnOf(h)'
  <2>1. UNCHANGED <<closed, workerGen, socket>> /\ attempted \subseteq attempted'
        /\ (Stopped(g) \/ follower[g].held \in attempted')
    BY <1>6, WriteIs DEF FencedEvent, TypeOK
  <2>2. CASE h = g
    <3>1. /\ follower'[g].held = 0 /\ follower'[g].queue = follower[g].queue
          /\ follower'[g].sent = follower[g].sent
      BY <1>6, WrittenIs
    <3>2. \A e \in follower[g].queue : 0 < e
      BY <1>0, <2>2 DEF FollowerState, Events
    <3>3. CASE Stopped(g)
      BY <2>1, <2>2, <3>3 DEF TurnOf, Stopped
    <3>4. CASE ~Stopped(g) /\ follower[g].held \in attempted'
      <4>1. follower[g].sent \subseteq attempted'
        BY <1>0, <2>1, <2>2, <3>4 DEF TurnOf
      <4>2. \A e \in follower[g].queue : \A d \in 2..(e - 1) : d \in attempted' \union follower[g].queue
        BY <1>0, <2>1, <2>2, <3>4 DEF TurnOf
      <4>3. \A e \in follower[g].queue \union {0} : \A d \in 2..(e - 1) : d \in attempted' \union follower[g].queue
        BY <4>2
      <4> QED
        BY <2>2, <3>1, <3>2, <4>1, <4>3 DEF TurnOf
    <3> QED
      BY <2>1, <3>3, <3>4
  <2>3. CASE h # g
    <3>1. follower'[h] = follower[h]
      BY <1>6, <2>3, WrittenIs
    <3> QED
      BY <1>0, <2>1, <3>1 DEF TurnOf, Stopped
  <2> QED
    BY <2>2, <2>3
<1>7. ASSUME NEW g \in Gens, FollowerReturns(g) PROVE TurnOf(h)'
  <2>1. UNCHANGED <<attempted, workerGen, socket>> /\ Stopped(g) /\ (closed => closed')
    BY <1>7 DEF FollowerReturns, EndStream
  <2> QED
    BY <1>0, <1>7, <2>1, ReturnedIs DEF TurnOf, Stopped
<1>8. ASSUME NEW g \in Gens, SocketBreaks(g) PROVE TurnOf(h)'
  <2>1. UNCHANGED <<closed, attempted, workerGen, follower>> /\ (socket[h] = "gone" => socket'[h] = "gone")
    BY <1>8, BrokenIs
  <2> QED
    BY <1>0, <2>1 DEF TurnOf, Stopped
<1>9. ASSUME NEW g \in Gens, SocketClosed(g) PROVE TurnOf(h)'
  <2>1. UNCHANGED <<attempted, workerGen, follower>> /\ (closed => closed') /\ (socket[h] = "gone" => socket'[h] = "gone")
    BY <1>9 DEF SocketClosed, EndStream, TypeOK
  <2> QED
    BY <1>0, <2>1 DEF TurnOf, Stopped
<1>10. ASSUME NEW g \in Gens, WorkerReads(g) PROVE TurnOf(h)'
  BY <1>0, <1>10, ReadIs DEF TurnOf, Stopped
<1>11. ASSUME NEW batch \in SUBSET Events, Acknowledge(batch) PROVE TurnOf(h)'
  BY <1>0, <1>11 DEF Acknowledge, TurnOf, Stopped
<1>12. CASE UNCHANGED vars
  BY <1>0, <1>12 DEF vars, TurnOf, Stopped
<1> QED
  BY <1>1, <1>2, <1>3, <1>4, <1>5, <1>6, <1>7, <1>8, <1>9, <1>10, <1>11, <1>12 DEF Next, Follow

-----------------------------------------------------------------------------
(* What the worker has read                                                *)

\* A read adds the first frame of its stream, which was attempted.
LEMMA ReadGrows ==
  ASSUME DownInv, NEW g \in Gens, WorkerReads(g)
  PROVE  Read' = Read \union {wire[g][1]} /\ wire[g][1] \in attempted
<1>1. wire[g][1] \in attempted
  BY ReadIs DEF DownInv, WireInOrder
<1>2. \A i \in DOMAIN received : i \in DOMAIN received' /\ received'[i] = received[i]
  <2>1. /\ Len(received) \in Nat /\ DOMAIN received = 1..Len(received)
        /\ DOMAIN received' = 1..(Len(received) + 1)
        /\ \A i \in 1..Len(received) : received'[i] = received[i]
    BY ReadIs DEF DownInv
  <2> QED
    BY <2>1
<1>3. \A i \in DOMAIN received' : i \in DOMAIN received \/ i = Len(received) + 1
  BY ReadIs DEF DownInv
<1>4. Len(received) + 1 \in DOMAIN received' /\ received'[Len(received) + 1] = wire[g][1]
  BY ReadIs DEF DownInv
<1>5. \A i \in DOMAIN received' : received'[i] \in Read \/ received'[i] = wire[g][1]
  BY <1>2, <1>3, <1>4 DEF Read
<1>6. \A i \in DOMAIN received : received[i] \in Read'
  BY <1>2 DEF Read
<1>7. wire[g][1] \in Read'
  BY <1>4 DEF Read
<1>8. Read' \subseteq Read \union {wire[g][1]}
  BY <1>5 DEF Read
<1>9. Read \union {wire[g][1]} \subseteq Read'
  BY <1>6, <1>7 DEF Read
<1> QED
  BY <1>1, <1>8, <1>9

LEMMA AckedStep == DownInv /\ [Next]_vars => AckedWasRead'
<1> SUFFICES ASSUME DownInv, [Next]_vars PROVE AckedWasRead'
  OBVIOUS
<1> USE DEF DownInv
<1>1. CASE \E g \in Gens : WorkerReads(g)
  BY <1>1, ReadGrows, ReadIs DEF AckedWasRead
<1>2. CASE \E batch \in SUBSET Events : Acknowledge(batch)
  BY <1>2 DEF Acknowledge, Accepts, AckedWasRead, Read
<1>3. CASE UNCHANGED <<received, acked>> /\ attempted \subseteq attempted'
  BY <1>3 DEF AckedWasRead, Read
<1>4. \/ \E g \in Gens : WorkerReads(g)
      \/ \E batch \in SUBSET Events : Acknowledge(batch)
      \/ UNCHANGED <<received, acked>> /\ attempted \subseteq attempted'
  <2>1. ASSUME NEW g \in Gens, WriteHeld(g) PROVE UNCHANGED <<received, acked>> /\ attempted \subseteq attempted'
    BY <2>1, WriteIs
  <2> QED
    BY <2>1 DEF Next, Follow, PushDownstream, Close, OpenStream, Collect, YieldNext, SnapshotDone,
       FollowerReturns, SocketBreaks, SocketClosed, downstream, vars
<1> QED
  BY <1>1, <1>2, <1>3, <1>4

LEMMA CarryStep == DownInv /\ [Next]_vars => OwnerCarries'
<1> SUFFICES ASSUME DownInv, [Next]_vars, OwnerIs("open")', NEW e \in attempted' \ {Initialize}
             PROVE  e \in Read' \/ Carries(workerGen, e)'
  BY DEF OwnerCarries
<1> USE DEF DownInv
<1>1. ASSUME UNCHANGED <<attempted, workerGen, wire, received>>, socket'[workerGen] = "open" => socket[workerGen] = "open"
      PROVE  e \in Read' \/ Carries(workerGen, e)'
  BY <1>1 DEF OwnerCarries, OwnerIs, Read, Carries
<1>2. CASE PushDownstream \/ Close \/ (\E batch \in SUBSET Events : Acknowledge(batch)) \/ UNCHANGED vars
  BY <1>1, <1>2 DEF PushDownstream, Close, Acknowledge, vars
<1>3. CASE OpenStream
  <2>1. CASE closed \/ Ambiguous
    BY <1>1, <1>3, <2>1 DEF OpenStream
  <2>2. CASE ~(closed \/ Ambiguous)
    BY <1>3, <2>2, OpenedIs DEF Ambiguous, AckedWasRead, Read
  <2> QED
    BY <2>1, <2>2
<1>4. ASSUME NEW g \in Gens, Collect(g) \/ YieldNext(g) \/ SnapshotDone(g) \/ FollowerReturns(g)
      PROVE  e \in Read' \/ Carries(workerGen, e)'
  BY <1>1, <1>4 DEF Collect, YieldNext, SnapshotDone, FollowerReturns, downstream
<1>5. ASSUME NEW g \in Gens, WriteHeld(g) PROVE e \in Read' \/ Carries(workerGen, e)'
  <2>1. UNCHANGED <<workerGen, socket, received>> /\ Read' = Read
    BY <1>5, WriteIs DEF Read
  <2>2. CASE attempted' = attempted /\ wire' = wire
    BY <1>1, <2>1, <2>2
  <2>3. CASE ~Stopped(g) /\ attempted' = attempted \union {follower[g].held}
             /\ wire' = [wire EXCEPT ![g] = Append(wire[g], follower[g].held)]
    <3>1. g = workerGen /\ follower[g].held \in Events
      BY <1>5, <2>3, WriteIs DEF Stopped
    <3>2. CASE e = follower[g].held
      <4>1. Len(wire[g]) + 1 \in DOMAIN wire'[g] /\ wire'[g][Len(wire[g]) + 1] = e
        <5>1. TypeOK /\ wire' = [wire EXCEPT ![g] = Append(wire[g], follower[g].held)]
          BY <2>3
        <5>2. /\ Len(wire[g]) \in Nat /\ DOMAIN wire'[g] = 1..(Len(wire[g]) + 1)
              /\ wire'[g][Len(wire[g]) + 1] = follower[g].held
          BY <3>1, <5>1, AppendIs, Zenon
        <5> QED
          BY <3>2, <5>2
      <4> QED
        BY <2>1, <3>1, <4>1 DEF Carries
    <3>3. CASE e \in attempted
      <4>1. e \in Read \/ \E i \in DOMAIN wire[g] : wire[g][i] = e
        BY <2>1, <3>1, <3>3 DEF OwnerCarries, OwnerIs, Carries
      <4>2. \A i \in DOMAIN wire[g] : i \in DOMAIN wire'[g] /\ wire'[g][i] = wire[g][i]
        BY <2>3, <3>1, AppendIs
      <4> QED
        BY <2>1, <3>1, <4>1, <4>2 DEF Carries
    <3> QED
      BY <2>3, <3>2, <3>3
  <2>4. CASE ~Stopped(g) /\ socket[g] # "open"
    BY <2>1, <2>4 DEF OwnerIs, Stopped
  <2> QED
    BY <1>5, <2>2, <2>3, <2>4, WriteIs
<1>6. ASSUME NEW g \in Gens, SocketBreaks(g) PROVE e \in Read' \/ Carries(workerGen, e)'
  <2>1. CASE g = workerGen
    BY <1>6, <2>1, BrokenIs DEF OwnerIs
  <2>2. CASE g # workerGen
    BY <1>6, <2>2, BrokenIs DEF OwnerIs, OwnerCarries, Carries, Read
  <2> QED
    BY <2>1, <2>2
<1>7. ASSUME NEW g \in Gens, SocketClosed(g) PROVE e \in Read' \/ Carries(workerGen, e)'
  BY <1>1, <1>7 DEF SocketClosed, TypeOK
<1>8. ASSUME NEW g \in Gens, WorkerReads(g) PROVE e \in Read' \/ Carries(workerGen, e)'
  <2>1. UNCHANGED <<attempted, workerGen, socket>> /\ Read' = Read \union {wire[g][1]}
    BY <1>8, ReadIs, ReadGrows
  <2>2. e \in Read \/ Carries(workerGen, e)
    BY <2>1 DEF OwnerCarries, OwnerIs
  <2>3. CASE e \in Read
    BY <2>1, <2>3
  <2>4. CASE Carries(workerGen, e) /\ g = workerGen
    <3>1. PICK i \in DOMAIN wire[g] : wire[g][i] = e
      BY <2>4 DEF Carries
    <3>2. CASE i = 1
      BY <2>1, <3>1, <3>2
    <3>3. CASE i # 1
      <4>1. i - 1 \in DOMAIN wire'[g] /\ wire'[g][i - 1] = e
        <5>1. i - 1 \in DOMAIN wire'[g] /\ DOMAIN wire[g] \subseteq Nat
          BY <1>8, <3>1, <3>3, ReadIs DEF TypeOK
        <5>2. wire'[g][i - 1] = wire[g][(i - 1) + 1]
          BY <1>8, <5>1, ReadIs
        <5> QED
          BY <3>1, <5>1, <5>2
      <4> QED
        BY <2>1, <2>4, <4>1 DEF Carries
    <3> QED
      BY <3>2, <3>3
  <2>5. CASE Carries(workerGen, e) /\ g # workerGen
    <3>1. wire'[workerGen] = wire[workerGen]
      BY <1>8, <2>1, <2>5, ReadIs DEF OwnerIs
    <3> QED
      BY <2>1, <2>5, <3>1 DEF Carries
  <2> QED
    BY <2>2, <2>3, <2>4, <2>5
<1> QED
  BY <1>2, <1>3, <1>4, <1>5, <1>6, <1>7, <1>8 DEF Next, Follow

-----------------------------------------------------------------------------
(* The frames in flight                                                    *)

\* What WireInOrder says of the frame at j of stream g.
LEMMA FrameIs ==
  ASSUME DownInv, NEW g \in Gens, NEW j \in DOMAIN wire[g]
  PROVE  /\ wire[g][j] \in attempted
         /\ wire[g][j] # Initialize =>
              /\ g = workerGen /\ socket[g] = "open"
              /\ \A i \in 1..(j - 1) : wire[g][i] < wire[g][j]
              /\ \A i \in DOMAIN received : received[i] < wire[g][j]
              /\ \A d \in 2..(wire[g][j] - 1) : d \in Read \/ \E i \in 1..(j - 1) : wire[g][i] = d
BY DEF DownInv, WireInOrder

\* A step that leaves the frames, the owner and what was read keeps them in order.
LEMMA WireKept ==
  ASSUME DownInv, UNCHANGED <<workerGen, wire, received>>, attempted \subseteq attempted',
         \A g \in Gens : socket[g] = "open" => socket'[g] = "open"
  PROVE  WireInOrder'
BY DEF DownInv, WireInOrder, Read

\* When the session may move to another stream, no mutation is in flight.
LEMMA NoneInFlight ==
  ASSUME DownInv, ~Ambiguous, NEW g \in Gens, NEW j \in DOMAIN wire[g]
  PROVE  wire[g][j] = Initialize
<1> SUFFICES ASSUME wire[g][j] # Initialize PROVE FALSE
  OBVIOUS
<1> DEFINE e == wire[g][j]
<1>1. e \in attempted /\ \A i \in DOMAIN received : received[i] < e
  BY FrameIs
<1>2. e \in Read
  BY <1>1 DEF Ambiguous, DownInv, AckedWasRead
<1>3. PICK i \in DOMAIN received : received[i] = e
  BY <1>2 DEF Read
<1>4. e \in Nat
  <2>1. wire[g] \in Seq(Events)
    BY DEF DownInv, TypeOK
  <2> QED
    BY <2>1, BoundsAssumption DEF Events
<1> QED
  BY <1>1, <1>3, <1>4

\* The frame a write appends is behind every mutation attempted before it.
LEMMA AppendedIs ==
  ASSUME DownInv, NEW g \in Gens, WriteHeld(g), ~Stopped(g), socket[g] = "open",
         follower[g].held \in Events \ {Initialize}, ~FencedEvent(follower[g].held)
  PROVE  /\ g = workerGen
         /\ \A a \in attempted : a < follower[g].held
         /\ \A d \in 2..(follower[g].held - 1) : d \in Read \/ \E i \in DOMAIN wire[g] : wire[g][i] = d
<1> DEFINE e == follower[g].held
<1>1. g = workerGen /\ e \in Nat /\ e >= 2 /\ e \notin attempted
  BY BoundsAssumption DEF Stopped, FencedEvent, Events, Initialize
<1>2. \A a \in attempted : a < e
  BY <1>1 DEF DownInv, AttemptedInOrder, TypeOK
<1>3. \A d \in 2..(e - 1) : d \in attempted
  BY BeforeHeld DEF DownInv
<1>4. \A d \in 2..(e - 1) : d \in Read \/ \E i \in DOMAIN wire[g] : wire[g][i] = d
  <2>1. SUFFICES ASSUME NEW d \in 2..(e - 1)
                 PROVE  d \in Read \/ \E i \in DOMAIN wire[g] : wire[g][i] = d
    OBVIOUS
  <2>2. d \in attempted \ {Initialize}
    BY <1>1, <1>3, <2>1 DEF Initialize
  <2>3. d \in Read \/ Carries(workerGen, d)
    BY <1>1, <2>2 DEF DownInv, OwnerCarries, OwnerIs
  <2> QED
    BY <1>1, <2>3 DEF Carries
<1> QED
  BY <1>1, <1>2, <1>4

LEMMA WireStep == DownInv /\ [Next]_vars => WireInOrder'
<1> SUFFICES ASSUME DownInv, [Next]_vars PROVE WireInOrder'
  OBVIOUS
<1>0. TypeOK /\ Unopened /\ Snapshots
  BY DEF DownInv
<1>1. CASE PushDownstream \/ Close \/ (\E batch \in SUBSET Events : Acknowledge(batch)) \/ UNCHANGED vars
  BY <1>1, WireKept DEF PushDownstream, Close, Acknowledge, vars
<1>2. CASE OpenStream
  <2>1. CASE closed \/ Ambiguous
    BY <1>2, <2>1, WireKept DEF OpenStream
  <2>2. CASE ~(closed \/ Ambiguous)
    <3>1. UNCHANGED <<attempted, wire, received>>
      BY <1>0, <1>2, <2>2, OpenedIs
    <3>2. \A g \in Gens : \A j \in DOMAIN wire[g] : wire[g][j] = Initialize /\ wire[g][j] \in attempted
      BY <2>2, NoneInFlight, FrameIs
    <3> QED
      BY <3>1, <3>2 DEF WireInOrder
  <2> QED
    BY <2>1, <2>2
<1>3. ASSUME NEW g \in Gens, Collect(g) \/ YieldNext(g) \/ SnapshotDone(g) \/ FollowerReturns(g) PROVE WireInOrder'
  BY <1>3, WireKept DEF Collect, YieldNext, SnapshotDone, FollowerReturns, downstream
<1>4. ASSUME NEW g \in Gens, WriteHeld(g) PROVE WireInOrder'
  <2>1. UNCHANGED <<workerGen, socket, received>> /\ attempted \subseteq attempted'
    BY <1>0, <1>4, WriteIs
  <2>2. CASE wire' = wire
    BY <2>1, <2>2, WireKept
  <2>3. CASE ~Stopped(g) /\ ~FencedEvent(follower[g].held) /\ socket[g] = "open"
             /\ attempted' = attempted \union {follower[g].held}
             /\ wire' = [wire EXCEPT ![g] = Append(wire[g], follower[g].held)]
    <3> DEFINE e == follower[g].held
    <3>1. e \in Events
      BY <1>0, <1>4, WriteIs
    <3>2. /\ DOMAIN wire[g] = 1..Len(wire[g]) /\ Len(wire[g]) \in Nat
          /\ DOMAIN wire'[g] = 1..(Len(wire[g]) + 1)
          /\ wire'[g][Len(wire[g]) + 1] = e
          /\ \A i \in 1..Len(wire[g]) : wire'[g][i] = wire[g][i]
          /\ \A h \in Gens \ {g} : wire'[h] = wire[h]
      BY <1>0, <2>3, <3>1, AppendIs
    <3> HIDE DEF e
    <3>3. \A i \in 1..Len(wire[g]) : wire[g][i] \in attempted
      BY <3>2, FrameIs
    <3>4. \A i \in DOMAIN received : received[i] \in attempted
      BY DEF DownInv, AckedWasRead, Read
    <3>5. SUFFICES ASSUME NEW h \in Gens, NEW j \in DOMAIN wire'[h]
                   PROVE  /\ wire'[h][j] \in attempted'
                          /\ wire'[h][j] # Initialize =>
                              /\ h = workerGen' /\ socket'[h] = "open"
                              /\ \A i \in 1..(j - 1) : wire'[h][i] < wire'[h][j]
                              /\ \A i \in DOMAIN received' : received'[i] < wire'[h][j]
                              /\ \A d \in 2..(wire'[h][j] - 1) :
                                    d \in Read' \/ \E i \in 1..(j - 1) : wire'[h][i] = d
      BY DEF WireInOrder
    <3>6. Read' = Read
      BY <2>1 DEF Read
    <3>7. CASE h # g
      BY <2>1, <3>2, <3>6, <3>7, FrameIs
    <3>8. CASE h = g /\ j \in 1..Len(wire[g])
      <4>1. wire'[g][j] = wire[g][j] /\ \A i \in 1..(j - 1) : wire'[g][i] = wire[g][i]
        BY <3>2, <3>8
      <4> QED
        BY <2>1, <3>2, <3>6, <3>8, <4>1, FrameIs
    <3>9. CASE h = g /\ j = Len(wire[g]) + 1
      <4>1. wire'[h][j] = e /\ e \in attempted'
        BY <2>3, <3>2, <3>9 DEF e
      <4>2. ASSUME e # Initialize
            PROVE  /\ g = workerGen
                   /\ \A a \in attempted : a < e
                   /\ \A d \in 2..(e - 1) : d \in Read \/ \E i \in DOMAIN wire[g] : wire[g][i] = d
        BY <1>4, <2>3, <3>1, <4>2, AppendedIs DEF e
      <4>3. \A i \in 1..(j - 1) : i \in 1..Len(wire[g]) /\ wire'[g][i] = wire[g][i]
        BY <3>2, <3>9
      <4>4. DOMAIN wire[g] = 1..(j - 1)
        BY <3>2, <3>9
      <4>5. ASSUME e # Initialize
            PROVE  \A d \in 2..(e - 1) : d \in Read' \/ \E i \in 1..(j - 1) : wire'[h][i] = d
        BY <3>6, <3>9, <4>2, <4>3, <4>4, <4>5
      <4>6. ASSUME e # Initialize
            PROVE  (\A i \in 1..(j - 1) : wire'[h][i] < e) /\ \A i \in DOMAIN received' : received'[i] < e
        BY <2>1, <3>3, <3>4, <3>9, <4>2, <4>3, <4>6
      <4> QED
        BY <2>1, <2>3, <3>9, <4>1, <4>2, <4>5, <4>6
    <3> QED
      BY <3>2, <3>7, <3>8, <3>9
  <2> QED
    BY <1>0, <1>4, <2>2, <2>3, WriteIs
<1>5. ASSUME NEW g \in Gens, SocketBreaks(g) PROVE WireInOrder'
  <2>1. /\ DOMAIN wire'[g] = {} /\ UNCHANGED <<attempted, workerGen, received>>
        /\ \A h \in Gens \ {g} : wire'[h] = wire[h] /\ socket'[h] = socket[h]
    BY <1>0, <1>5, BrokenIs
  <2>2. Read' = Read
    BY <2>1 DEF Read
  <2> QED
    BY <2>1, <2>2, FrameIs DEF WireInOrder
<1>6. ASSUME NEW g \in Gens, SocketClosed(g) PROVE WireInOrder'
  BY <1>0, <1>6, WireKept DEF SocketClosed, TypeOK
<1>7. ASSUME NEW g \in Gens, WorkerReads(g) PROVE WireInOrder'
  <2>1. /\ UNCHANGED <<attempted, workerGen, socket>> /\ Read' = Read \union {wire[g][1]}
        /\ 1 \in DOMAIN wire[g] /\ \A h \in Gens \ {g} : wire'[h] = wire[h]
        /\ wire[g] \in Seq(Events)
    BY <1>0, <1>7, ReadIs, ReadGrows DEF TypeOK
  <2>2. \A i \in DOMAIN received' : received'[i] \in {received[k] : k \in DOMAIN received} \union {wire[g][1]}
    <3> DEFINE n == Len(received)
    <3>1. /\ n \in Nat /\ DOMAIN received = 1..n /\ DOMAIN received' = 1..(n + 1)
          /\ received'[n + 1] = wire[g][1] /\ \A i \in 1..n : received'[i] = received[i]
      BY <1>0, <1>7, ReadIs
    <3> HIDE DEF n
    <3>2. \A i \in 1..(n + 1) : i \in 1..n \/ i = n + 1
      BY <3>1
    <3> QED
      BY <3>1, <3>2
  <2>3. SUFFICES ASSUME NEW h \in Gens, NEW j \in DOMAIN wire'[h]
                 PROVE  /\ wire'[h][j] \in attempted'
                        /\ wire'[h][j] # Initialize =>
                            /\ h = workerGen' /\ socket'[h] = "open"
                            /\ \A i \in 1..(j - 1) : wire'[h][i] < wire'[h][j]
                            /\ \A i \in DOMAIN received' : received'[i] < wire'[h][j]
                            /\ \A d \in 2..(wire'[h][j] - 1) :
                                  d \in Read' \/ \E i \in 1..(j - 1) : wire'[h][i] = d
    BY DEF WireInOrder
  <2>4. CASE h # g
    <3>1. wire'[h] = wire[h]
      BY <2>1, <2>4
    <3>2. ASSUME wire[h][j] # Initialize PROVE wire[g][1] = Initialize /\ Initialize < wire[h][j]
      <4>1. wire[g][1] = Initialize
        BY <2>1, <2>4, <3>1, <3>2, FrameIs
      <4>2. wire[h][j] \in Events
        BY <1>0, <3>1 DEF TypeOK
      <4> QED
        BY <3>2, <4>1, <4>2, BoundsAssumption DEF Events, Initialize
    <3> QED
      BY <2>1, <2>2, <3>1, <3>2, FrameIs
  <2>5. CASE h = g
    <3>1. /\ j \in Nat \ {0} /\ j + 1 \in DOMAIN wire[g] /\ wire'[g][j] = wire[g][j + 1]
          /\ \A i \in 1..(j - 1) : wire'[g][i] = wire[g][i + 1]
      BY <1>0, <1>7, <2>5, ReadIs
    <3> DEFINE e == wire[g][j + 1]
    <3>2. e \in attempted
      BY <3>1, FrameIs
    <3>3. ASSUME e # Initialize
          PROVE  /\ g = workerGen /\ socket[g] = "open"
                 /\ \A i \in 1..j : wire[g][i] < e
                 /\ \A i \in DOMAIN received : received[i] < e
                 /\ \A d \in 2..(e - 1) : d \in Read \/ \E i \in 1..j : wire[g][i] = d
      BY <3>1, <3>3, FrameIs
    <3>4. \A i \in 1..(j - 1) : i + 1 \in 1..j
      BY <3>1
    <3>5. \A i \in 1..j : i = 1 \/ (i - 1 \in 1..(j - 1) /\ wire'[g][i - 1] = wire[g][i])
      BY <3>1
    <3>6. 1 \in 1..j
      BY <3>1
    <3> HIDE DEF e
    <3>7. ASSUME e # Initialize
          PROVE  (\A i \in 1..(j - 1) : wire'[g][i] < e) /\ \A i \in DOMAIN received' : received'[i] < e
      BY <2>2, <3>1, <3>3, <3>4, <3>6, <3>7
    <3>8. ASSUME e # Initialize
          PROVE  \A d \in 2..(e - 1) : d \in Read' \/ \E i \in 1..(j - 1) : wire'[g][i] = d
      BY <2>1, <3>3, <3>5, <3>8
    <3> QED
      BY <2>1, <2>5, <3>1, <3>2, <3>3, <3>7, <3>8 DEF e
  <2> QED
    BY <2>4, <2>5
<1> QED
  BY <1>1, <1>2, <1>3, <1>4, <1>5, <1>6, <1>7 DEF Next, Follow

LEMMA GaplessStep == DownInv /\ [Next]_vars => MutationsGapless'
<1> SUFFICES ASSUME DownInv, [Next]_vars PROVE MutationsGapless'
  OBVIOUS
<1>1. CASE UNCHANGED received
  BY <1>1 DEF DownInv, MutationsGapless
<1>2. ASSUME NEW g \in Gens, WorkerReads(g) PROVE MutationsGapless'
  <2>1. /\ Len(received) \in Nat /\ DOMAIN received = 1..Len(received)
        /\ DOMAIN received' = 1..(Len(received) + 1)
        /\ received'[Len(received) + 1] = wire[g][1] /\ 1 \in DOMAIN wire[g]
        /\ \A i \in 1..Len(received) : received'[i] = received[i]
    BY <1>2, ReadIs DEF DownInv
  <2>2. SUFFICES ASSUME NEW i \in DOMAIN received', received'[i] # Initialize
                 PROVE  /\ \A j \in 1..(i - 1) : received'[j] < received'[i]
                        /\ \A e \in 2..(received'[i] - 1) : \E j \in 1..(i - 1) : received'[j] = e
    BY DEF MutationsGapless
  <2>3. CASE i \in 1..Len(received)
    <3>1. received'[i] = received[i] /\ \A j \in 1..(i - 1) : received'[j] = received[j]
      BY <2>1, <2>3
    <3>2. /\ \A j \in 1..(i - 1) : received[j] < received[i]
          /\ \A e \in 2..(received[i] - 1) : \E j \in 1..(i - 1) : received[j] = e
      BY <2>1, <2>2, <2>3, <3>1 DEF DownInv, MutationsGapless
    <3> QED
      BY <3>1, <3>2
  <2>4. CASE i = Len(received) + 1
    <3>1. received'[i] = wire[g][1] /\ 1..(i - 1) = DOMAIN received
          /\ \A j \in 1..(i - 1) : received'[j] = received[j]
      BY <2>1, <2>4
    <3>2. /\ \A j \in DOMAIN received : received[j] < wire[g][1]
          /\ \A d \in 2..(wire[g][1] - 1) : d \in Read
      BY <2>1, <2>2, <3>1, FrameIs
    <3>3. \A e \in 2..(received'[i] - 1) : \E j \in 1..(i - 1) : received'[j] = e
      <4>1. SUFFICES ASSUME NEW e \in 2..(wire[g][1] - 1) PROVE \E j \in 1..(i - 1) : received'[j] = e
        BY <3>1
      <4>2. PICK j \in DOMAIN received : received[j] = e
        BY <3>2, <4>1 DEF Read
      <4> QED
        BY <3>1, <4>2
    <3> QED
      BY <3>1, <3>2, <3>3
  <2> QED
    BY <2>1, <2>2, <2>3, <2>4
<1>3. UNCHANGED received \/ \E g \in Gens : WorkerReads(g)
  <2>1. ASSUME NEW g \in Gens, WriteHeld(g) PROVE UNCHANGED received
    BY <2>1, Zenon DEF WriteHeld
  <2> QED
    BY <2>1 DEF Next, Follow, PushDownstream, Close, OpenStream, Collect, YieldNext, SnapshotDone,
       FollowerReturns, SocketBreaks, SocketClosed, Acknowledge, vars
<1> QED
  BY <1>1, <1>2, <1>3

-----------------------------------------------------------------------------
(* The theorems                                                            *)

LEMMA InitInv == Init => DownInv
<1> SUFFICES ASSUME Init PROVE DownInv
  OBVIOUS
<1> USE BoundsAssumption DEF Init
<1>1. TypeOK
  <2>1. NoFollower \in FollowerState
    BY DEF FollowerState, NoFollower
  <2>2. follower \in [Gens -> FollowerState]
    BY <2>1
  <2>3. <<>> \in Seq(Events)
    OBVIOUS
  <2>4. dsSeq \in Events /\ attempted \subseteq 1..dsSeq /\ acked \subseteq attempted /\ workerGen \in 0..MaxStreams
    BY DEF Events
  <2>5. /\ wire \in [Gens -> Seq(Events)] /\ received \in Seq(Events)
        /\ socket \in [Gens -> {"none", "open", "broken", "gone"}]
    BY <2>3
  <2> QED
    BY <2>2, <2>4, <2>5 DEF TypeOK
<1>2. Unopened /\ Snapshots
  BY DEF Unopened, Snapshots, NoFollower, Gens
<1>3. InTurn
  BY DEF InTurn, Stopped, Gens
<1>4. AttemptedInOrder /\ AckedWasRead /\ OwnerCarries /\ WireInOrder /\ MutationsGapless
  BY DEF AttemptedInOrder, AckedWasRead, OwnerCarries, WireInOrder, MutationsGapless, Read
<1> QED
  BY <1>1, <1>2, <1>3, <1>4 DEF DownInv

\* The inductive invariant of the downstream half: order of attempts, of frames in flight
\* and of what the worker read, for every number of events and streams.
THEOREM InvHolds == Spec => []DownInv
<1>1. DownInv /\ [Next]_vars => DownInv'
  BY TypeStep, OrderStep, TurnStep, AckedStep, CarryStep, WireStep, GaplessStep DEF DownInv
<1> QED
  BY InitInv, <1>1, PTL DEF Spec

\* Every variable stays in its domain, and nothing is acknowledged before it was attempted.
THEOREM TypeCorrect == Spec => []TypeOK
BY InvHolds, PTL DEF DownInv

\* Across any breaks and takeovers of its stream, the worker applies the session's prompts
\* and verbs once each, in order and without a gap.
THEOREM AppliedInOrder == Spec => []MutationsGapless
BY InvHolds, PTL DEF DownInv

-----------------------------------------------------------------------------
(* The batches the worker posts                                            *)

\* Induction up to N over a set.
LEMMA UpTo ==
  ASSUME NEW N \in Nat, NEW T, 0 \in T, \A n \in 1..N : n - 1 \in T => n \in T
  PROVE  \A n \in 0..N : n \in T
<1> DEFINE S == {n \in 0..N : n \notin T}
<1> SUFFICES ASSUME S # {} PROVE FALSE
  OBVIOUS
<1>1. S \in SUBSET Nat
  OBVIOUS
<1>2. PICK n \in S : \A m \in S : n <= m
  BY <1>1, LeastNatural
<1>3. n \in 1..N /\ n - 1 \in 0..N /\ n - 1 < n
  BY <1>2
<1> QED
  BY <1>2, <1>3

\* A fold of N steps over the domain D, as a function of the steps taken.
FoldOf(f, D, N, base, step) ==
    f \in [0..N -> D] /\ f[0] = base /\ \A n \in 1..N : f[n] = step[<<f[n - 1], n>>]

LEMMA FoldExists ==
  ASSUME NEW D, NEW N \in Nat, NEW base \in D, NEW step \in [D \X (1..N) -> D]
  PROVE  \E f : FoldOf(f, D, N, base, step)
<1> DEFINE Folds(k) == {f \in [0..k -> D] : f[0] = base /\ \A n \in 1..k : f[n] = step[<<f[n - 1], n>>]}
           T == {k \in 0..N : Folds(k) # {}}
<1>1. 0 \in T
  <2>1. [n \in 0..0 |-> base] \in Folds(0)
    OBVIOUS
  <2> QED
    BY <2>1
<1>2. ASSUME NEW k \in 1..N, k - 1 \in T PROVE k \in T
  <2>1. PICK f \in [0..(k - 1) -> D] : f[0] = base /\ \A n \in 1..(k - 1) : f[n] = step[<<f[n - 1], n>>]
    BY <1>2
  <2> DEFINE g == [n \in 0..k |-> IF n = k THEN step[<<f[k - 1], k>>] ELSE f[n]]
  <2>2. step[<<f[k - 1], k>>] \in D
    BY <2>1
  <2>3. g \in [0..k -> D]
    BY <2>1, <2>2
  <2>4. /\ \A n \in 0..(k - 1) : g[n] = f[n]
        /\ g[k] = step[<<f[k - 1], k>>]
    OBVIOUS
  <2> HIDE DEF g
  <2>5. g[0] = base
    BY <2>1, <2>4
  <2>6. ASSUME NEW n \in 1..k PROVE g[n] = step[<<g[n - 1], n>>]
    <3>1. n - 1 \in 0..(k - 1) /\ g[n - 1] = f[n - 1]
      BY <2>4
    <3>2. CASE n = k
      BY <2>4, <3>1, <3>2
    <3>3. CASE n \in 1..(k - 1)
      BY <2>1, <2>4, <3>1, <3>3
    <3> QED
      BY <3>2, <3>3
  <2>7. g \in Folds(k)
    BY <2>3, <2>5, <2>6
  <2>8. k \in 0..N
    OBVIOUS
  <2> HIDE DEF Folds
  <2> QED
    BY <2>7, <2>8
<1> HIDE DEF T
<1>3. N \in T
  BY <1>1, <1>2, UpTo
<1>4. Folds(N) # {}
  BY <1>3 DEF T
<1> QED
  BY <1>4 DEF FoldOf

-----------------------------------------------------------------------------
\* What the commit loop makes of one event.
LEMMA CommitIs ==
  ASSUME NEW log \in Seq(Wire), NEW e \in Wire
  PROVE  Commit(log, e) \in Seq(Wire)
  BY DEF Commit

\* The commit loop is a fold: it has a log after each event, the first the one it started from.
LEMMA CommittedIs ==
  ASSUME NEW events \in Seq(Wire), admissions \in Seq(Wire)
  PROVE  \E log \in [0..Len(events) -> Seq(Wire)] :
            /\ log[0] = admissions
            /\ \A n \in 1..Len(events) : log[n] = Commit(log[n - 1], events[n])
            /\ Committed(events) = log[Len(events)]
<1> DEFINE N == Len(events)
           step == [x \in Seq(Wire) \X (1..N) |-> Commit(x[1], events[x[2]])]
           Is(f) == f = [n \in 0..N |-> IF n = 0 THEN admissions ELSE Commit(f[n - 1], events[n])]
<1>1. N \in Nat /\ \A n \in 1..N : events[n] \in Wire
  OBVIOUS
<1>2. step \in [Seq(Wire) \X (1..N) -> Seq(Wire)]
  BY <1>1, CommitIs
<1> HIDE DEF N, step
<1>30. \E f \in [0..N -> Seq(Wire)] : f[0] = admissions /\ \A n \in 1..N : f[n] = step[<<f[n - 1], n>>]
  <2> DEFINE D == Seq(Wire)
  <2>1. N \in Nat /\ admissions \in D /\ step \in [D \X (1..N) -> D]
    BY <1>1, <1>2
  <2> HIDE DEF D
  <2>2. \E f : FoldOf(f, D, N, admissions, step)
    BY <2>1, FoldExists
  <2> QED
    BY <2>2 DEF D, FoldOf
<1>3. PICK f \in [0..N -> Seq(Wire)] : f[0] = admissions /\ \A n \in 1..N : f[n] = step[<<f[n - 1], n>>]
  BY <1>30
<1>4. \A n \in 1..N : f[n] = Commit(f[n - 1], events[n])
  <2> SUFFICES ASSUME NEW n \in 1..N PROVE f[n] = Commit(f[n - 1], events[n])
    OBVIOUS
  <2>1. f[n - 1] \in Seq(Wire)
    BY <1>1, <1>3
  <2>2. <<f[n - 1], n>> \in Seq(Wire) \X (1..N)
    BY <2>1
  <2>3. step[<<f[n - 1], n>>] = Commit(f[n - 1], events[n])
    BY <2>2 DEF step
  <2> QED
    BY <1>3, <2>3
<1>5. Is(f)
  BY <1>1, <1>3, <1>4
<1>6. Is(CHOOSE g : Is(g))
  BY <1>5, Zenon
<1> DEFINE log == CHOOSE g : Is(g)
<1>7. Committed(events) = log[N]
  BY Zenon DEF Committed, N
<1> HIDE DEF log
<1>8. log = [n \in 0..N |-> IF n = 0 THEN admissions ELSE Commit(log[n - 1], events[n])]
  BY <1>6 DEF log
<1>9. log[0] = admissions /\ \A n \in 1..N : log[n] = Commit(log[n - 1], events[n])
  BY <1>1, <1>8
<1>10. \A n \in 0..N : log[n] \in Seq(Wire)
  <2> DEFINE T == {n \in 0..N : log[n] \in Seq(Wire)}
  <2>1. 0 \in T
    BY <1>1, <1>9
  <2>2. \A n \in 1..N : n - 1 \in T => n \in T
    <3> SUFFICES ASSUME NEW n \in 1..N, n - 1 \in T PROVE n \in T
      OBVIOUS
    <3>1. log[n - 1] \in Seq(Wire) /\ events[n] \in Wire /\ n \in 0..N
      BY <1>1
    <3> QED
      BY <1>9, <3>1, CommitIs
  <2> HIDE DEF T
  <2>3. \A n \in 0..N : n \in T
    BY <1>1, <2>1, <2>2, UpTo
  <2> QED
    BY <2>3 DEF T
<1>11. log \in [0..N -> Seq(Wire)]
  BY <1>8, <1>10
<1> QED
  BY <1>7, <1>9, <1>11 DEF N

\* The preflight loop stops at the first event that offends.
LEMMA PassedIs ==
  ASSUME NEW batch \in Seq(Wire)
  PROVE  /\ Passed(batch) \in 0..Len(batch)
         /\ \A i \in 1..Passed(batch) : ~Offends(batch, i)
<1> DEFINE N == Len(batch)
           Bad == {i \in 1..N : Offends(batch, i)}
           Stops(n) == (\A i \in 1..n : ~Offends(batch, i)) /\ (n < N => Offends(batch, n + 1))
<1>1. N \in Nat
  OBVIOUS
<1>2. \E n \in 0..N : Stops(n)
  <2>1. CASE Bad = {}
    <3>1. Stops(N) /\ N \in 0..N
      BY <1>1, <2>1
    <3> QED
      BY <3>1
  <2>2. CASE Bad # {}
    <3>1. Bad \in SUBSET Nat
      BY <1>1
    <3>2. PICK n \in Bad : \A m \in Bad : n <= m
      BY <2>2, <3>1, LeastNatural
    <3>3. n \in 1..N /\ n - 1 \in 0..N /\ (n - 1) + 1 = n
      BY <1>1, <3>2
    <3>4. \A i \in 1..(n - 1) : ~Offends(batch, i)
      BY <1>1, <3>2, <3>3
    <3>5. Stops(n - 1)
      BY <3>2, <3>3, <3>4
    <3> QED
      BY <3>3, <3>5
  <2> QED
    BY <2>1, <2>2
<1>3. Passed(batch) = CHOOSE n \in 0..N : Stops(n)
  BY DEF Passed
<1> HIDE DEF Stops
<1>4. Passed(batch) \in 0..N /\ Stops(Passed(batch))
  BY <1>2, <1>3, Zenon
<1> QED
  BY <1>4 DEF Stops

LEMMA VerdictIs ==
  ASSUME NEW batch \in Seq(Wire), NEW epochOk \in BOOLEAN
  PROVE  /\ Verdict(epochOk, batch) \in {200, 400, 409}
         /\ Verdict(epochOk, batch) = 200 => \A i \in 1..Len(batch) : ~Offends(batch, i)
  BY PassedIs DEF Verdict

\* The log after n events of an admitted batch: in emission order, on from the log before,
\* and with every one of the n.
LogAfter(log, batch, n) ==
    /\ log \in Seq(Wire)
    /\ \A m \in 1..Len(log) : log[m].uuid = m
    /\ Len(admissions) <= Len(log)
    /\ \A m \in 1..Len(admissions) : log[m] = admissions[m]
    /\ \A j \in 1..n : batch[j].uuid <= Len(log)

LEMMA CommitInOrder ==
  ASSUME admissions \in Seq(Wire), NEW batch \in Seq(Wire), InOrder(batch), NEW n \in 1..Len(batch),
         \A m \in 1..Len(admissions) : admissions[m].uuid = m,
         NEW log, LogAfter(log, batch, n - 1), ~Offends(batch, n)
  PROVE  LogAfter(Commit(log, batch[n]), batch, n)
<1> DEFINE e == batch[n]
<1>1. e \in Wire /\ e.uuid \in 0..MaxUuid /\ e.uuid # 0 /\ Len(log) \in Nat /\ Len(admissions) \in Nat
      /\ log \in Seq(Wire) /\ n \in Nat
  <2>1. e \in Wire
    OBVIOUS
  <2>2. e.uuid \in 0..MaxUuid
    BY <2>1 DEF Wire
  <2>3. e.uuid # 0
    BY DEF Offends
  <2>4. log \in Seq(Wire)
    BY DEF LogAfter
  <2> HIDE DEF e
  <2> QED
    BY <2>1, <2>2, <2>3, <2>4
<1>2. e.uuid \in Nat \ {0}
  BY <1>1, IntakeAssumption
<1>3. \A u \in 1..(e.uuid - 1) : u <= Len(log)
  <2> SUFFICES ASSUME NEW u \in 1..(e.uuid - 1) PROVE u <= Len(log)
    OBVIOUS
  <2>1. u \in Uuids(admissions) \/ \E j \in 1..(n - 1) : batch[j].uuid = u
    BY DEF InOrder
  <2>2. CASE u \in Uuids(admissions)
    <3>1. PICK i \in DOMAIN admissions : u = admissions[i].uuid
      BY <2>2 DEF Uuids
    <3> QED
      BY <1>1, <3>1 DEF LogAfter
  <2>3. ASSUME NEW j \in 1..(n - 1), batch[j].uuid = u PROVE u <= Len(log)
    BY <2>3 DEF LogAfter
  <2> QED
    BY <2>1, <2>2, <2>3
<1>4. CASE e.uuid \in Uuids(log)
  <2>1. Commit(log, e) = log
    BY <1>4 DEF Commit
  <2>2. PICK i \in DOMAIN log : e.uuid = log[i].uuid
    BY <1>4 DEF Uuids
  <2>3. e.uuid <= Len(log)
    <3>1. i \in 1..Len(log)
      BY <1>1, <2>2
    <3>2. log[i].uuid = i
      BY <3>1 DEF LogAfter
    <3> QED
      BY <1>1, <2>2, <3>1, <3>2
  <2>4. \A j \in 1..n : j \in 1..(n - 1) \/ j = n
    BY <1>1
  <2> QED
    BY <2>1, <2>3, <2>4 DEF LogAfter
<1>5. CASE e.uuid \notin Uuids(log)
  <2>1. Commit(log, e) = Append(log, e)
    BY <1>5 DEF Commit
  <2>2. e.uuid > Len(log)
    <3>1. \A i \in 1..Len(log) : e.uuid # i
      BY <1>1, <1>5 DEF Uuids, LogAfter
    <3> QED
      BY <1>1, <1>2, <3>1
  <2>3. e.uuid = Len(log) + 1
    <3>1. e.uuid - 1 <= Len(log)
      <4>1. CASE e.uuid = 1
        BY <1>1, <4>1
      <4>2. CASE e.uuid # 1
        <5>1. e.uuid - 1 \in 1..(e.uuid - 1)
          BY <1>2, <4>2
        <5> QED
          BY <1>3, <5>1
      <4> QED
        BY <4>1, <4>2
    <3> QED
      BY <1>1, <1>2, <2>2, <3>1
  <2> DEFINE longer == Append(log, e)
  <2>4. longer \in Seq(Wire) /\ Len(longer) = Len(log) + 1 /\ longer[Len(log) + 1] = e
        /\ \A m \in 1..Len(log) : longer[m] = log[m]
    BY <1>1
  <2> HIDE DEF longer
  <2>5. \A m \in 1..Len(longer) : longer[m].uuid = m
    BY <1>1, <2>3, <2>4 DEF LogAfter
  <2>6. \A m \in 1..Len(admissions) : longer[m] = admissions[m]
    BY <1>1, <2>4 DEF LogAfter
  <2>7. \A j \in 1..n : batch[j].uuid <= Len(longer)
    <3> SUFFICES ASSUME NEW j \in 1..n PROVE batch[j].uuid <= Len(longer)
      OBVIOUS
    <3>1. CASE j = n
      BY <1>1, <2>3, <2>4, <3>1
    <3>2. CASE j \in 1..(n - 1)
      <4>1. batch[j].uuid <= Len(log) /\ batch[j] \in Wire
        BY <3>2 DEF LogAfter
      <4>2. batch[j].uuid \in Nat
        BY <4>1, IntakeAssumption DEF Wire
      <4> QED
        BY <1>1, <2>4, <4>1, <4>2
    <3> QED
      BY <1>1, <3>1, <3>2
  <2>8. LogAfter(longer, batch, n)
    BY <1>1, <2>4, <2>5, <2>6, <2>7 DEF LogAfter
  <2> QED
    BY <2>1, <2>8 DEF longer
<1> QED
  BY <1>4, <1>5

\* What an admitted batch leaves: a log in emission order that begins with the one before.
LEMMA CommittedInOrder ==
  ASSUME admissions \in Seq(Wire), AdmittedInOrder, NEW batch \in Seq(Wire), InOrder(batch),
         \A i \in 1..Len(batch) : ~Offends(batch, i)
  PROVE  LogAfter(Committed(batch), batch, Len(batch))
<1> DEFINE N == Len(batch)
<1>1. N \in Nat /\ \A m \in 1..Len(admissions) : admissions[m].uuid = m
  BY DEF AdmittedInOrder
<1>2. PICK log \in [0..N -> Seq(Wire)] :
         /\ log[0] = admissions
         /\ \A n \in 1..N : log[n] = Commit(log[n - 1], batch[n])
         /\ Committed(batch) = log[N]
  BY CommittedIs
<1> DEFINE T == {n \in 0..N : LogAfter(log[n], batch, n)}
<1>3. 0 \in T
  BY <1>1, <1>2 DEF LogAfter
<1>4. \A n \in 1..N : n - 1 \in T => n \in T
  <2> SUFFICES ASSUME NEW n \in 1..N, n - 1 \in T PROVE n \in T
    OBVIOUS
  <2>1. LogAfter(log[n - 1], batch, n - 1) /\ n \in 0..N
    BY <1>1
  <2>2. LogAfter(Commit(log[n - 1], batch[n]), batch, n)
    BY <1>1, <2>1, CommitInOrder
  <2> QED
    BY <1>2, <2>1, <2>2
<1> HIDE DEF T, N
<1>5. \A n \in 0..N : n \in T
  BY <1>1, <1>3, <1>4, UpTo
<1>6. N \in 0..N
  BY <1>1
<1>7. N \in T
  BY <1>5, <1>6, Zenon
<1>8. LogAfter(log[N], batch, N)
  BY <1>7 DEF T
<1> QED
  BY <1>2, <1>8 DEF N

\* An empty batch changes nothing.
LEMMA CommitNone == ASSUME admissions \in Seq(Wire) PROVE Committed(<<>>) = admissions
<1> DEFINE none == <<>>
<1>1. none \in Seq(Wire) /\ Len(none) = 0
  OBVIOUS
<1> HIDE DEF none
<1>2. Committed(none) = admissions
  BY <1>1, CommittedIs
<1> QED
  BY <1>2 DEF none

\* What a POST does to the log: it stays, or grows in emission order.
LEMMA PostIs ==
  ASSUME IntakeTypeOK, AdmittedInOrder, NEW epochOk \in BOOLEAN, NEW batch \in Batches,
         PostEvents(epochOk, batch)
  PROVE  /\ refusing' \in BOOLEAN /\ answer'.status \in {0, 200, 400, 409, 410}
         /\ UNCHANGED <<cursor, slice, relayed>>
         /\ admissions' \in Seq(Wire)
         /\ \A m \in 1..Len(admissions') : admissions'[m].uuid = m
         /\ Len(admissions) <= Len(admissions')
         /\ \A m \in 1..Len(admissions) : admissions'[m] = admissions[m]
<1>1. batch \in Seq(Wire) /\ admissions \in Seq(Wire) /\ InOrder(batch)
  BY IntakeAssumption DEF IntakeTypeOK, PostEvents
<1>2. UNCHANGED <<cursor, slice, relayed>>
  BY Zenon DEF PostEvents
<1>3. \A m \in 1..Len(admissions) : admissions[m].uuid = m
  BY <1>1 DEF AdmittedInOrder
<1>4. CASE refusing
  <2>1. answer' = [NoAnswer EXCEPT !.status = 410] /\ UNCHANGED <<refusing, admissions>>
    BY <1>4 DEF PostEvents
  <2>2. answer'.status = 410
    BY <2>1 DEF NoAnswer
  <2> QED
    BY <1>1, <1>2, <1>3, <2>1, <2>2 DEF IntakeTypeOK
<1>5. CASE ~refusing
  <2> DEFINE status == Verdict(epochOk, batch)
  <2>1. /\ admissions' = Committed(Admitted(epochOk, batch))
        /\ refusing' = (status # 200)
        /\ status # 200 => answer' = [NoAnswer EXCEPT !.status = status]
        /\ status = 200 => answer'.status = 200
    <3>1. /\ admissions' = Committed(Admitted(epochOk, batch))
          /\ refusing' = (status # 200)
          /\ answer' = IF status # 200 THEN [NoAnswer EXCEPT !.status = status]
                       ELSE [status |-> 200, batch |-> batch,
                             seqs |-> [i \in DOMAIN batch |-> UsSeq(Committed(Admitted(epochOk, batch)), batch[i])]]
      BY <1>5, Zenon DEF PostEvents
    <3> QED
      BY <3>1
  <2>2. status \in {200, 400, 409}
    BY <1>1, VerdictIs
  <2>3. answer'.status \in {0, 200, 400, 409, 410}
    <3> HIDE DEF status
    <3> QED
      BY <2>1, <2>2 DEF NoAnswer
  <2>4. CASE status = 200
    <3>1. admissions' = Committed(batch)
      BY <2>1, <2>4 DEF Admitted
    <3>2. \A i \in 1..Len(batch) : ~Offends(batch, i)
      BY <1>1, <2>4, VerdictIs
    <3>3. LogAfter(admissions', batch, Len(batch))
      BY <1>1, <3>1, <3>2, CommittedInOrder
    <3> QED
      BY <1>2, <2>1, <2>3, <3>3 DEF LogAfter
  <2>5. CASE status # 200
    <3>1. admissions' = admissions
      BY <1>1, <2>1, <2>5, CommitNone DEF Admitted
    <3> QED
      BY <1>1, <1>2, <1>3, <2>1, <2>3, <3>1
  <2> QED
    BY <2>4, <2>5
<1> QED
  BY <1>4, <1>5

\* What is left of a sequence after its first i elements.
LEMMA SuffixIs ==
  ASSUME NEW D, NEW q \in Seq(D), NEW i \in Nat, i < Len(q)
  PROVE  /\ SubSeq(q, i + 1, Len(q)) \in Seq(D) /\ Len(SubSeq(q, i + 1, Len(q))) = Len(q) - i
         /\ \A n \in 1..(Len(q) - i) : SubSeq(q, i + 1, Len(q))[n] = q[i + n]
  OBVIOUS

LEMMA IntakeStep == IntakeInv /\ [IntakeNext]_intakeVars => IntakeInv'
<1> SUFFICES ASSUME IntakeInv, [IntakeNext]_intakeVars PROVE IntakeInv'
  OBVIOUS
<1> DEFINE N == Len(admissions)
           R == Len(relayed)
           L == Len(slice)
<1>0. /\ N \in Nat /\ R \in Nat /\ L \in Nat /\ N <= MaxUuid /\ MaxUuid \in Nat
      /\ admissions \in Seq(Wire) /\ slice \in Seq(Wire) /\ relayed \in Seq(Wire)
      /\ cursor = R + L /\ cursor <= N
      /\ \A n \in 1..N : admissions[n].uuid = n
      /\ \A n \in 1..R : relayed[n] = admissions[n]
      /\ \A n \in 1..L : slice[n] = admissions[R + n]
      /\ DOMAIN admissions = 1..N
  BY IntakeAssumption DEF IntakeInv, IntakeTypeOK, AdmittedInOrder, RelayFollows
<1>1. CASE UNCHANGED intakeVars
  BY <1>1 DEF IntakeInv, IntakeTypeOK, AdmittedInOrder, RelayFollows, intakeVars
<1>2. ASSUME NEW epochOk \in BOOLEAN, NEW batch \in Batches, PostEvents(epochOk, batch) PROVE IntakeInv'
  <2>1. /\ refusing' \in BOOLEAN /\ answer'.status \in {0, 200, 400, 409, 410}
        /\ UNCHANGED <<cursor, slice, relayed>>
        /\ admissions' \in Seq(Wire)
        /\ \A m \in 1..Len(admissions') : admissions'[m].uuid = m
        /\ N <= Len(admissions')
        /\ \A m \in 1..N : admissions'[m] = admissions[m]
    BY <1>2, PostIs DEF IntakeInv
  <2>2. Len(admissions') \in Nat /\ DOMAIN admissions' = 1..Len(admissions')
    BY <2>1
  <2>3. Len(admissions') <= MaxUuid
    <3>1. CASE Len(admissions') = 0
      BY <1>0, <3>1
    <3>2. CASE Len(admissions') # 0
      <4>1. Len(admissions') \in 1..Len(admissions')
        BY <2>2, <3>2
      <4>2. admissions'[Len(admissions')] \in Wire
        BY <2>1, <4>1
      <4>3. admissions'[Len(admissions')].uuid \in 0..MaxUuid
        BY <4>2 DEF Wire
      <4>4. Len(admissions') \in 0..MaxUuid
        BY <2>1, <4>1, <4>3
      <4> QED
        BY <1>0, <4>4
    <3> QED
      BY <3>1, <3>2
  <2>4. IntakeTypeOK'
    BY <1>0, <2>1, <2>2, <2>3 DEF IntakeTypeOK
  <2>5. AdmittedInOrder'
    BY <2>1, <2>2 DEF AdmittedInOrder
  <2>6. RelayFollows'
    <3>1. \A n \in 1..R : n \in 1..N
      BY <1>0
    <3>2. \A n \in 1..L : R + n \in 1..N
      BY <1>0
    <3> QED
      BY <1>0, <2>1, <3>1, <3>2 DEF RelayFollows
  <2> QED
    BY <2>4, <2>5, <2>6 DEF IntakeInv
<1>3. CASE CloseIntake
  BY <1>3 DEF CloseIntake, IntakeInv, IntakeTypeOK, AdmittedInOrder, RelayFollows
<1>4. CASE TakeSlice
  <2>1. /\ cursor < N /\ cursor' = N /\ slice = <<>>
        /\ slice' = SubSeq(admissions, cursor + 1, N)
        /\ UNCHANGED <<refusing, admissions, answer, relayed>>
    BY <1>4 DEF TakeSlice, NextCursor
  <2>2. L = 0 /\ cursor = R
    BY <1>0, <2>1
  <2>3. slice' \in Seq(Wire) /\ Len(slice') = N - R /\ \A n \in 1..(N - R) : slice'[n] = admissions[R + n]
    <3>1. R < N /\ slice' = SubSeq(admissions, R + 1, N)
      BY <2>1, <2>2
    <3> HIDE DEF R
    <3> QED
      BY <1>0, <3>1, SuffixIs
  <2> HIDE DEF N, R
  <2>4. IntakeTypeOK'
    <3>1. cursor' \in 0..Len(admissions')
      BY <1>0, <2>1 DEF N
    <3> QED
      BY <1>0, <2>1, <2>3, <3>1 DEF IntakeInv, IntakeTypeOK
  <2>5. AdmittedInOrder'
    BY <2>1 DEF IntakeInv, AdmittedInOrder
  <2>6. RelayFollows'
    <3>1. cursor' = N /\ relayed' = relayed /\ admissions' = admissions /\ Len(relayed) = R
      BY <2>1 DEF R
    <3>2. N = R + (N - R)
      BY <1>0
    <3> HIDE DEF N, R
    <3> QED
      BY <1>0, <2>3, <3>1, <3>2 DEF RelayFollows
  <2> QED
    BY <2>4, <2>5, <2>6 DEF IntakeInv
<1>5. CASE YieldUp
  <2>1. /\ slice # <<>> /\ relayed' = Append(relayed, Head(slice)) /\ slice' = Tail(slice)
        /\ UNCHANGED <<refusing, admissions, answer, cursor>>
    BY <1>5 DEF YieldUp
  <2>2. L > 0 /\ Head(slice) = slice[1] /\ slice[1] \in Wire
    BY <1>0, <2>1
  <2>3. slice' \in Seq(Wire) /\ Len(slice') = L - 1 /\ \A n \in 1..(L - 1) : slice'[n] = slice[n + 1]
    BY <1>0, <2>1, <2>2
  <2>4. /\ relayed' \in Seq(Wire) /\ Len(relayed') = R + 1
        /\ relayed'[R + 1] = slice[1] /\ \A n \in 1..R : relayed'[n] = relayed[n]
    BY <1>0, <2>1, <2>2
  <2>5. IntakeTypeOK'
    BY <1>0, <2>1, <2>3, <2>4 DEF IntakeInv, IntakeTypeOK
  <2>6. RelayFollows'
    <3>1. cursor' = Len(relayed') + Len(slice')
      BY <1>0, <2>1, <2>3, <2>4
    <3>2. \A n \in 1..(R + 1) : relayed'[n] = admissions[n]
      <4>1. slice[1] = admissions[R + 1]
        BY <1>0, <2>2
      <4>2. \A n \in 1..(R + 1) : n \in 1..R \/ n = R + 1
        BY <1>0
      <4> QED
        BY <1>0, <2>4, <4>1, <4>2
    <3>3. \A n \in 1..(L - 1) : slice'[n] = admissions[(R + 1) + n]
      <4>1. \A n \in 1..(L - 1) : n + 1 \in 1..L /\ R + (n + 1) = (R + 1) + n
        BY <1>0
      <4> QED
        BY <1>0, <2>3, <4>1
    <3> HIDE DEF N, R, L
    <3> QED
      BY <2>1, <2>3, <2>4, <3>1, <3>2, <3>3 DEF RelayFollows
  <2>7. AdmittedInOrder'
    BY <2>1 DEF IntakeInv, AdmittedInOrder
  <2> QED
    BY <2>5, <2>6, <2>7 DEF IntakeInv
<1> QED
  BY <1>1, <1>2, <1>3, <1>4, <1>5 DEF IntakeNext

\* The inductive invariant of the upstream half: the log is in emission order, and the
\* relay holds a beginning of it with the slice being yielded next.
THEOREM IntakeInvariant == IntakeSpec => []IntakeInv
<1>1. IntakeInit => IntakeInv
  <2> SUFFICES ASSUME IntakeInit PROVE IntakeInv
    OBVIOUS
  <2>1. <<>> \in Seq(Wire) /\ Len(<<>>) = 0
    OBVIOUS
  <2>2. IntakeTypeOK
    <3>1. Len(admissions) <= MaxUuid /\ cursor \in 0..Len(admissions)
      BY <2>1, IntakeAssumption DEF IntakeInit
    <3>2. answer.status = 0
      BY DEF IntakeInit, NoAnswer
    <3> QED
      BY <2>1, <3>1, <3>2 DEF IntakeInit, IntakeTypeOK
  <2>3. AdmittedInOrder /\ RelayFollows
    BY <2>1 DEF IntakeInit, AdmittedInOrder, RelayFollows
  <2> QED
    BY <2>2, <2>3 DEF IntakeInv
<1> QED
  BY <1>1, IntakeStep, PTL DEF IntakeSpec

\* However the worker retries, repeats and regroups its POSTs, the log holds every event
\* once, in emission order.
THEOREM LogIsTranscript == IntakeSpec => []AdmittedInOrder
BY IntakeInvariant, PTL DEF IntakeInv

\* What the relay was handed is the transcript up to some event, none twice, none skipped,
\* even when the session closes under a slice.
THEOREM RelayedIsTranscript == IntakeSpec => []RelayedInOrder
<1>1. IntakeInv => RelayedInOrder
  <2> SUFFICES ASSUME IntakeInv, NEW n \in DOMAIN relayed PROVE relayed[n].uuid = n
    BY DEF RelayedInOrder
  <2>1. Len(relayed) \in Nat /\ Len(slice) \in Nat /\ Len(admissions) \in Nat /\ cursor <= Len(admissions)
        /\ cursor = Len(relayed) + Len(slice) /\ n \in 1..Len(relayed) /\ DOMAIN admissions = 1..Len(admissions)
    BY DEF IntakeInv, IntakeTypeOK, RelayFollows
  <2>2. n \in DOMAIN admissions
    BY <2>1
  <2> QED
    BY <2>1, <2>2 DEF IntakeInv, RelayFollows, AdmittedInOrder
<1> QED
  BY <1>1, IntakeInvariant, PTL

-----------------------------------------------------------------------------
(* The poll-tail stream                                                    *)

\* The k lowest of S: ascending, of S, and none of S below the last is left out.
LEMMA LowestIs ==
  ASSUME NEW S \in SUBSET Nat, NEW k \in Nat, NEW q \in Lowest(S, k)
  PROVE  /\ q \in Seq(S) /\ Len(q) \in Nat /\ DOMAIN q = 1..Len(q) /\ Ascends(q)
         /\ q = <<>> <=> Len(q) = 0
         /\ q # <<>> =>
              /\ EndOf(q) \in S
              /\ \A i \in 1..Len(q) : q[i] <= EndOf(q)
              /\ \A x \in S : x <= EndOf(q) => \E i \in 1..Len(q) : q[i] = x
<1>1. PICK n \in 0..k : q \in [1..n -> S]
  BY DEF Lowest
<1>2. q \in Seq(S) /\ Len(q) = n /\ DOMAIN q = 1..n /\ n \in Nat
  BY <1>1
<1>3. /\ Ascends(q)
      /\ \/ Holds(q, S)
         \/ Len(q) = k /\ \A x \in S : (\E i \in 1..k : q[i] = x) \/ (\A i \in 1..k : q[i] < x)
  BY DEF Lowest
<1>4. ASSUME q # <<>>
      PROVE  /\ EndOf(q) \in S /\ \A i \in 1..n : q[i] <= EndOf(q)
             /\ \A x \in S : x <= EndOf(q) => \E i \in 1..n : q[i] = x
  <2>1. n \in 1..n /\ EndOf(q) = q[n] /\ q[n] \in S
    BY <1>2, <1>4 DEF EndOf
  <2>2. \A i \in 1..n : i < n \/ i = n
    BY <1>2
  <2>3. \A i \in 1..n : q[i] \in S /\ q[i] \in Nat
    BY <1>1
  <2>4. \A i \in 1..n : q[i] <= q[n]
    BY <1>2, <1>3, <2>1, <2>2, <2>3 DEF Ascends
  <2>5. ASSUME NEW x \in S, x <= q[n] PROVE \E i \in 1..n : q[i] = x
    <3>1. CASE Holds(q, S)
      BY <1>2, <3>1 DEF Holds
    <3>2. CASE Len(q) = k /\ \A y \in S : (\E i \in 1..k : q[i] = y) \/ (\A i \in 1..k : q[i] < y)
      <4>1. x \in Nat /\ q[n] \in Nat
        BY <2>1
      <4>2. ~(q[n] < x)
        BY <2>5, <4>1
      <4> QED
        BY <1>2, <2>1, <3>2, <4>2
    <3> QED
      BY <1>3, <3>1, <3>2
  <2> QED
    BY <2>1, <2>4, <2>5
<1> QED
  BY <1>2, <1>3, <1>4

\* The rows resolveCursor skips.
LEMMA SkippedIs ==
  ASSUME StreamTypeOK, NEW g, NEW start \in Int
  PROVE  Skipped(g, start) \in Nat /\ RowsOf(g) \in SUBSET Nat
<1>1. Len(rows) \in Nat
  BY DEF StreamTypeOK
<1>2. IsFiniteSet(RowsOf(g))
  <2>1. IsFiniteSet(1..Len(rows))
    BY <1>1, FS_Interval
  <2>2. RowsOf(g) \in SUBSET (1..Len(rows))
    BY DEF RowsOf
  <2> QED
    BY <2>1, <2>2, FS_Subset
<1>3. Cardinality(RowsOf(g)) \in Nat
  BY <1>2, FS_CardinalityType
<1> QED
  BY <1>1, <1>3 DEF Skipped, RowsOf

\* What a stream has delivered, said of its rows.
IsDelivered(s, q, a, b) ==
    /\ Ascends(q)
    /\ \A i \in 1..Len(rows) : rows[i] = joined[s] /\ a < i /\ i <= b => \E m \in DOMAIN q : q[m] = i
    /\ \A m \in DOMAIN q : q[m] \in 1..Len(rows) /\ rows[q[m]] = joined[s] /\ a < q[m] /\ q[m] <= b

LEMMA DeliveredIs ==
  ASSUME NEW s \in Subscribers, NEW q, NEW a, NEW b
  PROVE  Delivered(q, {i \in RowsOf(joined[s]) : a < i /\ i <= b})
         <=> IsDelivered(s, q, a, b)
  BY DEF IsDelivered, Delivered, Holds, RowsOf

\* One stream, said pointwise.
At(s) ==
    /\ StreamAt(s)
    /\ Open(s) => Delivered(got[s], {i \in RowsOf(joined[s]) : first[s] < i /\ i <= pos[s]})

LEMMA InvIs == StreamInv <=> StreamTypeOK /\ Len(rows) <= MaxRows /\ \A s \in Subscribers : At(s)
  BY DEF StreamInv, ContiguousReplay, At

LEMMA InvIsNext ==
  ASSUME StreamTypeOK', Len(rows') <= MaxRows, \A s \in Subscribers : At(s)' PROVE StreamInv'
  BY DEF StreamInv, ContiguousReplay, At

\* A step that leaves a stream and the rows below its cursor alone leaves it as it was.
LEMMA OthersStay ==
  ASSUME StreamInv, NEW s \in Subscribers,
         mode'[s] = mode[s], joined'[s] = joined[s], pos'[s] = pos[s], fails'[s] = fails[s],
         first'[s] = first[s], got'[s] = got[s],
         Len(rows') \in Nat, Len(rows) <= Len(rows'), \A i \in 1..Len(rows) : rows'[i] = rows[i]
  PROVE  At(s)'
<1>1. At(s) /\ Len(rows) \in Nat /\ pos[s] \in Nat /\ first[s] \in Nat
  BY InvIs DEF StreamTypeOK
<1>2. StreamAt(s)'
  BY <1>1 DEF At, StreamAt
<1>3. ASSUME Open(s)' PROVE Delivered(got[s], {i \in RowsOf(joined[s]) : first[s] < i /\ i <= pos[s]})'
  <2>1. {i \in RowsOf(joined[s]) : first[s] < i /\ i <= pos[s]}' = {i \in RowsOf(joined[s]) : first[s] < i /\ i <= pos[s]}
    BY <1>1 DEF RowsOf, At, StreamAt
  <2> QED
    BY <1>1, <1>3, <2>1 DEF At, Open, Delivered, Ascends, Holds
<1> QED
  BY <1>2, <1>3 DEF At

\* Two sequences, one after the other.
LEMMA JoinedIs ==
  ASSUME NEW D, NEW p \in Seq(D), NEW q \in Seq(D)
  PROVE  /\ p \o q \in Seq(D) /\ Len(p) \in Nat /\ Len(q) \in Nat /\ Len(p \o q) = Len(p) + Len(q)
         /\ DOMAIN (p \o q) = 1..(Len(p) + Len(q)) /\ DOMAIN p = 1..Len(p) /\ DOMAIN q = 1..Len(q)
         /\ \A i \in 1..Len(p) : (p \o q)[i] = p[i]
         /\ \A i \in 1..Len(q) : (p \o q)[Len(p) + i] = q[i]
  OBVIOUS

LEMMA StreamStep == StreamInv /\ [StreamNext]_streamVars => StreamInv'
<1> SUFFICES ASSUME StreamInv, [StreamNext]_streamVars PROVE StreamInv'
  OBVIOUS
<1>0. /\ StreamTypeOK /\ Len(rows) <= MaxRows /\ \A s \in Subscribers : At(s)
      /\ Len(rows) \in Nat /\ DOMAIN rows = 1..Len(rows)
  BY InvIs DEF StreamTypeOK
<1> USE StreamAssumption
<1>1. CASE UNCHANGED streamVars
  BY <1>1 DEF StreamInv, StreamTypeOK, StreamAt, ContiguousReplay, Open, Delivered, Ascends, Holds, RowsOf,
     streamVars, channel, stream, history
<1>2. CASE Publish
  <2>1. /\ Len(rows) < MaxRows /\ shut' = FALSE /\ rows' = Append(rows, gen')
        /\ gen' = IF shut THEN gen + 1 ELSE gen
        /\ shut => gen < MaxGen
        /\ UNCHANGED <<mode, joined, wanted, pos, fails, first, got, broken, faults>>
    BY <1>2 DEF Publish, stream, history
  <2>2. gen' \in 0..MaxGen
    BY <1>0, <2>1 DEF StreamTypeOK
  <2>3. rows' \in Seq(0..MaxGen) /\ Len(rows') = Len(rows) + 1 /\ \A i \in 1..Len(rows) : rows'[i] = rows[i]
    BY <1>0, <2>1, <2>2 DEF StreamTypeOK
  <2>4. StreamTypeOK'
    BY <1>0, <2>1, <2>2, <2>3 DEF StreamTypeOK
  <2>5. \A s \in Subscribers : At(s)'
    BY <1>0, <2>1, <2>3, OthersStay
  <2> QED
    BY <1>0, <2>1, <2>3, <2>4, <2>5, InvIsNext
<1>3. CASE CloseChannel
  <2>1. shut' = TRUE /\ UNCHANGED <<rows, gen, mode, joined, wanted, pos, fails, first, got, broken, faults>>
    BY <1>3 DEF CloseChannel, stream, history
  <2>2. StreamTypeOK'
    BY <1>0, <2>1 DEF StreamTypeOK
  <2>3. \A s \in Subscribers : At(s)'
    BY <1>0, <2>1, OthersStay
  <2> QED
    BY <1>0, <2>1, <2>2, <2>3, InvIsNext
<1>4. ASSUME NEW s \in Subscribers, Subscribe(s) PROVE StreamInv'
  <2>1. PICK k \in StartIndexes : wanted' = [wanted EXCEPT ![s] = k]
    BY <1>4 DEF Subscribe
  <2>2. /\ mode[s] = "idle" /\ joined' = [joined EXCEPT ![s] = gen]
        /\ mode' = [mode EXCEPT ![s] = "resolve"]
        /\ UNCHANGED <<rows, gen, shut, pos, fails, first, got, broken, faults>>
    BY <1>4 DEF Subscribe, channel, history
  <2>3. StreamTypeOK'
    BY <1>0, <2>1, <2>2 DEF StreamTypeOK
  <2>4. At(s)'
    BY <1>0, <2>2 DEF At, StreamAt, StreamTypeOK, Open
  <2>5. ASSUME NEW t \in Subscribers, t # s PROVE At(t)'
    BY <1>0, <2>2, <2>5, OthersStay DEF StreamTypeOK
  <2> QED
    BY <1>0, <2>2, <2>3, <2>4, <2>5, InvIsNext
<1>5. ASSUME NEW s \in Subscribers, ResolveCursor(s) PROVE StreamInv'
  <2>1. PICK passed \in Lowest(RowsOf(joined[s]), Skipped(joined[s], wanted[s])) :
           pos' = [pos EXCEPT ![s] = IF passed = <<>> THEN 0 ELSE EndOf(passed)]
    BY <1>5 DEF ResolveCursor
  <2>2. /\ mode[s] = "resolve" /\ first' = [first EXCEPT ![s] = pos'[s]]
        /\ mode' = [mode EXCEPT ![s] = "poll"]
        /\ UNCHANGED <<rows, gen, shut, joined, wanted, fails, got, broken, faults>>
    BY <1>5 DEF ResolveCursor, channel
  <2>3. wanted[s] \in Int
    <3>1. wanted[s] \in StartIndexes \union {0}
      BY <1>0, Zenon DEF StreamTypeOK
    <3>2. \A k \in StartIndexes : k \in Int
      BY StreamAssumption
    <3>3. 0 \in Int
      OBVIOUS
    <3> QED
      BY <3>1, <3>2, <3>3, Zenon
  <2>4. RowsOf(joined[s]) \in SUBSET Nat /\ Skipped(joined[s], wanted[s]) \in Nat
    BY <1>0, <2>3, SkippedIs
  <2>5. passed # <<>> => EndOf(passed) \in RowsOf(joined[s])
    BY <2>4, LowestIs
  <2> DEFINE start == IF passed = <<>> THEN 0 ELSE EndOf(passed)
  <2>6. start \in 0..Len(rows) /\ start \in 0..MaxRows
    BY <1>0, <2>5 DEF RowsOf
  <2>7. pos'[s] = start /\ first'[s] = start
    BY <1>0, <2>1, <2>2 DEF StreamTypeOK
  <2> HIDE DEF start
  <2>8. StreamTypeOK'
    BY <1>0, <2>1, <2>2, <2>6, <2>7 DEF StreamTypeOK, start
  <2>9. At(s)'
    <3>1. got'[s] = <<>> /\ fails'[s] = 0 /\ mode'[s] = "poll"
      BY <1>0, <2>2 DEF At, StreamAt, StreamTypeOK
    <3>2. StreamAt(s)'
      BY <1>0, <2>2, <2>6, <2>7, <3>1 DEF StreamAt
    <3>3. {i \in RowsOf(joined[s]) : first[s] < i /\ i <= pos[s]}' = {}
      BY <1>0, <2>2, <2>6, <2>7 DEF RowsOf
    <3>4. Delivered(<<>>, {})
      BY DEF Delivered, Ascends, Holds
    <3> QED
      BY <3>1, <3>2, <3>3, <3>4 DEF At
  <2>10. ASSUME NEW t \in Subscribers, t # s PROVE At(t)'
    BY <1>0, <2>1, <2>2, <2>10, OthersStay DEF StreamTypeOK
  <2> QED
    BY <1>0, <2>2, <2>8, <2>9, <2>10, InvIsNext
<1>6. ASSUME NEW s \in Subscribers, PollFrames(s) PROVE StreamInv'
  <2> DEFINE S == {i \in RowsOf(joined[s]) : i > pos[s]}
  <2>1. PICK batch \in Lowest(S, BatchLimit) :
          \/ /\ batch = <<>>
             /\ mode' = [mode EXCEPT ![s] = "drained"]
             /\ fails' = [fails EXCEPT ![s] = fails[s]]
             /\ UNCHANGED <<pos, got, broken>>
          \/ /\ batch # <<>>
             /\ got' = [got EXCEPT ![s] = got[s] \o batch]
             /\ pos' = [pos EXCEPT ![s] = EndOf(batch)]
             /\ fails' = [fails EXCEPT ![s] = 0]
             /\ broken' = [broken EXCEPT ![s] = 0]
             /\ UNCHANGED mode
    BY <1>6 DEF PollFrames, Batch, FailsAfterEmpty
  <2>2. mode[s] = "poll" /\ UNCHANGED <<rows, gen, shut, joined, wanted, first, faults>>
    BY <1>6 DEF PollFrames, channel
  <2>3. S \in SUBSET Nat /\ BatchLimit \in Nat
    BY DEF RowsOf
  <2>4. /\ batch \in Seq(S) /\ Len(batch) \in Nat /\ DOMAIN batch = 1..Len(batch) /\ Ascends(batch)
        /\ batch = <<>> <=> Len(batch) = 0
        /\ batch # <<>> =>
             /\ EndOf(batch) \in S
             /\ \A i \in 1..Len(batch) : batch[i] <= EndOf(batch)
             /\ \A x \in S : x <= EndOf(batch) => \E i \in 1..Len(batch) : batch[i] = x
    <3> HIDE DEF S
    <3> QED
      BY <2>3, LowestIs
  <2>5. CASE batch = <<>> /\ mode' = [mode EXCEPT ![s] = "drained"]
             /\ fails' = [fails EXCEPT ![s] = fails[s]] /\ UNCHANGED <<pos, got, broken>>
    <3>1. fails' = fails
      BY <1>0, <2>5 DEF StreamTypeOK
    <3>2. StreamTypeOK'
      BY <1>0, <2>2, <2>5, <3>1 DEF StreamTypeOK
    <3>3. At(s)'
      <4>1. mode'[s] = "drained"
        BY <1>0, <2>5 DEF StreamTypeOK
      <4> QED
        BY <1>0, <2>2, <2>5, <3>1, <4>1 DEF At, StreamAt, Open, Delivered, Ascends, Holds, RowsOf
    <3>4. ASSUME NEW t \in Subscribers, t # s PROVE At(t)'
      BY <1>0, <2>2, <2>5, <3>1, <3>4, OthersStay DEF StreamTypeOK
    <3> QED
      BY <1>0, <2>2, <3>2, <3>3, <3>4, InvIsNext
  <2>6. CASE batch # <<>> /\ got' = [got EXCEPT ![s] = got[s] \o batch]
             /\ pos' = [pos EXCEPT ![s] = EndOf(batch)] /\ fails' = [fails EXCEPT ![s] = 0]
             /\ broken' = [broken EXCEPT ![s] = 0] /\ UNCHANGED mode
    <3> DEFINE end == EndOf(batch)
               more == got[s] \o batch
               n == Len(got[s])
               k == Len(batch)
    <3>1. end \in S /\ end \in 1..Len(rows) /\ end \in 0..MaxRows /\ pos[s] < end
      BY <1>0, <2>4, <2>6 DEF RowsOf
    <3>2. /\ pos'[s] = end /\ got'[s] = more /\ fails'[s] = 0 /\ mode'[s] = "poll"
          /\ joined'[s] = joined[s] /\ first'[s] = first[s] /\ rows' = rows
      BY <1>0, <2>2, <2>6 DEF StreamTypeOK
    <3>3. got[s] \in Seq(1..MaxRows) /\ batch \in Seq(1..MaxRows)
      <4>1. S \in SUBSET (1..MaxRows)
        BY <1>0 DEF RowsOf
      <4>2. got[s] \in Seq(1..MaxRows)
        BY <1>0 DEF StreamTypeOK
      <4> DEFINE D == 1..MaxRows
      <4>3. S \in SUBSET D /\ batch \in Seq(S)
        BY <2>4, <4>1
      <4> HIDE DEF S, D
      <4>4. batch \in Seq(D)
        BY <4>3
      <4> QED
        BY <4>2, <4>4 DEF D
    <3>4. /\ more \in Seq(1..MaxRows) /\ n \in Nat /\ k \in Nat /\ Len(more) = n + k
          /\ DOMAIN more = 1..(n + k) /\ DOMAIN got[s] = 1..n /\ DOMAIN batch = 1..k
          /\ \A i \in 1..n : more[i] = got[s][i]
          /\ \A i \in 1..k : more[n + i] = batch[i]
      BY <3>3, JoinedIs
    <3> HIDE DEF end, more, n, k
    <3>5. StreamTypeOK'
      <4>1. got' \in [Subscribers -> Seq(1..MaxRows)] /\ pos' \in [Subscribers -> 0..MaxRows]
        BY <1>0, <2>6, <3>1, <3>4 DEF StreamTypeOK, end, more
      <4>2. fails' \in [Subscribers -> 0..MaxFailures] /\ broken' \in [Subscribers -> Nat]
        BY <1>0, <2>6 DEF StreamTypeOK
      <4> QED
        BY <1>0, <2>2, <2>6, <4>1, <4>2 DEF StreamTypeOK
    <3>6. /\ first[s] <= pos[s] /\ first[s] \in Nat /\ pos[s] \in Nat
          /\ Ascends(got[s])
          /\ \A i \in 1..Len(rows) : rows[i] = joined[s] /\ first[s] < i /\ i <= pos[s] => \E m \in 1..n : got[s][m] = i
          /\ \A m \in 1..n : got[s][m] \in 1..Len(rows) /\ rows[got[s][m]] = joined[s]
                             /\ first[s] < got[s][m] /\ got[s][m] <= pos[s]
      <4>1. Delivered(got[s], {i \in RowsOf(joined[s]) : first[s] < i /\ i <= pos[s]})
        BY <1>0, <2>2 DEF At, Open
      <4>2. first[s] <= pos[s]
        BY <1>0 DEF At, StreamAt
      <4>3. first[s] \in 0..MaxRows /\ pos[s] \in 0..MaxRows
        BY <1>0 DEF StreamTypeOK
      <4>4. first[s] \in Nat /\ pos[s] \in Nat
        BY <4>3
      <4>5. IsDelivered(s, got[s], first[s], pos[s])
        BY <4>1, DeliveredIs
      <4> QED
        BY <3>4, <4>2, <4>4, <4>5 DEF IsDelivered
    <3>7. \A i \in 1..k : batch[i] \in 1..Len(rows) /\ rows[batch[i]] = joined[s] /\ pos[s] < batch[i] /\ batch[i] <= end
      BY <2>4, <2>6, <3>4 DEF RowsOf, k, end
    <3>8. \A j \in 1..(n + k) : j \in 1..n \/ (j - n \in 1..k /\ n + (j - n) = j)
      BY <3>4
    <3>9. \A j \in 1..(n + k) : \/ j \in 1..n /\ more[j] = got[s][j]
                                \/ j - n \in 1..k /\ more[j] = batch[j - n]
      BY <3>4, <3>8
    <3>10. Ascends(more)
      <4> SUFFICES ASSUME NEW i \in 1..(n + k), NEW j \in 1..(n + k), i < j PROVE more[i] < more[j]
        BY <3>4 DEF Ascends
      <4>1. CASE i \in 1..n /\ j \in 1..n
        BY <3>4, <3>6, <4>1 DEF Ascends
      <4>2. CASE i \in 1..n /\ j \notin 1..n
        <5>1. more[i] = got[s][i] /\ more[i] \in 1..Len(rows) /\ more[i] <= pos[s]
          BY <3>4, <3>6, <4>2
        <5>2. j - n \in 1..k /\ more[j] = batch[j - n]
          BY <3>9, <4>2
        <5>3. more[j] \in 1..Len(rows) /\ pos[s] < more[j]
          BY <3>7, <5>2
        <5> QED
          BY <3>6, <5>1, <5>3
      <4>3. CASE i \notin 1..n /\ j \notin 1..n
        <5>1. i - n \in 1..k /\ more[i] = batch[i - n] /\ j - n \in 1..k /\ more[j] = batch[j - n]
          BY <3>9, <4>3
        <5>2. i - n < j - n
          BY <3>4
        <5>3. \A a, b \in 1..k : a < b => batch[a] < batch[b]
          BY <2>4, <3>4 DEF Ascends
        <5> QED
          BY <5>1, <5>2, <5>3
      <4>4. ~(i \notin 1..n /\ j \in 1..n)
        BY <3>4
      <4> QED
        BY <4>1, <4>2, <4>3, <4>4
    <3>11. ASSUME NEW i \in 1..Len(rows), rows[i] = joined[s], first[s] < i, i <= end
           PROVE  \E m \in 1..(n + k) : more[m] = i
      <4>1. CASE i <= pos[s]
        <5>1. PICK m \in 1..n : got[s][m] = i
          BY <3>6, <3>11, <4>1
        <5>2. m \in 1..(n + k)
          BY <3>4
        <5> QED
          BY <3>4, <5>1, <5>2
      <4>2. CASE ~(i <= pos[s])
        <5>1. i \in S
          BY <3>6, <3>11, <4>2 DEF RowsOf
        <5>2. PICK m \in 1..k : batch[m] = i
          BY <2>4, <2>6, <3>11, <5>1 DEF end, k
        <5>3. n + m \in 1..(n + k)
          BY <3>4
        <5> QED
          BY <3>4, <5>2, <5>3
      <4> QED
        BY <4>1, <4>2
    <3>12. ASSUME NEW m \in 1..(n + k)
           PROVE  more[m] \in 1..Len(rows) /\ rows[more[m]] = joined[s] /\ first[s] < more[m] /\ more[m] <= end
      <4>1. CASE m \in 1..n
        <5>1. more[m] = got[s][m]
          BY <3>4, <4>1
        <5>2. got[s][m] \in 1..Len(rows) /\ rows[got[s][m]] = joined[s] /\ first[s] < got[s][m] /\ got[s][m] <= pos[s]
          BY <3>6, <4>1
        <5> QED
          BY <3>1, <3>6, <5>1, <5>2
      <4>2. CASE m \notin 1..n
        <5>1. m - n \in 1..k /\ more[m] = batch[m - n]
          BY <3>9, <4>2
        <5> QED
          BY <3>6, <3>7, <5>1
      <4> QED
        BY <4>1, <4>2
    <3>13. Delivered(more, {i \in RowsOf(joined[s]) : first[s] < i /\ i <= end})
      <4>1. IsDelivered(s, more, first[s], end)
        BY <3>4, <3>10, <3>11, <3>12 DEF IsDelivered
      <4> QED
        BY <4>1, DeliveredIs
    <3>14. At(s)'
      <4>1. {i \in RowsOf(joined[s]) : first[s] < i /\ i <= pos[s]}' = {i \in RowsOf(joined[s]) : first[s] < i /\ i <= end}
        BY <3>2 DEF RowsOf
      <4>2. StreamAt(s)'
        BY <3>1, <3>2, <3>6 DEF StreamAt
      <4> QED
        BY <3>2, <3>13, <4>1, <4>2 DEF At
    <3>15. ASSUME NEW t \in Subscribers, t # s PROVE At(t)'
      BY <1>0, <2>2, <2>6, <3>15, OthersStay DEF StreamTypeOK
    <3> QED
      BY <1>0, <2>2, <3>5, <3>14, <3>15, InvIsNext
  <2> QED
    BY <2>1, <2>5, <2>6
<1>7. ASSUME NEW s \in Subscribers, PollState(s) PROVE StreamInv'
  <2>1. /\ mode[s] = "drained"
        /\ mode' = [mode EXCEPT ![s] = IF shut \/ gen # joined[s] THEN "ended" ELSE "poll"]
        /\ fails' = [fails EXCEPT ![s] = 0] /\ broken' = [broken EXCEPT ![s] = 0]
        /\ UNCHANGED <<rows, gen, shut, joined, wanted, pos, first, got, faults>>
    BY <1>7 DEF PollState, channel
  <2>2. mode'[s] \in {"ended", "poll"} /\ fails'[s] = 0
    BY <1>0, <2>1 DEF StreamTypeOK
  <2>3. StreamTypeOK'
    <3>1. fails' \in [Subscribers -> 0..MaxFailures] /\ broken' \in [Subscribers -> Nat]
      BY <1>0, <2>1 DEF StreamTypeOK
    <3>2. mode' \in [Subscribers -> {"idle", "resolve", "poll", "drained", "ended", "errored"}]
      BY <1>0, <2>1 DEF StreamTypeOK
    <3> QED
      BY <1>0, <2>1, <3>1, <3>2 DEF StreamTypeOK
  <2>4. At(s)'
    BY <1>0, <2>1, <2>2 DEF At, StreamAt, Open, Delivered, Ascends, Holds, RowsOf
  <2>5. ASSUME NEW t \in Subscribers, t # s PROVE At(t)'
    BY <1>0, <2>1, <2>5, OthersStay DEF StreamTypeOK
  <2> QED
    BY <1>0, <2>1, <2>3, <2>4, <2>5, InvIsNext
<1>8. ASSUME NEW s \in Subscribers, PollFails(s) PROVE StreamInv'
  <2>1. /\ mode[s] \in {"poll", "drained"} /\ faults[s] < MaxFaults
        /\ faults' = [faults EXCEPT ![s] = faults[s] + 1] /\ broken' = [broken EXCEPT ![s] = broken[s] + 1]
        /\ UNCHANGED <<rows, gen, shut, joined, wanted, pos, first, got>>
        /\ \/ /\ fails' = [fails EXCEPT ![s] = fails[s] + 1]
              /\ mode' = [mode EXCEPT ![s] = IF fails'[s] >= MaxFailures THEN "errored" ELSE "poll"]
           \/ mode' = [mode EXCEPT ![s] = "errored"] /\ fails' = fails
    BY <1>8 DEF PollFails, channel
  <2>2. fails[s] \in 0..MaxFailures /\ fails[s] < MaxFailures
    <3>1. fails[s] \in 0..MaxFailures
      BY <1>0 DEF StreamTypeOK
    <3> QED
      BY <1>0, <2>1, <3>1 DEF At, StreamAt
  <2>3. /\ fails' \in [Subscribers -> 0..MaxFailures]
        /\ mode' \in [Subscribers -> {"idle", "resolve", "poll", "drained", "ended", "errored"}]
        /\ mode'[s] \in {"poll", "errored"} /\ (mode'[s] = "poll" => fails'[s] < MaxFailures)
        /\ \A t \in Subscribers \ {s} : mode'[t] = mode[t] /\ fails'[t] = fails[t]
    <3>1. fails[s] + 1 \in 0..MaxFailures
      BY <2>2
    <3>2. /\ mode \in [Subscribers -> {"idle", "resolve", "poll", "drained", "ended", "errored"}]
          /\ fails \in [Subscribers -> 0..MaxFailures]
      BY <1>0 DEF StreamTypeOK
    <3>3. CASE /\ fails' = [fails EXCEPT ![s] = fails[s] + 1]
               /\ mode' = [mode EXCEPT ![s] = IF fails'[s] >= MaxFailures THEN "errored" ELSE "poll"]
      <4>1. fails'[s] = fails[s] + 1
        BY <3>2, <3>3
      <4>2. fails' \in [Subscribers -> 0..MaxFailures]
        BY <3>1, <3>2, <3>3
      <4>3. mode'[s] = IF fails'[s] >= MaxFailures THEN "errored" ELSE "poll"
        BY <3>2, <3>3
      <4>4. ~(fails'[s] >= MaxFailures) => fails'[s] < MaxFailures
        BY <3>1, <4>1
      <4> QED
        BY <3>2, <3>3, <4>1, <4>2, <4>3, <4>4
    <3>4. CASE mode' = [mode EXCEPT ![s] = "errored"] /\ fails' = fails
      BY <3>2, <3>4
    <3> QED
      BY <2>1, <3>3, <3>4
  <2>4. StreamTypeOK'
    <3>1. faults' \in [Subscribers -> 0..MaxFaults] /\ broken' \in [Subscribers -> Nat]
      <4>1. faults[s] + 1 \in 0..MaxFaults /\ broken[s] + 1 \in Nat
        <5>1. faults[s] \in 0..MaxFaults /\ broken[s] \in Nat
          BY <1>0 DEF StreamTypeOK
        <5> QED
          BY <2>1, <5>1
      <4> QED
        BY <1>0, <2>1, <4>1 DEF StreamTypeOK
    <3> QED
      BY <1>0, <2>1, <2>3, <3>1 DEF StreamTypeOK
  <2>5. At(s)'
    <3>1. /\ mode'[s] \in {"poll", "errored"} /\ (mode'[s] = "poll" => fails'[s] < MaxFailures)
          /\ got'[s] = got[s] /\ first'[s] = first[s] /\ pos'[s] = pos[s] /\ joined'[s] = joined[s] /\ rows' = rows
      BY <2>1, <2>3
    <3>2. first[s] <= pos[s] /\ pos[s] <= Len(rows)
          /\ Delivered(got[s], {i \in RowsOf(joined[s]) : first[s] < i /\ i <= pos[s]})
      BY <1>0, <2>1 DEF At, StreamAt, Open
    <3>3. StreamAt(s)'
      <4>1. mode'[s] \notin {"idle", "resolve", "drained"}
        BY <3>1
      <4>2. first'[s] <= pos'[s] /\ pos'[s] <= Len(rows')
        BY <3>1, <3>2, Zenon
      <4> QED
        BY <3>1, <4>1, <4>2 DEF StreamAt
    <3>4. {i \in RowsOf(joined[s]) : first[s] < i /\ i <= pos[s]}' = {i \in RowsOf(joined[s]) : first[s] < i /\ i <= pos[s]}
      BY <3>1 DEF RowsOf
    <3> QED
      BY <3>1, <3>2, <3>3, <3>4 DEF At
  <2>6. ASSUME NEW t \in Subscribers, t # s PROVE At(t)'
    BY <1>0, <2>1, <2>3, <2>6, OthersStay DEF StreamTypeOK
  <2> QED
    BY <1>0, <2>1, <2>4, <2>5, <2>6, InvIsNext
<1>9. ASSUME NEW s \in Subscribers, Leave(s) PROVE StreamInv'
  <2>1. /\ mode' = [mode EXCEPT ![s] = "idle"] /\ joined' = [joined EXCEPT ![s] = 0]
        /\ wanted' = [wanted EXCEPT ![s] = 0] /\ pos' = [pos EXCEPT ![s] = 0]
        /\ fails' = [fails EXCEPT ![s] = 0] /\ first' = [first EXCEPT ![s] = 0]
        /\ got' = [got EXCEPT ![s] = <<>>] /\ broken' = [broken EXCEPT ![s] = 0]
        /\ UNCHANGED <<rows, gen, shut, faults>>
    BY <1>9 DEF Leave, channel
  <2>2. StreamTypeOK'
    <3>1. <<>> \in Seq(1..MaxRows)
      OBVIOUS
    <3>2. got' \in [Subscribers -> Seq(1..MaxRows)]
      BY <1>0, <2>1, <3>1 DEF StreamTypeOK
    <3>3. /\ joined' \in [Subscribers -> 0..MaxGen] /\ wanted' \in [Subscribers -> StartIndexes \union {0}]
          /\ pos' \in [Subscribers -> 0..MaxRows] /\ fails' \in [Subscribers -> 0..MaxFailures]
      BY <1>0, <2>1 DEF StreamTypeOK
    <3>4. first' \in [Subscribers -> 0..MaxRows] /\ broken' \in [Subscribers -> Nat]
      BY <1>0, <2>1 DEF StreamTypeOK
    <3>5. mode' \in [Subscribers -> {"idle", "resolve", "poll", "drained", "ended", "errored"}]
      BY <1>0, <2>1 DEF StreamTypeOK
    <3> QED
      BY <1>0, <2>1, <3>2, <3>3, <3>4, <3>5 DEF StreamTypeOK
  <2>3. At(s)'
    <3>1. mode'[s] = "idle" /\ got'[s] = <<>> /\ fails'[s] = 0 /\ first'[s] = 0 /\ pos'[s] = 0
      BY <1>0, <2>1 DEF StreamTypeOK
    <3> QED
      BY <1>0, <2>1, <3>1 DEF At, StreamAt, Open
  <2>4. ASSUME NEW t \in Subscribers, t # s PROVE At(t)'
    BY <1>0, <2>1, <2>4, OthersStay DEF StreamTypeOK
  <2> QED
    BY <1>0, <2>1, <2>2, <2>3, <2>4, InvIsNext
<1> QED
  BY <1>1, <1>2, <1>3, <1>4, <1>5, <1>6, <1>7, <1>8, <1>9 DEF StreamNext, Poll

\* The inductive invariant of the poll-tail stream.
THEOREM StreamInvariant == StreamSpec => []StreamInv
<1>1. StreamInit => StreamInv
  <2> SUFFICES ASSUME StreamInit PROVE StreamInv
    OBVIOUS
  <2>1. <<>> \in Seq(0..MaxGen) /\ <<>> \in Seq(1..MaxRows) /\ Len(<<>>) = 0
    OBVIOUS
  <2>2. StreamTypeOK
    <3>1. rows \in Seq(0..MaxGen) /\ gen \in 0..MaxGen /\ shut \in BOOLEAN
      <4>1. rows \in Seq(0..MaxGen)
        BY <2>1, Zenon DEF StreamInit
      <4>2. gen \in 0..MaxGen
        BY StreamAssumption DEF StreamInit
      <4>3. shut \in BOOLEAN
        BY Zenon DEF StreamInit
      <4> QED
        BY <4>1, <4>2, <4>3
    <3>2. /\ mode \in [Subscribers -> {"idle", "resolve", "poll", "drained", "ended", "errored"}]
          /\ joined \in [Subscribers -> 0..MaxGen] /\ wanted \in [Subscribers -> StartIndexes \union {0}]
      BY StreamAssumption DEF StreamInit
    <3>3. pos \in [Subscribers -> 0..MaxRows] /\ fails \in [Subscribers -> 0..MaxFailures]
      BY StreamAssumption DEF StreamInit
    <3>4. first \in [Subscribers -> 0..MaxRows] /\ got \in [Subscribers -> Seq(1..MaxRows)]
      BY <2>1, StreamAssumption DEF StreamInit
    <3>5. broken \in [Subscribers -> Nat] /\ faults \in [Subscribers -> 0..MaxFaults]
      BY StreamAssumption DEF StreamInit
    <3> QED
      BY <3>1, <3>2, <3>3, <3>4, <3>5 DEF StreamTypeOK
  <2>3. Len(rows) <= MaxRows /\ \A s \in Subscribers : At(s)
    BY <2>1, StreamAssumption DEF StreamInit, At, StreamAt, Open
  <2> QED
    BY <2>2, <2>3, InvIs
<1> QED
  BY <1>1, StreamStep, PTL DEF StreamSpec

\* Any number of subscribers, rows, generations and failed queries: what a stream delivers
\* is the rows of the generation it joined from its start to its cursor, gapless.
THEOREM ReplayIsContiguous == StreamSpec => []ContiguousReplay
BY StreamInvariant, PTL DEF StreamInv

=============================================================================
