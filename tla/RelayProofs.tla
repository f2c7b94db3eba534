----------------------------- MODULE RelayProofs -----------------------------
(***************************************************************************)
(* Proofs about the host's relay for every set of commands, events and     *)
(* devices and for every bound: types, that a command drives the agent     *)
(* once (DrivenOnce) and only once it is published (DrivenIsPublished),    *)
(* and that the content of a life enters the log in order (GapOnlyAtTail). *)
(* For any number of devices, requests and posted decisions: a device that *)
(* has met every frame of a request shows what the agent was told          *)
(* (CardTellsOutcome).  The relay publishes of a request its outcome and   *)
(* no other (OutcomeShown), and a device folds the frames to one of them,  *)
(* in whatever order it meets them (FoldOfMet).                            *)
(***************************************************************************)
EXTENDS HostRelay, PermissionCards, WellFoundedInduction, TLAPS

-----------------------------------------------------------------------------
(* The commands                                                            *)

USE DEF vars, broker, cursors, pumpIn, unit, agent, bounds

-------------------------------------------------------------------------------
\* What the relay and the viewers post is a frame.
LEMMA FrameType ==
  ASSUME life \in 1..MaxLives
  PROVE  /\ \A c \in Commands : InFrame(c) \in Frames
         /\ \A s \in Nat, c \in Commands : Accepted(s, c) \in Frames /\ Echo(s, c) \in Frames
         /\ \A s \in Nat, e \in Events : Event(s, e) \in Frames
         /\ \A g \in Gates : Resolved(g) \in Frames
<1>1. life \in 0..MaxLives /\ 0 \in 0..MaxLives
  BY BoundsAssumption
<1>2. \A c \in Commands : InFrame(c) \in Frames
  <2> SUFFICES ASSUME NEW c \in Commands PROVE InFrame(c) \in Frames
    OBVIOUS
  <2>1. <<"in", c>> \in {"in"} \X Commands
    OBVIOUS
  <2> QED BY <1>1, <2>1 DEF InFrame, Frames
<1>3. \A s \in Nat, c \in Commands : Accepted(s, c) \in Frames /\ Echo(s, c) \in Frames
  <2> SUFFICES ASSUME NEW s \in Nat, NEW c \in Commands
               PROVE  Accepted(s, c) \in Frames /\ Echo(s, c) \in Frames
    OBVIOUS
  <2> DEFINE kinds == {"accepted", "user", "assistant", "permission_request"}
  <2>1. <<"accepted", s>> \in kinds \X Nat /\ <<"user", s>> \in kinds \X Nat
    OBVIOUS
  <2> QED BY <1>1, <2>1 DEF Accepted, Echo, Frame, Frames
<1>4. \A s \in Nat, e \in Events : Event(s, e) \in Frames
  <2> SUFFICES ASSUME NEW s \in Nat, NEW e \in Events PROVE Event(s, e) \in Frames
    OBVIOUS
  <2> DEFINE kinds == {"accepted", "user", "assistant", "permission_request"}
             kind == IF e \in Gates THEN "permission_request" ELSE "assistant"
  <2>1. <<kind, s>> \in kinds \X Nat
    OBVIOUS
  <2> QED BY <1>1, <2>1 DEF Event, Frame, Frames
<1>5. \A g \in Gates : Resolved(g) \in Frames
  <2> SUFFICES ASSUME NEW g \in Gates PROVE Resolved(g) \in Frames
    OBVIOUS
  <2>1. <<"permresolved", g>> \in {"permresolved"} \X Gates
    OBVIOUS
  <2> QED BY <1>1, <2>1 DEF Resolved, Frame, Frames, Events
<1> QED
  BY <1>2, <1>3, <1>4, <1>5

\* Taking the head off the queue, and putting a unit on it.
LEMMA QueueTail ==
  ASSUME queue \in Seq(Units), queue # <<>>
  PROVE  /\ Head(queue) = queue[1] /\ 1 \in DOMAIN queue /\ Head(queue) \in Units
         /\ Tail(queue) \in Seq(Units)
         /\ \A i \in DOMAIN Tail(queue) : i + 1 \in DOMAIN queue /\ Tail(queue)[i] = queue[i + 1]
         /\ DOMAIN queue = 1..Len(queue) /\ Len(queue) \in Nat
         /\ \A i \in DOMAIN Tail(queue) : i \in Nat /\ i >= 1
OBVIOUS

LEMMA QueueAppend ==
  ASSUME queue \in Seq(Units), NEW u \in Units
  PROVE  /\ Append(queue, u) \in Seq(Units)
         /\ Append(queue, u)[Len(queue) + 1] = u
         /\ \A i \in DOMAIN queue : Append(queue, u)[i] = queue[i]
         /\ DOMAIN Append(queue, u) = DOMAIN queue \union {Len(queue) + 1}
         /\ Len(queue) + 1 \notin DOMAIN queue
OBVIOUS

LEMMA LogAppend ==
  ASSUME log \in Seq(Frames), NEW f \in Frames
  PROVE  /\ Append(log, f) \in Seq(Frames)
         /\ Append(log, f)[Len(log) + 1] = f
         /\ \A i \in DOMAIN log : Append(log, f)[i] = log[i] /\ i <= Len(log) /\ i \in Nat
         /\ DOMAIN Append(log, f) = DOMAIN log \union {Len(log) + 1}
         /\ Len(log) + 1 \notin DOMAIN log /\ Len(log) \in Nat
         /\ Len(Append(log, f)) = Len(log) + 1
OBVIOUS

\* The fields of a frame and of a unit.
LEMMA FrameFields == \A f \in Frames : f.seq \in Nat \union {NoSeq} /\ f.life \in 0..MaxLives
  BY DEF Frames

LEMMA UnitFields ==
  \A u \in Units : /\ u.of \in Commands => u.pump = "in"
                   /\ u.of \in Events => u.pump = "up"
                   /\ u.pump = "in" => u.of \in Commands
                   /\ u.pump = "up" => u.of \in Events
                   /\ u.pump \in {"in", "up"}
  BY KindsAssumption DEF Units

\* The broker's counter is the maximum it is.
LEMMA CursorType == TypeOK /\ SeqHasMax => SeqCursor \in Nat \union {NoSeq}
<1> SUFFICES ASSUME TypeOK, SeqHasMax PROVE SeqCursor \in Nat \union {NoSeq}
  OBVIOUS
<1> DEFINE S == {f.seq : f \in Logged} \union {NoSeq}
<1>1. \E m \in S : \A t \in S : t <= m
  BY DEF SeqHasMax
<1>2. (CHOOSE m \in S : \A t \in S : t <= m) \in S
  BY <1>1
<1>3. S \subseteq Nat \union {NoSeq}
  <2>1. \A f \in Logged : f \in Frames
    BY DEF TypeOK, Logged, ToSet
  <2> QED BY <2>1, FrameFields
<1> QED
  BY <1>2, <1>3 DEF SeqCursor, MaxSeq

-------------------------------------------------------------------------------
\* A set of naturals has a least element.
LEMMA LeastNatural == ASSUME NEW S \in SUBSET Nat, S # {} PROVE \E n \in S : \A m \in S : n <= m
<1>1. PICK x \in S : \A y \in S : ~(<<y, x>> \in OpToRel(<, Nat))
  BY NatLessThanWellFounded, WFMin
<1>2. \A y \in S : <<y, x>> \in OpToRel(<, Nat) <=> y < x
  BY DEF OpToRel
<1>3. \A y \in S : ~(y < x)
  BY <1>1, <1>2, Zenon
<1> QED
  BY <1>3

\* The pump reads the first command behind its position that it has not seen.
LEMMA ReadPicks ==
  ASSUME TypeOK, CommandRows, Read
  PROVE  \E i \in NextCommand :
           /\ i \in DOMAIN log /\ i > pos /\ pos \in Nat
           /\ log[i].id[1] = "in" /\ log[i].of \in Commands /\ log[i].of \notin seen
           /\ pos' = i /\ seen' = seen \union {log[i].of}
           /\ queue' = Append(queue, [pump |-> "in", of |-> log[i].of])
<1>1. pos \in Nat /\ NextCommand # {}
  BY DEF Read, TypeOK
<1>2. NextCommand \in SUBSET Nat /\ DOMAIN log = 1..Len(log) /\ Len(log) \in Nat
  BY <1>1 DEF NextCommand, TypeOK
<1>3. \E k \in NextCommand : \A j \in NextCommand : k <= j
  BY <1>1, <1>2, LeastNatural
<1> DEFINE i == CHOOSE k \in NextCommand : \A j \in NextCommand : k <= j
<1>4. i \in NextCommand
  BY <1>3
<1>5. /\ pos' = i /\ seen' = seen \union {log[i].of}
      /\ queue' = Append(queue, [pump |-> "in", of |-> log[i].of])
  BY Zenon DEF Read
<1> HIDE DEF i
<1>6. i \in DOMAIN log /\ i > pos /\ log[i].id[1] = "in" /\ log[i].of \notin seen
  BY <1>1, <1>2, <1>4 DEF NextCommand
<1>7. log[i].of \in Commands
  BY <1>6 DEF CommandRows
<1> QED
  BY <1>1, <1>4, <1>5, <1>6, <1>7

\* How a unit settles, fails or posts.
QueueType ==
    /\ queue \in Seq(Units)
    /\ \A i, j \in DOMAIN queue : queue[i].pump = queue[j].pump => i = j

UnitType ==
    /\ QueueType
    /\ step \in {"idle", "event", "accept", "echo", "resolve"}
    /\ unitSeq \in Nat \union {NoSeq}
    /\ wait \in Frames \union {NULL} /\ (wait = NULL <=> step = "idle")

OtherType ==
    /\ log \in Seq(Frames) /\ wire \subseteq Frames
    /\ life \in 1..MaxLives /\ phase \in {"prepare", "count", "serving"}
    /\ closed \in BOOLEAN /\ fatal \in BOOLEAN
    /\ seq \in Nat /\ start \in Nat
    /\ pos \in Nat \union {NULL}
    /\ failures \in 0..FailureLimit /\ (failures = FailureLimit => closed)
    /\ seen \subseteq Commands /\ openPerms \subseteq Gates
    /\ applied \in Seq(Commands)
    /\ sentTo \in [Commands -> 0..MaxLives]

LEMMA TypeParts == /\ TypeOK <=> OtherType /\ UnitType
                   /\ TypeOK' <=> OtherType' /\ UnitType'
BY DEF TypeOK, OtherType, UnitType, QueueType

LEMMA FinishType ==
  ASSUME UnitType, queue # <<>>, Finish
  PROVE  UnitType'
<1>1. Tail(queue) \in Seq(Units) /\ \A i, j \in DOMAIN Tail(queue) : Tail(queue)[i].pump = Tail(queue)[j].pump => i = j
  BY QueueTail DEF UnitType, QueueType
<1> QED
  BY <1>1 DEF UnitType, QueueType, Finish

LEMMA FinishRest ==
  ASSUME OtherType, Finish
  PROVE  failures' \in 0..FailureLimit /\ (failures' = FailureLimit => closed) /\ pos' = pos
BY BoundsAssumption DEF OtherType, Finish

LEMMA FailType ==
  ASSUME Fail PROVE UnitType' /\ fatal' = TRUE /\ closed' = TRUE /\ pos' = NULL /\ failures' = failures
BY DEF UnitType, QueueType, Fail

LEMMA PostType ==
  ASSUME OtherType, UnitType, NEW f \in Frames, NEW s \in {"event", "accept", "echo", "resolve"}, Post(f, s),
         queue' = queue, unitSeq' \in Nat \union {NoSeq}
  PROVE  UnitType' /\ wire' \subseteq Frames
BY NullAssumption DEF OtherType, UnitType, QueueType, Post

LEMMA AppendType ==
  ASSUME UnitType, NEW u \in Units, queue' = Append(queue, u), ~Pumping(u.pump),
         UNCHANGED <<step, unitSeq, wait>>
  PROVE  UnitType'
<1>1. \A i \in DOMAIN queue : queue[i].pump # u.pump
  BY DEF Pumping
<1>2. queue' \in Seq(Units) /\ \A i, j \in DOMAIN queue' : queue'[i].pump = queue'[j].pump => i = j
  <2> DEFINE q == Append(queue, u)
  <2>1. /\ q \in Seq(Units) /\ q[Len(queue) + 1] = u
        /\ \A i \in DOMAIN queue : q[i] = queue[i]
        /\ DOMAIN q = DOMAIN queue \union {Len(queue) + 1}
    BY QueueAppend DEF UnitType, QueueType
  <2> HIDE DEF q
  <2>2. \A i, j \in DOMAIN q : q[i].pump = q[j].pump => i = j
    BY <1>1, <2>1 DEF UnitType, QueueType
  <2> QED BY <2>1, <2>2 DEF q
<1> QED
  BY <1>2 DEF UnitType, QueueType

\* Type correctness, one step per action: the queue and its head, then the rest.
LEMMA TypeStep == TypeOK /\ SeqHasMax /\ HeadAwaits /\ CommandRows /\ [Next]_vars => TypeOK'
  <1> SUFFICES ASSUME TypeOK, SeqHasMax, HeadAwaits, CommandRows, [Next]_vars PROVE TypeOK'
    OBVIOUS
  <1> USE TypeParts
  <1>0. OtherType /\ UnitType
    OBVIOUS
  <1>1. ASSUME NEW f \in wire, Store(f) PROVE TypeOK'
    <2>1. UnitType'
      BY <1>1 DEF UnitType, QueueType, Store
    <2>2. OtherType'
      BY <1>1, LogAppend DEF OtherType, Store
    <2> QED BY <2>1, <2>2
  <1>2. ASSUME NEW c \in Commands, Send(c) PROVE TypeOK'
    <2>1. UnitType'
      BY <1>2 DEF UnitType, QueueType, Send
    <2>2. OtherType'
      <3>1. InFrame(c) \in Frames
        BY FrameType DEF OtherType
      <3> QED BY <1>2, <3>1, BoundsAssumption DEF OtherType, Send, Announced
    <2> QED BY <2>1, <2>2
  <1>3. CASE ResumeSeq
    <2>1. UnitType'
      BY <1>3 DEF UnitType, QueueType, ResumeSeq
    <2>2. OtherType'
      BY <1>3, CursorType, TypeParts DEF ResumeSeq, OtherType, NoSeq
    <2> QED BY <2>1, <2>2
  <1>4. CASE ResumeStart
    <2>1. UnitType'
      BY <1>4 DEF UnitType, QueueType, ResumeStart
    <2>2. OtherType'
      BY <1>4 DEF ResumeStart, FrameCount, OtherType
    <2> QED BY <2>1, <2>2
  <1>5. CASE Close
    <2>1. UnitType'
      BY <1>5 DEF UnitType, QueueType, Close
    <2>2. OtherType'
      BY <1>5 DEF OtherType, Close
    <2> QED BY <2>1, <2>2
  <1>6. CASE Restart
    <2>1. UnitType'
      BY <1>6 DEF UnitType, QueueType, Restart
    <2>2. OtherType'
      <3>1. life' \in 1..MaxLives /\ 0 \in 0..FailureLimit /\ 0 # FailureLimit
        BY <1>6, BoundsAssumption DEF Restart, OtherType
      <3>2. /\ phase' = "prepare" /\ closed' = FALSE /\ fatal' = FALSE /\ seq' = 0 /\ start' = 0
            /\ pos' = NULL /\ failures' = 0 /\ seen' = {} /\ openPerms' = {}
            /\ UNCHANGED <<log, wire, applied, sentTo>>
        BY <1>6, Zenon DEF Restart
      <3> QED BY <3>1, <3>2 DEF OtherType
    <2> QED BY <2>1, <2>2
  <1>7. ASSUME NEW e \in Events, PullEvent(e) PROVE TypeOK'
    <2>1. UnitType'
      <3>1. [pump |-> "up", of |-> e] \in Units
        BY DEF Units
      <3> QED BY <1>7, <3>1, AppendType DEF PullEvent, Pulls
    <2>2. OtherType'
      BY <1>7 DEF OtherType, PullEvent, Pulls
    <2> QED BY <2>1, <2>2
  <1>8. ASSUME NEW g \in Gates, PullCancel(g) PROVE TypeOK'
    <2>1. UnitType'
      BY <1>8 DEF UnitType, QueueType, PullCancel, Pulls
    <2>2. OtherType'
      BY <1>8 DEF OtherType, PullCancel, Pulls
    <2> QED BY <2>1, <2>2
  <1>9. CASE Read
    <2>1. UnitType'
      <3>1. PICK i \in NextCommand : /\ log[i].of \in Commands
                                /\ queue' = Append(queue, [pump |-> "in", of |-> log[i].of])
        BY <1>9, ReadPicks
      <3>2. [pump |-> "in", of |-> log[i].of] \in Units
        BY <3>1 DEF Units
      <3>3. ~Pumping("in") /\ UNCHANGED <<step, unitSeq, wait>>
        BY <1>9, Zenon DEF Read
      <3> QED BY <3>1, <3>2, <3>3, AppendType
    <2>2. OtherType'
      <3>1. PICK i \in NextCommand : /\ i > pos /\ pos \in Nat /\ log[i].of \in Commands /\ i \in DOMAIN log
                                /\ pos' = i /\ seen' = seen \union {log[i].of}
        BY <1>9, ReadPicks
      <3>2. i \in Nat
        BY <3>1 DEF OtherType
      <3>3. UNCHANGED <<broker, cursors, closed, fatal, seq, failures, openPerms, agent, sentTo, bounds>>
        BY <1>9, Zenon DEF Read
      <3> QED BY <3>1, <3>2, <3>3 DEF OtherType
    <2> QED BY <2>1, <2>2
  <1>10. CASE Break
    <2>1. UnitType'
      BY <1>10 DEF UnitType, QueueType, Break
    <2>2. OtherType'
      <3>1. PICK f \in {0, failures, failures + 1} :
               /\ failures' = (IF closed THEN failures ELSE f)
               /\ fatal' = (fatal \/ failures' = FailureLimit)
               /\ closed' = (closed \/ failures' = FailureLimit)
               /\ pos' = IF closed' THEN NULL ELSE start
        BY <1>10, Zenon DEF Break
      <3>2. UNCHANGED <<log, wire, life, phase, start, seq, seen, openPerms, applied, sentTo>>
        BY <1>10, Zenon DEF Break
      <3>3. failures' \in 0..FailureLimit /\ (failures' = FailureLimit => closed')
        <4>1. CASE closed
          BY <3>1, <4>1 DEF OtherType
        <4>2. CASE ~closed
          <5>1. failures \in 0..(FailureLimit - 1) /\ f \in 0..FailureLimit
            BY <4>2, BoundsAssumption DEF OtherType
          <5> QED BY <3>1, <4>2, <5>1
        <4> QED BY <4>1, <4>2
      <3>4. closed' \in BOOLEAN /\ fatal' \in BOOLEAN /\ pos' \in Nat \union {NULL}
        BY <3>1 DEF OtherType
      <3> QED BY <3>2, <3>3, <3>4 DEF OtherType
    <2> QED BY <2>1, <2>2
  <1>11. CASE Reject
    <2>1. UnitType'
      BY <1>11, FailType DEF Reject
    <2>2. OtherType'
      BY <1>11 DEF OtherType, Reject, Fail
    <2> QED BY <2>1, <2>2
  <1>12. CASE RunEvent
    <2>0. Event(seq, Head(queue).of) \in Frames
      BY <1>12, FrameType DEF RunEvent, Runs, OtherType
    <2>1. UnitType'
      BY <1>12, <2>0, PostType DEF RunEvent, OtherType
    <2>2. OtherType'
      BY <1>12, <2>0, PostType DEF RunEvent, OtherType
    <2> QED BY <2>1, <2>2
  <1>13. CASE RunPrompt
    <2>0. Accepted(seq, Head(queue).of) \in Frames
      BY <1>13, FrameType DEF RunPrompt, Runs, OtherType, Commands
    <2>1. UnitType'
      BY <1>13, <2>0, PostType DEF RunPrompt, OtherType
    <2>2. OtherType'
      BY <1>13, <2>0, PostType DEF RunPrompt, OtherType
    <2> QED BY <2>1, <2>2
  <1>14. CASE RunAnswer
    <2>1. UnitType'
      <3> DEFINE g == Head(queue).of[2]
      <3>1. queue # <<>> /\ \/ /\ g \in openPerms /\ Post(Resolved(g), "resolve") /\ UNCHANGED <<queue, unitSeq>>
                            \/ Finish
        BY <1>14, Zenon DEF RunAnswer, Runs
      <3>2. CASE Finish
        BY <3>1, <3>2, FinishType
      <3>3. CASE g \in openPerms /\ Post(Resolved(g), "resolve") /\ UNCHANGED <<queue, unitSeq>>
        <4>1. Resolved(g) \in Frames /\ unitSeq' \in Nat \union {NoSeq}
          BY <3>3, FrameType DEF OtherType, UnitType
        <4> QED BY <3>3, <4>1, PostType
      <3> QED BY <3>1, <3>2, <3>3
    <2>2. OtherType'
      <3> DEFINE g == Head(queue).of[2]
      <3>1. /\ UNCHANGED <<log, cursors, closed, fatal, seq, seen, agent, sentTo, bounds>>
            /\ \/ /\ g \in openPerms /\ openPerms' = openPerms \ {g} /\ Post(Resolved(g), "resolve")
                  /\ UNCHANGED <<queue, unitSeq, pos, failures>>
               \/ Finish /\ UNCHANGED <<wire, openPerms>>
        BY <1>14, Zenon DEF RunAnswer
      <3>2. CASE Finish /\ UNCHANGED <<wire, openPerms>>
        BY <3>1, <3>2, FinishRest DEF OtherType
      <3>3. CASE g \in openPerms /\ openPerms' = openPerms \ {g} /\ Post(Resolved(g), "resolve")
                 /\ UNCHANGED <<queue, unitSeq, pos, failures>>
        <4>1. Resolved(g) \in Frames /\ wire' = wire \union {Resolved(g)}
          BY <3>3, FrameType DEF OtherType, Post
        <4>2. wire' \subseteq Frames /\ openPerms' \subseteq Gates
          BY <3>3, <4>1 DEF OtherType
        <4> QED BY <3>1, <3>3, <4>2 DEF OtherType
      <3> QED BY <3>1, <3>2, <3>3
    <2> QED BY <2>1, <2>2
  <1>15. CASE RunInterrupt
    <2>1. UnitType'
      BY <1>15, FinishType DEF RunInterrupt, Runs
    <2>2. OtherType'
      <3>1. Finish /\ Head(queue).of \in Commands
        BY <1>15 DEF RunInterrupt, Runs, Commands
      <3>2. /\ UNCHANGED <<broker, cursors, closed, fatal, seq, seen, emitted, sentTo, bounds>>
            /\ \/ applied' = Append(applied, Head(queue).of) /\ openPerms' = {}
               \/ UNCHANGED <<applied, openPerms>>
        BY <1>15, Zenon DEF RunInterrupt
      <3>3. applied' \in Seq(Commands) /\ openPerms' \subseteq Gates
        <4>1. CASE UNCHANGED <<applied, openPerms>>
          BY <4>1 DEF OtherType
        <4>2. CASE applied' = Append(applied, Head(queue).of) /\ openPerms' = {}
          BY <3>1, <4>2 DEF OtherType
        <4> QED BY <3>2, <4>1, <4>2
      <3> QED BY <3>1, <3>2, <3>3, FinishRest DEF OtherType
    <2> QED BY <2>1, <2>2
  <1>16. CASE PostEcho
    <2>0. unitSeq \in Nat /\ Echo(unitSeq, Head(queue).of) \in Frames
      <3>1. Head(queue).of \in Commands /\ step = "accept" /\ wait \in Logged
        BY <1>16 DEF PostEcho, Answered, HeadAwaits, HeadOf, Commands
      <3>2. unitSeq \in Nat
        BY <3>1 DEF HeadAwaits
      <3> QED BY <3>1, <3>2, FrameType DEF OtherType
    <2>1. UnitType'
      BY <1>16, <2>0, PostType DEF PostEcho, OtherType
    <2>2. OtherType'
      BY <1>16, <2>0, PostType DEF PostEcho, OtherType
    <2> QED BY <2>1, <2>2
  <1>17. CASE EventPublished
    <2>1. UnitType'
      <3>1. queue # <<>> /\ Finish
        BY <1>17 DEF EventPublished, Answered, HeadAwaits, HeadOf
      <3> QED BY <3>1, FinishType
    <2>2. OtherType'
      <3>1. Finish /\ UNCHANGED <<broker, cursors, closed, fatal, seq, seen, openPerms, agent, sentTo, bounds>>
        BY <1>17, Zenon DEF EventPublished
      <3> QED BY <3>1, FinishRest DEF OtherType
    <2> QED BY <2>1, <2>2
  <1>18. CASE DriveAgent
    <2>1. UnitType'
      <3>1. queue # <<>>
        BY <1>18 DEF DriveAgent, Answered, HeadAwaits, HeadOf
      <3>2. Fail \/ Finish
        BY <1>18, Zenon DEF DriveAgent
      <3> QED BY <3>1, <3>2, FailType, FinishType
    <2>2. OtherType'
      <3>1. Head(queue).of \in Commands
        BY <1>18 DEF DriveAgent, Answered, HeadAwaits, HeadOf, Commands
      <3>2. UNCHANGED <<broker, cursors, seq, seen, openPerms, emitted, sentTo, bounds>>
        BY <1>18, Zenon DEF DriveAgent
      <3>3. \/ Fail /\ UNCHANGED applied
            \/ Finish /\ applied' = Append(applied, Head(queue).of) /\ UNCHANGED <<closed, fatal>>
        BY <1>18, Zenon DEF DriveAgent
      <3>4. CASE Fail /\ UNCHANGED applied
        BY <3>2, <3>4, FailType DEF OtherType
      <3>5. CASE Finish /\ applied' = Append(applied, Head(queue).of) /\ UNCHANGED <<closed, fatal>>
        <4>1. applied' \in Seq(Commands)
          BY <3>1, <3>5 DEF OtherType
        <4> QED BY <3>2, <3>5, <4>1, FinishRest DEF OtherType
      <3> QED BY <3>3, <3>4, <3>5
    <2> QED BY <2>1, <2>2
  <1>19. CASE PostFails
    <2>1. UnitType'
      BY <1>19, FailType DEF PostFails
    <2>2. OtherType'
      BY <1>19 DEF OtherType, PostFails, Fail
    <2> QED BY <2>1, <2>2
  <1>20. CASE UNCHANGED vars
    <2>1. UnitType'
      BY <1>20 DEF UnitType, QueueType
    <2>2. OtherType'
      BY <1>20 DEF OtherType
    <2> QED BY <2>1, <2>2
  <1> QED
    BY <1>1, <1>2, <1>3, <1>4, <1>5, <1>6, <1>7, <1>8, <1>9, <1>10, <1>11, <1>12, <1>13,
       <1>14, <1>15, <1>16, <1>17, <1>18, <1>19, <1>20 DEF Next, RunUnit

-------------------------------------------------------------------------------
\* Who changes the log and the posts under way: the broker, the viewers, and whoever posts.
LEMMA LogSteps ==
  ASSUME TypeOK, [Next]_vars
  PROVE  \/ log' = log
         \/ \E f \in wire : f \in Frames /\ log' = Append(log, f) /\ wire' = wire \ {f}
         \/ \E c \in Commands : Send(c)
<1> USE DEF TypeOK
<1>1. ASSUME NEW f \in wire, Store(f)
      PROVE  log' = log \/ (f \in Frames /\ log' = Append(log, f) /\ wire' = wire \ {f})
  BY <1>1 DEF Store
<1>2. CASE ResumeSeq \/ ResumeStart \/ Close \/ Restart \/ Read \/ Break
  BY <1>2, Zenon DEF ResumeSeq, ResumeStart, Close, Restart, Read, Break
<1>3. ASSUME NEW e, PullEvent(e) \/ PullCancel(e) PROVE log' = log
  BY <1>3, Zenon DEF PullEvent, PullCancel
<1>4. CASE Reject \/ RunEvent \/ RunPrompt \/ RunAnswer \/ RunInterrupt
  BY <1>4, Zenon DEF Reject, RunEvent, RunPrompt, RunAnswer, RunInterrupt
<1>5. CASE PostEcho \/ EventPublished \/ DriveAgent \/ PostFails
  BY <1>5, Zenon DEF PostEcho, EventPublished, DriveAgent, PostFails
<1>6. CASE UNCHANGED vars
  BY <1>6, Zenon
<1> QED
  BY <1>1, <1>2, <1>3, <1>4, <1>5, <1>6 DEF Next, RunUnit

\* Rows are never taken back.
LEMMA LogGrows ==
  ASSUME TypeOK, [Next]_vars
  PROVE  /\ Logged \subseteq Logged'
         /\ Len(log) <= Len(log') /\ Len(log) \in Nat /\ Len(log') \in Nat
         /\ \A k \in DOMAIN log : k \in DOMAIN log' /\ log'[k] = log[k]
<1>1. log \in Seq(Frames) /\ Len(log) \in Nat
  BY DEF TypeOK
<1>2. CASE log' = log
  BY <1>1, <1>2 DEF Logged, ToSet
<1>3. ASSUME NEW f \in Frames, log' = Append(log, f)
      PROVE  /\ Logged \subseteq Logged' /\ Len(log) <= Len(log') /\ Len(log') \in Nat
             /\ \A k \in DOMAIN log : k \in DOMAIN log' /\ log'[k] = log[k]
  BY <1>1, <1>3, LogAppend DEF Logged, ToSet
<1>4. ASSUME NEW c \in Commands, Send(c) PROVE InFrame(c) \in Frames /\ log' = Append(log, InFrame(c))
  BY <1>4, FrameType DEF Send, TypeOK
<1> QED
  BY <1>1, <1>2, <1>3, <1>4, LogSteps

\* Only posts of the relay join those under way, none shaped like a command.
LEMMA WireSteps ==
  ASSUME TypeOK, [Next]_vars, NEW f \in wire', f \notin wire
  PROVE  /\ f = wait' /\ f.id[1] # "in" /\ f.life = life /\ queue' = queue /\ UNCHANGED <<log, life>>
         /\ step' \in {"event", "accept", "echo", "resolve"}
         /\ f.seq # NoSeq => step' \in {"event", "echo"}
<1> USE DEF Frame
<1>1. CASE RunEvent
  BY <1>1 DEF RunEvent, Post, Event
<1>2. CASE RunPrompt
  BY <1>2 DEF RunPrompt, Post, Accepted
<1>3. CASE RunAnswer
  <2>1. wire' = wire \/ (Post(Resolved(Head(queue).of[2]), "resolve") /\ queue' = queue)
    BY <1>3, Zenon DEF RunAnswer
  <2>2. UNCHANGED <<log, life>>
    BY <1>3, Zenon DEF RunAnswer
  <2> QED BY <2>1, <2>2 DEF Post, Resolved
<1>4. CASE PostEcho
  BY <1>4 DEF PostEcho, Post, Echo
<1>5. ASSUME NEW g \in wire, Store(g) PROVE FALSE
  BY <1>5 DEF Store
<1>6. ASSUME NEW c \in Commands, Send(c) PROVE FALSE
  BY <1>6 DEF Send
<1>7. CASE ResumeSeq \/ ResumeStart \/ Close \/ Restart \/ Read \/ Break
  BY <1>7, Zenon DEF ResumeSeq, ResumeStart, Close, Restart, Read, Break
<1>8. ASSUME NEW e, PullEvent(e) \/ PullCancel(e) PROVE FALSE
  BY <1>8, Zenon DEF PullEvent, PullCancel
<1>9. CASE Reject \/ RunInterrupt \/ EventPublished \/ DriveAgent \/ PostFails
  BY <1>9, Zenon DEF Reject, RunInterrupt, EventPublished, DriveAgent, PostFails
<1>10. CASE UNCHANGED vars
  BY <1>10, Zenon
<1> QED
  BY <1>1, <1>2, <1>3, <1>4, <1>5, <1>6, <1>7, <1>8, <1>9, <1>10 DEF Next, RunUnit

\* The head stays while units join the queue behind it.
LEMMA HeadStays ==
  ASSUME TypeOK, HeadAwaits, NEW u \in Units, queue' = Append(queue, u), step # "idle"
  PROVE  queue # <<>> /\ queue' # <<>> /\ Head(queue') = Head(queue)
<1>1. queue \in Seq(Units) /\ queue # <<>>
  BY DEF TypeOK, HeadAwaits, HeadOf
<1> QED
  BY <1>1

\* The head awaits its own post.
LEMMA HeadStep == TypeOK /\ CommandRows /\ HeadAwaits /\ [Next]_vars => HeadAwaits'
  <1> SUFFICES ASSUME TypeOK, CommandRows, HeadAwaits, [Next]_vars PROVE HeadAwaits'
    OBVIOUS
  <1> USE LogGrows DEF HeadAwaits, HeadOf
  <1>1. ASSUME NEW f \in wire, Store(f) PROVE HeadAwaits'
    BY <1>1 DEF Store
  <1>2. ASSUME NEW c \in Commands, Send(c) PROVE HeadAwaits'
    BY <1>2 DEF Send
  <1>3. CASE ResumeSeq
    BY <1>3 DEF ResumeSeq
  <1>4. CASE ResumeStart
    BY <1>4 DEF ResumeStart
  <1>5. CASE Close
    BY <1>5 DEF Close
  <1>6. CASE Restart
    BY <1>6 DEF Restart
  <1>7. ASSUME NEW e \in Events, PullEvent(e) PROVE HeadAwaits'
    BY <1>7 DEF PullEvent, Pulls
  <1>8. ASSUME NEW g \in Gates, PullCancel(g) PROVE HeadAwaits'
    BY <1>8 DEF PullCancel, Pulls
  <1>9. CASE Read
    <2>1. PICK i \in NextCommand : /\ log[i].of \in Commands
                                   /\ queue' = Append(queue, [pump |-> "in", of |-> log[i].of])
      BY <1>9, ReadPicks
    <2>2. [pump |-> "in", of |-> log[i].of] \in Units
      BY <2>1 DEF Units
    <2>3. UNCHANGED <<log, step, unitSeq, wait>>
      BY <1>9, Zenon DEF Read
    <2>4. CASE step = "idle"
      BY <2>3, <2>4
    <2>5. CASE step # "idle"
      <3>1. queue' # <<>> /\ Head(queue') = Head(queue)
        BY <2>1, <2>2, <2>5, HeadStays
      <3> QED BY <2>3, <3>1 DEF Logged
    <2> QED BY <2>4, <2>5
  <1>10. CASE Break
    BY <1>10 DEF Break
  <1>11. CASE Reject
    BY <1>11 DEF Reject, Fail
  <1>12. CASE RunEvent
    <2>1. /\ queue' = queue /\ queue # <<>> /\ Head(queue).of \in Events /\ step' = "event" /\ unitSeq' = seq
      BY <1>12 DEF RunEvent, Runs, Post
    <2> QED BY <2>1 DEF TypeOK
  <1>13. CASE RunPrompt
    <2>1. /\ queue' = queue /\ queue # <<>> /\ Head(queue).of \in Prompts /\ step' = "accept" /\ unitSeq' = seq
          /\ wait' = Accepted(seq, Head(queue).of)
      BY <1>13 DEF RunPrompt, Runs, Post
    <2>2. wait'.of = Head(queue).of /\ wait'.id = <<"accepted", seq>>
      BY <2>1 DEF Accepted, Frame
    <2> QED BY <2>1, <2>2 DEF TypeOK
  <1>14. CASE RunAnswer
    <2> DEFINE g == Head(queue).of[2]
    <2>1. /\ queue # <<>> /\ Head(queue).of \in Answers
          /\ \/ step' = "resolve" /\ wait' = Resolved(g) /\ UNCHANGED queue
             \/ step' = "idle"
      BY <1>14, Zenon DEF RunAnswer, Runs, Post, Finish
    <2>2. CASE step' = "idle"
      BY <2>2
    <2>3. CASE step' = "resolve" /\ wait' = Resolved(g) /\ UNCHANGED queue
      <3>1. Resolved(g).of = g /\ Resolved(g).id[1] = "permresolved"
        BY DEF Resolved, Frame
      <3> QED BY <2>1, <2>3, <3>1
    <2> QED BY <2>1, <2>2, <2>3
  <1>15. CASE RunInterrupt
    BY <1>15 DEF RunInterrupt, Runs, Finish
  <1>16. CASE PostEcho
    <2>1. /\ step = "accept" /\ wait \in Logged /\ UNCHANGED <<log, queue, unitSeq>>
          /\ step' = "echo" /\ wait' = Echo(unitSeq, Head(queue).of)
      BY <1>16, Zenon DEF PostEcho, Answered, Post
    <2>2. wait'.of = Head(queue).of /\ wait'.id[1] = "user" /\ wait'.seq = unitSeq
      BY <2>1 DEF Echo, Frame
    <2>3. wait \in Logged' /\ wait.of = Head(queue).of /\ wait.id = <<"accepted", unitSeq>>
      BY <2>1 DEF Logged
    <2> QED BY <2>1, <2>2, <2>3
  <1>17. CASE EventPublished
    BY <1>17 DEF EventPublished, Answered, Finish
  <1>18. CASE DriveAgent
    BY <1>18 DEF DriveAgent, Answered, Fail, Finish
  <1>19. CASE PostFails
    BY <1>19 DEF PostFails, Fail
  <1>20. CASE UNCHANGED vars
    BY <1>20
  <1> QED
    BY <1>1, <1>2, <1>3, <1>4, <1>5, <1>6, <1>7, <1>8, <1>9, <1>10, <1>11, <1>12, <1>13,
       <1>14, <1>15, <1>16, <1>17, <1>18, <1>19, <1>20 DEF Next, RunUnit

\* A command has one row, an answer one only behind its gate's request.
LEMMA RowsStep == TypeOK /\ CommandRows /\ [Next]_vars => CommandRows'
<1> SUFFICES ASSUME TypeOK, CommandRows, [Next]_vars PROVE CommandRows'
  OBVIOUS
<1>1. \A f \in wire' : f.id[1] # "in"
  BY WireSteps DEF CommandRows
<1>2. CASE log' = log
  BY <1>1, <1>2 DEF CommandRows, Logged
<1>3. ASSUME NEW f \in wire, f \in Frames, log' = Append(log, f) PROVE CommandRows'
  <2>1. /\ DOMAIN log' = DOMAIN log \union {Len(log) + 1} /\ log'[Len(log) + 1] = f
        /\ \A i \in DOMAIN log : log'[i] = log[i]
    BY <1>3, LogAppend DEF TypeOK
  <2>2. f.id[1] # "in"
    BY DEF CommandRows
  <2>3. \A c : InFrame(c) \in Logged' <=> InFrame(c) \in Logged
    BY <2>1, <2>2 DEF Logged, ToSet, InFrame
  <2>4. Logged \subseteq Logged'
    BY LogGrows
  <2>5. /\ \A i \in DOMAIN log' : log'[i].id[1] = "in" => log'[i].of \in Commands /\ log'[i] = InFrame(log'[i].of)
        /\ \A i, j \in DOMAIN log' :
              log'[i].id[1] = "in" /\ log'[j].id[1] = "in" /\ log'[i].of = log'[j].of => i = j
    BY <2>1, <2>2 DEF CommandRows
  <2> QED BY <1>1, <2>3, <2>4, <2>5 DEF CommandRows
<1>4. ASSUME NEW c \in Commands, Send(c) PROVE CommandRows'
  <2>1. /\ InFrame(c) \notin Logged /\ log' = Append(log, InFrame(c))
        /\ c \in Answers => \E f \in Logged : f.of = c[2] /\ f.id[1] = "permission_request"
    BY <1>4, Zenon DEF Send
  <2>2. InFrame(c) \in Frames /\ InFrame(c).of = c /\ InFrame(c).id[1] = "in"
    BY FrameType DEF TypeOK, InFrame
  <2>3. /\ DOMAIN log' = DOMAIN log \union {Len(log) + 1} /\ log'[Len(log) + 1] = InFrame(c)
        /\ \A i \in DOMAIN log : log'[i] = log[i]
    BY <2>1, <2>2, LogAppend DEF TypeOK
  <2>4. \A i \in DOMAIN log : log[i] # InFrame(c)
    BY <2>1 DEF Logged, ToSet
  <2>5. \A i \in DOMAIN log : log[i].id[1] = "in" => log[i].of # c
    BY <2>4 DEF CommandRows
  <2>6. Logged \subseteq Logged' /\ Logged' \subseteq Logged \union {InFrame(c)}
    BY <2>3, LogGrows DEF Logged, ToSet
  <2>7. \A d : InFrame(d) = InFrame(c) => d = c
    BY DEF InFrame
  <2>8. \A d \in Answers : InFrame(d) \in Logged' =>
          \E f \in Logged' : f.of = d[2] /\ f.id[1] = "permission_request"
    BY <2>1, <2>6, <2>7 DEF CommandRows
  <2>9. /\ \A i \in DOMAIN log' : log'[i].id[1] = "in" => log'[i].of \in Commands /\ log'[i] = InFrame(log'[i].of)
        /\ \A i, j \in DOMAIN log' :
              log'[i].id[1] = "in" /\ log'[j].id[1] = "in" /\ log'[i].of = log'[j].of => i = j
    BY <2>2, <2>3, <2>5 DEF CommandRows
  <2> QED BY <1>1, <2>8, <2>9 DEF CommandRows
<1> QED
  BY <1>2, <1>3, <1>4, LogSteps

\* Each pump has one unit: behind a command there is no other, behind an event none.
LEMMA TailUnits ==
  ASSUME TypeOK, queue # <<>>
  PROVE  /\ queue[1] = Head(queue) /\ 1 \in DOMAIN queue /\ Head(queue) \in Units
         /\ Head(queue).of \in Commands => \A i \in DOMAIN Tail(queue) : Tail(queue)[i].pump # "in"
         /\ Head(queue).of \in Events => \A i \in DOMAIN queue : queue[i].of \in Events => i = 1
         /\ \A i \in DOMAIN Tail(queue) : i + 1 \in DOMAIN queue /\ i + 1 # 1 /\ Tail(queue)[i] = queue[i + 1]
<1>1. /\ Head(queue) = queue[1] /\ 1 \in DOMAIN queue /\ Head(queue) \in Units
      /\ \A i \in DOMAIN Tail(queue) : i + 1 \in DOMAIN queue /\ i + 1 # 1 /\ Tail(queue)[i] = queue[i + 1]
  BY QueueTail DEF TypeOK
<1>2. \A i, j \in DOMAIN queue : queue[i].pump = queue[j].pump => i = j
  BY DEF TypeOK
<1>3. ASSUME Head(queue).of \in Commands, NEW i \in DOMAIN Tail(queue) PROVE Tail(queue)[i].pump # "in"
  BY <1>1, <1>2, <1>3, UnitFields
<1>4. ASSUME Head(queue).of \in Events, NEW i \in DOMAIN queue, queue[i].of \in Events PROVE i = 1
  <2>1. queue[i] \in Units
    BY DEF TypeOK
  <2> QED BY <1>1, <1>2, <1>4, <2>1, UnitFields
<1> QED
  BY <1>1, <1>3, <1>4

\* The command that drives the agent was in the log, seen by this life, and drove it never before.
LEMMA HeadIsFresh ==
  ASSUME TypeOK, QueuedIsFresh, queue # <<>>, Head(queue).of \in Commands
  PROVE  /\ Head(queue).of \in seen /\ InFrame(Head(queue).of) \in Logged
         /\ \A j \in DOMAIN applied : applied[j] # Head(queue).of
BY TailUnits, UnitFields DEF QueuedIsFresh

LEMMA AppliedAppend ==
  ASSUME TypeOK, NEW c \in Commands
  PROVE  /\ DOMAIN Append(applied, c) = DOMAIN applied \union {Len(applied) + 1}
         /\ Append(applied, c)[Len(applied) + 1] = c
         /\ \A i \in DOMAIN applied : Append(applied, c)[i] = applied[i]
         /\ Len(applied) + 1 \notin DOMAIN applied
BY DEF TypeOK

\* A life reads behind its cursor.
LEMMA CursorStep == TypeOK /\ HeadAwaits /\ CommandRows /\ ReadBehindCursor /\ [Next]_vars => ReadBehindCursor'
  <1> SUFFICES ASSUME TypeOK, HeadAwaits, CommandRows, ReadBehindCursor, [Next]_vars PROVE ReadBehindCursor'
    OBVIOUS
  <1> USE LogGrows DEF ReadBehindCursor, TypeOK, FrameCount
  <1>1. ASSUME NEW f \in wire, Store(f) PROVE ReadBehindCursor'
    BY <1>1 DEF Store
  <1>2. ASSUME NEW c \in Commands, Send(c) PROVE ReadBehindCursor'
    BY <1>2 DEF Send
  <1>3. CASE ResumeSeq
    BY <1>3 DEF ResumeSeq
  <1>4. CASE ResumeStart
    BY <1>4 DEF ResumeStart
  <1>5. CASE Close
    BY <1>5 DEF Close
  <1>6. CASE Restart
    BY <1>6 DEF Restart
  <1>7. ASSUME NEW e \in Events, PullEvent(e) PROVE ReadBehindCursor'
    BY <1>7 DEF PullEvent, Pulls
  <1>8. ASSUME NEW g \in Gates, PullCancel(g) PROVE ReadBehindCursor'
    BY <1>8 DEF PullCancel, Pulls
  <1>9. CASE Read
    <2>1. PICK i \in NextCommand : /\ i \in DOMAIN log /\ i > pos /\ pos \in Nat
                                   /\ log[i].id[1] = "in" /\ log[i].of \in Commands /\ log[i].of \notin seen
                                   /\ pos' = i /\ seen' = seen \union {log[i].of}
                                   /\ queue' = Append(queue, [pump |-> "in", of |-> log[i].of])
      BY <1>9, ReadPicks
    <2>2. pos # NULL /\ phase = "serving" /\ UNCHANGED <<log, start, phase>>
      BY <1>9, Zenon DEF Read
    <2>3. i \in start..Len(log)
      BY <2>1, <2>2
    <2> QED BY <2>1, <2>2, <2>3
  <1>10. CASE Break
    BY <1>10 DEF Break
  <1>11. CASE Reject
    BY <1>11 DEF Reject, Fail
  <1>12. CASE RunEvent
    BY <1>12 DEF RunEvent, Runs, Post
  <1>13. CASE RunPrompt
    BY <1>13 DEF RunPrompt, Runs, Post
  <1>14. CASE RunAnswer
    BY <1>14 DEF RunAnswer, Runs, Post, Finish
  <1>15. CASE RunInterrupt
    BY <1>15 DEF RunInterrupt, Runs, Finish
  <1>16. CASE PostEcho
    BY <1>16 DEF PostEcho, Answered, Post
  <1>17. CASE EventPublished
    BY <1>17 DEF EventPublished, Answered, Finish
  <1>18. CASE DriveAgent
    <2>1. phase = "serving"
      BY <1>18 DEF DriveAgent, Answered, HeadAwaits, HeadOf
    <2> QED BY <1>18, <2>1 DEF DriveAgent, Fail, Finish
  <1>19. CASE PostFails
    BY <1>19 DEF PostFails, Fail
  <1>20. CASE UNCHANGED vars
    BY <1>20
  <1> QED
    BY <1>1, <1>2, <1>3, <1>4, <1>5, <1>6, <1>7, <1>8, <1>9, <1>10, <1>11, <1>12, <1>13,
       <1>14, <1>15, <1>16, <1>17, <1>18, <1>19, <1>20 DEF Next, RunUnit

\* What drove the agent stays behind the cursor or seen.
LEMMA BehindStep == TypeOK /\ HeadAwaits /\ CommandRows /\ ReadBehindCursor /\ QueuedIsFresh /\ DrivenIsBehind /\ [Next]_vars => DrivenIsBehind'
  <1> SUFFICES ASSUME TypeOK, HeadAwaits, CommandRows, ReadBehindCursor, QueuedIsFresh, DrivenIsBehind, [Next]_vars PROVE DrivenIsBehind'
    OBVIOUS
  <1> USE LogGrows DEF DrivenIsBehind
  <1>1. ASSUME NEW f \in wire, Store(f) PROVE DrivenIsBehind'
    BY <1>1 DEF Store
  <1>2. ASSUME NEW c \in Commands, Send(c) PROVE DrivenIsBehind'
    BY <1>2 DEF Send
  <1>3. CASE ResumeSeq
    BY <1>3 DEF ResumeSeq
  <1>4. CASE ResumeStart
    <2>1. start' = Len(log) /\ UNCHANGED <<log, applied, seen>>
      BY <1>4 DEF ResumeStart, FrameCount
    <2>2. \A k \in DOMAIN log : k <= Len(log)
      BY DEF TypeOK
    <2> QED BY <2>1, <2>2 DEF InFrame
  <1>5. CASE Close
    BY <1>5 DEF Close
  <1>6. CASE Restart
    BY <1>6 DEF Restart
  <1>7. ASSUME NEW e \in Events, PullEvent(e) PROVE DrivenIsBehind'
    BY <1>7 DEF PullEvent, Pulls
  <1>8. ASSUME NEW g \in Gates, PullCancel(g) PROVE DrivenIsBehind'
    BY <1>8 DEF PullCancel, Pulls
  <1>9. CASE Read
    BY <1>9 DEF Read
  <1>10. CASE Break
    BY <1>10 DEF Break
  <1>11. CASE Reject
    BY <1>11 DEF Reject, Fail
  <1>12. CASE RunEvent
    BY <1>12 DEF RunEvent, Runs, Post
  <1>13. CASE RunPrompt
    BY <1>13 DEF RunPrompt, Runs, Post
  <1>14. CASE RunAnswer
    BY <1>14 DEF RunAnswer, Runs, Post, Finish
  <1>15. CASE RunInterrupt
    <2>1. /\ queue # <<>> /\ Head(queue).of \in Commands
          /\ applied' = applied \/ applied' = Append(applied, Head(queue).of)
      BY <1>15 DEF RunInterrupt, Runs, Commands
    <2>2. UNCHANGED <<log, phase, start, seen>>
      BY <1>15, Zenon DEF RunInterrupt
    <2>3. InFrame(Head(queue).of) \in Logged /\ Head(queue).of \in seen
      BY <2>1, HeadIsFresh
    <2>4. PICK k \in DOMAIN log : log[k] = InFrame(Head(queue).of)
      BY <2>3 DEF Logged, ToSet
    <2>5. CASE applied' = applied
      BY <2>2, <2>5 DEF InFrame
    <2>6. CASE applied' = Append(applied, Head(queue).of)
      <3>1. /\ DOMAIN applied' = DOMAIN applied \union {Len(applied) + 1}
            /\ applied'[Len(applied) + 1] = Head(queue).of
            /\ \A i \in DOMAIN applied : applied'[i] = applied[i]
        BY <2>1, <2>6, AppliedAppend
      <3> QED BY <2>2, <2>3, <2>4, <3>1 DEF InFrame
    <2> QED BY <2>1, <2>5, <2>6
  <1>16. CASE PostEcho
    BY <1>16 DEF PostEcho, Answered, Post
  <1>17. CASE EventPublished
    BY <1>17 DEF EventPublished, Answered, Finish
  <1>18. CASE DriveAgent
    <2>1. /\ queue # <<>> /\ Head(queue).of \in Commands
          /\ applied' = applied \/ applied' = Append(applied, Head(queue).of)
      BY <1>18 DEF DriveAgent, Answered, HeadAwaits, HeadOf, Commands
    <2>2. UNCHANGED <<log, phase, start, seen>>
      BY <1>18, Zenon DEF DriveAgent
    <2>3. InFrame(Head(queue).of) \in Logged /\ Head(queue).of \in seen
      BY <2>1, HeadIsFresh
    <2>4. PICK k \in DOMAIN log : log[k] = InFrame(Head(queue).of)
      BY <2>3 DEF Logged, ToSet
    <2>5. CASE applied' = applied
      BY <2>2, <2>5 DEF InFrame
    <2>6. CASE applied' = Append(applied, Head(queue).of)
      <3>1. /\ DOMAIN applied' = DOMAIN applied \union {Len(applied) + 1}
            /\ applied'[Len(applied) + 1] = Head(queue).of
            /\ \A i \in DOMAIN applied : applied'[i] = applied[i]
        BY <2>1, <2>6, AppliedAppend
      <3> QED BY <2>2, <2>3, <2>4, <3>1 DEF InFrame
    <2> QED BY <2>1, <2>5, <2>6
  <1>19. CASE PostFails
    BY <1>19 DEF PostFails, Fail
  <1>20. CASE UNCHANGED vars
    BY <1>20
  <1> QED
    BY <1>1, <1>2, <1>3, <1>4, <1>5, <1>6, <1>7, <1>8, <1>9, <1>10, <1>11, <1>12, <1>13,
       <1>14, <1>15, <1>16, <1>17, <1>18, <1>19, <1>20 DEF Next, RunUnit

\* A command is queued before it drives the agent, and then no more.
LEMMA FreshStep == TypeOK /\ HeadAwaits /\ CommandRows /\ ReadBehindCursor /\ DrivenIsBehind /\ QueuedIsFresh /\ [Next]_vars => QueuedIsFresh'
  <1> SUFFICES ASSUME TypeOK, HeadAwaits, CommandRows, ReadBehindCursor, DrivenIsBehind, QueuedIsFresh, [Next]_vars PROVE QueuedIsFresh'
    OBVIOUS
  <1> USE LogGrows DEF QueuedIsFresh
  <1>1. ASSUME NEW f \in wire, Store(f) PROVE QueuedIsFresh'
    BY <1>1 DEF Store
  <1>2. ASSUME NEW c \in Commands, Send(c) PROVE QueuedIsFresh'
    BY <1>2 DEF Send
  <1>3. CASE ResumeSeq
    BY <1>3 DEF ResumeSeq
  <1>4. CASE ResumeStart
    BY <1>4 DEF ResumeStart
  <1>5. CASE Close
    BY <1>5 DEF Close
  <1>6. CASE Restart
    BY <1>6 DEF Restart
  <1>7. ASSUME NEW e \in Events, PullEvent(e) PROVE QueuedIsFresh'
    BY <1>7 DEF PullEvent, Pulls
  <1>8. ASSUME NEW g \in Gates, PullCancel(g) PROVE QueuedIsFresh'
    BY <1>8 DEF PullCancel, Pulls
  <1>9. CASE Read
    <2>1. PICK i \in NextCommand : /\ i \in DOMAIN log /\ i > pos /\ pos \in Nat
                                   /\ log[i].id[1] = "in" /\ log[i].of \in Commands /\ log[i].of \notin seen
                                   /\ pos' = i /\ seen' = seen \union {log[i].of}
                                   /\ queue' = Append(queue, [pump |-> "in", of |-> log[i].of])
      BY <1>9, ReadPicks
    <2> DEFINE u == [pump |-> "in", of |-> log[i].of]
    <2>2. pos # NULL /\ phase = "serving" /\ UNCHANGED <<log, applied>>
      BY <1>9, Zenon DEF Read
    <2>3. InFrame(log[i].of) \in Logged /\ log[i] = InFrame(log[i].of)
      BY <2>1 DEF CommandRows, Logged, ToSet
    <2>4. ASSUME NEW j \in DOMAIN applied, applied[j] = log[i].of PROVE FALSE
      <3>1. PICK k \in DOMAIN log : log[k] = InFrame(applied[j]) /\ k <= start
        BY <2>1, <2>2, <2>4 DEF DrivenIsBehind
      <3>2. log[k].id[1] = "in" /\ log[k].of = log[i].of
        BY <2>3, <2>4, <3>1 DEF InFrame
      <3>3. k = i
        BY <2>1, <3>2 DEF CommandRows
      <3> QED BY <2>1, <2>2, <3>1, <3>3 DEF ReadBehindCursor, TypeOK
    <2>5. u \in Units
      BY <2>1 DEF Units
    <2>6. /\ queue'[Len(queue) + 1] = u /\ DOMAIN queue' = DOMAIN queue \union {Len(queue) + 1}
          /\ \A k \in DOMAIN queue : queue'[k] = queue[k]
      BY <2>1, <2>5, QueueAppend DEF TypeOK
    <2>7. seen \subseteq seen' /\ log[i].of \in seen'
      BY <2>1
    <2>8. Logged' = Logged /\ \A c : InFrame(c)' = InFrame(c)
      BY <2>2 DEF Logged, InFrame
    <2>9. u.of = log[i].of
      OBVIOUS
    <2> HIDE DEF u
    <2> QED BY <2>2, <2>3, <2>4, <2>6, <2>7, <2>8, <2>9
  <1>10. CASE Break
    BY <1>10 DEF Break
  <1>11. CASE Reject
    BY <1>11 DEF Reject, Fail
  <1>12. CASE RunEvent
    BY <1>12 DEF RunEvent, Runs, Post
  <1>13. CASE RunPrompt
    BY <1>13 DEF RunPrompt, Runs, Post
  <1>14. CASE RunAnswer
    <2>1. queue # <<>> /\ Head(queue).of \in Commands
      BY <1>14 DEF RunAnswer, Runs, Commands
    <2>2. \A i \in DOMAIN Tail(queue) : Tail(queue)[i].pump # "in"
      BY <2>1, TailUnits
    <2>3. queue' = queue \/ queue' = Tail(queue)
      BY <1>14, Zenon DEF RunAnswer, Finish
    <2>4. UNCHANGED <<seen, applied, log>>
      BY <1>14, Zenon DEF RunAnswer
    <2> QED BY <2>2, <2>3, <2>4 DEF InFrame, Logged
  <1>15. CASE RunInterrupt
    <2>1. queue # <<>> /\ Head(queue).of \in Commands
      BY <1>15 DEF RunInterrupt, Runs, Commands
    <2>2. \A i \in DOMAIN Tail(queue) : Tail(queue)[i].pump # "in"
      BY <2>1, TailUnits
    <2>3. queue' = <<>> \/ queue' = Tail(queue)
      BY <1>15, Zenon DEF RunInterrupt, Fail, Finish
    <2>4. \A i \in DOMAIN queue' : queue'[i].pump # "in"
      <3>1. CASE queue' = Tail(queue)
        BY <2>2, <3>1, Zenon
      <3>2. CASE queue' = <<>>
        BY <3>2
      <3> QED BY <2>3, <3>1, <3>2
    <2> QED BY <2>4
  <1>16. CASE PostEcho
    BY <1>16 DEF PostEcho, Answered, Post
  <1>17. CASE EventPublished
    <2>1. queue # <<>> /\ Head(queue) \in Units
      BY <1>17 DEF EventPublished, Answered, HeadAwaits, HeadOf, TypeOK
    <2>2. queue' = Tail(queue)
      BY <1>17, Zenon DEF EventPublished, Finish
    <2>3. UNCHANGED <<seen, applied, log>>
      BY <1>17, Zenon DEF EventPublished, Finish, broker
    <2>4. \A i \in DOMAIN queue' : i + 1 \in DOMAIN queue /\ queue'[i] = queue[i + 1]
      BY <2>1, <2>2, TailUnits
    <2> QED BY <2>3, <2>4 DEF InFrame, Logged
  <1>18. CASE DriveAgent
    <2>1. queue # <<>> /\ Head(queue).of \in Commands
      BY <1>18 DEF DriveAgent, Answered, HeadAwaits, HeadOf, Commands
    <2>2. \A i \in DOMAIN Tail(queue) : Tail(queue)[i].pump # "in"
      BY <2>1, TailUnits
    <2>3. queue' = <<>> \/ queue' = Tail(queue)
      BY <1>18, Zenon DEF DriveAgent, Fail, Finish
    <2>4. \A i \in DOMAIN queue' : queue'[i].pump # "in"
      <3>1. CASE queue' = Tail(queue)
        BY <2>2, <3>1, Zenon
      <3>2. CASE queue' = <<>>
        BY <3>2
      <3> QED BY <2>3, <3>1, <3>2
    <2> QED BY <2>4
  <1>19. CASE PostFails
    BY <1>19 DEF PostFails, Fail
  <1>20. CASE UNCHANGED vars
    BY <1>20
  <1> QED
    BY <1>1, <1>2, <1>3, <1>4, <1>5, <1>6, <1>7, <1>8, <1>9, <1>10, <1>11, <1>12, <1>13,
       <1>14, <1>15, <1>16, <1>17, <1>18, <1>19, <1>20 DEF Next, RunUnit

\* A gate goes through its stages once.
LEMMA GateStep == TypeOK /\ HeadAwaits /\ CommandRows /\ GateStages /\ [Next]_vars => GateStages'
  <1> SUFFICES ASSUME TypeOK, HeadAwaits, CommandRows, GateStages, [Next]_vars PROVE GateStages'
    OBVIOUS
  <1>1. ASSUME NEW f \in wire, Store(f) PROVE GateStages'
    BY <1>1 DEF Store, GateStages, Asked, Resolving, AnsweredGate
  <1>2. ASSUME NEW c \in Commands, Send(c) PROVE GateStages'
    BY <1>2 DEF Send, GateStages, Asked, Resolving, AnsweredGate
  <1>3. CASE ResumeSeq
    BY <1>3 DEF ResumeSeq, GateStages, Asked, Resolving, AnsweredGate
  <1>4. CASE ResumeStart
    BY <1>4 DEF ResumeStart, GateStages, Asked, Resolving, AnsweredGate
  <1>5. CASE Close
    BY <1>5 DEF Close, GateStages, Asked, Resolving, AnsweredGate
  <1>6. CASE Restart
    BY <1>6 DEF Restart, GateStages, Asked, Resolving, AnsweredGate
  <1>7. ASSUME NEW e \in Events, PullEvent(e) PROVE GateStages'
    <2> DEFINE u == [pump |-> "up", of |-> e]
    <2>1. /\ e \notin emitted /\ emitted' = emitted \union {e} /\ queue' = Append(queue, u)
          /\ UNCHANGED <<step, openPerms, applied>>
      BY <1>7 DEF PullEvent, Pulls
    <2>2. u \in Units /\ u.of = e
      BY DEF Units
    <2>3. /\ queue'[Len(queue) + 1] = u /\ DOMAIN queue' = DOMAIN queue \union {Len(queue) + 1}
          /\ \A k \in DOMAIN queue : queue'[k] = queue[k]
      BY <2>1, <2>2, QueueAppend DEF TypeOK
    <2>4. step = "resolve" => Head(queue') = Head(queue)
      BY <2>1, <2>2, HeadStays
    <2> HIDE DEF u
    <2> SUFFICES ASSUME NEW h \in Gates
                 PROVE  /\ Asked(h)' \/ h \in openPerms' \/ Resolving(h)' \/ AnsweredGate(h)' => h \in emitted'
                        /\ Asked(h)' => h \notin openPerms' /\ ~Resolving(h)' /\ ~AnsweredGate(h)'
                        /\ h \in openPerms' => ~Resolving(h)' /\ ~AnsweredGate(h)'
                        /\ Resolving(h)' => ~AnsweredGate(h)'
      BY DEF GateStages
    <2>5. Resolving(h)' = Resolving(h) /\ AnsweredGate(h)' = AnsweredGate(h)
      BY <2>1, <2>4 DEF Resolving, AnsweredGate
    <2>6. Asked(h)' => Asked(h) \/ h = e
      BY <2>1, <2>2, <2>3 DEF Asked
    <2> QED BY <2>1, <2>5, <2>6 DEF GateStages
  <1>8. ASSUME NEW g \in Gates, PullCancel(g) PROVE GateStages'
    BY <1>8 DEF PullCancel, Pulls, GateStages, Asked, Resolving, AnsweredGate
  <1>9. CASE Read
    <2>1. PICK i \in NextCommand : /\ i \in DOMAIN log /\ i > pos /\ pos \in Nat
                                   /\ log[i].id[1] = "in" /\ log[i].of \in Commands /\ log[i].of \notin seen
                                   /\ pos' = i /\ seen' = seen \union {log[i].of}
                                   /\ queue' = Append(queue, [pump |-> "in", of |-> log[i].of])
      BY <1>9, ReadPicks
    <2> DEFINE u == [pump |-> "in", of |-> log[i].of]
    <2>2. UNCHANGED <<step, openPerms, applied, emitted>>
      BY <1>9, Zenon DEF Read
    <2>3. u \in Units /\ u.of = log[i].of /\ log[i].of \notin Gates
      BY <2>1, KindsAssumption DEF Units, Events
    <2>4. /\ queue'[Len(queue) + 1] = u /\ DOMAIN queue' = DOMAIN queue \union {Len(queue) + 1}
          /\ \A k \in DOMAIN queue : queue'[k] = queue[k]
      BY <2>1, <2>3, QueueAppend DEF TypeOK
    <2>5. step = "resolve" => Head(queue') = Head(queue)
      BY <2>1, <2>3, HeadStays
    <2> HIDE DEF u
    <2>6. \A h \in Gates : /\ Resolving(h)' = Resolving(h) /\ AnsweredGate(h)' = AnsweredGate(h)
                           /\ Asked(h)' => Asked(h)
      BY <2>2, <2>3, <2>4, <2>5 DEF Resolving, AnsweredGate, Asked
    <2> QED BY <2>2, <2>6 DEF GateStages
  <1>10. CASE Break
    BY <1>10 DEF Break, GateStages, Asked, Resolving, AnsweredGate
  <1>11. CASE Reject
    BY <1>11 DEF Reject, Fail, GateStages, Asked, Resolving, AnsweredGate
  <1>12. CASE RunEvent
    <2>1. /\ queue # <<>> /\ Head(queue).of \in Events /\ step = "idle" /\ step' = "event"
          /\ openPerms' = openPerms \union (Gates \intersect {Head(queue).of})
          /\ UNCHANGED <<queue, applied, emitted>>
      BY <1>12 DEF RunEvent, Runs, Post
    <2>2. /\ queue[1] = Head(queue) /\ 1 \in DOMAIN queue
          /\ \A k \in DOMAIN queue : queue[k].of \in Events => k = 1
      BY <2>1, TailUnits
    <2>3. \A h \in Gates : ~Asked(h)' /\ ~Resolving(h)' /\ AnsweredGate(h)' = AnsweredGate(h)
      BY <2>1, <2>2 DEF Asked, Resolving, AnsweredGate, Events
    <2>4. \A h \in Gates : h = Head(queue).of => Asked(h)
      BY <2>1, <2>2 DEF Asked
    <2> QED BY <2>1, <2>3, <2>4 DEF GateStages
  <1>13. CASE RunPrompt
    BY <1>13 DEF RunPrompt, Runs, Post, GateStages, Asked, Resolving, AnsweredGate
  <1>14. CASE RunAnswer
    <2> DEFINE k == Head(queue).of[2]
    <2>1. /\ queue # <<>> /\ step = "idle" /\ UNCHANGED agent
          /\ \/ /\ k \in openPerms /\ openPerms' = openPerms \ {k} /\ step' = "resolve" /\ queue' = queue
             \/ queue' = Tail(queue) /\ step' = "idle" /\ openPerms' = openPerms
      BY <1>14, Zenon DEF RunAnswer, Runs, Finish, Post
    <2>2. \A h \in Gates : AnsweredGate(h)' = AnsweredGate(h) /\ ~Resolving(h)
      BY <2>1 DEF Resolving, AnsweredGate
    <2>3. \A h \in Gates : Asked(h)' => Asked(h)
      <3>1. CASE queue' = queue
        BY <2>1, <3>1 DEF Asked
      <3>2. CASE queue' = Tail(queue)
        BY <2>1, <3>2, TailUnits DEF Asked
      <3> QED BY <2>1, <3>1, <3>2
    <2>4. \A h \in Gates : Resolving(h)' => h = k /\ k \in openPerms /\ k \notin openPerms'
      BY <2>1 DEF Resolving
    <2>5. openPerms' \subseteq openPerms
      BY <2>1
    <2> QED BY <2>1, <2>2, <2>3, <2>4, <2>5 DEF GateStages
  <1>15. CASE RunInterrupt
    <2>1. /\ queue # <<>> /\ Head(queue).of \in Interrupts /\ queue' = Tail(queue) /\ step' = "idle"
          /\ UNCHANGED emitted /\ openPerms' \subseteq openPerms
          /\ applied' = applied \/ applied' = Append(applied, Head(queue).of)
      BY <1>15 DEF RunInterrupt, Runs, Finish
    <2>2. Head(queue).of \in Commands /\ Head(queue).of \notin Answers
      BY <2>1, KindsAssumption DEF Commands
    <2>3. \A h \in Gates : Asked(h)' => Asked(h)
      BY <2>1, TailUnits DEF Asked
    <2>4. \A h \in Gates : AnsweredGate(h)' => AnsweredGate(h)
      <3>1. CASE applied' = applied
        BY <3>1 DEF AnsweredGate
      <3>2. CASE applied' = Append(applied, Head(queue).of)
        BY <2>2, <3>2, AppliedAppend DEF AnsweredGate
      <3> QED BY <2>1, <3>1, <3>2
    <2>5. \A h \in Gates : ~Resolving(h)'
      BY <2>1 DEF Resolving
    <2> QED BY <2>1, <2>3, <2>4, <2>5 DEF GateStages
  <1>16. CASE PostEcho
    BY <1>16 DEF PostEcho, Answered, Post, GateStages, Asked, Resolving, AnsweredGate
  <1>17. CASE EventPublished
    <2>1. /\ queue # <<>> /\ queue' = Tail(queue) /\ step' = "idle" /\ UNCHANGED <<openPerms, agent>>
      BY <1>17 DEF EventPublished, Answered, HeadAwaits, HeadOf, Finish
    <2>2. \A h \in Gates : Asked(h)' => Asked(h)
      BY <2>1, TailUnits DEF Asked
    <2>3. \A h \in Gates : ~Resolving(h)' /\ AnsweredGate(h)' = AnsweredGate(h)
      BY <2>1 DEF Resolving, AnsweredGate
    <2> QED BY <2>1, <2>2, <2>3 DEF GateStages
  <1>18. CASE DriveAgent
    <2>1. /\ queue # <<>> /\ Head(queue).of \in Commands /\ step' = "idle"
          /\ UNCHANGED <<emitted, openPerms>>
          /\ \/ queue' = <<>> /\ applied' = applied
             \/ queue' = Tail(queue) /\ applied' = Append(applied, Head(queue).of)
      BY <1>18 DEF DriveAgent, Answered, HeadAwaits, HeadOf, Commands, Fail, Finish
    <2>2. step = "resolve" \/ Head(queue).of \notin Answers
      BY <1>18, KindsAssumption DEF DriveAgent, Answered, HeadAwaits, HeadOf, Commands
    <2>3. \A h \in Gates : Asked(h)' => Asked(h)
      BY <2>1, TailUnits DEF Asked
    <2>4. \A h \in Gates : AnsweredGate(h)' => AnsweredGate(h) \/ Resolving(h)
      BY <2>1, <2>2, AppliedAppend DEF AnsweredGate, Resolving
    <2>5. \A h \in Gates : ~Resolving(h)'
      BY <2>1 DEF Resolving
    <2> QED BY <2>1, <2>3, <2>4, <2>5 DEF GateStages
  <1>19. CASE PostFails
    BY <1>19 DEF PostFails, Fail, GateStages, Asked, Resolving, AnsweredGate
  <1>20. CASE UNCHANGED vars
    BY <1>20 DEF GateStages, Asked, Resolving, AnsweredGate
  <1> QED
    BY <1>1, <1>2, <1>3, <1>4, <1>5, <1>6, <1>7, <1>8, <1>9, <1>10, <1>11, <1>12, <1>13,
       <1>14, <1>15, <1>16, <1>17, <1>18, <1>19, <1>20 DEF Next, RunUnit

-------------------------------------------------------------------------------
\* The agent is driven by an interrupt, or by a command whose unit was published.
LEMMA AppliedSteps ==
  ASSUME TypeOK, HeadAwaits, [Next]_vars
  PROVE  \/ applied' = applied
         \/ /\ queue # <<>> /\ Head(queue).of \in Commands /\ UNCHANGED log
            /\ applied' = Append(applied, Head(queue).of)
            /\ RunInterrupt \/ DriveAgent
<1>1. CASE ResumeSeq \/ ResumeStart \/ Close \/ Restart \/ Read \/ Break
  BY <1>1, Zenon DEF ResumeSeq, ResumeStart, Close, Restart, Read, Break
<1>2. ASSUME NEW e, PullEvent(e) \/ PullCancel(e) \/ Store(e) \/ Send(e) PROVE applied' = applied
  BY <1>2, Zenon DEF PullEvent, PullCancel, Store, Send
<1>3. CASE Reject \/ RunEvent \/ RunPrompt \/ RunAnswer \/ PostEcho \/ EventPublished \/ PostFails
  BY <1>3, Zenon DEF Reject, RunEvent, RunPrompt, RunAnswer, PostEcho, EventPublished, PostFails
<1>4. CASE RunInterrupt
  <2>1. queue # <<>> /\ Head(queue).of \in Commands /\ UNCHANGED log
    BY <1>4 DEF RunInterrupt, Runs, Commands
  <2> QED BY <1>4, <2>1, Zenon DEF RunInterrupt
<1>5. CASE DriveAgent
  <2>1. queue # <<>> /\ Head(queue).of \in Commands /\ UNCHANGED log
    BY <1>5 DEF DriveAgent, Answered, HeadAwaits, HeadOf, Commands
  <2> QED BY <1>5, <2>1, Zenon DEF DriveAgent
<1>6. CASE UNCHANGED vars
  BY <1>6, Zenon
<1> QED
  BY <1>1, <1>2, <1>3, <1>4, <1>5, <1>6 DEF Next, RunUnit

\* No command drives the agent twice, and no gate is answered by two devices.
LEMMA OnceStep ==
  TypeOK /\ HeadAwaits /\ QueuedIsFresh /\ GateStages /\ DrivenOnce /\ [Next]_vars => DrivenOnce'
<1> SUFFICES ASSUME TypeOK, HeadAwaits, QueuedIsFresh, GateStages, DrivenOnce, [Next]_vars
             PROVE  DrivenOnce'
  OBVIOUS
<1>1. CASE applied' = applied
  BY <1>1 DEF DrivenOnce
<1>2. CASE /\ queue # <<>> /\ Head(queue).of \in Commands
           /\ applied' = Append(applied, Head(queue).of)
           /\ RunInterrupt \/ DriveAgent
  <2> DEFINE c == Head(queue).of
  <2>1. \A j \in DOMAIN applied : applied[j] # c
    BY <1>2, HeadIsFresh
  <2>2. c \in Answers => step = "resolve"
    BY <1>2, KindsAssumption DEF RunInterrupt, Runs, DriveAgent, Answered, HeadAwaits, HeadOf, Commands
  <2>3. ASSUME c \in Answers, NEW j \in DOMAIN applied, applied[j] \in Answers PROVE applied[j][2] # c[2]
    <3>1. c[2] \in Gates /\ Resolving(c[2])
      BY <2>2, <2>3 DEF Answers, Resolving
    <3> QED BY <2>3, <3>1 DEF GateStages, AnsweredGate
  <2>4. /\ DOMAIN applied' = DOMAIN applied \union {Len(applied) + 1}
        /\ applied'[Len(applied) + 1] = c
        /\ \A i \in DOMAIN applied : applied'[i] = applied[i]
    BY <1>2, AppliedAppend
  <2> HIDE DEF c
  <2> QED BY <2>1, <2>3, <2>4 DEF DrivenOnce
<1> QED
  BY <1>1, <1>2, AppliedSteps

\* What drives the agent is in the log with what the viewers need to follow it.
LEMMA PublishedStep ==
  TypeOK /\ HeadAwaits /\ CommandRows /\ QueuedIsFresh /\ DrivenIsPublished /\ [Next]_vars => DrivenIsPublished'
<1> SUFFICES ASSUME TypeOK, HeadAwaits, CommandRows, QueuedIsFresh, DrivenIsPublished, [Next]_vars
             PROVE  DrivenIsPublished'
  OBVIOUS
<1>1. Logged \subseteq Logged'
  BY LogGrows
<1>2. CASE applied' = applied
  BY <1>1, <1>2 DEF DrivenIsPublished
<1>3. CASE /\ queue # <<>> /\ Head(queue).of \in Commands /\ UNCHANGED log
           /\ applied' = Append(applied, Head(queue).of)
           /\ RunInterrupt \/ DriveAgent
  <2> DEFINE c == Head(queue).of
  <2>1. /\ DOMAIN applied' = DOMAIN applied \union {Len(applied) + 1}
        /\ applied'[Len(applied) + 1] = c
        /\ \A i \in DOMAIN applied : applied'[i] = applied[i]
    BY <1>3, AppliedAppend
  <2>2. /\ c \in Prompts => step = "echo" /\ wait \in Logged
        /\ c \in Answers => step = "resolve" /\ wait \in Logged
    BY <1>3, KindsAssumption DEF RunInterrupt, Runs, DriveAgent, Answered, HeadAwaits, HeadOf, Commands
  <2>3. ASSUME c \in Prompts
        PROVE  \E f, g \in Logged : f.of = c /\ f.id[1] = "user" /\ g.of = c /\ g.id = <<"accepted", f.seq>>
    <3>1. /\ wait \in Logged /\ wait.of = c /\ wait.id[1] = "user" /\ wait.seq = unitSeq
          /\ \E g \in Logged : g.of = c /\ g.id = <<"accepted", unitSeq>>
      BY <2>2, <2>3 DEF HeadAwaits
    <3> QED BY <3>1
  <2>4. ASSUME c \in Answers
        PROVE  \E f, g \in Logged : /\ f.of = c[2] /\ f.id[1] = "permission_request"
                                    /\ g.of = c[2] /\ g.id[1] = "permresolved"
    <3>1. wait \in Logged /\ wait.of = c[2] /\ wait.id[1] = "permresolved"
      BY <2>2, <2>4 DEF HeadAwaits
    <3>2. InFrame(c) \in Logged
      BY <1>3, HeadIsFresh
    <3> QED BY <2>4, <3>1, <3>2 DEF CommandRows
  <2> HIDE DEF c
  <2>5. Logged' = Logged
    BY <1>3 DEF Logged
  <2>6. ASSUME NEW i \in DOMAIN applied', applied'[i] \in Prompts
        PROVE  \E f, g \in Logged' : /\ f.of = applied'[i] /\ f.id[1] = "user"
                                     /\ g.of = applied'[i] /\ g.id = <<"accepted", f.seq>>
    <3>1. CASE i \in DOMAIN applied
      BY <2>1, <2>5, <2>6, <3>1 DEF DrivenIsPublished
    <3>2. CASE i = Len(applied) + 1
      BY <2>1, <2>3, <2>5, <2>6, <3>2
    <3> QED BY <2>1, <3>1, <3>2
  <2>7. ASSUME NEW i \in DOMAIN applied', applied'[i] \in Answers
        PROVE  \E f, g \in Logged' : /\ f.of = applied'[i][2] /\ f.id[1] = "permission_request"
                                     /\ g.of = applied'[i][2] /\ g.id[1] = "permresolved"
    <3>1. CASE i \in DOMAIN applied
      BY <2>1, <2>5, <2>7, <3>1 DEF DrivenIsPublished
    <3>2. CASE i = Len(applied) + 1
      BY <2>1, <2>4, <2>5, <2>7, <3>2
    <3> QED BY <2>1, <3>1, <3>2
  <2> QED BY <2>6, <2>7 DEF DrivenIsPublished
<1> QED
  BY <1>2, <1>3, AppliedSteps

\* The durable counter has a maximum: it grows with each stored row.
LEMMA MaxStep == TypeOK /\ SeqHasMax /\ [Next]_vars => SeqHasMax'
<1> SUFFICES ASSUME TypeOK, SeqHasMax, [Next]_vars PROVE SeqHasMax'
  OBVIOUS
<1> DEFINE S == {f.seq : f \in Logged} \union {NoSeq}
<1>1. PICK m \in S : \A t \in S : t <= m
  BY DEF SeqHasMax
<1>2. S \subseteq Nat \union {NoSeq}
  <2>1. \A f \in Logged : f \in Frames
    BY DEF TypeOK, Logged, ToSet
  <2> QED BY <2>1, FrameFields
<1>3. CASE log' = log
  BY <1>3 DEF SeqHasMax, Logged
<1>4. ASSUME NEW f \in Frames, log' = Append(log, f) PROVE SeqHasMax'
  <2>1. Logged' = Logged \union {f}
    BY <1>4, LogAppend DEF TypeOK, Logged, ToSet
  <2>2. S' = S \union {f.seq}
    BY <2>1
  <2>3. f.seq \in Nat \union {NoSeq} /\ m \in Nat \union {NoSeq}
    BY <1>2, FrameFields
  <2>4. \E n \in {m, f.seq} : m <= n /\ f.seq <= n
    BY <2>3 DEF NoSeq
  <2>5. PICK n \in {m, f.seq} : m <= n /\ f.seq <= n
    BY <2>4
  <2> HIDE DEF S
  <2>6. n \in S' /\ \A t \in S' : t <= n
    BY <1>1, <1>2, <2>2, <2>3, <2>5 DEF NoSeq
  <2> QED BY <2>6 DEF S, SeqHasMax
<1>5. ASSUME NEW c \in Commands, Send(c) PROVE InFrame(c) \in Frames /\ log' = Append(log, InFrame(c))
  BY <1>5, FrameType DEF Send, TypeOK
<1> QED
  BY <1>3, <1>4, <1>5, LogSteps

-------------------------------------------------------------------------------
\* A new channel and a relay about to start.
LEMMA InitInv == Init => DriveInv
<1> SUFFICES ASSUME Init PROVE DriveInv
  OBVIOUS
<1> USE DEF Init
<1>1. TypeOK
  <2>1. 1 \in 1..MaxLives /\ 0 \in 0..MaxLives /\ 0 \in 0..FailureLimit /\ 0 # FailureLimit
    BY BoundsAssumption
  <2>2. UnitType
    BY DEF UnitType, QueueType, NoSeq
  <2>3. sentTo \in [Commands -> 0..MaxLives]
    BY <2>1
  <2>4. /\ log \in Seq(Frames) /\ wire \subseteq Frames /\ applied \in Seq(Commands)
        /\ seen \subseteq Commands /\ openPerms \subseteq Gates
    OBVIOUS
  <2>5. /\ life \in 1..MaxLives /\ phase \in {"prepare", "count", "serving"}
        /\ closed \in BOOLEAN /\ fatal \in BOOLEAN
        /\ seq \in Nat /\ start \in Nat /\ pos \in Nat \union {NULL}
        /\ failures \in 0..FailureLimit /\ (failures = FailureLimit => closed)
    BY <2>1
  <2>6. OtherType
    BY <2>3, <2>4, <2>5 DEF OtherType
  <2> QED BY <2>2, <2>6, TypeParts
<1>2. SeqHasMax
  <2>1. Logged = {}
    BY DEF Logged, ToSet
  <2> QED BY <2>1 DEF SeqHasMax, NoSeq
<1>3. HeadAwaits /\ ReadBehindCursor
  BY DEF HeadAwaits, ReadBehindCursor
<1>4. CommandRows
  BY DEF CommandRows, Logged, ToSet
<1>5. DrivenIsBehind /\ QueuedIsFresh /\ DrivenOnce /\ DrivenIsPublished
  BY DEF DrivenIsBehind, QueuedIsFresh, DrivenOnce, DrivenIsPublished
<1>6. GateStages
  BY DEF GateStages, Asked, Resolving, AnsweredGate
<1> QED
  BY <1>1, <1>2, <1>3, <1>4, <1>5, <1>6 DEF DriveInv

LEMMA InvStep == DriveInv /\ [Next]_vars => DriveInv'
<1> SUFFICES ASSUME DriveInv, [Next]_vars PROVE DriveInv'
  OBVIOUS
<1>0. /\ TypeOK /\ SeqHasMax /\ HeadAwaits /\ CommandRows /\ ReadBehindCursor
      /\ DrivenIsBehind /\ QueuedIsFresh /\ GateStages /\ DrivenOnce /\ DrivenIsPublished
  BY DEF DriveInv
<1>1. TypeOK' /\ SeqHasMax'
  BY <1>0, TypeStep, MaxStep
<1>2. HeadAwaits' /\ CommandRows'
  BY <1>0, HeadStep, RowsStep
<1>3. ReadBehindCursor' /\ DrivenIsBehind' /\ QueuedIsFresh'
  BY <1>0, CursorStep, BehindStep, FreshStep
<1>4. GateStages' /\ DrivenOnce' /\ DrivenIsPublished'
  BY <1>0, GateStep, OnceStep, PublishedStep
<1> QED
  BY <1>1, <1>2, <1>3, <1>4 DEF DriveInv

\* The inductive invariant holds in every state of the relay and its broker.
THEOREM InvHolds == Spec => []DriveInv
<1> QED
  BY InitInv, InvStep, PTL DEF Spec

\* Every variable has its type, a unit awaits a post exactly while it is past its start, and
\* each pump has at most one unit queued, for every set of commands, events and devices.
THEOREM TypeCorrect == Spec => []TypeOK
<1>1. DriveInv => TypeOK
  BY DEF DriveInv
<1> QED
  BY <1>1, InvHolds, PTL

\* However often the relay resubscribes, closes or is started over on its channel, and however
\* late a post commits, no command drives the agent twice and no gate is answered twice.
THEOREM DrivesOnce == Spec => []DrivenOnce
<1>1. DriveInv => DrivenOnce
  BY DEF DriveInv
<1> QED
  BY <1>1, InvHolds, PTL

\* The agent is driven by a prompt only once its acknowledgement and its echo are durable at
\* one seq, and by an answer only once its request and its resolution are.
THEOREM PublishesFirst == Spec => []DrivenIsPublished
<1>1. DriveInv => DrivenIsPublished
  BY DEF DriveInv
<1> QED
  BY <1>1, InvHolds, PTL

-------------------------------------------------------------------------------
(* The order of a life's content (GapOnlyAtTail): a failed post may still  *)
(* commit after its relay ended and others began, but a life has one       *)
(* content post under way and ends when that post fails, so whatever       *)
(* commits late is the next seq of its life.                               *)

\* A stored post is a row of its life; nothing else of the relay moves.
LEMMA StoredRows ==
  ASSUME TypeOK, NEW f \in wire, Store(f), log' = Append(log, f)
  PROVE  /\ f \in Frames /\ Logged' = Logged \union {f} /\ wire' = wire \ {f}
         /\ UNCHANGED <<life, phase, closed, seq, step, unitSeq, wait>>
<1>1. log \in Seq(Frames) /\ f \in Frames
  BY DEF TypeOK
<1>2. Logged' = Logged \union {f}
  BY <1>1, LogAppend DEF Logged, ToSet
<1> QED
  BY <1>1, <1>2 DEF Store

\* A command is no content.
LEMMA SentRows ==
  ASSUME TypeOK, NEW c \in Commands, Send(c)
  PROVE  /\ Logged' = Logged \union {InFrame(c)}
         /\ UNCHANGED <<wire, life, phase, closed, seq, step, unitSeq, wait>>
         /\ InFrame(c).life = 0 /\ InFrame(c).seq = NoSeq
<1>1. InFrame(c) \in Frames /\ log' = Append(log, InFrame(c))
  BY FrameType DEF Send, TypeOK
<1>2. Logged' = Logged \union {InFrame(c)}
  BY <1>1, LogAppend DEF Logged, ToSet, TypeOK
<1> QED
  BY <1>2 DEF Send, InFrame

\* Every stored seq is a natural.
LEMMA StoredSeq ==
  ASSUME TypeOK
  PROVE  /\ \A f \in Logged : f.seq \in Nat \union {NoSeq} /\ f.life \in 0..MaxLives
         /\ \A f \in wire : f.seq \in Nat \union {NoSeq} /\ f.life \in 0..MaxLives
<1>1. \A f \in Logged : f \in Frames
  BY DEF TypeOK, Logged, ToSet
<1> QED
  BY <1>1, FrameFields DEF TypeOK

\* What the relay posts: an event or an echo is content at its seq, the others are not.
LEMMA PostShapes ==
  /\ \A s, e : Event(s, e).life = life /\ Event(s, e).seq = s
  /\ \A s, c : Echo(s, c).life = life /\ Echo(s, c).seq = s
  /\ \A s, c : Accepted(s, c).life = life /\ Accepted(s, c).seq = NoSeq
  /\ \A g : Resolved(g).life = life /\ Resolved(g).seq = NoSeq
BY DEF Event, Echo, Accepted, Resolved, Frame

\* Only a serving relay runs a unit.
LEMMA Serving == HeadAwaits /\ ReadBehindCursor /\ (step # "idle" \/ queue # <<>>) /\ TypeOK => phase = "serving"
BY DEF HeadAwaits, HeadOf, ReadBehindCursor, TypeOK

\* Content under way is not stored.
LEMMA NotBoth == TypeOK /\ PostsFit => \A f \in wire : f.seq # NoSeq => f \notin Logged
<1> SUFFICES ASSUME TypeOK, PostsFit, NEW f \in wire, f.seq # NoSeq, f \in Logged PROVE FALSE
  OBVIOUS
<1>1. f.seq < f.seq /\ f.seq \in Nat
  BY StoredSeq DEF PostsFit, Behind, Content
<1> QED
  BY <1>1

\* A unit works at the seq it took last.
LEMMA TakenStep == TypeOK /\ HeadAwaits /\ ReadBehindCursor /\ SeqTaken /\ [Next]_vars => SeqTaken'
  <1> SUFFICES ASSUME TypeOK, HeadAwaits, ReadBehindCursor, SeqTaken, [Next]_vars PROVE SeqTaken'
    OBVIOUS
  <1> USE  DEF Logged, Content, SeqTaken, NoSeq
  <1>1. ASSUME NEW f \in wire, Store(f) PROVE SeqTaken'
    BY <1>1 DEF Store
  <1>2. ASSUME NEW c \in Commands, Send(c) PROVE SeqTaken'
    BY <1>2 DEF Send
  <1>3. CASE ResumeSeq
    BY <1>3, Serving DEF ResumeSeq
  <1>4. CASE ResumeStart
    BY <1>4 DEF ResumeStart
  <1>5. CASE Close
    BY <1>5 DEF Close
  <1>6. CASE Restart
    BY <1>6 DEF Restart
  <1>7. ASSUME NEW e \in Events, PullEvent(e) PROVE SeqTaken'
    BY <1>7 DEF PullEvent, Pulls
  <1>8. ASSUME NEW g \in Gates, PullCancel(g) PROVE SeqTaken'
    BY <1>8 DEF PullCancel, Pulls
  <1>9. CASE Read
    BY <1>9 DEF Read
  <1>10. CASE Break
    BY <1>10 DEF Break
  <1>11. CASE Reject
    BY <1>11 DEF Reject, Fail
  <1>12. CASE RunEvent
    <2>1. /\ seq \in Nat /\ unitSeq' = seq /\ seq' = seq + 1 /\ UNCHANGED life
          /\ wait' = Event(seq, Head(queue).of) /\ step' = "event"
      BY <1>12 DEF RunEvent, Post, TypeOK
    <2> QED BY <2>1, PostShapes
  <1>13. CASE RunPrompt
    <2>1. /\ seq \in Nat /\ unitSeq' = seq /\ seq' = seq + 1 /\ UNCHANGED life
          /\ wait' = Accepted(seq, Head(queue).of) /\ step' = "accept"
      BY <1>13 DEF RunPrompt, Post, TypeOK
    <2> QED BY <2>1, PostShapes
  <1>14. CASE RunAnswer
    BY <1>14 DEF RunAnswer, Runs, Post, Finish
  <1>15. CASE RunInterrupt
    BY <1>15 DEF RunInterrupt, Runs, Finish
  <1>16. CASE PostEcho
    <2>1. /\ step = "accept" /\ UNCHANGED <<life, unitSeq, seq>> /\ unitSeq \in Nat
          /\ wait' = Echo(unitSeq, Head(queue).of) /\ step' = "echo"
      BY <1>16 DEF PostEcho, Answered, Post, HeadAwaits
    <2> QED BY <2>1, PostShapes
  <1>17. CASE EventPublished
    BY <1>17 DEF EventPublished, Answered, Finish
  <1>18. CASE DriveAgent
    BY <1>18 DEF DriveAgent, Answered, Fail, Finish
  <1>19. CASE PostFails
    BY <1>19 DEF PostFails, Fail
  <1>20. CASE UNCHANGED vars
    BY <1>20
  <1> QED
    BY <1>1, <1>2, <1>3, <1>4, <1>5, <1>6, <1>7, <1>8, <1>9, <1>10, <1>11, <1>12, <1>13,
       <1>14, <1>15, <1>16, <1>17, <1>18, <1>19, <1>20 DEF Next, RunUnit

\* Rows and posts are of the lives there were, none of content before a life serves.
LEMMA LivesStep == TypeOK /\ HeadAwaits /\ ReadBehindCursor /\ RowsOfLives /\ [Next]_vars => RowsOfLives'
  <1> SUFFICES ASSUME TypeOK, HeadAwaits, ReadBehindCursor, RowsOfLives, [Next]_vars PROVE RowsOfLives'
    OBVIOUS
  <1> USE  DEF Logged, Content, RowsOfLives
  <1>1. ASSUME NEW f \in wire, Store(f) PROVE RowsOfLives'
    <2>1. CASE log' = log
      BY <1>1, <2>1 DEF Store
    <2>2. CASE log' = Append(log, f)
      BY <1>1, <2>2, StoredRows, StoredSeq DEF TypeOK
    <2> QED BY <1>1, <2>1, <2>2 DEF Store
  <1>2. ASSUME NEW c \in Commands, Send(c) PROVE RowsOfLives'
    <2>1. /\ Logged' = Logged \union {InFrame(c)} /\ life \in Nat
          /\ UNCHANGED <<wire, life, phase, closed, seq, step, unitSeq, wait>>
          /\ InFrame(c).life = 0 /\ InFrame(c).seq = NoSeq
      BY <1>2, SentRows DEF TypeOK
    <2> HIDE DEF Logged
    <2> QED BY <2>1
  <1>3. CASE ResumeSeq
    BY <1>3 DEF ResumeSeq
  <1>4. CASE ResumeStart
    BY <1>4 DEF ResumeStart
  <1>5. CASE Close
    BY <1>5 DEF Close
  <1>6. CASE Restart
    BY <1>6 DEF Restart, TypeOK
  <1>7. ASSUME NEW e \in Events, PullEvent(e) PROVE RowsOfLives'
    BY <1>7 DEF PullEvent, Pulls
  <1>8. ASSUME NEW g \in Gates, PullCancel(g) PROVE RowsOfLives'
    BY <1>8 DEF PullCancel, Pulls
  <1>9. CASE Read
    BY <1>9 DEF Read
  <1>10. CASE Break
    BY <1>10 DEF Break
  <1>11. CASE Reject
    BY <1>11 DEF Reject, Fail
  <1>12. CASE RunEvent
    <2>1. /\ phase = "serving" /\ life \in Nat \ {0} /\ wire' = wire \union {Event(seq, Head(queue).of)}
          /\ step' = "event" /\ UNCHANGED <<log, life, phase, closed>>
      BY <1>12, Serving DEF RunEvent, Runs, Answered, Post, TypeOK
    <2> QED BY <2>1, PostShapes
  <1>13. CASE RunPrompt
    <2>1. /\ phase = "serving" /\ life \in Nat \ {0} /\ wire' = wire \union {Accepted(seq, Head(queue).of)}
          /\ step' = "accept" /\ UNCHANGED <<log, life, phase, closed>>
      BY <1>13, Serving DEF RunPrompt, Runs, Answered, Post, TypeOK
    <2> QED BY <2>1, PostShapes
  <1>14. CASE RunAnswer
    <2> DEFINE g == Head(queue).of[2]
    <2>1. phase = "serving" /\ life \in Nat \ {0} /\ UNCHANGED <<log, life, phase>>
      BY <1>14, Serving DEF RunAnswer, Runs, TypeOK
    <2>2. wire' = wire \/ wire' = wire \union {Resolved(g)}
      BY <1>14, Zenon DEF RunAnswer, Post
    <2>3. Resolved(g).seq = NoSeq /\ Resolved(g).life = life
      BY DEF Resolved, Frame
    <2> HIDE DEF g
    <2> QED BY <2>1, <2>2, <2>3
  <1>15. CASE RunInterrupt
    BY <1>15 DEF RunInterrupt, Runs, Finish
  <1>16. CASE PostEcho
    <2>1. /\ phase = "serving" /\ life \in Nat \ {0} /\ wire' = wire \union {Echo(unitSeq, Head(queue).of)}
          /\ step' = "echo" /\ UNCHANGED <<log, life, phase, closed>>
      BY <1>16, Serving DEF PostEcho, Runs, Answered, Post, TypeOK
    <2> QED BY <2>1, PostShapes
  <1>17. CASE EventPublished
    BY <1>17 DEF EventPublished, Answered, Finish
  <1>18. CASE DriveAgent
    BY <1>18 DEF DriveAgent, Answered, Fail, Finish
  <1>19. CASE PostFails
    BY <1>19 DEF PostFails, Fail
  <1>20. CASE UNCHANGED vars
    BY <1>20
  <1> QED
    BY <1>1, <1>2, <1>3, <1>4, <1>5, <1>6, <1>7, <1>8, <1>9, <1>10, <1>11, <1>12, <1>13,
       <1>14, <1>15, <1>16, <1>17, <1>18, <1>19, <1>20 DEF Next, RunUnit

\* A life has one content post under way, which it awaits unless it is over.
LEMMA OneStep == TypeOK /\ HeadAwaits /\ ReadBehindCursor /\ SeqTaken /\ RowsOfLives /\ OnePost /\ PostsFit /\ [Next]_vars => OnePost'
  <1> SUFFICES ASSUME TypeOK, HeadAwaits, ReadBehindCursor, SeqTaken, RowsOfLives, OnePost, PostsFit, [Next]_vars PROVE OnePost'
    OBVIOUS
  <1> USE  DEF Logged, Content, OnePost
  <1>1. ASSUME NEW f \in wire, Store(f) PROVE OnePost'
    <2>1. CASE log' = log
      BY <1>1, <2>1 DEF Store
    <2>2. CASE log' = Append(log, f)
      BY <1>1, <2>2, StoredRows, StoredSeq DEF TypeOK
    <2> QED BY <1>1, <2>1, <2>2 DEF Store
  <1>2. ASSUME NEW c \in Commands, Send(c) PROVE OnePost'
    BY <1>2, SentRows
  <1>3. CASE ResumeSeq
    BY <1>3 DEF ResumeSeq, RowsOfLives
  <1>4. CASE ResumeStart
    BY <1>4 DEF ResumeStart, RowsOfLives
  <1>5. CASE Close
    BY <1>5 DEF Close
  <1>6. CASE Restart
    BY <1>6 DEF Restart, TypeOK, RowsOfLives
  <1>7. ASSUME NEW e \in Events, PullEvent(e) PROVE OnePost'
    BY <1>7 DEF PullEvent, Pulls
  <1>8. ASSUME NEW g \in Gates, PullCancel(g) PROVE OnePost'
    BY <1>8 DEF PullCancel, Pulls
  <1>9. CASE Read
    BY <1>9 DEF Read
  <1>10. CASE Break
    BY <1>10 DEF Break
  <1>11. CASE Reject
    BY <1>11 DEF Reject, Fail
  <1>12. CASE RunEvent
    <2>1. /\ wire' = wire \union {Event(seq, Head(queue).of)} /\ wait' = Event(seq, Head(queue).of)
          /\ step' = "event" /\ UNCHANGED <<log, life, closed>>
          /\ step = "accept" \/ (step = "idle" /\ ~closed)
      BY <1>12 DEF RunEvent, Runs, Answered, Post
    <2>2. \A g \in wire : ~Content(g, life)
      BY <2>1
    <2> QED BY <2>1, <2>2, PostShapes
  <1>13. CASE RunPrompt
    <2>1. /\ wire' = wire \union {Accepted(seq, Head(queue).of)} /\ wait' = Accepted(seq, Head(queue).of)
          /\ step' = "accept" /\ UNCHANGED <<log, life, closed>>
          /\ step = "accept" \/ (step = "idle" /\ ~closed)
      BY <1>13 DEF RunPrompt, Runs, Answered, Post
    <2>2. \A g \in wire : ~Content(g, life)
      BY <2>1
    <2> QED BY <2>1, <2>2, PostShapes
  <1>14. CASE RunAnswer
    <2> DEFINE g == Head(queue).of[2]
    <2>1. step = "idle" /\ ~closed /\ UNCHANGED <<log, life, closed>>
      BY <1>14 DEF RunAnswer, Runs
    <2>2. wire' = wire \/ wire' = wire \union {Resolved(g)}
      BY <1>14, Zenon DEF RunAnswer, Post
    <2>3. Resolved(g).seq = NoSeq
      BY PostShapes
    <2>4. \A h \in wire : ~Content(h, life)
      BY <2>1
    <2> HIDE DEF g
    <2> QED BY <2>1, <2>2, <2>3, <2>4
  <1>15. CASE RunInterrupt
    BY <1>15 DEF RunInterrupt, Runs, Finish
  <1>16. CASE PostEcho
    <2>1. /\ wire' = wire \union {Echo(unitSeq, Head(queue).of)} /\ wait' = Echo(unitSeq, Head(queue).of)
          /\ step' = "echo" /\ UNCHANGED <<log, life, closed>>
          /\ step = "accept" \/ (step = "idle" /\ ~closed)
      BY <1>16 DEF PostEcho, Runs, Answered, Post
    <2>2. \A g \in wire : ~Content(g, life)
      BY <2>1
    <2> QED BY <2>1, <2>2, PostShapes
  <1>17. CASE EventPublished
    <2>1. \A g \in wire : ~Content(g, life)
      BY <1>17, NotBoth DEF EventPublished, Answered
    <2> QED BY <1>17, <2>1 DEF EventPublished, Finish
  <1>18. CASE DriveAgent
    <2>1. UNCHANGED <<wire, log, life>> /\ step \in {"echo", "resolve"} /\ wait \in Logged
      BY <1>18 DEF DriveAgent, Answered
    <2>2. step' = "idle"
      BY <1>18 DEF DriveAgent, Fail, Finish
    <2>3. \A g \in wire : ~Content(g, life)
      BY <2>1, NotBoth
    <2> QED BY <2>1, <2>2, <2>3
  <1>19. CASE PostFails
    BY <1>19 DEF PostFails, Fail
  <1>20. CASE UNCHANGED vars
    BY <1>20
  <1> QED
    BY <1>1, <1>2, <1>3, <1>4, <1>5, <1>6, <1>7, <1>8, <1>9, <1>10, <1>11, <1>12, <1>13,
       <1>14, <1>15, <1>16, <1>17, <1>18, <1>19, <1>20 DEF Next, RunUnit

\* A row that is no content of a life changes nothing for the life.
LEMMA BehindKept ==
  ASSUME NEW n, NEW s, NEW f, Logged' = Logged \union {f}, ~Content(f, n), Behind(n, s)
  PROVE  Behind(n, s)'
BY DEF Behind, Content

LEMMA BehindSame ==
  ASSUME NEW n, NEW s, Logged' = Logged, Behind(n, s)
  PROVE  Behind(n, s)'
BY DEF Behind, Content

\* A post under way fits behind the rows of its life when the log stays.
LEMMA WireFits ==
  ASSUME PostsFit, Logged' = Logged, NEW f \in wire, f.seq # NoSeq
  PROVE  Behind(f.life, f.seq)'
BY BehindSame DEF PostsFit

\* What is under way fits behind what the log has of its life.
LEMMA FitStep == TypeOK /\ OnePost /\ PostsFit /\ RoomAhead /\ [Next]_vars => PostsFit'
  <1> SUFFICES ASSUME TypeOK, OnePost, PostsFit, RoomAhead, [Next]_vars PROVE PostsFit'
    OBVIOUS
  <1>1. ASSUME NEW f \in wire, Store(f) PROVE PostsFit'
    <2>1. CASE log' = log
      <3>1. wire' \subseteq wire /\ Logged' = Logged
        BY <1>1, <2>1 DEF Store, Logged
      <3> QED BY <3>1, WireFits DEF PostsFit
    <2>2. CASE log' = Append(log, f)
      <3>1. Logged' = Logged \union {f} /\ wire' = wire \ {f}
        BY <1>1, <2>2, StoredRows
      <3>2. ASSUME NEW g \in wire', g.seq # NoSeq PROVE Behind(g.life, g.seq)'
        <4>1. g \in wire /\ g # f /\ ~Content(f, g.life)
          BY <3>1, <3>2 DEF OnePost, Content
        <4> QED BY <3>1, <3>2, <4>1, BehindKept DEF PostsFit
      <3> QED BY <3>2 DEF PostsFit
    <2> QED BY <1>1, <2>1, <2>2 DEF Store
  <1>2. ASSUME NEW c \in Commands, Send(c) PROVE PostsFit'
    <2>1. wire' = wire /\ Logged' = Logged \union {InFrame(c)} /\ InFrame(c).seq = NoSeq
      BY <1>2, SentRows
    <2>2. \A g \in wire' : g.seq # NoSeq => Behind(g.life, g.seq)'
      BY <2>1, BehindKept DEF PostsFit, Content
    <2> QED BY <2>2 DEF PostsFit
  <1>3. CASE ResumeSeq
    <2>1. wire' = wire /\ Logged' = Logged
      BY <1>3, Zenon DEF Logged, ResumeSeq
    <2> QED BY <2>1, WireFits DEF PostsFit
  <1>4. CASE ResumeStart
    <2>1. wire' = wire /\ Logged' = Logged
      BY <1>4, Zenon DEF Logged, ResumeStart
    <2> QED BY <2>1, WireFits DEF PostsFit
  <1>5. CASE Close
    <2>1. wire' = wire /\ Logged' = Logged
      BY <1>5, Zenon DEF Logged, Close
    <2> QED BY <2>1, WireFits DEF PostsFit
  <1>6. CASE Restart
    <2>1. wire' = wire /\ Logged' = Logged
      BY <1>6, Zenon DEF Logged, Restart
    <2> QED BY <2>1, WireFits DEF PostsFit
  <1>7. ASSUME NEW e \in Events, PullEvent(e) PROVE PostsFit'
    <2>1. wire' = wire /\ Logged' = Logged
      BY <1>7, Zenon DEF Logged, PullEvent, Pulls
    <2> QED BY <2>1, WireFits DEF PostsFit
  <1>8. ASSUME NEW g \in Gates, PullCancel(g) PROVE PostsFit'
    <2>1. wire' = wire /\ Logged' = Logged
      BY <1>8, Zenon DEF Logged, PullCancel, Pulls
    <2> QED BY <2>1, WireFits DEF PostsFit
  <1>9. CASE Read
    <2>1. wire' = wire /\ Logged' = Logged
      BY <1>9, Zenon DEF Logged, Read
    <2> QED BY <2>1, WireFits DEF PostsFit
  <1>10. CASE Break
    <2>1. wire' = wire /\ Logged' = Logged
      BY <1>10, Zenon DEF Logged, Break
    <2> QED BY <2>1, WireFits DEF PostsFit
  <1>11. CASE Reject
    <2>1. wire' = wire /\ Logged' = Logged
      BY <1>11, Zenon DEF Logged, Reject, Fail
    <2> QED BY <2>1, WireFits DEF PostsFit
  <1>12. CASE RunEvent
    <2>1. wire' = wire \union {Event(seq, Head(queue).of)} /\ UNCHANGED <<log, life>>
          /\ step = "idle" /\ ~closed
      BY <1>12 DEF RunEvent, Runs, Answered, Post
    <2>2. Behind(life, seq)
      BY <2>1 DEF RoomAhead
    <2>3. ASSUME NEW f \in wire', f.seq # NoSeq PROVE Behind(f.life, f.seq)'
      <3>1. CASE f \in wire
        BY <2>1, <2>3, <3>1, WireFits DEF Logged
      <3>2. CASE f = Event(seq, Head(queue).of)
        BY <2>1, <2>2, <2>3, <3>2, BehindSame, PostShapes DEF Logged
      <3> QED BY <2>1, <2>3, <3>1, <3>2
    <2> QED BY <2>3 DEF PostsFit
  <1>13. CASE RunPrompt
    <2>1. (wire' = wire \/ wire' = wire \union {Accepted(seq, Head(queue).of)}) /\ UNCHANGED log
      BY <1>13, Zenon DEF RunPrompt, Post
    <2>2. \A g \in wire' : g.seq # NoSeq => g \in wire
      BY <2>1, PostShapes
    <2>3. Logged' = Logged
      BY <2>1 DEF Logged
    <2> QED BY <2>2, <2>3, WireFits DEF PostsFit
  <1>14. CASE RunAnswer
    <2>1. (wire' = wire \/ wire' = wire \union {Resolved(Head(queue).of[2])}) /\ UNCHANGED log
      BY <1>14, Zenon DEF RunAnswer, Post
    <2>2. \A g \in wire' : g.seq # NoSeq => g \in wire
      BY <2>1, PostShapes
    <2>3. Logged' = Logged
      BY <2>1 DEF Logged
    <2> QED BY <2>2, <2>3, WireFits DEF PostsFit
  <1>15. CASE RunInterrupt
    <2>1. wire' = wire /\ Logged' = Logged
      BY <1>15, Zenon DEF Logged, RunInterrupt, Runs, Finish
    <2> QED BY <2>1, WireFits DEF PostsFit
  <1>16. CASE PostEcho
    <2>1. wire' = wire \union {Echo(unitSeq, Head(queue).of)} /\ UNCHANGED <<log, life>>
          /\ step = "accept"
      BY <1>16 DEF PostEcho, Runs, Answered, Post
    <2>2. Behind(life, unitSeq)
      BY <2>1 DEF RoomAhead
    <2>3. ASSUME NEW f \in wire', f.seq # NoSeq PROVE Behind(f.life, f.seq)'
      <3>1. CASE f \in wire
        BY <2>1, <2>3, <3>1, WireFits DEF Logged
      <3>2. CASE f = Echo(unitSeq, Head(queue).of)
        BY <2>1, <2>2, <2>3, <3>2, BehindSame, PostShapes DEF Logged
      <3> QED BY <2>1, <2>3, <3>1, <3>2
    <2> QED BY <2>3 DEF PostsFit
  <1>17. CASE EventPublished
    <2>1. wire' = wire /\ Logged' = Logged
      BY <1>17, Zenon DEF Logged, EventPublished, Answered, Finish
    <2> QED BY <2>1, WireFits DEF PostsFit
  <1>18. CASE DriveAgent
    <2>1. wire' = wire /\ Logged' = Logged
      BY <1>18, Zenon DEF Logged, DriveAgent, Answered, Fail, Finish
    <2> QED BY <2>1, WireFits DEF PostsFit
  <1>19. CASE PostFails
    <2>1. wire' = wire /\ Logged' = Logged
      BY <1>19, Zenon DEF Logged, PostFails, Fail
    <2> QED BY <2>1, WireFits DEF PostsFit
  <1>20. CASE UNCHANGED vars
    <2>1. wire' = wire /\ Logged' = Logged
      BY <1>20 DEF Logged
    <2> QED BY <2>1, WireFits DEF PostsFit
  <1> QED
    BY <1>1, <1>2, <1>3, <1>4, <1>5, <1>6, <1>7, <1>8, <1>9, <1>10, <1>11, <1>12, <1>13,
       <1>14, <1>15, <1>16, <1>17, <1>18, <1>19, <1>20 DEF Next, RunUnit

\* The next seq of a serving relay fits too.
LEMMA RoomStep == TypeOK /\ HeadAwaits /\ ReadBehindCursor /\ SeqTaken /\ RowsOfLives /\ OnePost /\ PostsFit /\ RoomAhead /\ [Next]_vars => RoomAhead'
  <1> SUFFICES ASSUME TypeOK, HeadAwaits, ReadBehindCursor, SeqTaken, RowsOfLives, OnePost, PostsFit, RoomAhead, [Next]_vars PROVE RoomAhead'
    OBVIOUS
  <1>1. ASSUME NEW f \in wire, Store(f) PROVE RoomAhead'
    <2>0. UNCHANGED <<life, seq, step, unitSeq, closed, wait>>
      BY <1>1 DEF Store
    <2>1. CASE log' = log
      BY <2>0, <2>1, BehindSame DEF RoomAhead, Logged
    <2>2. CASE log' = Append(log, f)
      <3>1. Logged' = Logged \union {f}
        BY <1>1, <2>2, StoredRows
      <3>2. CASE Content(f, life)
        BY <2>0, <3>1, <3>2 DEF OnePost, SeqTaken, RoomAhead, TypeOK, Content
      <3>3. CASE ~Content(f, life)
        BY <2>0, <3>1, <3>3, BehindKept DEF RoomAhead, Content
      <3> QED BY <3>2, <3>3
    <2> QED BY <1>1, <2>1, <2>2 DEF Store
  <1>2. ASSUME NEW c \in Commands, Send(c) PROVE RoomAhead'
    <2>1. /\ Logged' = Logged \union {InFrame(c)} /\ InFrame(c).seq = NoSeq
          /\ UNCHANGED <<life, closed, seq, step, unitSeq>>
      BY <1>2, SentRows
    <2> QED BY <2>1, BehindKept DEF RoomAhead, Content
  <1>3. CASE ResumeSeq
    <2>1. phase = "prepare" /\ step = "idle" /\ UNCHANGED <<life, step>> /\ Logged' = Logged
      BY <1>3, Serving DEF ResumeSeq, Logged
    <2>2. \A s : Behind(life, s)'
      BY <2>1 DEF RowsOfLives, Behind, Content
    <2> QED BY <2>1, <2>2 DEF RoomAhead
  <1>4. CASE ResumeStart
    <2>1. UNCHANGED <<life, seq, step, unitSeq>> /\ Logged' = Logged /\ (closed => closed')
      BY <1>4, Zenon DEF Logged, ResumeStart
    <2> QED BY <2>1, BehindSame DEF RoomAhead
  <1>5. CASE Close
    <2>1. UNCHANGED <<life, seq, step, unitSeq>> /\ Logged' = Logged /\ (closed => closed')
      BY <1>5 DEF Logged, Close
    <2> QED BY <2>1, BehindSame DEF RoomAhead
  <1>6. CASE Restart
    <2>1. life' = life + 1 /\ life \in Nat /\ step' = "idle" /\ Logged' = Logged
      BY <1>6 DEF Restart, Logged, TypeOK
    <2>2. \A f \in Logged : ~Content(f, life + 1)
      BY <2>1 DEF RowsOfLives, Content
    <2>3. \A s : Behind(life, s)'
      BY <2>1, <2>2 DEF Behind, Content
    <2> QED BY <2>1, <2>3 DEF RoomAhead
  <1>7. ASSUME NEW e \in Events, PullEvent(e) PROVE RoomAhead'
    <2>1. UNCHANGED <<life, seq, step, unitSeq>> /\ Logged' = Logged /\ (closed => closed')
      BY <1>7, Zenon DEF Logged, PullEvent, Pulls
    <2> QED BY <2>1, BehindSame DEF RoomAhead
  <1>8. ASSUME NEW g \in Gates, PullCancel(g) PROVE RoomAhead'
    <2>1. UNCHANGED <<life, seq, step, unitSeq>> /\ Logged' = Logged /\ (closed => closed')
      BY <1>8, Zenon DEF Logged, PullCancel, Pulls
    <2> QED BY <2>1, BehindSame DEF RoomAhead
  <1>9. CASE Read
    <2>1. UNCHANGED <<life, seq, step, unitSeq>> /\ Logged' = Logged /\ (closed => closed')
      BY <1>9, Zenon DEF Logged, Read
    <2> QED BY <2>1, BehindSame DEF RoomAhead
  <1>10. CASE Break
    <2>1. UNCHANGED <<life, seq, step, unitSeq>> /\ Logged' = Logged /\ (closed => closed')
      BY <1>10, Zenon DEF Logged, Break
    <2> QED BY <2>1, BehindSame DEF RoomAhead
  <1>11. CASE Reject
    <2>1. step' = "idle" /\ closed'
      BY <1>11, Zenon DEF Reject, Fail
    <2> QED BY <2>1 DEF RoomAhead
  <1>12. CASE RunEvent
    <2>1. /\ step = "idle" /\ ~closed /\ UNCHANGED life /\ Logged' = Logged
          /\ seq' = seq + 1 /\ seq \in Nat /\ step' = "event"
      BY <1>12 DEF RunEvent, Runs, Post, Logged, TypeOK
    <2> QED BY <2>1, StoredSeq DEF RoomAhead, Behind, Content, NoSeq
  <1>13. CASE RunPrompt
    <2>1. /\ step = "idle" /\ ~closed /\ UNCHANGED life /\ Logged' = Logged
          /\ unitSeq' = seq /\ step' = "accept"
      BY <1>13 DEF RunPrompt, Runs, Post, Logged
    <2> QED BY <2>1, BehindSame DEF RoomAhead
  <1>14. CASE RunAnswer
    <2>1. step = "idle" /\ ~closed /\ UNCHANGED <<life, seq>> /\ Logged' = Logged
      BY <1>14 DEF RunAnswer, Runs, Logged
    <2>2. step' \in {"idle", "resolve"}
      BY <1>14 DEF RunAnswer, Finish, Post
    <2> QED BY <2>1, <2>2, BehindSame DEF RoomAhead
  <1>15. CASE RunInterrupt
    <2>1. step = "idle" /\ ~closed /\ UNCHANGED <<life, seq>> /\ Logged' = Logged /\ step' = "idle"
      BY <1>15 DEF RunInterrupt, Runs, Finish, Logged
    <2> QED BY <2>1, BehindSame DEF RoomAhead
  <1>16. CASE PostEcho
    <2>1. /\ step = "accept" /\ UNCHANGED <<life, seq>> /\ Logged' = Logged /\ step' = "echo"
          /\ unitSeq \in Nat /\ seq \in Nat
      BY <1>16 DEF PostEcho, Answered, Post, Logged, HeadAwaits, TypeOK
    <2> QED BY <2>1, StoredSeq DEF RoomAhead, SeqTaken, Behind, Content, NoSeq
  <1>17. CASE EventPublished
    <2>1. /\ step = "event" /\ wait \in Logged /\ UNCHANGED <<life, seq, closed>>
          /\ Logged' = Logged /\ step' = "idle" /\ seq \in Nat
      BY <1>17 DEF EventPublished, Answered, Finish, Logged, TypeOK
    <2>2. Behind(life, seq)
      BY <2>1 DEF RoomAhead, SeqTaken, Behind
    <2> QED BY <2>1, <2>2, BehindSame DEF RoomAhead
  <1>18. CASE DriveAgent
    <2>1. /\ step \in {"echo", "resolve"} /\ wait \in Logged /\ UNCHANGED <<life, seq>>
          /\ Logged' = Logged /\ seq \in Nat
      BY <1>18 DEF DriveAgent, Answered, Logged, TypeOK
    <2>2. Behind(life, seq)
      BY <2>1 DEF RoomAhead, SeqTaken, Behind
    <2>3. step' = "idle"
      BY <1>18 DEF DriveAgent, Finish, Fail
    <2> QED BY <2>1, <2>2, <2>3, BehindSame DEF RoomAhead
  <1>19. CASE PostFails
    <2>1. step' = "idle" /\ closed'
      BY <1>19, Zenon DEF PostFails, Fail
    <2> QED BY <2>1 DEF RoomAhead
  <1>20. CASE UNCHANGED vars
    <2>1. UNCHANGED <<life, seq, step, unitSeq>> /\ Logged' = Logged /\ (closed => closed')
      BY <1>20 DEF Logged
    <2> QED BY <2>1, BehindSame DEF RoomAhead
  <1> QED
    BY <1>1, <1>2, <1>3, <1>4, <1>5, <1>6, <1>7, <1>8, <1>9, <1>10, <1>11, <1>12, <1>13,
       <1>14, <1>15, <1>16, <1>17, <1>18, <1>19, <1>20 DEF Next, RunUnit

\* A life's content enters the log in seq order and without a hole: what is stored next fits.
LEMMA GapStep == TypeOK /\ PostsFit /\ GapOnlyAtTail /\ [Next]_vars => GapOnlyAtTail'
<1> SUFFICES ASSUME TypeOK, PostsFit, GapOnlyAtTail, [Next]_vars PROVE GapOnlyAtTail'
  OBVIOUS
<1>0. /\ log \in Seq(Frames) /\ Len(log) \in Nat /\ DOMAIN log = 1..Len(log)
      /\ \A i \in DOMAIN log : log[i] \in Logged /\ log[i].seq \in Nat \union {NoSeq}
  BY StoredSeq DEF TypeOK, Logged, ToSet
<1>1. CASE log' = log
  BY <1>1 DEF GapOnlyAtTail, ContentOf
<1>2. ASSUME NEW f \in Frames, log' = Append(log, f),
             f.seq # NoSeq => Behind(f.life, f.seq)
      PROVE  GapOnlyAtTail'
  <2> DEFINE last == Len(log) + 1
  <2>1. /\ DOMAIN log' = DOMAIN log \union {last} /\ last \notin DOMAIN log /\ log'[last] = f
        /\ \A i \in DOMAIN log : log'[i] = log[i] /\ i < last
    <3>1. /\ DOMAIN log' = DOMAIN log \union {last} /\ last \notin DOMAIN log /\ log'[last] = f
          /\ \A i \in DOMAIN log : log'[i] = log[i]
      BY <1>0, <1>2, LogAppend
    <3>2. \A i \in DOMAIN log : i < last
      BY <1>0
    <3> QED BY <3>1, <3>2
  <2> SUFFICES ASSUME NEW n \in 1..MaxLives, NEW i \in DOMAIN log', NEW j \in DOMAIN log', i < j,
                      log'[i].life = n, log'[i].seq # NoSeq, log'[j].life = n, log'[j].seq # NoSeq
               PROVE  /\ log'[i].seq < log'[j].seq
                      /\ \A s \in log'[i].seq..log'[j].seq :
                           \E k \in i..j : k \in DOMAIN log' /\ log'[k].life = n /\ log'[k].seq # NoSeq /\ log'[k].seq = s
    BY DEF GapOnlyAtTail, ContentOf
  <2>2. i \in DOMAIN log /\ i \in Nat
    BY <1>0, <2>1
  <2>3. CASE j \in DOMAIN log
    <3>1. /\ log[i].seq < log[j].seq
          /\ \A s \in log[i].seq..log[j].seq :
               \E k \in i..j : k \in DOMAIN log /\ log[k].life = n /\ log[k].seq # NoSeq /\ log[k].seq = s
      BY <2>1, <2>2, <2>3 DEF GapOnlyAtTail, ContentOf
    <3> QED BY <2>1, <2>2, <2>3, <3>1
  <2>4. CASE j = last
    <3>1. f.life = n /\ f.seq \in Nat /\ log[i].seq \in Nat /\ Content(log[i], n)
      BY <1>0, <2>1, <2>2, <2>4, FrameFields DEF Content
    <3>2. log[i].seq < f.seq /\ \E g \in Logged : Content(g, n) /\ g.seq = f.seq - 1
      <4>1. Behind(n, f.seq)
        BY <1>2, <3>1 DEF NoSeq
      <4>2. log[i] \in Logged
        BY <1>0, <2>2
      <4> QED BY <3>1, <4>1, <4>2 DEF Behind
    <3>3. PICK p \in DOMAIN log : Content(log[p], n) /\ log[p].seq = f.seq - 1
      BY <3>2 DEF Logged, ToSet
    <3>4. p \in Nat /\ p < last
      BY <1>0, <2>1
    <3>5. i <= p
      <4>1. p < i => log[p].seq < log[i].seq
        BY <2>1, <2>2, <3>1, <3>3 DEF GapOnlyAtTail, ContentOf, Content
      <4> QED BY <2>2, <3>1, <3>2, <3>3, <3>4, <4>1
    <3>6. ASSUME NEW s \in log[i].seq..f.seq
          PROVE  \E k \in i..last : k \in DOMAIN log' /\ log'[k].life = n /\ log'[k].seq # NoSeq /\ log'[k].seq = s
      <4>1. CASE s = f.seq
        BY <1>0, <2>1, <2>2, <2>4, <3>1, <3>4, <3>5, <4>1
      <4>2. CASE s = log[i].seq
        BY <1>0, <2>1, <2>2, <2>4, <3>1, <4>2
      <4>3. CASE s # f.seq /\ i < p
        <5>1. s \in log[i].seq..log[p].seq
          BY <3>1, <3>3, <3>6, <4>3
        <5>2. PICK k \in i..p : k \in DOMAIN log /\ log[k].life = n /\ log[k].seq # NoSeq /\ log[k].seq = s
          BY <2>1, <2>2, <3>1, <3>3, <4>3, <5>1 DEF GapOnlyAtTail, ContentOf, Content
        <5> QED BY <2>1, <2>2, <3>4, <5>2
      <4>4. CASE s # f.seq /\ i = p
        BY <3>1, <3>3, <3>6, <4>2, <4>4
      <4> QED BY <3>5, <2>2, <3>4, <4>1, <4>3, <4>4
    <3> QED BY <2>1, <2>2, <2>4, <3>2, <3>6
  <2> QED BY <2>1, <2>3, <2>4
<1>3. ASSUME NEW c \in Commands, Send(c)
      PROVE  InFrame(c) \in Frames /\ log' = Append(log, InFrame(c)) /\ InFrame(c).seq = NoSeq
  BY <1>3, FrameType DEF Send, TypeOK, InFrame
<1> QED
  BY <1>1, <1>2, <1>3, LogSteps DEF PostsFit

-------------------------------------------------------------------------------
LEMMA InitOrder == Init => OrderInv
<1> SUFFICES ASSUME Init PROVE OrderInv
  OBVIOUS
<1>1. Logged = {} /\ wire = {} /\ step = "idle" /\ log = <<>>
  BY DEF Init, Logged, ToSet
<1>2. SeqChain
  BY <1>1 DEF SeqChain, SeqTaken, RowsOfLives, OnePost, PostsFit, RoomAhead, Behind
<1>3. GapOnlyAtTail
  BY <1>1 DEF GapOnlyAtTail, ContentOf
<1> QED
  BY <1>2, <1>3 DEF OrderInv

LEMMA OrderStep == DriveInv /\ OrderInv /\ [Next]_vars => OrderInv'
<1> SUFFICES ASSUME DriveInv, OrderInv, [Next]_vars PROVE OrderInv'
  OBVIOUS
<1>0. /\ TypeOK /\ HeadAwaits /\ ReadBehindCursor /\ GapOnlyAtTail
      /\ SeqTaken /\ RowsOfLives /\ OnePost /\ PostsFit /\ RoomAhead
  BY DEF DriveInv, OrderInv, SeqChain
<1>1. SeqTaken' /\ RowsOfLives' /\ OnePost'
  BY <1>0, TakenStep, LivesStep, OneStep
<1>2. PostsFit' /\ RoomAhead' /\ GapOnlyAtTail'
  BY <1>0, FitStep, RoomStep, GapStep
<1> QED
  BY <1>1, <1>2 DEF OrderInv, SeqChain

\* In every life of the relay the content frames enter the durable log in seq order without a
\* hole: what a failed post leaves unused is at most the last seq the life took.
THEOREM InOrder == Spec => []GapOnlyAtTail
<1>1. OrderInv => GapOnlyAtTail
  BY DEF OrderInv
<1> QED
  BY <1>1, InvHolds, InitOrder, OrderStep, PTL DEF Spec

-----------------------------------------------------------------------------
(* The cards                                                               *)

USE DEF hostVars, pageVars, cardVars

-------------------------------------------------------------------------------
\* What takes a decision from the inbox: a request and a decision.
LEMMA HeadIs ==
  ASSUME CardTypeOK, inbox # <<>>
  PROVE  /\ Head(inbox) \in Grants
         /\ Tail(inbox) \in Seq(Grants)
BY DEF CardTypeOK

\* A decision is none of the other tags.
LEMMA DecisionIs ==
  ASSUME NEW b \in AllDecisions
  PROVE  b \in Behaviors /\ b \notin {"pending", "resolved", "none", "gone"}
BY FormsAssumption DEF AllDecisions, Behaviors

LEMMA CardTypeStep == CardTypeOK /\ [CardNext]_cardVars => CardTypeOK'
<1> SUFFICES ASSUME CardTypeOK, [CardNext]_cardVars PROVE CardTypeOK'
  OBVIOUS
<1>1. ASSUME NEW r \in Requests, Ask(r) PROVE CardTypeOK'
  BY <1>1 DEF Ask, CardTypeOK
<1>2. CASE TakeGrant
  <2> DEFINE g == Head(inbox)
  <2>1. g.req \in Requests /\ g.behavior \in AllDecisions
        /\ inbox' \in Seq(Grants)
    BY <1>2, HeadIs DEF TakeGrant, Grants
  <2> HIDE DEF g
  <2>2. CASE ~Takes(g.req)
    BY <1>2, <2>1, <2>2 DEF TakeGrant, CardTypeOK, g
  <2>3. CASE Takes(g.req)
    <3>1. Decide(g.req, g.behavior) /\ UNCHANGED <<asked, pageVars, calls>>
      BY <1>2, <2>3 DEF TakeGrant, g
    <3>2. outcome' \in [Requests -> Behaviors \union {"none", "gone"}] /\ g.behavior \in Behaviors
      BY <2>1, <3>1 DEF Decide, CardTypeOK, Behaviors
    <3>3. frames' \subseteq [req : Requests, behavior : Behaviors] /\ frames \subseteq frames'
      BY <2>1, <3>1, <3>2 DEF Decide, Tell, CardTypeOK, Behaviors
    <3>4. open' \subseteq asked /\ submitted' \subseteq open'
      BY <2>3, <3>1 DEF Decide, CardTypeOK, Takes
    <3>5. got \in [Pages -> SUBSET frames']
      BY <3>3 DEF CardTypeOK
    <3> QED
      BY <2>1, <3>1, <3>2, <3>3, <3>4, <3>5 DEF CardTypeOK
  <2> QED
    BY <2>2, <2>3
<1>3. ASSUME NEW r \in Requests, Cancel(r) PROVE CardTypeOK'
  <2>1. frames' \subseteq [req : Requests, behavior : Behaviors] /\ frames \subseteq frames'
    BY <1>3 DEF Cancel, Tell, CardTypeOK, Behaviors
  <2>2. outcome' \in [Requests -> Behaviors \union {"none", "gone"}]
    BY <1>3 DEF Cancel, CardTypeOK, Behaviors
  <2>3. got \in [Pages -> SUBSET frames']
    BY <2>1 DEF CardTypeOK
  <2> QED
    BY <1>3, <2>1, <2>2, <2>3 DEF Cancel, CardTypeOK
<1>4. ASSUME NEW d \in Pages, Reload(d) PROVE CardTypeOK'
  <2>1. Fresh \in [decision : AllDecisions \union {"none", "pending"}, deciding : BOOLEAN]
    BY DEF Fresh
  <2>2. inbox' \in Seq(Grants)
    <3>1. inbox \in Seq(Grants) /\ calls[d] \subseteq Grants
      BY DEF CardTypeOK
    <3>2. inbox' = inbox \/ \E c \in calls[d] : inbox' = Append(inbox, c)
      BY <1>4 DEF Reload
    <3> QED
      BY <3>1, <3>2
  <2>3. card' \in [Pages -> [Requests -> [decision : AllDecisions \union {"none", "pending"},
                                          deciding : BOOLEAN]]]
    BY <1>4, <2>1 DEF Reload, CardTypeOK
  <2> QED
    BY <1>4, <2>2, <2>3 DEF Reload, CardTypeOK
<1>5. ASSUME NEW d \in Pages, NEW f \in frames, Receive(d, f) PROVE CardTypeOK'
  <2>1. f.req \in Requests /\ f.behavior \in Behaviors
    BY DEF CardTypeOK
  <2>2. \A before \in Behaviors \union {"none"} : Folded(before, f.behavior) \in Behaviors \union {"none"}
    BY <2>1 DEF Folded
  <2>3. resolved' \in [Pages -> [Requests -> Behaviors \union {"none"}]]
    BY <1>5, <2>1, <2>2 DEF Receive, CardTypeOK
  <2> QED
    BY <1>5, <2>3 DEF Receive, CardTypeOK
<1>6. ASSUME NEW d \in Pages, NEW r \in Requests, NEW decision \in AllDecisions, Click(d, r, decision)
      PROVE  CardTypeOK'
  <2> DEFINE now == card[d][r]
             next == [now EXCEPT !.deciding = TRUE]
  <2>1. now \in [decision : AllDecisions \union {"none", "pending"}, deciding : BOOLEAN]
    BY DEF CardTypeOK
  <2>2. next \in [decision : AllDecisions \union {"none", "pending"}, deciding : BOOLEAN]
    BY <2>1
  <2>3. card' = [card EXCEPT ![d] = [card[d] EXCEPT ![r] = next]]
    BY <1>6 DEF Click, CardTypeOK
  <2> HIDE DEF next
  <2>4. card' \in [Pages -> [Requests -> [decision : AllDecisions \union {"none", "pending"},
                                          deciding : BOOLEAN]]]
    BY <2>2, <2>3 DEF CardTypeOK
  <2>5. [req |-> r, behavior |-> decision] \in Grants
    BY DEF Grants
  <2>6. calls' \in [Pages -> SUBSET Grants]
    BY <1>6, <2>5 DEF Click, CardTypeOK
  <2> QED
    BY <1>6, <2>4, <2>6 DEF Click, CardTypeOK
<1>7. ASSUME NEW d \in Pages, NEW c \in calls[d], NEW delivered \in BOOLEAN, NEW ok \in BOOLEAN,
             Posted(d, c, delivered, ok)
      PROVE  CardTypeOK'
  <2> DEFINE now == card[d][c.req]
             done == [now EXCEPT !.decision = IF c.req \in Native THEN "pending" ELSE c.behavior]
             again == [now EXCEPT !.deciding = FALSE]
             next == IF ok THEN done ELSE again
  <2>1. c \in Grants /\ c.req \in Requests /\ c.behavior \in AllDecisions
    BY DEF CardTypeOK, Grants
  <2>2. now \in [decision : AllDecisions \union {"none", "pending"}, deciding : BOOLEAN]
    BY <2>1 DEF CardTypeOK
  <2>3. next \in [decision : AllDecisions \union {"none", "pending"}, deciding : BOOLEAN]
    BY <2>1, <2>2
  <2>4. card' = [card EXCEPT ![d] = [card[d] EXCEPT ![c.req] = next]]
    BY <1>7, <2>1 DEF Posted, CardTypeOK
  <2> HIDE DEF next
  <2>5. card' \in [Pages -> [Requests -> [decision : AllDecisions \union {"none", "pending"},
                                          deciding : BOOLEAN]]]
    BY <2>1, <2>3, <2>4 DEF CardTypeOK
  <2>6. inbox' \in Seq(Grants)
    BY <1>7, <2>1 DEF Posted, CardTypeOK
  <2> QED
    BY <1>7, <2>5, <2>6 DEF Posted, CardTypeOK
<1>8. CASE UNCHANGED cardVars
  BY <1>8 DEF CardTypeOK
<1> QED
  BY <1>1, <1>2, <1>3, <1>4, <1>5, <1>6, <1>7, <1>8 DEF CardNext

-------------------------------------------------------------------------------
(* What the relay publishes                                                *)

\* A publication shows its own request and behavior, and takes nothing back.
LEMMA TellShows ==
  ASSUME NEW q, NEW x, frames' = frames \union {[req |-> q, behavior |-> x]}, NEW r, NEW b
  PROVE  Shown(r, b)' <=> Shown(r, b) \/ (r = q /\ b = x)
<1>1. [req |-> r, behavior |-> b] = [req |-> q, behavior |-> x] <=> r = q /\ b = x
  OBVIOUS
<1> QED
  BY <1>1 DEF Shown

\* What a step does not mention of a request stays true of it.
LEMMA OthersKeep ==
  ASSUME NEW r \in Requests, OutcomeOf(r), StagesOf(r),
         outcome'[r] = outcome[r], r \in asked' <=> r \in asked, Takes(r)' => Takes(r),
         r \in submitted' <=> r \in submitted, \A b : Shown(r, b)' <=> Shown(r, b)
  PROVE  OutcomeOf(r)' /\ StagesOf(r)'
<1>1. OutcomeOf(r)'
  BY DEF OutcomeOf
<1>2. StagesOf(r)'
  BY DEF StagesOf
<1> QED
  BY <1>1, <1>2

\* The first decision that reaches a gate is its request's outcome.
LEMMA DecideStep ==
  ASSUME CardTypeOK, NEW q \in Requests, NEW x \in AllDecisions, Takes(q), Decide(q, x),
         OutcomeOf(q), StagesOf(q)
  PROVE  asked' = asked => OutcomeOf(q)' /\ StagesOf(q)'
<1> SUFFICES ASSUME asked' = asked PROVE OutcomeOf(q)' /\ StagesOf(q)'
  OBVIOUS
<1>1. outcome'[q] = x
  BY DEF Decide, CardTypeOK
<1>2. x \in Behaviors /\ x \notin {"pending", "resolved", "none", "gone"}
  BY DecisionIs
<1>3. \A b \in Behaviors : ~Shown(q, b)
  BY DEF OutcomeOf
<1>4. "pending" \in Behaviors /\ "resolved" \in Behaviors
  BY DEF Behaviors
<1>5. ~Takes(q)' /\ q \in asked'
  BY DEF Decide, Takes, CardTypeOK
<1>6. CASE q \in Native
  <2>1. q \in submitted' /\ frames' = frames \union {[req |-> q, behavior |-> "pending"]}
    BY <1>6 DEF Decide, Tell
  <2>2. \A b \in Behaviors : Shown(q, b)' <=> b = "pending"
    BY <1>3, <2>1, TellShows
  <2>3. OutcomeOf(q)'
    BY <1>1, <1>2, <1>5, <1>6 DEF OutcomeOf
  <2>4. Shown(q, "pending")' /\ ~Shown(q, "resolved")'
    BY <1>4, <2>2
  <2>5. StagesOf(q)'
    BY <1>1, <1>2, <1>6, <2>1, <2>2, <2>4 DEF StagesOf
  <2> QED
    BY <2>3, <2>5
<1>7. CASE q \notin Native
  <2>1. q \notin submitted' /\ frames' = frames \union {[req |-> q, behavior |-> x]}
    BY <1>7 DEF Decide, Tell, Takes
  <2>2. \A b \in Behaviors : Shown(q, b)' <=> b = x
    BY <1>3, <2>1, TellShows
  <2>3. Shown(q, x)'
    BY <1>2, <2>2
  <2>4. OutcomeOf(q)'
    BY <1>1, <1>2, <1>5, <2>2, <2>3 DEF OutcomeOf
  <2>5. StagesOf(q)'
    BY <1>7, <2>1 DEF StagesOf
  <2> QED
    BY <2>4, <2>5
<1> QED
  BY <1>6, <1>7

\* The agent's own end is the outcome of a native request; another's gate was still waiting.
LEMMA CancelStep ==
  ASSUME CardTypeOK, NEW q \in Requests, Cancel(q), OutcomeOf(q), StagesOf(q)
  PROVE  OutcomeOf(q)' /\ StagesOf(q)'
<1>1. q \notin open' /\ q \notin submitted' /\ q \in asked'
  BY DEF Cancel, CardTypeOK
<1>2. ~Takes(q)'
  BY <1>1 DEF Takes
<1>3. "resolved" \in Behaviors
  BY DEF Behaviors
<1>4. CASE q \in Native
  <2>1. outcome'[q] = "resolved" /\ frames' = frames \union {[req |-> q, behavior |-> "resolved"]}
    BY <1>4 DEF Cancel, Tell, CardTypeOK
  <2>2. \A b \in Behaviors : Shown(q, b)' <=> Shown(q, b) \/ b = "resolved"
    BY <2>1, TellShows
  <2>3. OutcomeOf(q)'
    BY <1>1, <1>2, <1>4, <2>1 DEF OutcomeOf
  <2>4. StagesOf(q)'
    BY <1>1, <1>3, <1>4, <2>1, <2>2 DEF StagesOf
  <2> QED
    BY <2>3, <2>4
<1>5. CASE q \notin Native
  <2>1. outcome'[q] = "gone" /\ frames' = frames
    BY <1>5 DEF Cancel, CardTypeOK
  <2>2. outcome[q] = "none"
    BY <1>5 DEF OutcomeOf, StagesOf, Cancel, Takes
  <2>3. \A b \in Behaviors : ~Shown(q, b)'
    BY <2>1, <2>2 DEF OutcomeOf, Shown
  <2>4. OutcomeOf(q)'
    BY <1>1, <1>2, <2>1, <2>3 DEF OutcomeOf
  <2>5. StagesOf(q)'
    BY <1>1, <1>5 DEF StagesOf
  <2> QED
    BY <2>4, <2>5
<1> QED
  BY <1>4, <1>5

\* A step of a page leaves the relay's side alone.
LEMMA HostStep ==
  ASSUME CardTypeOK, OutcomeShown, [CardNext]_cardVars
  PROVE  OutcomeShown'
<1> SUFFICES ASSUME NEW r \in Requests PROVE OutcomeOf(r)' /\ StagesOf(r)'
  BY DEF OutcomeShown
<1>a. OutcomeOf(r) /\ StagesOf(r)
  BY DEF OutcomeShown
<1>1. ASSUME NEW q \in Requests, Ask(q) PROVE OutcomeOf(r)' /\ StagesOf(r)'
  <2>1. UNCHANGED <<submitted, outcome, frames>> /\ asked' = asked \union {q} /\ open' = open \union {q}
        /\ q \notin asked
    BY <1>1 DEF Ask
  <2>2. \A b : Shown(r, b)' <=> Shown(r, b)
    BY <2>1 DEF Shown
  <2>3. CASE r # q
    BY <1>a, <2>1, <2>2, <2>3, OthersKeep DEF Takes
  <2>4. CASE r = q
    <3>1. outcome[r] = "none"
      BY <1>a, <2>1, <2>4 DEF OutcomeOf
    <3>2. OutcomeOf(r)'
      BY <1>a, <2>1, <2>2, <3>1 DEF OutcomeOf
    <3>3. StagesOf(r)'
      BY <1>a, <2>1, <2>2 DEF StagesOf
    <3> QED
      BY <3>2, <3>3
  <2> QED
    BY <2>3, <2>4
<1>2. CASE TakeGrant
  <2> DEFINE g == Head(inbox)
  <2>1. g.req \in Requests /\ g.behavior \in AllDecisions
    BY <1>2, HeadIs DEF TakeGrant, Grants
  <2>2. /\ asked' = asked
        /\ IF Takes(g.req) THEN Decide(g.req, g.behavior) ELSE UNCHANGED <<open, submitted, outcome, frames>>
    BY <1>2 DEF TakeGrant
  <2> HIDE DEF g
  <2>3. CASE ~Takes(g.req)
    BY <1>a, <2>2, <2>3, OthersKeep DEF Shown, Takes
  <2>4. CASE Takes(g.req) /\ r = g.req
    BY <1>a, <2>1, <2>2, <2>4, DecideStep
  <2>5. CASE Takes(g.req) /\ r # g.req
    <3>1. Decide(g.req, g.behavior)
      BY <2>2, <2>5
    <3>2. outcome'[r] = outcome[r] /\ (Takes(r)' => Takes(r)) /\ (r \in submitted' <=> r \in submitted)
      BY <2>1, <2>5, <3>1 DEF Decide, CardTypeOK, Takes
    <3>3. \E x : frames' = frames \union {[req |-> g.req, behavior |-> x]}
      BY <3>1 DEF Decide, Tell
    <3>4. \A b : Shown(r, b)' <=> Shown(r, b)
      BY <2>5, <3>3, TellShows
    <3> QED
      BY <1>a, <2>2, <3>2, <3>4, OthersKeep
  <2> QED
    BY <2>3, <2>4, <2>5
<1>3. ASSUME NEW q \in Requests, Cancel(q) PROVE OutcomeOf(r)' /\ StagesOf(r)'
  <2>1. CASE r = q
    BY <1>a, <1>3, <2>1, CancelStep
  <2>2. CASE r # q
    <3>1. outcome'[r] = outcome[r] /\ asked' = asked /\ open' = open \ {q} /\ submitted' = submitted \ {q}
      BY <1>3, <2>2 DEF Cancel, CardTypeOK
    <3>2. frames' = frames \/ frames' = frames \union {[req |-> q, behavior |-> "resolved"]}
      BY <1>3 DEF Cancel, Tell
    <3>3. ASSUME NEW b PROVE Shown(r, b)' <=> Shown(r, b)
      BY <2>2, <3>2, TellShows DEF Shown
    <3>4. Takes(r)' => Takes(r)
      BY <2>2, <3>1 DEF Takes
    <3> QED
      BY <1>a, <2>2, <3>1, <3>3, <3>4, OthersKeep
  <2> QED
    BY <2>1, <2>2
<1>4. CASE UNCHANGED hostVars
  BY <1>a, <1>4, OthersKeep DEF Shown, Takes
<1>5. ASSUME NEW d \in Pages PROVE Reload(d) => UNCHANGED hostVars
  BY DEF Reload
<1>6. ASSUME NEW d, NEW f PROVE Receive(d, f) => UNCHANGED hostVars
  BY DEF Receive
<1>7. ASSUME NEW d, NEW q, NEW x PROVE Click(d, q, x) => UNCHANGED hostVars
  BY DEF Click
<1>8. ASSUME NEW d, NEW c, NEW delivered, NEW ok PROVE Posted(d, c, delivered, ok) => UNCHANGED hostVars
  BY DEF Posted
<1>9. UNCHANGED cardVars => UNCHANGED hostVars
  OBVIOUS
<1> HIDE DEF cardVars, hostVars
<1> QED
  BY <1>1, <1>2, <1>3, <1>4, <1>5, <1>6, <1>7, <1>8, <1>9 DEF CardNext

-------------------------------------------------------------------------------
(* What a page makes of it                                                 *)

\* What a page has not met of a request it does not change its mind about.
LEMMA FoldKeeps ==
  ASSUME NEW d, NEW r, FoldOf(d, r), resolved'[d][r] = resolved[d][r],
         \A b : Met(d, r, b)' <=> Met(d, r, b)
  PROVE  FoldOf(d, r)'
BY DEF FoldOf, Met

LEMMA FoldStep ==
  ASSUME CardTypeOK, FoldOfMet, [CardNext]_cardVars
  PROVE  FoldOfMet'
<1> SUFFICES ASSUME NEW e \in Pages, NEW r \in Requests PROVE FoldOf(e, r)'
  BY DEF FoldOfMet
<1>a. FoldOf(e, r) /\ resolved[e][r] \in Behaviors \union {"none"}
  BY DEF FoldOfMet, CardTypeOK
<1>1. ASSUME NEW d \in Pages, NEW f \in frames, Receive(d, f) PROVE FoldOf(e, r)'
  <2>1. f = [req |-> f.req, behavior |-> f.behavior] /\ f.req \in Requests /\ f.behavior \in Behaviors
    BY DEF CardTypeOK
  <2>2. got'[d] = got[d] \union {f} /\ (e # d => got'[e] = got[e] /\ resolved'[e] = resolved[e])
    BY <1>1 DEF Receive, CardTypeOK
  <2>3. /\ resolved'[d][f.req] = Folded(resolved[d][f.req], f.behavior)
        /\ r # f.req => resolved'[d][r] = resolved[d][r]
    BY <1>1, <2>1 DEF Receive, CardTypeOK
  <2>4. "none" \notin Behaviors /\ "pending" \in Behaviors
    BY FormsAssumption DEF Behaviors, AllDecisions
  <2>5. CASE e # d
    BY <1>a, <2>2, <2>5, FoldKeeps DEF Met
  <2>6. CASE e = d /\ r # f.req
    <3>1. ASSUME NEW b PROVE Met(e, r, b)' <=> Met(e, r, b)
      <4>1. [req |-> r, behavior |-> b] # [req |-> f.req, behavior |-> f.behavior]
        BY <2>6
      <4> QED
        BY <2>1, <2>2, <2>6, <4>1 DEF Met
    <3> QED
      BY <1>a, <2>3, <2>6, <3>1, FoldKeeps
  <2>7. CASE e = d /\ r = f.req
    <3>1. ASSUME NEW b PROVE Met(e, r, b)' <=> Met(e, r, b) \/ b = f.behavior
      <4>1. [req |-> r, behavior |-> b] = [req |-> f.req, behavior |-> f.behavior] <=> b = f.behavior
        BY <2>7
      <4> QED
        BY <2>1, <2>2, <2>7, <4>1 DEF Met
    <3>2. CASE f.behavior = "pending" /\ resolved[e][r] # "none"
      <4>1. resolved'[e][r] = resolved[e][r]
        BY <2>3, <2>7, <3>2 DEF Folded
      <4>2. resolved[e][r] # "none" /\ [req |-> r, behavior |-> resolved[e][r]] \in got[e]
        BY <1>a, <3>2 DEF FoldOf, Met
      <4>3. [req |-> r, behavior |-> resolved'[e][r]] \in got'[e]
        BY <2>2, <2>7, <4>1, <4>2
      <4>4. resolved[e][r] = "pending" => \A b \in Behaviors \ {"pending"} : ~Met(e, r, b)'
        BY <1>a, <3>1, <3>2 DEF FoldOf
      <4> QED
        BY <4>1, <4>2, <4>3, <4>4 DEF FoldOf, Met
    <3>3. CASE ~(f.behavior = "pending" /\ resolved[e][r] # "none")
      <4>1. resolved'[e][r] = f.behavior /\ f.behavior # "none"
        BY <2>1, <2>3, <2>4, <2>7, <3>3 DEF Folded
      <4>3. [req |-> r, behavior |-> resolved'[e][r]] \in got'[e]
        BY <2>1, <2>2, <2>7, <4>1
      <4>4. f.behavior = "pending" => \A b \in Behaviors \ {"pending"} : ~Met(e, r, b)'
        BY <1>a, <3>1, <3>3 DEF FoldOf
      <4> QED
        BY <4>1, <4>3, <4>4 DEF FoldOf, Met
    <3> QED
      BY <3>2, <3>3
  <2> QED
    BY <2>5, <2>6, <2>7
<1>2. ASSUME NEW d \in Pages, Reload(d) PROVE FoldOf(e, r)'
  <2>1. CASE e = d
    <3>1. got'[e] = {} /\ resolved'[e][r] = "none"
      BY <1>2, <2>1 DEF Reload, CardTypeOK
    <3> QED
      BY <3>1 DEF FoldOf, Met
  <2>2. CASE e # d
    <3>1. got'[e] = got[e] /\ resolved'[e] = resolved[e]
      BY <1>2, <2>2 DEF Reload, CardTypeOK
    <3> QED
      BY <1>a, <3>1, FoldKeeps DEF Met
  <2> QED
    BY <2>1, <2>2
<1>3. CASE UNCHANGED <<got, resolved>>
  BY <1>a, <1>3, FoldKeeps DEF Met
<1>4. TakeGrant => UNCHANGED <<got, resolved>>
  BY DEF TakeGrant
<1>5. ASSUME NEW q PROVE Ask(q) \/ Cancel(q) => UNCHANGED <<got, resolved>>
  BY DEF Ask, Cancel
<1>6. ASSUME NEW d, NEW q, NEW x PROVE Click(d, q, x) => UNCHANGED <<got, resolved>>
  BY DEF Click
<1>7. ASSUME NEW d, NEW c, NEW delivered, NEW ok
      PROVE  Posted(d, c, delivered, ok) => UNCHANGED <<got, resolved>>
  BY DEF Posted
<1>8. UNCHANGED cardVars => UNCHANGED <<got, resolved>>
  OBVIOUS
<1> HIDE DEF cardVars
<1> QED
  BY <1>1, <1>2, <1>3, <1>4, <1>5, <1>6, <1>7, <1>8 DEF CardNext

-------------------------------------------------------------------------------
LEMMA CardInitInv == CardInit => CardInv
<1> SUFFICES ASSUME CardInit PROVE CardInv
  OBVIOUS
<1>1. CardTypeOK
  BY DEF CardInit, CardTypeOK, Fresh
<1>2. OutcomeShown
  <2>1. "none" \notin AllDecisions /\ "none" \notin Behaviors
    BY FormsAssumption DEF AllDecisions, Behaviors
  <2> QED
    BY <2>1 DEF CardInit, OutcomeShown, OutcomeOf, StagesOf, Shown
<1>3. FoldOfMet
  BY DEF CardInit, FoldOfMet, FoldOf, Met
<1> QED
  BY <1>1, <1>2, <1>3 DEF CardInv

LEMMA TellsOutcome == CardInv => CardTellsOutcome
<1> SUFFICES ASSUME CardInv, NEW d \in Pages, NEW r \in Requests, Told(r) # "none",
                    {f \in frames : f.req = r} \subseteq got[d]
             PROVE  Effective(d, r) = Told(r)
  BY DEF CardTellsOutcome
<1>0. CardTypeOK /\ OutcomeOf(r) /\ StagesOf(r) /\ FoldOf(d, r)
  BY DEF CardInv, OutcomeShown, FoldOfMet
<1>1. \A b \in Behaviors : Shown(r, b) => Met(d, r, b)
  BY DEF Shown, Met
<1>2. \A b \in Behaviors : Met(d, r, b) => Shown(r, b)
  BY <1>0 DEF Shown, Met, CardTypeOK
<1>3. resolved[d][r] \in Behaviors \union {"none"} /\ outcome[r] \in Behaviors \union {"none", "gone"}
  BY <1>0 DEF CardTypeOK
<1>4. outcome[r] \notin {"none", "gone"}
  BY DEF Told
<1>5. \A b \in Behaviors : Shown(r, b) => resolved[d][r] # "none"
  BY <1>1, <1>0 DEF FoldOf
<1>6. resolved[d][r] # "none" => resolved[d][r] \in Behaviors /\ Shown(r, resolved[d][r])
  BY <1>2, <1>3, <1>0 DEF FoldOf
<1>7. "pending" \in Behaviors /\ "resolved" \in Behaviors
  BY DEF Behaviors
<1>8. resolved[d][r] # "none" /\ resolved[d][r] = Told(r)
  <2>1. CASE r \in Native /\ r \in submitted
    BY <1>4, <1>5, <1>6, <1>7, <2>1, <1>0 DEF StagesOf, Told
  <2>2. CASE r \in Native /\ r \notin submitted
    <3>1. outcome[r] = "resolved" /\ Shown(r, "resolved") /\ Told(r) = "resolved"
      BY <1>4, <2>2, <1>0 DEF StagesOf, Told
    <3>2. resolved[d][r] # "pending"
      BY <1>1, <1>7, <3>1, <1>0 DEF FoldOf
    <3> QED
      BY <1>5, <1>6, <1>7, <2>2, <3>1, <3>2, <1>0 DEF StagesOf
  <2>3. CASE r \notin Native
    <3>1. Told(r) = outcome[r]
      BY <1>4, <2>3 DEF Told
    <3>2. CASE resolved[d][r] # "none"
      BY <1>6, <2>3, <3>1, <3>2, <1>0 DEF OutcomeOf
    <3>3. Shown(r, outcome[r]) /\ outcome[r] \in Behaviors
      BY <1>3, <1>4, <2>3, <1>0 DEF OutcomeOf
    <3> QED
      BY <1>5, <3>2, <3>3
  <2> QED
    BY <2>1, <2>2, <2>3
<1> QED
  BY <1>8 DEF Effective

\* The inductive invariant: what is published of each request, and what each page folds it to.
THEOREM CardInvHolds == CardSpec => []CardInv
<1>1. CardInv /\ [CardNext]_cardVars => CardInv'
  BY CardTypeStep, HostStep, FoldStep DEF CardInv
<1> QED
  BY CardInitInv, <1>1, PTL DEF CardSpec

\* A device that has met the frames of a request shows what the agent was told, whichever device
\* was first and in whatever order it met them.
THEOREM CardsTellOutcome == CardSpec => []CardTellsOutcome
BY CardInvHolds, TellsOutcome, PTL

==============================================================================
