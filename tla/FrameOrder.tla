------------------------------ MODULE FrameOrder ------------------------------
(***************************************************************************)
(* FrameOrderer (packages/cli/src/broker/order.ts), the viewer's delivery  *)
(* discipline: the broker repeats and reorders frames, the orderer drops   *)
(* duplicates through a bounded window, buffers content by seq, collects   *)
(* the chunks of one message in one slot and releases complete slots in    *)
(* seq order.  Every frame of a channel may arrive at any time, any number *)
(* of times: a reconnecting viewer reads its channel from the start again. *)
(***************************************************************************)
EXTENDS Integers, Sequences, FiniteSets, TLC

CONSTANTS
    Channels,   \* the channels that may be read, each a set of frames
                \* [msg, seq, part, parts]; seq = NoSeq on the control and meta planes
    NoSeq,      \* the null seq
    FirstSeq,   \* the seq the orderer is constructed with
    SeenCap     \* size of the dedup window

Frames == UNION Channels

ASSUME FrameAssumption ==
    \A f \in Frames : /\ f.seq \in Nat \cup {NoSeq}
                      /\ f.part \in Int /\ f.parts \in Nat \ {0}
ASSUME OrderAssumption == FirstSeq \in Nat /\ SeenCap \in Nat \ {0} /\ NoSeq \notin Nat

VARIABLES
    channel,   \* external: the frames the broker stores for this reader
    nextSeq,   \* the seq awaited
    buffered,  \* seq -> the frames of that transcript entry, in arrival order
    seen,      \* the dedup keys in the window, oldest first
    out        \* history: the slots released, in order

vars == <<channel, nextSeq, buffered, seen, out>>

Seqs == {f.seq : f \in Frames} \ {NoSeq}

\* One key per chunk of a chunked message, else one per message.
DedupKey(f) == IF f.parts > 1 THEN <<f.msg, f.part>> ELSE <<f.msg>>

InWindow(f) == \E i \in 1..Len(seen) : seen[i] = DedupKey(f)

MarkSeen(f) == IF Len(seen) = SeenCap THEN Append(Tail(seen), DedupKey(f))
               ELSE Append(seen, DedupKey(f))

\* A slot holds one message: one frame, or as many frames as it has parts.
Complete(slot) == slot # <<>> /\ (slot[1].parts > 1 => Len(slot) >= slot[1].parts)

\* The frame fits its slot: same message, a part in range that is not there yet.
Fits(f, slot) ==
    /\ slot # <<>> => slot[1].msg = f.msg /\ slot[1].parts = f.parts
    /\ IF f.parts > 1
       THEN f.part \in 0..(f.parts - 1) /\ \A i \in 1..Len(slot) : slot[i].part # f.part
       ELSE slot = <<>>

\* Outside the transcript's order: a control or meta frame, or content already released.
Late(f) == f.seq = NoSeq \/ f.seq < nextSeq

Placeable(f) == ~Late(f) /\ Fits(f, buffered[f.seq])

\* The parts of a slot differ: each stands behind those before it.
InPartOrder(slot) ==
    LET frames == {slot[i] : i \in DOMAIN slot} IN
    [k \in DOMAIN slot |-> CHOOSE f \in frames : Cardinality({g \in frames : g.part < f.part}) = k - 1]

Init == /\ channel \in Channels
        /\ nextSeq = FirstSeq
        /\ buffered = [q \in Seqs |-> <<>>]
        /\ seen = <<>>
        /\ out = <<>>

-------------------------------------------------------------------------------
Duplicate(f) ==
    /\ InWindow(f)
    /\ UNCHANGED vars

\* Control and meta frames are delivered at once, late and misfitting content is dropped.
PassOrDrop(f) ==
    /\ ~InWindow(f)
    /\ ~Placeable(f)
    /\ seen' = MarkSeen(f)
    /\ UNCHANGED <<channel, nextSeq, buffered, out>>

\* The frame joins its slot, then every complete slot from the cursor on is released.
Accept(f) ==
    /\ ~InWindow(f)
    /\ Placeable(f)
    /\ seen' = MarkSeen(f)
    /\ channel' = channel
    /\ LET b == [buffered EXCEPT ![f.seq] = Append(@, f)]
           full == {q \in Seqs : Complete(b[q])}
       IN \E n \in nextSeq..(nextSeq + Cardinality(Seqs)) :
            /\ n \notin full /\ nextSeq..(n - 1) \subseteq full
            /\ nextSeq' = n
            /\ buffered' = [q \in Seqs |-> IF q >= nextSeq /\ q < n THEN <<>> ELSE b[q]]
            /\ out' = out \o [k \in 1..(n - nextSeq) |-> InPartOrder(b[nextSeq + k - 1])]

Receive(f) == f \in channel /\ (Duplicate(f) \/ PassOrDrop(f) \/ Accept(f))

Next == \E f \in Frames : Receive(f)

Spec == Init /\ [][Next]_vars

-------------------------------------------------------------------------------
\* The types of the variables.
TypeOK == /\ channel \in Channels
          /\ nextSeq \in Nat /\ nextSeq >= FirstSeq
          /\ buffered \in [Seqs -> Seq(Frames)]
          /\ seen \in Seq({DedupKey(f) : f \in Frames}) /\ Len(seen) <= SeenCap
          /\ out \in Seq(Seq(Frames))

\* A slot is whole when it holds every part of one message once, in part order.
Whole(slot) ==
    /\ slot # <<>> /\ Len(slot) = slot[1].parts
    /\ \A i \in 1..Len(slot) :
         /\ slot[i].msg = slot[1].msg /\ slot[i].seq = slot[1].seq /\ slot[i].parts = slot[1].parts
         /\ slot[i].parts > 1 => slot[i].part = i - 1

\* The transcript released so far is one whole message for every seq from FirstSeq up to the
\* cursor, each exactly once, although the dedup window forgets and the channel is re-read.
TranscriptOrdered ==
    /\ Len(out) = nextSeq - FirstSeq
    /\ \A k \in 1..Len(out) : Whole(out[k]) /\ out[k][1].seq = FirstSeq + k - 1

===============================================================================
