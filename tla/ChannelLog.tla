------------------------------ MODULE ChannelLog ------------------------------
(***************************************************************************)
(* What one durable broker channel promises its publishers, without saying *)
(* how: the contract of BrokerBackend (backend.ts) as the per-channel      *)
(* SQLite backend strengthens it.  A channel comes into existence once,    *)
(* holds an append-only log of frames, may be closed and reopened under    *)
(* the next generation, and once its storage is lost it stays lost.        *)
(* ChannelStore implements this specification.                             *)
(***************************************************************************)
EXTENDS Integers, Sequences

CONSTANTS
    Frames,       \* the sealed frames a publisher may post
    PresenceBus,  \* TRUE for the identity bus, FALSE for a session channel
    LegacyLogs,   \* logs that may already be stored when the model starts
    MaxGen        \* bound on generations, for model checking

VARIABLES
    status,  \* "none", "live", "closed" or "lost"
    gen,     \* the current generation
    log      \* the stored entries, [gen, frame], in publish order

avars == <<status, gen, log>>

Entry == [gen : Nat, frame : Frames]

\* frames.UNIQUE (gen, msg_id, part): a coordinate is occupied at most once per generation.
Occupied(g, f, l) == \E i \in 1..Len(l) : l[i].gen = g /\ l[i].frame.coord = f.coord

\* The presence bus never again shows a session after its session_terminal.
TerminalIn(l) == {s \in {f.sid : f \in Frames} :
                    \E i \in 1..Len(l) : l[i].frame.kind = "terminal" /\ l[i].frame.sid = s}

Suppressed(f, l) == /\ PresenceBus
                    /\ f.kind \in {"terminal", "announce"}
                    /\ f.sid \in TerminalIn(l)

StoredAt0(s) == [i \in 1..Len(s) |-> [gen |-> 0, frame |-> s[i]]]

Init == \/ status = "none" /\ gen = 0 /\ log = <<>>
        \/ status = "live" /\ gen = 0 /\ \E s \in LegacyLogs : log = StoredAt0(s)

Create == /\ status = "none"
          /\ status' = "live"
          /\ UNCHANGED <<gen, log>>

Append1(f) == /\ status = "live"
              /\ ~Suppressed(f, log)
              /\ ~Occupied(gen, f, log)
              /\ log' = Append(log, [gen |-> gen, frame |-> f])
              /\ UNCHANGED <<status, gen>>

\* A publish to a closed channel reopens it as the next generation and appends in one step.
Reopen(f) == /\ status = "closed"
             /\ ~Suppressed(f, log)
             /\ gen < MaxGen
             /\ status' = "live"
             /\ gen' = gen + 1
             /\ log' = Append(log, [gen |-> gen + 1, frame |-> f])

Close == /\ status = "live"
         /\ status' = "closed"
         /\ UNCHANGED <<gen, log>>

\* The storage disappears.  An established channel is lost for good.
Lose == /\ status' = "lost"
        /\ gen' = 0
        /\ log' = <<>>

\* Only a channel that never stored a frame may be forgotten and created afresh.
Forget == /\ log = <<>>
          /\ status # "lost"
          /\ status' = "none"
          /\ gen' = 0
          /\ UNCHANGED log

Next == \/ Create
        \/ Close
        \/ Lose
        \/ Forget
        \/ \E f \in Frames : Append1(f) \/ Reopen(f)

Spec == Init /\ [][Next]_avars
===============================================================================
