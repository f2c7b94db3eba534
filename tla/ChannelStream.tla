----------------------------- MODULE ChannelStream -----------------------------
(***************************************************************************)
(* SqliteMultiBackend.subscribe (apps/web/lib/broker/sqlite-multi.ts): the *)
(* poll-tail stream of one channel while publishers append, close and      *)
(* reopen it.  Opening a stream reads the channel row and then resolves    *)
(* the cursor; each poll is a frame query and, when that is empty, a query *)
(* of the channel row.  Publishers interleave between any two queries.     *)
(***************************************************************************)
EXTENDS Integers, Sequences, FiniteSets

CONSTANTS
    Subscribers,
    StartIndexes,   \* startIndex values a client may ask for, negative ones included
    BatchLimit,     \* rows per frame query (LIMIT 500)
    MaxFailures,    \* MAX_CONSECUTIVE_TRANSIENT_POLL_FAILURES
    MaxRows,        \* bound on rows of the frames table
    MaxGen,         \* bound on generations
    MaxFaults       \* bound on failed queries per subscriber

ASSUME StreamAssumption ==
    /\ StartIndexes \subseteq Int /\ BatchLimit \in Nat /\ MaxFailures \in Nat \ {0}
    /\ MaxRows \in Nat /\ MaxGen \in Nat /\ MaxFaults \in Nat

VARIABLES
    rows,      \* generation of each row of the frames table; the row id is the position
    gen,       \* channel.gen
    shut,      \* channel.closed
    mode,      \* "idle", "resolve", "poll", "drained", "ended", "errored"
    joined,    \* the generation the stream pinned
    wanted,    \* the startIndex it was opened with
    pos,       \* the id cursor: only rows with a larger id are selected
    fails,     \* consecutiveTransientFailures
    first,     \* history: the cursor the stream started from
    got,       \* history: ids delivered, in order
    broken,    \* history: queries failed since the last complete poll decision
    faults     \* history: queries failed in total

channel == <<rows, gen, shut>>
stream == <<mode, joined, wanted, pos, fails>>
history == <<first, got, broken, faults>>
streamVars == <<channel, stream, history>>

RowsOf(g) == {i \in 1..Len(rows) : rows[i] = g}

\* The ids of S, ascending.
Ascends(q) == \A i, j \in DOMAIN q : i < j => q[i] < q[j]
Holds(q, S) == \A x \in S : \E i \in DOMAIN q : q[i] = x

\* SELECT .. ORDER BY id LIMIT k over the ids S: the k lowest, or all there are.  One
\* sequence is like this.
Lowest(S, k) ==
    {q \in UNION {[1..n -> S] : n \in 0..k} :
        /\ Ascends(q)
        /\ \/ Holds(q, S)
           \/ Len(q) = k /\ \A x \in S : (\E i \in 1..k : q[i] = x) \/ (\A i \in 1..k : q[i] < x)}

EndOf(s) == s[Len(s)]

StreamInit ==
    /\ rows = <<>> /\ gen = 0 /\ shut = FALSE
    /\ mode = [s \in Subscribers |-> "idle"]
    /\ joined = [s \in Subscribers |-> 0]
    /\ wanted = [s \in Subscribers |-> 0]
    /\ pos = [s \in Subscribers |-> 0]
    /\ fails = [s \in Subscribers |-> 0]
    /\ first = [s \in Subscribers |-> 0]
    /\ got = [s \in Subscribers |-> <<>>]
    /\ broken = [s \in Subscribers |-> 0]
    /\ faults = [s \in Subscribers |-> 0]

-------------------------------------------------------------------------------
\* publishFrame: append, reopening a closed channel as the next generation.
Publish ==
    /\ Len(rows) < MaxRows
    /\ shut => gen < MaxGen
    /\ gen' = IF shut THEN gen + 1 ELSE gen
    /\ shut' = FALSE
    /\ rows' = Append(rows, gen')
    /\ UNCHANGED <<stream, history>>

\* UPDATE channel SET closed = 1: closing a closed channel changes nothing.
CloseChannel ==
    /\ shut' = TRUE
    /\ UNCHANGED <<rows, gen, stream, history>>

\* A closed channel yields no stream; otherwise the current generation is pinned.
Subscribe(s) ==
    /\ mode[s] = "idle" /\ ~shut
    /\ \E k \in StartIndexes : wanted' = [wanted EXCEPT ![s] = k]
    /\ joined' = [joined EXCEPT ![s] = gen]
    /\ mode' = [mode EXCEPT ![s] = "resolve"]
    /\ UNCHANGED <<channel, pos, fails, history>>

\* resolveCursor, one read transaction: skip the first wanted rows of the pinned generation,
\* a negative start keeps the last ones, a start past the end clamps to the newest row.
Skipped(g, start) ==
    IF start >= 0 THEN start
    ELSE IF Cardinality(RowsOf(g)) + start > 0 THEN Cardinality(RowsOf(g)) + start ELSE 0

ResolveCursor(s) ==
    /\ mode[s] = "resolve"
    /\ \E passed \in Lowest(RowsOf(joined[s]), Skipped(joined[s], wanted[s])) :
          pos' = [pos EXCEPT ![s] = IF passed = <<>> THEN 0 ELSE EndOf(passed)]
    /\ first' = [first EXCEPT ![s] = pos'[s]]
    /\ mode' = [mode EXCEPT ![s] = "poll"]
    /\ UNCHANGED <<channel, joined, wanted, fails, got, broken, faults>>

\* SELECT id, frame FROM frames WHERE gen = ? AND id > ? ORDER BY id LIMIT 500
BatchOfAnyGen(s) == Lowest({i \in 1..Len(rows) : i > pos[s]}, BatchLimit)
BatchSkippingOne(s) == Lowest({i \in RowsOf(joined[s]) : i > pos[s] + 1}, BatchLimit)
Batch(s) == Lowest({i \in RowsOf(joined[s]) : i > pos[s]}, BatchLimit)

FailsAfterEmpty(s) == fails[s]

PollFrames(s) ==
    /\ mode[s] = "poll"
    /\ \E batch \in Batch(s) :
          \/ /\ batch = <<>>
             /\ mode' = [mode EXCEPT ![s] = "drained"]
             /\ fails' = [fails EXCEPT ![s] = FailsAfterEmpty(s)]
             /\ UNCHANGED <<pos, got, broken>>
          \/ /\ batch # <<>>
             /\ got' = [got EXCEPT ![s] = @ \o batch]
             /\ pos' = [pos EXCEPT ![s] = EndOf(batch)]
             /\ fails' = [fails EXCEPT ![s] = 0]
             /\ broken' = [broken EXCEPT ![s] = 0]
             /\ UNCHANGED mode
    /\ UNCHANGED <<channel, joined, wanted, first, faults>>

\* SELECT closed, gen FROM channel: end the stream if the channel closed or was recycled.
PollState(s) ==
    /\ mode[s] = "drained"
    /\ mode' = [mode EXCEPT ![s] = IF shut \/ gen # joined[s] THEN "ended" ELSE "poll"]
    /\ fails' = [fails EXCEPT ![s] = 0]
    /\ broken' = [broken EXCEPT ![s] = 0]
    /\ UNCHANGED <<channel, joined, wanted, pos, first, got, faults>>

\* A query of either kind fails.  Transient failures are retried from the frame query until
\* MaxFailures in a row; any other failure, a deadline included, errors the stream.
PollFails(s) ==
    /\ mode[s] \in {"poll", "drained"} /\ faults[s] < MaxFaults
    /\ faults' = [faults EXCEPT ![s] = @ + 1]
    /\ broken' = [broken EXCEPT ![s] = @ + 1]
    /\ \/ /\ fails' = [fails EXCEPT ![s] = @ + 1]
          /\ mode' = [mode EXCEPT ![s] = IF fails'[s] >= MaxFailures THEN "errored" ELSE "poll"]
       \/ /\ mode' = [mode EXCEPT ![s] = "errored"]
          /\ UNCHANGED fails
    /\ UNCHANGED <<channel, joined, wanted, pos, first, got>>

\* The consumer cancels, or the stream ended: it may be opened again.
Leave(s) ==
    /\ mode[s] # "idle"
    /\ mode' = [mode EXCEPT ![s] = "idle"]
    /\ joined' = [joined EXCEPT ![s] = 0]
    /\ wanted' = [wanted EXCEPT ![s] = 0]
    /\ pos' = [pos EXCEPT ![s] = 0]
    /\ fails' = [fails EXCEPT ![s] = 0]
    /\ first' = [first EXCEPT ![s] = 0]
    /\ got' = [got EXCEPT ![s] = <<>>]
    /\ broken' = [broken EXCEPT ![s] = 0]
    /\ UNCHANGED <<channel, faults>>

Poll(s) == ResolveCursor(s) \/ PollFrames(s) \/ PollState(s)

StreamNext ==
    \/ Publish \/ CloseChannel
    \/ \E s \in Subscribers : Subscribe(s) \/ Poll(s) \/ PollFails(s) \/ Leave(s)

StreamSpec == StreamInit /\ [][StreamNext]_streamVars

-------------------------------------------------------------------------------
Open(s) == mode[s] \in {"poll", "drained", "ended", "errored"}

\* The types of the variables.
StreamTypeOK ==
    /\ rows \in Seq(0..MaxGen) /\ gen \in 0..MaxGen /\ shut \in BOOLEAN
    /\ mode \in [Subscribers -> {"idle", "resolve", "poll", "drained", "ended", "errored"}]
    /\ joined \in [Subscribers -> 0..MaxGen]
    /\ wanted \in [Subscribers -> StartIndexes \cup {0}]
    /\ pos \in [Subscribers -> 0..MaxRows]
    /\ fails \in [Subscribers -> 0..MaxFailures]
    /\ first \in [Subscribers -> 0..MaxRows]
    /\ got \in [Subscribers -> Seq(1..MaxRows)]
    /\ broken \in [Subscribers -> Nat] /\ faults \in [Subscribers -> 0..MaxFaults]

\* A stream delivers, without gap, repetition or reordering, exactly the rows of the one
\* generation it joined between its starting cursor and its current one, however appends,
\* closes, reopenings and retried queries fall between its queries.
Delivered(q, S) == Ascends(q) /\ Holds(q, S) /\ \A i \in DOMAIN q : q[i] \in S
ContiguousReplay ==
    \A s \in Subscribers : Open(s) =>
        Delivered(got[s], {i \in RowsOf(joined[s]) : first[s] < i /\ i <= pos[s]})

\* The inductive invariant: the cursor never passes the table, and a stream that is not open
\* carries nothing over from the one before.
StreamAt(s) ==
    /\ mode[s] \in {"idle", "resolve"} => got[s] = <<>> /\ fails[s] = 0
    /\ mode[s] \in {"poll", "drained"} => fails[s] < MaxFailures
    /\ first[s] <= pos[s] /\ pos[s] <= Len(rows)
StreamInv ==
    /\ StreamTypeOK /\ Len(rows) <= MaxRows
    /\ \A s \in Subscribers : StreamAt(s)
    /\ ContiguousReplay

\* Every row a live stream has not skipped is delivered, unless the stream ends.
EventuallyDelivered ==
    \A s \in Subscribers, i \in 1..MaxRows :
        (mode[s] \in {"poll", "drained"} /\ i \in RowsOf(joined[s]) /\ i > first[s])
            ~> (mode[s] \notin {"poll", "drained"} \/ \E k \in 1..Len(got[s]) : got[s][k] = i)
===============================================================================
