----------------------------- MODULE ChannelStore -----------------------------
(***************************************************************************)
(* SqliteMultiBackend.publish (apps/web/lib/broker/sqlite-multi.ts) for    *)
(* one channel token: several broker instances, each with a client cache   *)
(* and a per-token create lock, serve publish and close requests against   *)
(* two shared durable objects, the continuity catalog (session-index.ts)   *)
(* and the channel's own database.  Every await of the code is a separate  *)
(* step, so requests, instances, crashes and the loss of the database      *)
(* interleave between them.  A write transaction is one step.              *)
(***************************************************************************)
EXTENDS Integers, Sequences, FiniteSets

CONSTANTS
    Instances,    \* broker processes (serverless instances)
    Requests,     \* request slots; each handles one publish or close at a time
    Home,         \* [Requests -> Instances]
    Frames,       \* the sealed frames publishers may post
    PresenceBus,  \* TRUE when the token is the identity bus
    LegacyLogs,   \* logs a database written before the projection may hold
    MaxGen,       \* bound on generations
    MaxLosses     \* bound on losses of the database

NoRequest == "no request"    \* the holder of a free create lock

ASSUME HomeAssumption == Home \in [Requests -> Instances] /\ NoRequest \notin Requests
ASSUME BoundAssumption == MaxGen \in Nat /\ MaxLosses \in Nat
ASSUME PresenceAssumption == PresenceBus \in BOOLEAN
ASSUME FramesAssumption == Frames \subseteq [kind : {"announce", "terminal", "other"},
                                             sid : STRING, coord : STRING, bytes : STRING]
ASSUME LegacyAssumption ==
    \A s \in LegacyLogs : /\ s \in Seq(Frames)
                          /\ \A i, j \in 1..Len(s) : s[i].coord = s[j].coord => i = j

\* The __close sentinel, shaped like a frame.
Close == [kind |-> "close", sid |-> "", coord |-> "", bytes |-> ""]
NoRow == [gen |-> -1, closed |-> FALSE]
NoEntry == [open |-> FALSE, known |-> FALSE, ready |-> FALSE]

VARIABLES
    \* durable, shared by every instance
    catalog,   \* the channel's row exists in the continuity catalog
    phys,      \* "absent", "empty" (provisioned, no tables) or "core"
    row,       \* the channel row: generation and closed flag, or NoRow
    log,       \* the frames table in id order, [gen, frame]
    fence,     \* sessions in presence_terminals
    proj,      \* the presence_terminals table exists
    losses,    \* how often the database was lost so far
    \* in the memory of each instance
    entry,     \* the cached client: catalogKnown and whether its schema was checked
    lock,      \* the holder of the per-token create lock
    \* per request
    pc,        \* the await the request is at
    op,        \* the frame it publishes, or Close
    lease,     \* "none", "held", or "dead" when the client was evicted under it
    known,     \* what the catalog said when the request read it
    made,      \* this request inserted the witness row
    \* history
    acked,     \* entries whose publish was acknowledged
    creations, \* acknowledged publishes that reported created: true
    legacy     \* the channel is older than the catalog, which does not hold it yet

durable == <<catalog, phys, row, log, fence, proj, losses>>
memory == <<entry, lock>>
request == <<pc, op, lease, known, made>>
history == <<acked, creations, legacy>>
vars == <<durable, memory, request, history>>

-------------------------------------------------------------------------------
StoredAt0(s) == [i \in 1..Len(s) |-> [gen |-> 0, frame |-> s[i]]]

\* The generation a publish writes to: a closed channel reopens as the next one.
NextGen == IF row.closed THEN row.gen + 1 ELSE row.gen

\* UNIQUE (gen, msg_id, part), and the error when its holder has other bytes.
OccupiedNever(g, f) == FALSE
Occupied(g, f) == \E i \in 1..Len(log) : log[i].gen = g /\ log[i].frame.coord = f.coord

Collides(g, f) == Occupied(g, f) /\ ~ \E i \in 1..Len(log) : log[i] = [gen |-> g, frame |-> f]

Sids == {f.sid : f \in Frames}

TerminalSids(l) == {s \in Sids : \E i \in 1..Len(l) : /\ l[i].frame.kind = "terminal"
                                                      /\ l[i].frame.sid = s}

\* Late announces and terminal retries of a fenced session are acknowledged and not stored.
SuppressedRetry(f) == PresenceBus /\ f.kind = "terminal" /\ f.sid \in fence
Suppressed(f) == PresenceBus /\ f.kind \in {"terminal", "announce"} /\ f.sid \in fence

Creates(r) == op[r] # Close    \* publish passes create: true, a close create: false

Inst(r) == Home[r]

Init == /\ \/ catalog = FALSE /\ phys = "absent" /\ row = NoRow /\ log = <<>>
           \/ /\ catalog \in BOOLEAN /\ phys = "core"
              /\ row = [gen |-> 0, closed |-> FALSE]
              /\ \E s \in LegacyLogs : log = StoredAt0(s)
        /\ fence = {} /\ proj = FALSE
        /\ losses = 0
        /\ entry = [i \in Instances |-> NoEntry]
        /\ lock = [i \in Instances |-> NoRequest]
        /\ pc = [r \in Requests |-> "idle"]
        /\ op = [r \in Requests |-> Close]
        /\ lease = [r \in Requests |-> "none"]
        /\ known = [r \in Requests |-> FALSE]
        /\ made = [r \in Requests |-> FALSE]
        /\ acked = {<<0, log[i].frame>> : i \in 1..Len(log)}
        /\ creations = IF row = NoRow THEN 0 ELSE 1
        /\ legacy = (row # NoRow /\ ~catalog)

LockKept(r) == lock
LockWithout(r) == [i \in Instances |-> IF lock[i] = r THEN NoRequest ELSE lock[i]]

\* The request settles: its lease and its create lock are released.
Finish(r) == /\ pc' = [pc EXCEPT ![r] = "idle"]
             /\ lease' = [lease EXCEPT ![r] = "none"]
             /\ made' = [made EXCEPT ![r] = FALSE]
             /\ lock' = LockWithout(r)
             /\ op' = [op EXCEPT ![r] = Close]
             /\ known' = [known EXCEPT ![r] = FALSE]

\* evictClient: the cached entry is detached and its client closed under every lease on it.
EvictAndFinish(r) ==
    /\ pc' = [pc EXCEPT ![r] = "idle"]
    /\ made' = [made EXCEPT ![r] = FALSE]
    /\ lock' = LockWithout(r)
    /\ IF lease[r] = "held"
       THEN /\ entry' = [entry EXCEPT ![Inst(r)] = NoEntry]
            /\ lease' = [q \in Requests |->
                           IF q = r THEN "none"
                           ELSE IF Inst(q) = Inst(r) /\ lease[q] = "held" THEN "dead"
                           ELSE lease[q]]
       ELSE /\ lease' = [lease EXCEPT ![r] = "none"]
            /\ UNCHANGED entry
    /\ op' = [op EXCEPT ![r] = Close]
    /\ known' = [known EXCEPT ![r] = FALSE]

Goto(r, label) == pc' = [pc EXCEPT ![r] = label]

-------------------------------------------------------------------------------
\* acquire: a cache hit borrows the entry at once, a miss queues for the create lock.
Start(r) ==
    /\ pc[r] = "idle"
    /\ \E o \in Frames \cup {Close} : op' = [op EXCEPT ![r] = o]
    /\ IF entry[Inst(r)].open
       THEN Goto(r, "schema") /\ lease' = [lease EXCEPT ![r] = "held"]
       ELSE Goto(r, "queued") /\ UNCHANGED lease
    /\ UNCHANGED <<durable, memory, known, made, history>>

\* Another request opened the client while this one waited for the lock.
OpenedMeanwhile(r) == entry[Inst(r)].open

TakeLock(r) ==
    /\ pc[r] = "queued"
    /\ lock[Inst(r)] = NoRequest
    /\ lock' = [lock EXCEPT ![Inst(r)] = r]
    /\ IF OpenedMeanwhile(r)
       THEN Goto(r, "schema") /\ lease' = [lease EXCEPT ![r] = "held"]
       ELSE Goto(r, "index") /\ UNCHANGED lease
    /\ UNCHANGED <<durable, entry, op, known, made, history>>

\* prepareOpen, first fact: does the durable catalog know this token?
Known == catalog

ReadIndex(r) ==
    /\ pc[r] = "index"
    /\ known' = [known EXCEPT ![r] = Known]
    /\ Goto(r, "exists")
    /\ UNCHANGED <<durable, memory, op, lease, made, history>>

\* prepareOpen, second fact: is the database present?  The first fact may be stale by now.
ReadExists(r) ==
    /\ pc[r] = "exists"
    /\ \/ /\ phys = "absent"
          /\ known[r] \/ ~Creates(r)   \* storage loss, or nothing to close
          /\ Finish(r)
          /\ UNCHANGED <<durable, entry, history>>
       \/ /\ phys = "absent" /\ ~known[r] /\ Creates(r)
          /\ Goto(r, "ensure")
          /\ UNCHANGED <<durable, memory, op, lease, known, made, history>>
       \/ /\ phys # "absent"
          /\ Goto(r, "open")
          /\ UNCHANGED <<durable, memory, op, lease, known, made, history>>

Ensure(r) ==
    /\ pc[r] = "ensure"
    /\ phys' = IF phys = "absent" THEN "empty" ELSE phys
    /\ Goto(r, "open")
    /\ UNCHANGED <<catalog, row, log, fence, proj, losses, memory, op, lease, known, made, history>>

\* The client is opened and waits until the database serves; then it is cached and leased.
Open(r) ==
    /\ pc[r] = "open"
    /\ entry' = [entry EXCEPT ![Inst(r)] = [open |-> TRUE, known |-> known[r], ready |-> FALSE]]
    /\ lease' = [lease EXCEPT ![r] = "held"]
    /\ Goto(r, "schema")
    /\ UNCHANGED <<durable, lock, op, known, made, history>>

OpenFails(r) ==
    /\ pc[r] \in {"index", "exists", "ensure", "open"}
    /\ Finish(r)
    /\ UNCHANGED <<durable, entry, history>>

\* ensureSchema: a known channel must still have its tables, an unknown one may be empty.
\* The projection table is created once and back-filled from the retained terminals.
Backfill == IF proj THEN fence ELSE TerminalSids(log)

Migrate ==
    /\ phys' = "core"
    /\ proj' = TRUE
    /\ fence' = Backfill

SchemaOk(r) ==
    /\ pc[r] = "schema"
    /\ LET i == Inst(r) IN
         IF lease[r] = "dead" \/ entry[i].ready    \* the cached migration promise resolved
         THEN UNCHANGED <<durable, entry>>
         ELSE /\ phys = "core" \/ (phys = "empty" /\ ~entry[i].known)
              /\ Migrate
              /\ entry' = [entry EXCEPT ![i].ready = TRUE]
              /\ UNCHANGED <<catalog, row, log, losses>>
    /\ Goto(r, "establish")
    /\ lock' = LockWithout(r)
    /\ UNCHANGED <<op, lease, known, made, history>>

\* The shared migration promise rejects: every borrower awaiting it fails, the last one
\* closes the client.  (phys = "absent" is a deleted namespace.)
SchemaFails(r) ==
    /\ pc[r] = "schema" /\ lease[r] = "held" /\ ~entry[Inst(r)].ready
    /\ LET i == Inst(r)
           waiting == {q \in Requests : Inst(q) = i /\ pc[q] = "schema" /\ lease[q] = "held"}
       IN /\ pc' = [q \in Requests |-> IF q \in waiting THEN "idle" ELSE pc[q]]
          /\ lease' = [q \in Requests |-> IF q \in waiting THEN "none" ELSE lease[q]]
          /\ op' = [q \in Requests |-> IF q \in waiting THEN Close ELSE op[q]]
          /\ known' = [q \in Requests |-> IF q \in waiting THEN FALSE ELSE known[q]]
          /\ entry' = [entry EXCEPT ![i] = NoEntry]
          /\ lock' = [lock EXCEPT ![i] = IF lock[i] \in waiting THEN NoRequest ELSE lock[i]]
    /\ UNCHANGED <<durable, made, history>>

-------------------------------------------------------------------------------
\* Every statement needs an open client and the tables; otherwise the client is evicted.
Usable(r) == lease[r] = "held" /\ phys = "core"

NeedsClient(r) == pc[r] \in {"establish", "frame"}

StatementFails(r) ==
    /\ NeedsClient(r)
    /\ EvictAndFinish(r)
    /\ UNCHANGED <<durable, history>>

\* A file: database that vanished under an open client is recreated empty by its next query.
EmptyFileReappears(r) ==
    /\ NeedsClient(r) /\ lease[r] = "held" /\ phys = "absent"
    /\ phys' = "empty"
    /\ EvictAndFinish(r)
    /\ UNCHANGED <<catalog, row, log, fence, proj, losses, history>>

\* A failure that leaves the client in the cache (a busy database, an unavailable catalog).
RequestFails(r) ==
    /\ pc[r] \in {"establish", "catalog", "frame"}
    /\ Finish(r)
    /\ UNCHANGED <<durable, entry, history>>

\* A channel not known to be catalogued is catalogued before its first frame.
AfterEstablishAtOnce(r) == "frame"
AfterEstablish(r) == IF entry[Inst(r)].known THEN "frame" ELSE "catalog"

\* establishChannel: the witness row exists, or a genuinely new write inserts it.
Establish(r) ==
    /\ pc[r] = "establish" /\ Usable(r)
    /\ IF row = NoRow
       THEN /\ Creates(r) /\ ~entry[Inst(r)].known
            /\ row' = [gen |-> 0, closed |-> FALSE]
            /\ made' = [made EXCEPT ![r] = TRUE]
       ELSE UNCHANGED <<row, made>>
    /\ Goto(r, AfterEstablish(r))
    /\ UNCHANGED <<catalog, phys, log, fence, proj, losses, memory, op, lease, known, history>>

\* No row: a known channel is lost, an unknown one has nothing to close.
EstablishNothing(r) ==
    /\ pc[r] = "establish" /\ Usable(r)
    /\ row = NoRow
    /\ entry[Inst(r)].known \/ ~Creates(r)
    /\ Finish(r)
    /\ UNCHANGED <<durable, entry, history>>

\* index.add (INSERT OR IGNORE), then markCatalogKnown on the leased entry.
Catalogued == TRUE

AddToCatalog(r) ==
    /\ pc[r] = "catalog"
    /\ catalog' = Catalogued
    /\ entry' = IF lease[r] = "held" THEN [entry EXCEPT ![Inst(r)].known = TRUE] ELSE entry
    /\ legacy' = FALSE
    /\ Goto(r, "frame")
    /\ UNCHANGED <<phys, row, log, fence, proj, losses, lock, op, lease, known, made, acked, creations>>

\* A fenced terminal retry or late announce succeeds and changes nothing.
FrameSuppressed(r) ==
    /\ pc[r] = "frame" /\ Usable(r) /\ op[r] # Close
    /\ Suppressed(op[r])
    /\ Finish(r)
    /\ UNCHANGED <<durable, entry, history>>

\* The write transaction of publishFrame: resolve or reopen, append, fence, commit.
WriteFrame(r) ==
    /\ pc[r] = "frame" /\ Usable(r) /\ op[r] # Close
    /\ row # NoRow /\ NextGen <= MaxGen
    /\ ~Suppressed(op[r]) /\ ~Collides(NextGen, op[r])
    /\ LET f == op[r]
           g == NextGen
           created == row.closed \/ made[r]
       IN /\ log' = IF Occupied(g, f) THEN log    \* identical bytes: an acknowledged retry
                    ELSE Append(log, [gen |-> g, frame |-> f])
          /\ row' = [gen |-> g, closed |-> FALSE]
          /\ fence' = IF PresenceBus /\ f.kind = "terminal" THEN fence \cup {f.sid} ELSE fence
          /\ acked' = acked \cup {<<g, f>>}
          /\ creations' = IF created THEN creations + 1 ELSE creations
    /\ Finish(r)
    /\ UNCHANGED <<catalog, phys, proj, losses, entry, legacy>>

\* PublishCollisionError, or a row that vanished: the transaction rolls back.
FrameRejected(r) ==
    /\ pc[r] = "frame" /\ Usable(r) /\ op[r] # Close
    /\ row = NoRow \/ Collides(NextGen, op[r])
    /\ Finish(r)
    /\ UNCHANGED <<durable, entry, history>>

\* UPDATE channel SET closed = 1 WHERE id = 1 AND closed = 0
MarkClosed(r) ==
    /\ pc[r] = "frame" /\ Usable(r) /\ op[r] = Close
    /\ row' = IF row = NoRow THEN row ELSE [row EXCEPT !.closed = TRUE]
    /\ Finish(r)
    /\ UNCHANGED <<catalog, phys, log, fence, proj, losses, entry, history>>

-------------------------------------------------------------------------------
\* An idle client leaves the cache (LRU), an instance is recycled, the database is lost.
EvictIdle(i) ==
    /\ entry[i].open
    /\ \A r \in Requests : Inst(r) = i => lease[r] # "held"
    /\ entry' = [entry EXCEPT ![i] = NoEntry]
    /\ UNCHANGED <<durable, lock, request, history>>

Crash(i) ==
    /\ entry' = [entry EXCEPT ![i] = NoEntry]
    /\ lock' = [lock EXCEPT ![i] = NoRequest]
    /\ pc' = [r \in Requests |-> IF Inst(r) = i THEN "idle" ELSE pc[r]]
    /\ lease' = [r \in Requests |-> IF Inst(r) = i THEN "none" ELSE lease[r]]
    /\ op' = [r \in Requests |-> IF Inst(r) = i THEN Close ELSE op[r]]
    /\ known' = [r \in Requests |-> IF Inst(r) = i THEN FALSE ELSE known[r]]
    /\ made' = [r \in Requests |-> IF Inst(r) = i THEN FALSE ELSE made[r]]
    /\ UNCHANGED <<durable, history>>

\* Deleted outright, or replaced by an empty database of the same name.
LoseStore ==
    /\ losses < MaxLosses /\ phys # "absent"
    /\ losses' = losses + 1
    /\ phys' \in {"absent", "empty"}
    /\ row' = NoRow /\ log' = <<>> /\ fence' = {} /\ proj' = FALSE
    /\ UNCHANGED <<catalog, memory, request, history>>

Step(r) ==
    \/ ReadIndex(r) \/ ReadExists(r) \/ Ensure(r) \/ Open(r) \/ OpenFails(r)
    \/ SchemaOk(r) \/ SchemaFails(r)
    \/ StatementFails(r) \/ EmptyFileReappears(r) \/ RequestFails(r)
    \/ Establish(r) \/ EstablishNothing(r) \/ AddToCatalog(r)
    \/ FrameSuppressed(r) \/ WriteFrame(r) \/ FrameRejected(r) \/ MarkClosed(r)

Next ==
    \/ \E r \in Requests : Start(r) \/ TakeLock(r) \/ Step(r)
    \/ \E i \in Instances : EvictIdle(i) \/ Crash(i)
    \/ LoseStore

Spec == Init /\ [][Next]_vars

\* A promise that settles resumes its request; the create lock is a FIFO chain of promises.
Fairness == \A r \in Requests : WF_vars(Step(r)) /\ SF_vars(TakeLock(r))

\* A reading "not catalogued" that may still create the channel's tables: that of a request
\* on its way to opening a client, or of an open client whose schema is not checked yet.
HoldsOldReading ==
    \/ \E r \in Requests : pc[r] \in {"exists", "ensure", "open"} /\ ~known[r]
    \/ \E i \in Instances : entry[i].open /\ ~entry[i].ready /\ ~entry[i].known

\* The database is lost while nobody has an older reading: who has one may start the lost
\* channel over, which the code does not rule out.  Requests on a client that is open and
\* checked do not matter, whatever the client knows.  Nor is a channel lost that is older
\* than the catalog and not yet in it: nothing is left to tell that loss by.
LossIsNoticed == losses' # losses /\ acked # {} => ~legacy /\ ~HoldsOldReading

NoticedSpec == Init /\ [][Next /\ LossIsNoticed]_vars

-------------------------------------------------------------------------------
Labels == {"idle", "queued", "index", "exists", "ensure", "open",
           "schema", "establish", "catalog", "frame"}

ChannelRow == [gen : Nat, closed : BOOLEAN]
LogEntry == [gen : Nat, frame : Frames]

\* The types of the variables.
TypeOK ==
    /\ catalog \in BOOLEAN
    /\ phys \in {"absent", "empty", "core"}
    /\ row \in ChannelRow \cup {NoRow}
    /\ log \in Seq(LogEntry)
    /\ fence \subseteq Sids
    /\ proj \in BOOLEAN
    /\ losses \in Nat
    /\ entry \in [Instances -> [open : BOOLEAN, known : BOOLEAN, ready : BOOLEAN]]
    /\ lock \in [Instances -> Requests \cup {NoRequest}]
    /\ pc \in [Requests -> Labels]
    /\ op \in [Requests -> Frames \cup {Close}]
    /\ lease \in [Requests -> {"none", "held", "dead"}]
    /\ known \in [Requests -> BOOLEAN]
    /\ made \in [Requests -> BOOLEAN]
    /\ acked \subseteq Nat \X Frames
    /\ creations \in Nat
    /\ legacy \in BOOLEAN

\* "Witness row, then durable catalog row, then first frame" (establishChannel): a frame is
\* written only into a catalogued channel, so a crash at any await leaves no frame behind a
\* channel that a later open could take for a new one.
FrameAfterCatalog == [][Len(log') > Len(log) => catalog /\ row # NoRow]_vars

\* Whenever the channel can be read at all it still holds every acknowledged frame: storage
\* loss surfaces as an error and never as a shorter history.
AckedFramesKept ==
    row # NoRow => \A a \in acked : \E i \in 1..Len(log) : log[i] = [gen |-> a[1], frame |-> a[2]]

\* The derived presence_terminals projection says exactly what the retained terminal frames
\* say, through back-fill of a legacy database, concurrent publishes and crashes.
FenceMatchesLog == PresenceBus /\ proj => fence = TerminalSids(log)

\* On the presence bus the terminal is absorbing, whichever publishers raced and whatever the
\* database held before the fence existed: once a terminal of a session is stored, neither an
\* announce of it nor a second terminal is appended.
TerminalIsLast ==
    [][\A s \in TerminalSids(log) :
         PresenceBus /\ Len(log') > Len(log) /\ log'[Len(log')].frame.sid = s
             => log'[Len(log')].frame.kind = "other"]_vars

Opening(r) == pc[r] \in {"index", "exists", "ensure", "open"}

\* Per-token create lock: one instance never opens a second client for the channel, neither
\* while another request is opening one nor over a cached one.
OneClient ==
    \A r, q \in Requests :
        (Opening(r) /\ Inst(q) = Inst(r)) => ~entry[Inst(r)].open /\ (Opening(q) => q = r)

\* What makes the properties above inductive, one named part per fact that outlives an await:
\* whoever believes the channel catalogued is right, and a request at its frame is past the catalog.
KnownIsCatalogued ==
    /\ \A i \in Instances : entry[i].known => catalog
    /\ \A r \in Requests : (known[r] \/ pc[r] = "frame") => catalog

LockGuardsOpening ==
    \A r \in Requests : Opening(r) => lock[Inst(r)] = r /\ ~entry[Inst(r)].open

\* A live lease is on the cached client, whose schema was checked once the request is past it.
LeaseIsLive ==
    \A r \in Requests : lease[r] = "held" =>
        /\ entry[Inst(r)].open
        /\ pc[r] \in {"schema", "establish", "catalog", "frame"}
        /\ pc[r] # "schema" => entry[Inst(r)].ready

\* A checked client finds the projection table wherever it finds the core tables.
ProjectionReady == \A i \in Instances : phys = "core" /\ entry[i].ready => proj

\* Acknowledged frames can only be missing after the database was lost.
KeptUntilLoss ==
    losses = 0 => \A a \in acked : \E i \in 1..Len(log) : log[i] = [gen |-> a[1], frame |-> a[2]]

Inv == /\ TypeOK /\ KnownIsCatalogued /\ LockGuardsOpening /\ LeaseIsLive
       /\ ProjectionReady /\ FenceMatchesLog /\ KeptUntilLoss

\* Past its opening a request has its lease, a live one or one evicted under it.
LeasedPastOpen ==
    \A r \in Requests : pc[r] \in {"schema", "establish", "catalog", "frame"} => lease[r] # "none"

\* The frames table holds nothing without the channel row, nothing of a later generation, and
\* nothing that was not acknowledged.
LogUnderRow ==
    /\ row = NoRow => log = <<>>
    /\ row # NoRow => \A i \in 1..Len(log) : log[i].gen <= row.gen
    /\ log # <<>> => acked # {}

\* Acknowledged frames are those of a catalogued channel, or of one older than the catalog.
AckedIsCatalogued == acked # {} => catalog \/ legacy

\* After a loss the catalog, every request on its way to the database and every client that
\* could still create tables know of the channel: nobody starts it over.
LostIsKnown ==
    row = NoRow /\ acked # {} =>
        /\ catalog /\ phys # "core"
        /\ \A r \in Requests : pc[r] \in {"exists", "ensure", "open"} => known[r]
        /\ \A i \in Instances : entry[i].open /\ ~entry[i].ready => entry[i].known

NoticedInv == /\ Inv /\ LeasedPastOpen /\ LogUnderRow /\ AckedIsCatalogued /\ LostIsKnown
              /\ AckedFramesKept

\* The create lock is never leaked: a request that queues for it is answered.
RequestsSettle == \A r \in Requests : pc[r] = "queued" ~> pc[r] = "idle"

Status == IF row = NoRow THEN IF acked # {} THEN "lost" ELSE "none"
          ELSE IF row.closed THEN "closed" ELSE "live"

Promise == INSTANCE ChannelLog WITH
             status <- Status, gen <- IF row = NoRow THEN 0 ELSE row.gen, log <- log

\* Publishing through caches, locks, transactions and crashes implements the channel's promise.
ImplementsChannelLog == Promise!Spec
===============================================================================
