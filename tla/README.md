# remote-claw: verification project

TLA+ models of remote-claw, the TLC configurations that check them on small instances, and proofs
that TLAPS checks for every value of the constants. Paths are relative to the repository's root.
`PROJECT.json` maps every definition of the models to the lines it stands for, names for every
property a mutation of the code that breaks it, and lists the hazards the properties are aimed at.

1. [The system](#1-the-system)
2. [What is modelled, and how it corresponds to the code](#2-what-is-modelled)
3. [The runs, their bounds and what they show](#3-the-runs)
4. [Fairness](#4-fairness)
5. [What is proved](#5-what-is-proved)
6. [Disagreements between code and documentation](#6-disagreements)
7. [What is not modelled](#7-what-is-not-modelled)
8. [Plan](#8-plan)

## 1. The system

A **host** (`packages/cli`, the `remote-claw` command) runs beside an agent session: Claude Code
behind a man-in-the-middle proxy, or a Claude, Codex, OpenCode or tmux driver. It seals what the
session says and posts it to a **broker** (`apps/web`), which sees only routing fields. The broker
runs as several serverless instances over one small database per channel. **Viewers** (the browser
application in `apps/web/app`) read the channel, put the frames in order and post sealed prompts,
answers and controls back through the same channel. A second channel per identity, the *presence
bus*, announces sessions; a one-time *handoff* box moves a credential from a host to a new browser.

```
 agent <--events stream/POSTs--> Session (session.ts, mitm.ts) <--calls--> HostRcRelay (relay.ts)
                                                                             |  HTTP posts, SSE
 viewer (viewer.ts, FrameOrderer) <--SSE, HTTP posts--> broker routes --> SqliteMultiBackend
```

| part | state it keeps | operations | how it meets the others | what is hard | what makes it correct |
|---|---|---|---|---|---|
| Channel store, publish side (`lib/broker/sqlite-multi.ts`, `session-index.ts`) | durable: catalog row, database file, channel row, frames, presence fence; per instance: cached clients, create locks | publish, close, eviction | called by the relay route; shared durable objects | every await is a point where another request, a crash or the loss of the database falls | keeps what it acknowledged or fails for good, one client per instance, a terminal is final |
| Channel store, subscribe side | per stream: pinned generation, cursor, failure budget | subscribe, poll, cancel | server-sent events | appends, closes and reopenings between the queries of one poll | gapless replay from the chosen start, every row arrives |
| Turso locator (`turso-cloud-locator.ts`) | memo of the databases that exist | ensure, exists, forget, drop | Platform API | overlapping calls, lost answers, other users of the account | an answer was true at some moment of its call |
| In-memory backend, event-stream route and broker client (`local.ts`, `stream-route.ts`, `client.ts`) | subscribers, the connection, the retry budget | publish, subscribe, rotate, reconnect | viewers and relays read through them | silent, cut and rotated connections, empty channels | every frame is admitted, once |
| Handoff (`handoff-store.ts`, `handoff-upload.ts`) | rows with proof, box and expiry | upload, put, claim, sweep | HTTP between host, broker and browser | lost answers, equal ids, clocks read before an await | a box is served once, a shown link works |
| Host launcher (`launch.ts`, `drivers/ready-bridge.ts`, `drivers/bridge.ts`) | registered sessions, announces, tombstone tasks | register, announce, tear down | owns proxy, sessions and relays | the child exits at any moment of any of them | no session is left looking alive, and the exit comes |
| Claude proxy (`mitm.ts`) | open sockets, live upstream requests | CONNECT, forward, close | between `claude` and the network | sockets that open after the close | nothing outlives the close |
| Session core (`session.ts`, `#streamWorker` in `mitm.ts`) | downstream log, attempted and acknowledged sets, owner stream; admitted upstream log | push, open stream, write, acknowledge, admit a batch | relay pushes, the agent reads and posts | a write to a dead socket is lost without a trace; retried and regrouped batches | each mutation reaches the agent once and in order; each event is admitted once |
| Host relay (`relay.ts`) | seq, publication queue and latch, gates, seen commands, cursors; attachment buffer; presence and preview | two pumps, publish unit, restart, announce, preview | between Session and channel | posts that time out and commit late, resubscription, restart on a channel | commands act once and only on what was published |
| Identity store (`store.ts`, `identity.ts`) | the root secret's file | create, load, replace | commands of one user | kills, losses of power and failing fsyncs between file operations | the path never names an overwritten file |
| Drivers (`anthropic`, `codex`, `opencode`, `tmux`) | epochs, turns, approvals, snapshots, injected input | capture, repair, prompt, answer | each produces a Session | provider reconnects, a second user at the terminal | the transcript is the agent's, a command acts once |
| Viewer (`viewer.ts`, `page.tsx`, `order.ts`, `credential-store.ts`) | orderer, rows, draft, cards, presence list, pass | read, send, decide, pair | channel, bus, handoff | reconnects, answers in any order, what the user does meanwhile | ordered rows, one bubble per message, true cards, no lost pass |

## 2. What is modelled

A frame is its coordinates, the sealed bytes are a value that differs between two seals. A poll, a
write transaction, or a stretch of JavaScript without an await is one step; everything the code
does in such a stretch is in that step, and nothing else. Timers are nondeterministic. Lost and
late answers, crashes and dropped connections are actions; each has a bound named in its module.

| module | models | state and actions |
|---|---|---|
| `ChannelLog` | what a channel promises its publishers, the abstract specification | status, generation and log; append, close, reopen, loss |
| `ChannelStore` | publish and close for one token over several instances | `catalog`, `phys`, `row`, `log`, `fence`, `proj` are the durable tables, `entry` and `lock` an instance's client cache and create lock, `pc`, `op`, `lease`, `known`, `made` a request's locals; one action per await, its failures, `EvictIdle`, `Crash`, `LoseStore` |
| `ChannelStream` | `subscribe` and its two-query poll | pinned generation, cursor, failures; subscribe, poll, failed poll, publish, close |
| `BrokerStream` | `LocalBackend`, the event-stream route and `BrokerClient.streamFrames`, end to end | channel, controller, records in flight, disposition and budget of the reader; connect, emit, ping, rotate, cut, go silent, watchdog |
| `TursoLocator` | the locator's calls against the account | `known` is the memo, `cloud` and `serving` the account; one action per request and one per answer |
| `HandoffStore` | the handoff box from upload to claim | the table, the attempts of hosts and claimants, a clock; mint, put, claim, sweep with clocks read earlier |
| `HostLaunch` | the launcher from the first session to the exit | `launch` its phase, `bridge`, `announce`, `tomb`, `terminals` its tasks, `bus` what the broker shows; child exit, the waits, announce and tombstone posts that fail or commit late |
| `MitmProxy` | the proxy's connections and requests | `sockets` and `owned` are the sets its close sweeps; connect, dial, request, body, response, close |
| `WorkerStream` | the downstream half of `Session` and `#streamWorker` | `dsSeq`, `attempted`, `acked`, `workerGen` are its fields, `follower` each stream's generator, `socket` and `wire` its connection; push, open stream, collect, yield, write, break, acknowledge |
| `NativeIntake` | `ingestNativeUpstreamBatch` and `followUpstream` | the admitted log, the last answer, the follower's cursor; post a batch, take a slice, yield |
| `HostRelay` | both pumps and the publication queue of `HostRcRelay` | `seq`, `start`, `seen`, `openPerms`, `fatal`, `failures` are its fields, `queue`, `step`, `wait` the promise chain, `log` and `wire` the channel and the posts under way; one action per await of a unit, broken subscriptions, `Close`, `Restart` |
| `Attachments` | files from a browser to a native harness | parts posted, the bounded buffer, files on disk; post, read, rotate, write, submit, discard |
| `PermissionCards` | the cards of gates on several devices | `open`, `submitted` of the relay, each device's fold and calls; ask, cancel, click, take a grant, receive, reload |
| `Presence`, `LivePreview` | announces, the tombstone and the page that tails the bus; the replaceable preview | posts awaited or late, frames stored, the page's row, pick and notice; announce, keepalive, commit, open, revive; put, poll, hide |
| `FrameOrder` | `FrameOrderer.accept` | cursor, slots, the bounded window; receive any frame of the channel |
| `ViewerTranscript` | composer, optimistic bubbles, generator and rows of one transcript, over `FrameOrder` | `rows`, `draft`, `preparing`, `posting`, `ready` and `late`; send, prepare, post, receive, revive |
| `BrowserEntry` | entry screens, claim of a link, the wrapped pass | device key, each tab's screen, jobs and storage; load, connect, save, claim, forget, reload |
| `IdentityStore` | the root secret's file | `dir`, `survives`, `scrubbed`, `temps`, and `durable` of a command whose fsync of the directory succeeded; one action per file operation, kill, loss of power |
| `ClaudeDriver`, `CodexDriver`, `OpencodeDriver`, `TmuxDriver` | the four drivers with the agent and its second user | the agent's log and what is in flight, the pumps' locals, what is shown; every await of a pump, drops, failures, commands and local prompts |

Modules named `MC...` instantiate these for TLC; modules named `...Proofs` hold the theorems.

How they meet. `ChannelStore` is shown to implement `ChannelLog`. `HostRelay` uses the channel as
those modules give it: one row per message id, other bytes refused, an append-only log replayed in
order from a start. `ViewerTranscript` instantiates `FrameOrder` as its orderer. `MCStreams`,
`MCRelay`, `MCStores`, `MCTranscript` and `MCPresence` put modules side by side that share nothing but moments
each part already allows for at any time (a session's `closed`, the close of the proxy): a variable
(`part`, `end`) chooses the module a behaviour follows and the others rest, so such a run checks each part
and not their product. An MC module EXTENDS the parts theorems are about, so a run checks the
formulas the theorems state, and INSTANCEs the others.

## 3. The runs

Bounds are constants of the modules and appear as guards; nothing else is cut. `store` checks
deadlock; elsewhere a session, a launch or a budget of events ends and the system really stops.

| run | instance, and why it is enough | what it shows |
|---|---|---|
| `store` | two instances with a request each, an announce and a terminal on one coordinate, an empty or a legacy log, one reopening and one loss: every pair of awaits of two requests interleaves, with crashes and evictions between, and the loss comes before or after them | `AckedFramesKept`, `TerminalIsLast`, `ImplementsChannelLog`, `RequestsSettle` |
| `streams` | worker: `initialize`, two mutations, two streams that break unnoticed or take over, the fewest with which one is lost, repeated or overtaken; intake: three events in batches of two, repeated, changed, regrouped; proxy: two connections, three requests; launch: two sessions, one retry; channel: four rows in batches of two, starts before, inside and past the log, four faults of which three in a row are fatal; subscription: three frames, one close, one rotation, three breaks; pane: two browser texts, one local prompt with a sub-agent, a rotation | `MutationsGapless`, `AmbiguityEnds`, `AdmittedInOrder`, `NothingOutlivesClose`, `NoGhost`, `TeardownEnds`, `ContiguousReplay`, `EventuallyDelivered`, `EveryFrameArrives`, `GateGuardsTurn`, `AppliedOnce` |
| `relay_serve` | a prompt, an interrupt and two devices answering one gate (two commands in one behaviour), the gate and its cancellation, one failed or late post, two ended subscriptions, one restart; three messages of two parts, all sent at once, in a buffer for two: the fewest with which messages crowd one another out, and the buffer fills before that; two devices with a native permission and a question | `DrivenOnce`, `DrivenIsPublished`, `GapOnlyAtTail`, `CommandsSettle`, `CompleteAdmitted`, `CardTellsOutcome` |
| `relay_restart` | two prompts and one agent event, one restart, no post fails | `RestartNeverCollides` is violated, section 6 |
| `stores` | two hosts that may draw one id, two claimants, three clock values; two tabs, one link, one valid and one malformed pass, three keys; three identity commands with kills, losses of power at any time and an fsync of the directory that may fail (the commands are interchangeable: symmetry); two locator calls, two other users' changes | `ServedOnce`, `BurnedNotLost`, `NeverGarbage`, `AnswerWasTrue` |
| `identity_sync` | as `stores`, two identity commands | `OnlyOldOrNew` is violated, section 6 |
| `presence` | two values, two catalogues, one retry, a backlog of one, two events of the driver or user, a reload; three previews | `DeadStaysDead`, `PageAgrees`, `PreviewForward` |
| `transcript` | page: two messages and one answer of the agent, an edit, a pick, a return to the foreground and a fault, a window of one that forgets; OpenCode companion: two browser texts, an interrupt, a terminal prompt, one lost stream, one failed run, three of these in one behaviour | `RowsOrdered`, `OneBubble`, `DraftKept`, `ProjectionFaithful`, `BrowserTurnsSerial`, `TextsSettle` |
| `opencode_serial` | two browser texts and a terminal prompt, nothing lost | `OneTextAtATime` is violated, section 6 |
| `codex` | the same users with command and patch approvals, one decision, one failed turn, one replay | `TranscriptFaithful`, `CardsTruthful`, `TextsSettle` |
| `claude` | a text, an interrupt, two decisions and a choice of model, pages of three, two attempts to reconnect | `ProjectionComplete`, `DecisionsOnce`, `ModelFresh` |
| `tmux_gate` | the pane of `streams` | `NeverIntoTurn` is violated, section 6 |

What a property says stands above its definition. Where a bound is small, the shape of the code is
the reason it suffices: a request keeps no state of another, so two show every race of a pair; the
limits (`FailureLimit`, `BatchLimit`, `SeenCap`, `PageSize`) are scaled down so that both sides of
each are reached; a second loss or restart starts from a state the first already produced. The
proofs of section 5 need no bound.

## 4. Fairness

Safety is checked without fairness. Liveness assumes what the runtime gives:

- `ChannelStore`: weak fairness of every request's next step, because a settled promise resumes its
  continuation; strong fairness of `TakeLock`, because the create lock is a chain of promises and so
  first come, first served, while the model lets any waiter take it. Nothing is assumed of crashes,
  evictions, losses or of which statements fail.
- `ChannelStream`: weak fairness of the poll of an open stream. `BrokerStream`: weak fairness of the
  route's loop and of the pump that opens a subscription again; publishers, rotations and breaks owe
  nothing.
- `WorkerStream`: weak fairness of the generator and of the close event of a dead socket, both run by
  the event loop. The agent need not read, acknowledge or reconnect.
- `HostLaunch`: weak fairness of the launcher's own waits, which have deadlines, and of a tombstone
  post failing at its deadline; the child need not exit and the broker need not answer.
- `HostRelay`: weak fairness of reading the channel, of running the head of the queue, of the broker
  deciding the post the *live* relay awaits, and of noticing a refusal. Posts of dead relays may
  stay under way for ever, the agent may say nothing, and the owner may close at any time.
  `Attachments`: weak fairness of reading the channel and of rotating a subscription.
- `Presence`: weak fairness of the timers and loops that make progress (announce, keepalive,
  answers, the page's reading); the driver and the user owe nothing.
- `OpencodeDriver`, `CodexDriver`: the native server runs what it was given, and a pump that can
  always take a step takes one; where a pump's guard needs a value another pump may take away for
  ever, this is `[]<>~Can \/ []<><<Step>>_vars`, that is weak fairness written out.

`ClaudeDriver`, `TmuxDriver`, `ViewerTranscript` and the modules of `stores` are checked for safety
and action properties only.

## 5. What is proved

A theorem holds for every value of the constants its module's assumptions allow. The assumptions
are: bounds are natural numbers (positive where zero would be no instance); null values are no
values; the kinds of commands and events are disjoint, and a text typed at the terminal is none of the
browser's (the browser's carry ids of their own); every request runs in one instance; a frame
is a record of the stated shape, and a log older than the presence projection holds no coordinate
twice. TLC evaluates each of them in the runs. Each inductive invariant (and the
`DecisionsOnce` of `CodexDriver`, which no run lists) was checked by TLC before it was proved; each part has a lemma that takes the actions one by one.

| module | theorem | property | states |
|---|---|---|---|
| `ChannelStoreProofs` | `TypeCorrect` | `TypeOK` | types |
| | `OneClientHolds` | `OneClient` | an instance never opens a second client for a channel |
| | `FenceMatches` | `FenceMatchesLog` | the presence projection is the set of stored terminals |
| | `FrameIsAfterCatalog` | `FrameAfterCatalog` | no frame is written before the catalog row |
| | `TerminalAbsorbs` | `TerminalIsLast` | no announce after the stored terminal |
| | `AckedUntilLoss` | `AckedFramesKept` | until a loss, every acknowledged frame is readable |
| | `AckedKept` | `AckedFramesKept` | the same or an error for good, across losses (`NoticedSpec`) |
| | `StoreImplementsLog` | `ImplementsChannelLog` | the store implements `ChannelLog` (`NoticedSpec`) |
| `StoreProofs` | `TypeCorrect`, `BoxServedOnce`, `ShownLinkIsGood` | `TypeOK`, `ServedOnce`, `LinkIsGood` | a box is served once; a shown link works |
| | `EntryInvHolds`, `BurnedPassIsKept` | `EntryInv`, `BurnedNotLost` | the pass of a claimed link stays with its tab |
| | `IdentityTypeCorrect`, `PathIsWhole` | `IdentityTypeOK`, `NeverGarbage` | the path names an overwritten file only after a loss of power, and if no command that took that file away could fsync the directory |
| | `LocatorInvariant`, `AnswersWereTrue` | `LocatorInv`, `AnswerWasTrue` | what the locator answers was so during the call |
| `HostProofs` | `TypeCorrect`, `NoGhostAtExit` | `LaunchTypeOK`, `NoGhost` | no session announced and left alive at the exit |
| | `ProxyInvHolds`, `ClosedForGood` | `ProxyInv`, `NothingOutlivesClose` | a stopped proxy has nothing open and opens nothing |
| | `TmuxInvariant`, `GateHolds`, `PastedOnce` | `TmuxInv`, `GateGuardsTurn`, `AppliedOnce` | the gate stands while a native turn runs; a text is pasted once |
| `StreamProofs` | `InvHolds`, `TypeCorrect`, `AppliedInOrder` | `DownInv`, `TypeOK`, `MutationsGapless` | the worker applies each mutation once, in order, without a gap |
| | `IntakeInvariant`, `LogIsTranscript`, `RelayedIsTranscript` | `IntakeInv`, `AdmittedInOrder`, `RelayedInOrder` | the worker's events enter the log once and in order, and leave it so |
| | `StreamInvariant`, `ReplayIsContiguous` | `StreamInv`, `ContiguousReplay` | a broker stream delivers its generation's rows without a gap |
| `RelayProofs` | `TypeCorrect`, `DrivesOnce`, `PublishesFirst` | `TypeOK`, `DrivenOnce`, `DrivenIsPublished` | a command drives the agent once, and only when published |
| | `InOrder` | `GapOnlyAtTail` | the content of each life of the relay enters the log in seq order without a hole |
| | `CardInvHolds`, `CardsTellOutcome` | `CardInv`, `CardTellsOutcome` | a device that has a request's frames shows what the agent was told |
| `CodexDriverProofs`, second part | `OnceDeadNoRow` | `DeadStaysDead` | a page that has opened the tombstone never shows the session again |
| | `PreviewInvariant`, `NeverGoesBack` | `PreviewInv`, `PreviewForward` | a visible preview is never older than one rendered before |
| `TranscriptProofs` | `ViewInvariant` | `ViewInv` | the invariant of the transcript, below |
| | `RowsInOrder` | `RowsOrdered` | the rows are the host's messages in order, without a hole, then what is provisional |
| | `BubbleOnce` | `OneBubble` | a message has one bubble once its receipt is there |
| | `DraftIsKept` | `DraftKept` | the last text and every file are in the draft or in one message |
| | `OpencodeInvariant`, `OpencodeTyped` | `OpencodeInv`, `OpencodeTypeOK` | the invariant of the OpenCode companion, below, and types |
| | `ProjectionIsFaithful` | `ProjectionFaithful` | a native message is shown once, after what it answers, in its final form unless a run ended with an error |
| | `TurnsAreSerial` | `BrowserTurnsSerial` | while the browser writes alone, a text is posted only when the earlier ones have run |
| `ClaudeDriverProofs` | `ClaudeInvariant` | `ClaudeInv` | the invariant of the companion, below |
| | `ProjectionIsComplete` | `ProjectionComplete` | what was seen is a prefix of the log, shown in order and every prompt once |
| | `DecisionsAreOnce` | `DecisionsOnce` | a request is answered at most once, and not after another client |
| | `ModelIsFresh` | `ModelFresh` | a new model comes from a read posted after the latest choice |
| `CodexDriverProofs` | `CodexInvariant`, `CodexTyped` | `CodexInv`, `TypeOK` | the invariant of the companion, below, and types |
| | `TranscriptIsFaithful` | `TranscriptFaithful` | an item is shown once, after the text it answers, and as final only when it is |
| | `CardsAreTruthful` | `CardsTruthful` | an open card has an open request, or its resolution is on the way |
| | `DecisionsAreOnce` | `DecisionsOnce` | a request is decided once, and not after its resolution was received |

**ChannelStore.** The invariant adds to the types what outlives an await. `KnownIsCatalogued`: a
cached or read "catalogued" is true, so a frame's transaction is past the catalog.
`LockGuardsOpening`: whoever opens holds the lock and no client is cached, which gives `OneClient`.
`LeaseIsLive` and `ProjectionReady`: a live lease is on a checked client, and a checked client has
the projection table, without which a terminal could be appended past a missing fence;
`FenceMatchesLog` then follows through back-fill and append. `KeptUntilLoss`: the log only grows
until a loss. Across a loss more is needed, stated as `NoticedInv`: `LostIsKnown`, that the catalog,
every request on its way to the database and every client that could still create tables know of
the lost channel; `AckedIsCatalogued`, that acknowledged frames are those of a catalogued channel;
`LeasedPastOpen` and `LogUnderRow`. The first is not inductive: a request that read "not catalogued"
before another catalogued the channel can start it over after the loss. That is a flaw of the code
(section 6). `LossIsNoticed` excludes a loss of acknowledged frames while somebody holds such an older
reading (`HoldsOldReading`: a request between the catalog and the client's opening, or an open client
whose schema is not checked yet), and a loss of a channel from before the catalog that is not in it
yet, which nothing could tell. A request that borrows a checked client may be anywhere at the loss,
whatever that client knows. The theorems that need the condition say so by being about
`NoticedSpec`. The refinement maps
every step to a step of `ChannelLog` or a stutter, action by action.

**HandoffStore.** Clocks read earlier lie in the past (`PastClocks`), a host owns at most the row its
last attempt put (`RowIsLast`), a claimant's proof came from a link (`ProofFromLink`) and a served
box has no row any more (`ServedIsGone`), so a second claim finds nothing.

**BrowserEntry.** What is owed to a user lies in the field or on the Pairing screen (`OwedKept`), and no
screen drops it: a Pairing that revealed something is still the screen (`RevealedPairs`), one that
waits for a claim has nothing revealed and waits for no other (`OneAwaited`), so no answer replaces a
pass, and the load after a reload and every connect are over before a Pairing starts
(`SettledFirst`), except in the tabs of `older`, which `BurnedNotLost` leaves out by name.

**IdentityStore.** Bytes are overwritten only in a file the path no longer names, and if the fsync of the
directory succeeded, no directory entry a loss of power may bring back names it either (`OldIsGone`,
with `durable`). That the path never returns to it needs that a minted secret is placed at most once
(`PlacedOnce`) and that a command replaces the file it found (`OldIsFile`); `PoweredWhole` says that
without a loss of power the path is whole. The fsync is best effort in the code: when it fails the
old file is overwritten all the same, so `NeverGarbage` names that case instead of denying it.

**TursoLocator.** A history variable holds what was so of its database while a call runs. An answer on
its way back is in it (`Witnessed`), a call that creates or looks asks about its own database
(`OwnName`), and while the catalog is being ensured no memo can stand in for the request
(`CatalogAsked`), which is where a stale memo would break `AnswerWasTrue`.

**HostLaunch, MitmProxy.** A tombstone exists for every session whose announce may be stored
(`BridgeOfSession`, and `TombOfSession` once its bridge is closed), one that is over is on the bus or was given up (`TombIsStored`),
and after the child exited no announce begins (`Fence`). `Owned`: whatever is open is in the set the
close sweeps, and a closed proxy adds nothing to the sets.

**WorkerStream.** `InTurn`: below an event the owner's follower is to write, every mutation was
attempted or comes first in the same snapshot, so attempts are in order (`AttemptedInOrder`).
`OwnerCarries`: while the owner's socket is alive, an attempted mutation was read or is in flight on
it. `AckedWasRead`: an acknowledged mutation was read; a stream is opened only when nothing attempted
is unacknowledged, so no mutation is in flight on a stream that was taken over, and none is behind
one the worker read (`WireInOrder`). `MutationsGapless` follows at each read. That a snapshot is
written lowest first uses the least element of a set of naturals, from the well-foundedness of `<`
(`LeastNatural`): the library's induction theorems take an operator and cannot be applied here.

**TmuxDriver.** `Newer(g)`: no completion that is written, read or queued for comparison has a
generation as high as `g`. `GateHeld`: the next turn's gate will be so, and that of the running turn
is, in place or aside, so no comparison releases it (`GateGuardsTurn`). `PastedInOrder`: a text is in
one place of the inbox, the pump and the pane, and the pump takes another only when the one pasted
last is acknowledged or the session has ended.

**NativeIntake.** A batch that passed holds, of the events not yet admitted, the next ones in the
worker's order; committed one by one they leave the log a beginning of the transcript
(`AdmittedInOrder`). `RelayFollows`: what was relayed, and then the slice in hand, is a beginning of
the log as long as the follower's cursor says.

**ChannelStream.** What a stream has delivered is, in ascending order, the rows of its generation
between its start and its cursor (`ContiguousReplay`); it is inductive with `StreamAt`. A batch of
the `LIMIT` query is any ascending sequence of the lowest rows past the cursor (`Lowest`), so the
proof needs only what such a sequence contains, not how it is computed.

**HostRelay.** `HeadAwaits`: the post awaited is that of the unit at the head of the queue.
`CommandRows`: the row of a command is in the channel once, which with `ReadBehindCursor` and `DrivenIsBehind` (what drove an agent lies before the next life's cursor) and
`QueuedIsFresh` gives `DrivenOnce`. `GateStages`: a gate is asked for, opened, answered and driven in
this order, each at most once.
The order theorem has its own invariant, because a failed post may commit after its relay ended:
`SeqTaken`, `RowsOfLives`, `OnePost` (a life has one content post under way and ends when it fails),
`PostsFit` and `RoomAhead` (what commits late is the next seq of its life).

**PermissionCards.** `OutcomeOf`: a gate that waits has no outcome and nothing published, and what is
published of another harness's request is its outcome. `StagesOf`: of a native request, that it was
submitted and, once it has ended, its end. `FoldOf`: a device's fold is a frame it has met, and that
of a submission only while it has met no other, in whatever order the frames came. The published
frames have then one fold, and it is what the agent was told. `FormsAssumption`: an answer is sent
as something that is none of the tags of the other outcomes.

**Presence, LivePreview.** Whatever frame a generator opens, one that was aborted included, either
finds the page alive or leaves it without a row. Of the preview, the store's cell only grows
(`WrittenNewer`) and is as new as anything a page reads, holds or has rendered (`CellNewest`); a poll
under way holds nothing older than what was rendered (`PollFresh`), and a page without a watermark
starts from the cell.

**ViewerTranscript.** Two halves. `DraftInv` is about the composer alone: a text and a file are in the
draft, or in one message, or taken out on purpose. The other half follows a frame. `HostOK`: the host
gives each seq to one message and each message one seq. `OrdererOK`: the orderer releases no seq
before those in front of it, and whatever a generator has still to yield, also one that was aborted
(`late`), has its predecessors in the rows or before it in the same queue (`Gapless`). `RowsOK`: a row
is a message not received, or an entry of the stream; two rows of one message are only its echo
and its bubble (`Apart`). A list given a frame with that guarantee stays without a hole; so the lemmas
go from lists (where a row is found, inserted, removed) over what the page does with one slot
(`GivenIs`) to the queues, with one step per action. `MountOK` tells the messages of this page from those
of an earlier one, of which `OneBubble` says nothing.

**ClaudeDriver.** `LogOK` is what the provider's log looks like: one event for a text and one result for
an ask, the worker's copy of a prompt behind the client's event or in its place. `ProjOK`: the
reconciler's memory, transcript and cards are what the events `1 .. last` say. The heart is
`Covered(b)`: what the stream has given and not lost yet continues the event `b` without a gap. It
holds for the length of the log when a connection is opened, so it holds for the end of the last
page whatever was read how often before, and after the history has been accepted it holds for `last`;
a lost stream covers anything, because it gives nothing. So `accept` is never given an event too far
ahead and rejects none (`AcceptKept`), a text that comes back from its other source is the same text
(`SecondSource`), and `LoopKept` carries both over the loop. A decision in the inbox is about a card
that exists, one in the writer's hands or acknowledged about a card that is used up or gone
(`AnswersOK`), and no event makes such a card usable again (`After`).

**CodexDriver.** Here nothing is compared with a log: what the companion shows must be true of a thread
that goes on changing while its news are under way. So the invariant speaks of the socket and of the
client's queue. `Says`: a message there is true of the thread (a completed item is complete, a turn
said to be over is). `OrderOK`: every user item is in the ledger, will still be read by the startup
(`Covered`: by which page, in either kind of history), or is on its way before whatever comes after
it in the thread; the reply that is shown next has therefore its text shown before. `PageOK`: a page
that was answered holds a user before its replies, and what the driver takes as final (`Final`) is,
because the turn was terminal before the items were read; a turn that is over never changes again.
`ShownOK`: the ledger is what was shown, so a coordinate never comes with another content and nothing
is rejected. `CardsOK`, `LiveOK`: a request that is closed has its resolution behind it, in the order
of the socket, wherever the request itself is (sent again, queued, on a card or in the table of live
requests); hence a card that stays open is about to close, and a decision is sent only from a table
the resolution has not cleared yet. The proof goes in two directions. A step of the app-server changes
the thread in few ways (`Grown`) and tells the companion (`Notified`), and whatever does only that
keeps every part (`NativeKept`). A step of the companion takes one message, a page or a command, and
has a lemma for each part it touches. A page and a burst of messages are loops, see *Induction*.

**OpencodeDriver.** `LedgerOK`: the ledger is what was shown, so an id is shown once, and a reply is met
only after its user. Whatever is still to come is where the transcript needs it. `StreamOK`: every
user of the server's history was met, will be read by the reconciliation that is due (`Unread`), or
is on the stream before whatever answers it. `FreshOK`: what a reply says now was buffered, will be
read, or is on the stream before the event that completes it; it holds as long as no run ended with
an error, which shows what is buffered. The history read after a reconnection is merged by a
recursive function whose every round keeps these. `SerialOK` is about the browser alone: whatever was
posted is over but for the active turn, a turn seen busy has run, and its busy is on the stream
before the idle that may release it, because the idles there are counted: one at most, that of an
interrupt that met no run, is not that of the active turn. Two such idles refute the property
(section 6), hence `OneInterrupt`. `NamesAssumption`: the browser's ids are not the terminal's.

**Induction.** What the code computes with a loop (the commit of a batch, the handling of the lines
read, the acceptance of a page, the messages that arrive together) is a recursive function, `f[n] == IF n = 0 THEN .. ELSE .. f[n - 1] ..`. The library's
induction theorems take an operator and cannot be instantiated, so such steps rest on a lemma about
sets (`UpTo`: a set with 0 that has n + 1 with every n below N holds all of `0..N`), which follows
from the least element of what it lacks.

**Only model-checked.** All liveness (`RequestsSettle`, `AmbiguityEnds`, `TeardownEnds`,
`EventuallyDelivered`, `EveryFrameArrives`, `CommandsSettle`, `CompleteAdmitted`, `PageAgrees`,
`TextsSettle`) and `ENABLED`: the prover has no rule for them.

## 6. Disagreements

Shown by a run:

- **A restarted relay can meet its predecessor's acknowledgement** (`relay_restart`). The next seq
  comes from `MAX(seq)` over content rows (`relay.ts:1267`). A prompt's acknowledgement
  `accepted-<session>-<seq>` is stored before the echo and without a seq. A relay that ends between
  the two leaves the seq free and the message id taken: the successor's first prompt is refused by
  the store and closes the session. `relay.test.ts:3442` states that a restart does not collide
  with prior frames. The launchers mint a fresh session id for every launch, so it takes a relay
  started over on one id, the case for which the code has its cursors.
- **A helper can type into a running turn** (`tmux_gate`). `releaseTurnGateForCompletion`
  (`tmux/driver.ts:142`) renames the gate aside to compare its generation, without the lock the helper
  takes. If the gate is a newer turn's, the helper's exclusive create succeeds meanwhile.
  `docs/tmux-driver.md:132` guarantees that pane mutation cannot cross an active turn. `streams`
  shows what does hold: the gate stands outside that moment, and a text is pasted once.
- **The identity's path can come back to an overwritten file** (`identity_sync`). `fsyncDirBestEffort`
  (`store.ts:335`) passes over a directory that cannot be fsynced, and `replaceIdentity` goes on to
  overwrite the old file. After a loss of power the path can name that file, against `store.ts:434`
  ("never missing or garbage") and `:494` ("Dir-fsync first keeps the path always old-or-new").
  `NeverGarbage` and its theorem say what holds for every outcome of the fsync.
- **A stale busy releases an OpenCode text** (`opencode_serial`). A busy of the terminal user's earlier
  turn that is still queued counts as that of the browser's turn (`opencode/driver.ts:1159`), and the
  idle behind it releases the next text, against `docs/opencode-driver.md:167`: two browser texts are
  at the server and neither has run. `BrowserTurnsSerial` is what holds without a second writer.

Met while modelling; each is in the model, and the properties excuse it where they would otherwise
be violated (the excuse is named in the property):

- *Attachments can crowd one another out.* The buffer holds the parts of four incomplete messages
  (`relay.ts:140`) and drops the oldest for a fifth (`:1743-1755`); nothing bounds the devices that
  send at once. If four others' parts come between the parts of each of five messages, none is ever
  complete, and none of the senders is told. `CompleteAdmitted` speaks of the messages that are not
  `Crowded`.
- *Two interrupts that meet no run.* Each makes the OpenCode server say idle for no run. With three
  browser texts and two such interrupts, the idle of one can release a text early as an earlier
  busy did; `BrowserTurnsSerial` asks for `OneInterrupt`.
- *A lost channel can be created again.* `prepareOpen` (`sqlite-multi.ts:709`) reads the catalog and
  the existence of the database in two awaits; an instance that read "not catalogued" before another
  catalogued the channel provisions a replacement after the loss. The comment at `:93` promises that
  every operation fails closed. `LossIsNoticed` excludes it.
- *A channel from before the catalog*, lost before any request has catalogued it, is started over as
  a new one (`LossIsNoticed` names it with `legacy`).
- *A closed channel is not always drained* (`sqlite-multi.ts:1189`): a frame appended after the empty
  frame query and before a close is not delivered to that stream.
- *An identity replaced unconfirmed* (`store.ts:454`): the confirmed id is compared when the secret is
  loaded, and not again at the rename.
- *The credential after Forget* (`credential-store.ts:93`): a save under way writes it again; two tabs
  that generate the device key at once leave one blob unreadable (`clashed`).
- *The stall notice* (`page.tsx:1812`): any message without a seq clears it, and the generator does not
  report the same stall again (`viewer.ts:775`).

## 7. What is not modelled

- In modelled parts: `dropIndex` and the no-op sweep of the store; URL building of the locator and its
  handoff database; the handoff store's client cache; attachment byte accounting, settings and the
  permissive acknowledgement seam in the session core; the non-durable replay log, native ordering and
  multi-part seals in `HostRelay` (`relay.ts:1003`, a hazard without a property); token refresh
  details, uploads and size limits of the drivers; questions and permissions of the OpenCode server;
  the status line parser of tmux; the end of the session at which the page drops the
  draft (`page.tsx:1199`); the gap notice and the non-durable tail of the viewer.
- `Presence.Resubscribed` assumes that fewer frames than the tail of a subscription (64, `viewer.ts:612`)
  pass on the bus while a page is away; with more, announces and tombstones are passed over.
- In `MitmProxy` the `stopped` half of the check at a tunnel's late connection (`mitm.ts:207`) is no case
  of its own: the close has destroyed the client's socket, which the same line checks.
- Command line wiring, PTY and harness selection, certificates, QR codes, tracing, React rendering:
  input and output without protocol state.
- The Workflow backend delegates to its platform; request validation in the routes and Bedrock
  signing are pure functions; sealing and key derivation are abstracted to "a value with its
  coordinates".

## 8. Plan

1. The drivers' projections against one abstract transcript, as refinements.
2. Multi-part posts in `HostRelay`, and a restart in the middle of a message.
