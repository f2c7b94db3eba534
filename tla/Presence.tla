------------------------------ MODULE Presence ------------------------------
(***************************************************************************)
(* What a browser knows of a session it does not look at: the announces    *)
(* the host's relay posts to the identity's bus, the tombstone it posts    *)
(* when the session closes, and the page that tails the bus.               *)
(*                                                                         *)
(* An announce always carries the current value (worker status, mode,      *)
(* settings: `cur`), and the settings catalogue only when the relay        *)
(* believes a viewer lacks it.  Posts are abandoned, answered late and     *)
(* stored out of order; the store drops an announce behind a tombstone.    *)
(* The page keeps a row per session, re-subscribes from the tail of the    *)
(* bus when it returns to the foreground, and lets the user pick a native  *)
(* setting, which only a later announce confirms.                          *)
(*                                                                         *)
(* Code: relay.ts (#sendAnnounce .. #postPresenceTerminal), viewer.ts      *)
(* (announces), page.tsx (Console, native settings).  One session; the     *)
(* frames of other sessions, which share the bus, are not kept.  A session *)
(* never outlives its relay process, so one incarnation announces it.      *)
(***************************************************************************)
EXTENDS Naturals, Sequences, FiniteSets

CONSTANTS
    None,         \* no value
    Values,       \* what the current presence can be
    Catalogs,     \* catalogues of models and modes the driver can report
    NoCatalog,    \* before the driver reports its settings
    Retries,      \* TERMINAL_POST_RETRIES
    Backlog,         \* frames a subscription to the bus starts back, 64 in the code
    MaxEvents     \* bound: changes, failures, broken streams, returns to the page, picks

VARIABLES
    \* the host
    cur,          \* #presence(), as the driver reports it now
    cat,          \* the catalogue in #session.sessionSettings
    relay,        \* the fields of HostRcRelay about presence
    tomb,         \* #postPresenceTerminal: attempts, and whether one may still be stored
    posts,        \* announces posted: awaited by the relay, or able to be stored still
    bus,          \* frames stored on the identity's bus
    \* the page
    dead,         \* #terminalSessions has the session
    known,        \* #acceptedAnnounces of the session
    row,          \* its row in the list
    gen,          \* the generator: next frame to take, and the one held by openFrame
    stray,        \* the frame held by a generator that was aborted
    asked,        \* the catch_up of an opened transcript: "no", "sent" or "served"
    pick,         \* pendingSetting
    wish,         \* the set_session_settings on its way to the driver
    notice,       \* settingsNotice: None, "confirmed" or "unconfirmed"
    \* bounds and history
    since,        \* values the driver held, or a viewer might yet hear of, since the pick
    overtaken,    \* a catalogue changed while the first announce was in flight
    events        \* of MaxEvents

host == <<cur, cat, relay, tomb, posts>>
page == <<dead, known, row, gen, stray, asked, pick, notice>>
history == <<since, overtaken>>
vars == <<host, bus, page, wish, history, events>>

Spend == events < MaxEvents /\ events' = events + 1

Idle == [announced |-> FALSE, terminal |-> FALSE, started |-> FALSE, requested |-> FALSE,
         inFlight |-> FALSE, dirty |-> FALSE, due |-> FALSE, seq |-> 0,
         lastKey |-> None, lastCat |-> NoCatalog]

\* A subscription begins Backlog frames before the end, with nothing held.
FromTail(b) == [next |-> IF Len(b) > Backlog THEN Len(b) - Backlog + 1 ELSE 1, held |-> None]

\* Before the page is loaded it has no generator.
Absent == [next |-> 0, held |-> None]
Loaded == gen.next > 0

Init == /\ cur = CHOOSE v \in Values : TRUE      \* by symmetry
        /\ cat \in {NoCatalog, CHOOSE c \in Catalogs : TRUE} /\ relay = Idle
        /\ tomb = [state |-> None, failed |-> 0, live |-> FALSE]
        /\ posts = {} /\ bus = <<>>
        /\ dead = FALSE /\ known = None /\ row = None
        /\ gen = Absent /\ stray = None
        /\ asked = "no" /\ pick = None /\ wish = None /\ notice = None
        /\ since = {} /\ overtaken = FALSE /\ events = 0

-----------------------------------------------------------------------------
(* The relay's announces.                                                  *)

Key == <<cur, cat>>

Wanted(r) == r.requested \/ r.lastKey # Key \/ r.due

\* #sendAnnounce, up to its await: the post it makes and the relay it leaves.
Full(r) == cat # NoCatalog /\ (r.requested \/ cat # r.lastCat)
Post(r, isFirst) == [seq |-> r.seq, cur |-> cur, cat |-> cat, full |-> Full(r), first |-> isFirst,
                     awaited |-> TRUE, live |-> TRUE]
Sent(r) == [r EXCEPT !.requested = FALSE, !.seq = @ + 1, !.started = TRUE]

\* #maybeAnnounce in the relay r, with the posts ps outstanding.
MaybeAnnounce(r, ps) ==
    IF ~r.announced \/ r.terminal \/ ~Wanted(r) THEN relay' = r /\ posts' = ps
    ELSE IF r.inFlight THEN relay' = [r EXCEPT !.dirty = TRUE] /\ posts' = ps
    ELSE /\ relay' = Sent([r EXCEPT !.inFlight = TRUE])
         /\ posts' = ps \union {Post(r, FALSE)}

\* #finishAdvisoryPresence, or nothing after the first announce.
Finish(r, ps, p) ==
    IF p.first THEN relay' = r /\ posts' = ps
    ELSE LET idle == [r EXCEPT !.inFlight = FALSE, !.dirty = FALSE]
         IN IF r.dirty THEN MaybeAnnounce(idle, ps) ELSE relay' = idle /\ posts' = ps

\* The bridge's first announce; it shares nothing with the single flight of the others.
Announce == /\ ~relay.announced /\ ~relay.terminal
            /\ relay' = Sent([relay EXCEPT !.announced = TRUE])
            /\ posts' = posts \union {Post(relay, TRUE)}
            /\ UNCHANGED <<cur, cat, tomb, bus, page, wish, history, events>>

\* The null tick of followUpstream, and the call after every change of state.
Heartbeat == /\ relay.announced /\ ~relay.terminal /\ Wanted(relay) /\ ~relay.dirty
             /\ MaybeAnnounce(relay, posts)
             /\ UNCHANGED <<cur, cat, tomb, bus, page, wish, history, events>>

\* The page is behind for good: all is read, nothing is on its way.
Behind == /\ \A p \in posts : ~p.awaited
          /\ Loaded /\ gen.next > Len(bus) /\ gen.held = None
          /\ row # None => row.cur # cur

\* ANNOUNCE_KEEPALIVE_MS passed.  One that tells the page nothing new is left out: only
\* freshness, which is not kept, would tell.
Keepalive == /\ relay.announced /\ ~relay.terminal /\ ~relay.due /\ Behind
             /\ relay' = [relay EXCEPT !.due = TRUE]
             /\ UNCHANGED <<cur, cat, tomb, posts, bus, page, wish, history, events>>

Fenced == \E i \in 1..Len(bus) : bus[i].kind = "terminal"

\* The store appends an announce unless the session's tombstone is there (#publishFrame).
Stores(p) == ~Fenced

Commit(p) ==
    /\ p.live
    /\ posts' = (posts \ {p}) \union (IF p.awaited THEN {[p EXCEPT !.live = FALSE]} ELSE {})
    /\ bus' = IF Stores(p)
              THEN Append(bus, [kind |-> "announce", seq |-> p.seq, cur |-> p.cur,
                                cat |-> IF p.full THEN p.cat ELSE NoCatalog, bare |-> ~p.full /\ p.cat # NoCatalog])
              ELSE bus
    /\ UNCHANGED <<cur, cat, relay, tomb, page, wish, history, events>>

\* The post succeeded: only now does the relay take the viewers to know what it carried.
Answer(p) ==
    /\ p.awaited /\ ~p.live
    /\ Finish([relay EXCEPT !.lastCat = IF p.full \/ p.cat = NoCatalog THEN p.cat ELSE @,
                            !.lastKey = <<p.cur, p.cat>>, !.due = FALSE],
              posts \ {p}, p)
    /\ UNCHANGED <<cur, cat, tomb, bus, page, wish, history, events>>

\* The post failed for the relay, whether or not it was or will be stored.
Forgets(r, p) == r
Again(r, p) == IF p.full THEN [r EXCEPT !.requested = TRUE] ELSE r

Fail(p) ==
    /\ p.awaited /\ Spend
    /\ Finish(Again(relay, p), (posts \ {p}) \union (IF p.live THEN {[p EXCEPT !.awaited = FALSE]} ELSE {}), p)
    /\ UNCHANGED <<cur, cat, tomb, bus, page, wish, history>>

\* The pump handles the catch_up of an opened transcript.
HandleCatchUp ==
    /\ asked = "sent" /\ ~relay.terminal
    /\ asked' = "served"
    /\ MaybeAnnounce([relay EXCEPT !.requested = @ \/ cat # NoCatalog], posts)
    /\ UNCHANGED <<cur, cat, tomb, bus, dead, known, row, gen, stray, pick, notice, wish, history, events>>

-----------------------------------------------------------------------------
(* The driver, and the end of the session.                                 *)

\* The values held since the pick, when one is pending.
Held(v) == IF pick = None THEN {} ELSE since \union {v}

Change(v) == /\ v # cur /\ ~relay.terminal /\ Spend
             /\ cur' = v /\ since' = Held(v)
             /\ UNCHANGED <<cat, relay, tomb, posts, bus, page, wish, overtaken>>

ChangeCatalog(c) ==
    /\ c # cat /\ ~relay.terminal /\ Spend
    /\ cat' = c
    /\ overtaken' = (overtaken \/ (cat # NoCatalog /\ \E p \in posts : p.first /\ p.awaited))
    /\ UNCHANGED <<cur, relay, tomb, posts, bus, page, wish, since>>

\* The driver applies the setting the user picked, or refuses it.
Apply == /\ wish # None /\ ~relay.terminal
         /\ cur' = wish /\ since' = Held(wish) /\ wish' = None
         /\ UNCHANGED <<cat, relay, tomb, posts, bus, page, overtaken, events>>
Refuse == /\ wish # None /\ wish' = None
          /\ UNCHANGED <<host, bus, page, history, events>>

\* Session.close runs terminalizePresence: latch, abort every announce, post the tombstone.
\* What the relay remembered of its announces is not read again, and is cleared here.
Close == /\ ~relay.terminal
         /\ relay' = [Idle EXCEPT !.announced = relay.announced, !.terminal = TRUE, !.started = relay.started]
         /\ overtaken' = FALSE
         /\ posts' = {[p EXCEPT !.awaited = FALSE] : p \in {q \in posts : q.live}}
         /\ tomb' = IF relay.started THEN [tomb EXCEPT !.state = "trying", !.live = TRUE] ELSE tomb
         /\ wish' = None
         /\ UNCHANGED <<cur, cat, bus, page, since, events>>

TombCommit == /\ tomb.live
              /\ tomb' = [tomb EXCEPT !.live = FALSE]
              /\ bus' = IF Fenced THEN bus ELSE Append(bus, [kind |-> "terminal"])
              /\ UNCHANGED <<cur, cat, relay, posts, page, wish, history, events>>
TombAnswer == /\ tomb.state = "trying" /\ ~tomb.live
              /\ tomb' = [tomb EXCEPT !.state = "posted"]
              /\ UNCHANGED <<cur, cat, relay, posts, bus, page, wish, history, events>>
\* An attempt failed or timed out; a new one is sent, whatever became of the last.
TombFail == /\ tomb.state = "trying" /\ Spend
            /\ tomb' = IF tomb.failed < Retries THEN [tomb EXCEPT !.failed = @ + 1, !.live = TRUE]
                       ELSE [tomb EXCEPT !.state = "gave up"]
            /\ UNCHANGED <<cur, cat, relay, posts, bus, page, wish, history>>

-----------------------------------------------------------------------------
(* The page.                                                               *)

\* shouldAcceptAnnounce for announces of one incarnation.
Accepts(k, f) == k = None \/ f.seq > k.seq

\* A frame that carries only the current value keeps the catalogue already accepted.
Catalog(k, f) == IF f.bare /\ k # None THEN k.cat ELSE f.cat
Accepted(k, f) == [seq |-> f.seq, cur |-> f.cur, cat |-> Catalog(k, f)]

\* nativeSettingOutcome; it is evaluated when the announced settings change.
Outcome(p, v) == IF v = p.change THEN "confirmed" ELSE IF v # p.before THEN "unconfirmed" ELSE "pending"

Settle(k) == IF pick = None \/ k.cat = NoCatalog THEN UNCHANGED <<pick, notice>>
             ELSE LET o == Outcome(pick, k.cur)
                  IN IF o = "pending" THEN UNCHANGED <<pick, notice>> ELSE pick' = None /\ notice' = o

\* openFrame of an announce is over: the tombstone may have come meanwhile.
OpenedUnchecked(f) ==
    IF ~Accepts(known, f) THEN UNCHANGED <<dead, known, row, asked, pick, notice>>
    ELSE /\ known' = Accepted(known, f) /\ row' = Accepted(known, f)
         /\ Settle(Accepted(known, f))
         /\ UNCHANGED <<dead, asked>>
OpenedAnnounce(f) ==
    IF dead \/ ~Accepts(known, f) THEN UNCHANGED <<dead, known, row, asked, pick, notice>>
    ELSE /\ known' = Accepted(known, f) /\ row' = Accepted(known, f)
         /\ Settle(Accepted(known, f))
         /\ UNCHANGED <<dead, asked>>

\* openFrame of the tombstone is over.  onTerminal deletes the row of an aborted generator too.
OpenedTerminal ==
    IF dead THEN UNCHANGED <<dead, known, row, asked, pick, notice>>
    ELSE /\ dead' = TRUE /\ known' = None
         /\ row' = None /\ pick' = None /\ notice' = None
         /\ UNCHANGED asked

Opened(f) == IF f.kind = "terminal" THEN OpenedTerminal ELSE OpenedAnnounce(f)

\* The generator takes the next frame, and skips an announce of a session known to be over.
Take == /\ Loaded /\ gen.held = None /\ gen.next <= Len(bus)
        /\ gen' = [next |-> gen.next + 1,
                   held |-> IF dead THEN None ELSE bus[gen.next]]
        /\ UNCHANGED <<host, bus, dead, known, row, stray, asked, pick, notice, wish, history, events>>

Open == /\ gen.held # None
        /\ gen' = [gen EXCEPT !.held = None]
        /\ Opened(gen.held)
        /\ UNCHANGED <<host, bus, stray, wish, history, events>>

OpenLate == /\ stray # None
            /\ stray' = None
            /\ Opened(stray)
            /\ UNCHANGED <<host, bus, gen, wish, history, events>>

\* A new subscription starts a whole tail back, and the bus grows by less than a tail while
\* a page is between two: what was taken last is repeated, and nothing is passed over.
Resubscribed == LET back == IF gen.next > 1 THEN gen.next - 1 ELSE 1
           IN [next |-> IF back < FromTail(bus).next THEN back ELSE FromTail(bus).next, held |-> None]

\* The stream breaks between two frames; the generator subscribes again.
Break == /\ Loaded /\ gen.held = None /\ Spend
         /\ gen' = Resubscribed
         /\ UNCHANGED <<host, bus, dead, known, row, stray, asked, pick, notice, wish, history>>

\* visibilitychange: the effect aborts its generator and starts another.
Revive == /\ Loaded /\ stray = None /\ Spend
          /\ gen' = Resubscribed /\ stray' = gen.held
          /\ UNCHANGED <<host, bus, dead, known, row, asked, pick, notice, wish, history>>

\* The page is opened.  One that is reloaded knows nothing either, so this is any reload too.
Load == /\ ~Loaded
        /\ gen' = FromTail(bus)
        /\ UNCHANGED <<host, bus, dead, known, row, stray, asked, pick, notice, wish, history, events>>

\* The user opens the session: its transcript asks the host for history and settings.
OpenTranscript == /\ row # None /\ asked = "no"
                  /\ asked' = "sent"
                  /\ UNCHANGED <<host, bus, dead, known, row, gen, stray, pick, notice, wish, history, events>>

\* chooseNativeSetting.  The values a viewer may still hear of are those after its row's.
StillHeard == {cur} \union {p.cur : p \in {q \in posts : q.seq > row.seq}}
              \union {bus[i].cur : i \in {j \in 1..Len(bus) : bus[j].kind = "announce" /\ bus[j].seq > row.seq}}
PickSetting(v) ==
    /\ asked # "no" /\ row # None /\ row.cat # NoCatalog /\ pick = None /\ v # row.cur /\ Spend
    /\ pick' = [change |-> v, before |-> row.cur] /\ notice' = None
    /\ wish' \in {v, None}
    /\ since' = StillHeard
    /\ UNCHANGED <<host, bus, dead, known, row, gen, stray, asked, overtaken>>

\* The POST failed, though the host may have the control, or NATIVE_SETTINGS_CONFIRM_MS passed.
Unconfirmed == /\ pick # None
               /\ pick' = None /\ notice' = "unconfirmed" /\ since' = {}
               /\ UNCHANGED <<host, bus, dead, known, row, gen, stray, asked, wish, overtaken, events>>

Next == \/ Announce \/ Heartbeat \/ Keepalive
        \/ \E p \in posts : Commit(p) \/ Answer(p) \/ Fail(p)
        \/ HandleCatchUp
        \/ \E v \in Values : Change(v) \/ PickSetting(v)
        \/ \E c \in Catalogs : ChangeCatalog(c)
        \/ Apply \/ Refuse
        \/ Close \/ TombCommit \/ TombAnswer \/ TombFail
        \/ Take \/ Open \/ OpenLate \/ Break \/ Revive \/ Load
        \/ OpenTranscript \/ Unconfirmed

Spec == Init /\ [][Next]_vars

\* Timers fire, requests that are awaited end, the page is loaded and reads what is stored.
\* None of these can go on for ever, so fairness of all of them together is enough.
Progress == \/ Announce \/ Heartbeat \/ Keepalive \/ HandleCatchUp
            \/ \E p \in posts : p.awaited /\ (Commit(p) \/ Answer(p))
            \/ tomb.state = "trying" /\ (TombCommit \/ TombAnswer)
            \/ Load \/ Take \/ Open \/ OpenLate
Fairness == WF_vars(Progress)
-----------------------------------------------------------------------------
(* Properties.                                                             *)

\* A page that has seen the tombstone never shows the session again, in whatever order
\* its generators finish opening their frames (onTerminal is absorbing).
DeadStaysDead == dead => row = None /\ known = None

\* The page ends up agreeing with the host: it shows the driver's current value, and the
\* driver's catalogue once its transcript was opened; once the session is over and its
\* tombstone stored, it shows no row.  A catalogue that changed while the first announce
\* was in flight is excused: that announce, answered last, leaves the relay in the belief
\* that viewers know the older one.
PageAgrees ==
    []<>(\/ relay.terminal /\ (row = None \/ ~Fenced)
         \/ ~relay.terminal /\ Loaded /\ row # None /\ row.cur = cur
            /\ (asked = "served" => row.cat = cat \/ overtaken))
=============================================================================
