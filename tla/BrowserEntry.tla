---------------------------- MODULE BrowserEntry ----------------------------
(***************************************************************************)
(* How a pass gets into the browser viewer and survives there: the entry   *)
(* screens of apps/web/app/page.tsx (Home, Connect, Pairing), the one-time  *)
(* claim of lib/handoff-claim.ts and the credential of                      *)
(* lib/credential-store.ts.                                                 *)
(*                                                                          *)
(* A tab shows one of four screens, decided by viewer, restoring and otk.   *)
(* Its asynchronous work is the set jobs: "load" (loadCredential on mount), *)
(* "connect" (Viewer.fromPass), "save" (saveCredential) and "claim" (the    *)
(* request to the broker).  load and save go through deviceKey(), a get and *)
(* a put in two IndexedDB transactions of a database every tab of the       *)
(* origin shares.  The wrapped pass lies in the tab's own session storage   *)
(* and outlives a reload.  A device key is a number, in the order the tabs  *)
(* generate them.                                                           *)
(***************************************************************************)
EXTENDS Naturals

CONSTANTS Tabs,      \* tabs of one browser
          Links,     \* one-time links; the pass sealed in a link is named like it
          Typed,     \* passes the user may paste, or open as a bare link
          Malformed, \* those of them parsePass refuses
          Nowhere,  \* no pass, no link, no blob
          MaxKeys,   \* bound: device keys generated
          MaxActs    \* bound: reloads, opened links, taps and everything else the user does

Passes == Links \union Typed

ASSUME PassesAssumption == Nowhere \notin Passes

VARIABLES key,      \* the device key in IndexedDB, 0 when there is none
          keys,     \* how many were ever generated
          burned,   \* links the broker has handed out
          tab,      \* what each tab's page holds
          blob,     \* each tab's session storage: [pass, key] or Nowhere
          jobs,     \* each tab's calls in flight
          erasing,  \* clearCredential's key deletions still to come
          owed,     \* history: per tab, claimed passes its user has not let go of
          older,    \* history: tabs that opened a link while a load or a connect was in flight
          clashed,  \* history: the device key changed under a call that had already looked for it
          acts      \* how much of MaxActs is used

stored == <<key, keys, blob, erasing, clashed>>
entryVars == <<stored, burned, tab, jobs, owed, older, acts>>

Page == [viewer : Passes \union {Nowhere}, input : Passes \union {Nowhere},
         otk : Links \union {Nowhere}, revealed : Links \union {Nowhere},
         claiming : BOOLEAN, connecting : BOOLEAN, restoring : BOOLEAN]

\* A call: how far it got, the pass it carries, the key it looked at and the key it holds, the key the
\* loaded blob was sealed under, and whether its answer still has a screen to go to: for a claim the
\* Pairing that asked, for a load or a connect the splash of the mount.
Call == [kind : {"load", "connect", "save", "claim"}, at : {"get", "put", "wrap", "go"},
         pass : Passes, seen : Nat, key : Nat, sealed : Nat, held : BOOLEAN]

\* Only a load or a save goes through the device key, and a claim is for a link.
CallOK(c) == c \in Call /\ (c.at = "go" <=> c.kind \in {"connect", "claim"}) /\ (c.kind = "claim" => c.pass \in Links)

EntryTypeOK == /\ key \in Nat /\ keys \in Nat
               /\ burned \subseteq Links /\ tab \in [Tabs -> Page]
               /\ blob \in [Tabs -> [pass : Passes, key : Nat] \union {Nowhere}]
               /\ jobs \in [Tabs -> SUBSET Call] /\ \A t \in Tabs : \A c \in jobs[t] : CallOK(c)
               /\ owed \in [Tabs -> SUBSET Links]
               /\ erasing \in Nat /\ older \subseteq Tabs /\ clashed \in BOOLEAN

Blank == [viewer |-> Nowhere, input |-> Nowhere, otk |-> Nowhere, revealed |-> Nowhere,
          claiming |-> FALSE, connecting |-> FALSE, restoring |-> FALSE]

Starts(kind, at, pass, held) ==
    [kind |-> kind, at |-> at, pass |-> pass, seen |-> 0, key |-> 0, sealed |-> 0, held |-> held]

EntryInit == /\ key = 0 /\ keys = 0 /\ burned = {} /\ erasing = 0
        /\ tab = [t \in Tabs |-> Blank] /\ blob = [t \in Tabs |-> Nowhere]
        /\ jobs = [t \in Tabs |-> {}] /\ owed = [t \in Tabs |-> {}]
        /\ older = {} /\ clashed = FALSE /\ acts = 0

Act == acts < MaxActs /\ acts' = acts + 1
Quiet == UNCHANGED acts
Owe(t, links) == owed' = [owed EXCEPT ![t] = links]

\* Home renders the console over everything, then the splash, then Pairing, then Connect.
OnConnectScreen(p) == p.viewer = Nowhere /\ ~p.restoring /\ p.otk = Nowhere
OnPairing(p) == p.viewer = Nowhere /\ ~p.restoring /\ p.otk # Nowhere

\* Pairing loses its own state, and the claim it waits for, when it leaves the screen; a new link opened
\* over it does not remount it.
Show(t, p, calls) ==
    /\ tab' = [tab EXCEPT ![t] = IF OnPairing(p) THEN p ELSE [p EXCEPT !.revealed = Nowhere, !.claiming = FALSE]]
    /\ jobs' = [jobs EXCEPT ![t] = {IF c.kind = "claim" THEN [c EXCEPT !.held = @ /\ OnPairing(p)] ELSE c : c \in calls}]

-----------------------------------------------------------------------------
\* What the user does.  A reload: the page is new, the fragment was stripped when it was first read, and
\* session storage may hold a credential to restore.
Restore(b) == [Starts("load", "get", b.pass, TRUE) EXCEPT !.sealed = b.key]

Reload(t) ==
    /\ Act
    /\ IF blob[t] = Nowhere THEN Show(t, Blank, {}) ELSE Show(t, [Blank EXCEPT !.restoring = TRUE], {Restore(blob[t])})
    /\ Owe(t, {}) /\ older' = older \ {t}
    /\ UNCHANGED <<burned, stored>>

\* A link is opened into the loaded tab: the hash changes, the page does not remount.
HashEntries == [kind : {"handoff"}, value : Links] \union [kind : {"pass"}, value : Typed]
             \union [kind : {"handoff-disabled"}, value : {Nowhere}]

AfterHash(p, entry) ==
    LET bare == [p EXCEPT !.viewer = Nowhere, !.restoring = FALSE, !.otk = Nowhere]
    IN  CASE entry.kind = "handoff" -> [bare EXCEPT !.otk = entry.value]
          [] entry.kind = "pass"    -> [bare EXCEPT !.input = entry.value]
          [] OTHER                  -> bare

HashChange(t, entry) ==
    /\ Act
    /\ Show(t, AfterHash(tab[t], entry), jobs[t])
    /\ Owe(t, IF entry.kind = "pass" THEN {} ELSE owed[t] \ {tab[t].revealed})
    /\ older' = IF \E c \in jobs[t] : c.kind \in {"load", "connect"} THEN older \union {t} ELSE older
    /\ UNCHANGED <<burned, stored>>

\* Connect's field and its button.
Type(t, p) ==
    /\ Act /\ OnConnectScreen(tab[t])
    /\ Show(t, [tab[t] EXCEPT !.input = p], jobs[t])
    /\ Owe(t, {}) /\ UNCHANGED <<burned, older, stored>>

Connecting(p) == [p EXCEPT !.connecting = TRUE]

Submit(t) ==
    /\ Act /\ OnConnectScreen(tab[t]) /\ tab[t].input # Nowhere /\ ~tab[t].connecting
    /\ Show(t, Connecting(tab[t]), jobs[t] \union {Starts("connect", "go", tab[t].input, FALSE)})
    /\ UNCHANGED <<burned, owed, older, stored>>

\* "Pair this device": one claim in flight per Pairing.
Reveal(t) ==
    /\ Act /\ OnPairing(tab[t]) /\ tab[t].revealed = Nowhere /\ ~tab[t].claiming
    /\ Show(t, [tab[t] EXCEPT !.claiming = TRUE], jobs[t] \union {Starts("claim", "go", tab[t].otk, TRUE)})
    /\ UNCHANGED <<burned, owed, older, stored>>

\* A slip that leaves the pass to the connection alone.
ConnectedOnly(p) == [p EXCEPT !.otk = Nowhere]

\* "Connect" under the confirmed identity: the link is burned, so the pass goes into the field as well.
Confirmed(p) == [p EXCEPT !.input = p.revealed, !.otk = Nowhere]

OnConnect(t) ==
    /\ Act /\ OnPairing(tab[t]) /\ tab[t].revealed # Nowhere
    /\ Show(t, Connecting(Confirmed(tab[t])), jobs[t] \union {Starts("connect", "go", tab[t].revealed, FALSE)})
    /\ Owe(t, owed[t] \intersect {tab[t].revealed})
    /\ UNCHANGED <<burned, older, stored>>

OnCancel(t) ==
    /\ Act /\ OnPairing(tab[t]) /\ tab[t].revealed = Nowhere
    /\ Show(t, [tab[t] EXCEPT !.otk = Nowhere], jobs[t])
    /\ UNCHANGED <<burned, owed, older, stored>>

\* Forget: the blob goes at once, the device key a transaction later, every entry state with them.
OnForget(t) ==
    /\ Act /\ tab[t].viewer # Nowhere
    /\ blob' = [blob EXCEPT ![t] = Nowhere] /\ erasing' = erasing + 1
    /\ Show(t, [tab[t] EXCEPT !.viewer = Nowhere, !.otk = Nowhere, !.input = Nowhere], jobs[t])
    /\ Owe(t, {}) /\ UNCHANGED <<burned, key, keys, older, clashed>>

Erase == /\ erasing > 0 /\ erasing' = erasing - 1
         /\ key' = 0 /\ clashed' = (clashed \/ key # 0)
         /\ UNCHANGED <<keys, burned, tab, blob, jobs, owed, older, acts>>

-----------------------------------------------------------------------------
\* claimHandoff's answer: the box goes to the first request that reaches the broker, every later one is told
\* 404, and the answer itself may be lost.  A Pairing that is no longer there drops it.
Outcomes == {"answered", "lost", "unsent"}

Claimed(t, c, outcome) ==
    /\ Quiet /\ c \in jobs[t] /\ c.kind = "claim"
    /\ burned' = IF outcome = "unsent" THEN burned ELSE burned \union {c.pass}
    /\ LET opened == outcome = "answered" /\ c.held /\ c.pass \notin burned
       IN  /\ Show(t, [tab[t] EXCEPT !.claiming = @ /\ ~c.held,
                                     !.revealed = IF opened THEN c.pass ELSE @], jobs[t] \ {c})
           /\ Owe(t, IF opened THEN owed[t] \union {c.pass} ELSE owed[t])
    /\ UNCHANGED <<older, stored>>

\* connect(): the console shows first and the credential is saved after it; a refused pass shows an error.
Ended(p, c) == [p EXCEPT !.connecting = FALSE, !.restoring = @ /\ ~c.held]

Connected(t, c) ==
    /\ Quiet /\ c \in jobs[t] /\ c.kind = "connect"
    /\ IF c.pass \in Malformed
       THEN Show(t, Ended(tab[t], c), jobs[t] \ {c})
       ELSE Show(t, [tab[t] EXCEPT !.viewer = c.pass],
                 (jobs[t] \ {c}) \union {[c EXCEPT !.kind = "save", !.at = "get"]})
    /\ UNCHANGED <<burned, owed, older, stored>>

\* deviceKey(): the key that is there, or a new one, put in a second transaction.
Usable == key # 0

GetKey(t, c) ==
    /\ Quiet /\ c \in jobs[t] /\ c.at = "get"
    /\ IF Usable
       THEN /\ Show(t, tab[t], (jobs[t] \ {c}) \union {[c EXCEPT !.at = "wrap", !.key = key]})
            /\ UNCHANGED keys
       ELSE /\ keys < MaxKeys /\ keys' = keys + 1
            /\ Show(t, tab[t], (jobs[t] \ {c}) \union {[c EXCEPT !.at = "put", !.key = keys + 1, !.seen = key]})
    /\ UNCHANGED <<key, burned, blob, erasing, owed, older, clashed>>

PutKey(t, c) ==
    /\ Quiet /\ c \in jobs[t] /\ c.at = "put"
    /\ key' = c.key /\ clashed' = (clashed \/ key # c.seen)
    /\ Show(t, tab[t], (jobs[t] \ {c}) \union {[c EXCEPT !.at = "wrap"]})
    /\ UNCHANGED <<keys, burned, blob, erasing, owed, older>>

\* saveCredential seals the pass; it is best effort, and a failing storage ends it at any earlier step.
Wrap(t, c) ==
    /\ Quiet /\ c \in jobs[t] /\ c.kind = "save" /\ c.at = "wrap"
    /\ blob' = [blob EXCEPT ![t] = [pass |-> c.pass, key |-> c.key]]
    /\ Show(t, Ended(tab[t], c), jobs[t] \ {c})
    /\ UNCHANGED <<key, keys, burned, erasing, owed, older, clashed>>

\* loadCredential opens the blob it read, and the mount connects with it.
Unwrap(t, c) ==
    /\ Quiet /\ c \in jobs[t] /\ c.kind = "load" /\ c.at = "wrap"
    /\ IF c.key = c.sealed
       THEN Show(t, Connecting([tab[t] EXCEPT !.input = c.pass]),
                 (jobs[t] \ {c}) \union {Starts("connect", "go", c.pass, TRUE)})
       ELSE Show(t, [tab[t] EXCEPT !.restoring = FALSE], jobs[t] \ {c})
    /\ UNCHANGED <<burned, owed, older, stored>>

StorageFails(t, c) ==
    /\ Quiet /\ c \in jobs[t] /\ c.at \in {"get", "put"}
    /\ Show(t, IF c.kind = "save" THEN Ended(tab[t], c) ELSE [tab[t] EXCEPT !.restoring = FALSE], jobs[t] \ {c})
    /\ UNCHANGED <<burned, owed, older, stored>>

EntryNext == \/ Erase
        \/ \E t \in Tabs :
              \/ Reload(t) \/ Submit(t) \/ Reveal(t) \/ OnConnect(t) \/ OnCancel(t) \/ OnForget(t)
              \/ \E entry \in HashEntries : HashChange(t, entry)
              \/ \E p \in Typed : Type(t, p)
              \/ \E c \in jobs[t] : \/ \E outcome \in Outcomes : Claimed(t, c, outcome)
                                    \/ Connected(t, c) \/ GetKey(t, c) \/ PutKey(t, c)
                                    \/ Wrap(t, c) \/ Unwrap(t, c) \/ StorageFails(t, c)

EntrySpec == EntryInit /\ [][EntryNext]_entryVars

-----------------------------------------------------------------------------
(* Properties. *)

Holds(t) == {tab[t].viewer, tab[t].input, tab[t].revealed} \union {c.pass : c \in {d \in jobs[t] : d.kind = "connect"}}

\* A claimed link is spent for good, so its pass must not be: until the user forgets it, replaces it or
\* reloads, the tab keeps it on a screen, in the field or in the console, whatever link is opened over it.
\* (page.tsx: "the OTK is now burned, so ... the resolved pass must remain usable on the Connect screen
\* rather than being lost".)  Left out are tabs whose link was opened over a restore or a connect still in
\* flight: that older call may still replace the Pairing.
BurnedNotLost == \A t \in Tabs : t \in older \/ owed[t] \subseteq Holds(t)

\* The inductive invariant of BurnedNotLost, tab by tab.  What was revealed is on the Pairing screen;
\* a Pairing waits for one claim, with nothing revealed; unless the tab is in older, a Pairing starts
\* after the load and the connects are over, and a load before anything is owed; what is owed lies
\* in the field or on the Pairing.
RevealedPairs(t) == tab[t].revealed # Nowhere => OnPairing(tab[t])
Awaited(t) == {c \in jobs[t] : c.kind = "claim" /\ c.held}
OneAwaited(t) == \A c \in Awaited(t) :
    OnPairing(tab[t]) /\ tab[t].claiming /\ tab[t].revealed = Nowhere /\ \A d \in Awaited(t) : d = c
SettledFirst(t) == t \notin older => \A c \in jobs[t] :
    /\ c.kind \in {"load", "connect"} => tab[t].otk = Nowhere
    /\ c.kind = "load" => jobs[t] = {c} /\ tab[t].restoring /\ owed[t] = {}
OwedKept(t) == t \notin older => owed[t] \subseteq {tab[t].input, tab[t].revealed}
TabInv(t) == RevealedPairs(t) /\ OneAwaited(t) /\ SettledFirst(t) /\ OwedKept(t)
EntryInv == EntryTypeOK /\ \A t \in Tabs : TabInv(t)

=============================================================================
