---------------------------- MODULE HandoffStore ----------------------------
(***************************************************************************)
(* The one-time credential handoff.  A host mints a token, stores a sealed *)
(* box under a hash of it for a short time, and shows a link; whoever      *)
(* redeems the link burns the row and gets the box.  Clocks are read by    *)
(* the route before it awaits the store, so each statement runs with a     *)
(* time that may be old.  Code: apps/web/lib/broker/handoff-store.ts,      *)
(* apps/web/app/api/handoff/route.ts, packages/cli/src/handoff-upload.ts.  *)
(*                                                                         *)
(* A token is its id together with the host that minted it: the host's     *)
(* name stands for the proof only the token's holder can present, so two   *)
(* hosts with one id are the collision the store must refuse.              *)
(***************************************************************************)
EXTENDS Integers

CONSTANTS
    Hosts, Claimants, Ids,
    NoProof,     \* what a claimant presents that knows an id and not the token
    NoRow,       \* an id the table does not hold
    Ttl,         \* a row's life, after clamping
    MaxRemint,   \* MAX_REMINT: uploads a host tries before it gives up
    MaxTime      \* bound: where the clock stops

ASSUME HandoffAssumption ==
    /\ Ttl \in Nat \ {0} /\ MaxRemint \in Nat \ {0} /\ MaxTime \in Nat
    /\ NoProof \notin Hosts /\ Ids # {}

Times == 0..MaxTime
Row == [owner : Hosts, expires : 0..(MaxTime + Ttl)]
ASSUME NoRowAssumption == NoRow \notin Row

VARIABLES
    clock,    \* Date.now(), one clock for every instance
    rows,     \* the handoff table: id -> its row
    host,     \* per host: the upload loop
    claim     \* per claimant: one POST and its answer

vars == <<clock, rows, host, claim>>

\* pc of a host: "mint" before an attempt, "sent" while its PUT runs, "linked"
\* once the link is shown, "failed" when uploadHandoff threw.
HostState == [pc : {"mint", "sent", "linked", "failed"}, tries : 0..MaxRemint,
              id : Ids, now : Times]

\* pc of a claimant: "idle", "sent" while its POST runs, then "miss" (404),
\* "lost" (500 or no answer) or "served", when box is the owner of the box it got.
ClaimState == [pc : {"idle", "sent", "miss", "lost", "served"},
               id : Ids, proof : Hosts \union {NoProof}, now : Times]

\* What the id of an idle host or claimant is: it is not read.
AnyId == CHOOSE i \in Ids : TRUE

Init ==
    /\ clock = 0
    /\ rows = [i \in Ids |-> NoRow]
    /\ host = [h \in Hosts |-> [pc |-> "mint", tries |-> 0, id |-> AnyId, now |-> 0]]
    /\ claim = [c \in Claimants |-> [pc |-> "idle", id |-> AnyId, proof |-> NoProof, now |-> 0]]

Tick ==
    /\ clock < MaxTime
    /\ clock' = clock + 1
    /\ UNCHANGED <<rows, host, claim>>

-----------------------------------------------------------------------------
(* The table                                                               *)

Expired(row, now) == row.expires <= now

\* DELETE FROM handoff WHERE expires_at <= now
Reaped(now) == [i \in Ids |-> IF rows[i] # NoRow /\ Expired(rows[i], now) THEN NoRow ELSE rows[i]]

\* INSERT ... ON CONFLICT(id) DO NOTHING, in one transaction after the reaping.
Inserts(h) == Reaped(host[h].now)[host[h].id] = NoRow

\* DELETE ... WHERE id = ? AND proof_hash = ? RETURNING
Burns(c) == rows[claim[c].id] # NoRow /\ rows[claim[c].id].owner = claim[c].proof

\* What the table holds once a claim burned its row.
BurntIfExpired(c) ==
    IF Expired(rows[claim[c].id], claim[c].now) THEN [rows EXCEPT ![claim[c].id] = NoRow] ELSE rows
Burnt(c) == [rows EXCEPT ![claim[c].id] = NoRow]

-----------------------------------------------------------------------------
(* uploadHandoff and PUT                                                   *)

MayMint(h) == host[h].tries < MaxRemint

\* A fresh token for every attempt; the route then reads the clock and parks on the store.
Mint(h) ==
    /\ host[h].pc = "mint" /\ MayMint(h)
    /\ \E i \in Ids :
        host' = [host EXCEPT ![h] =
            [pc |-> "sent", tries |-> host[h].tries + 1, id |-> i, now |-> clock]]
    /\ UNCHANGED <<clock, rows, claim>>

GiveUp(h) ==
    /\ host[h].pc = "mint" /\ host[h].tries = MaxRemint
    /\ host' = [host EXCEPT ![h].pc = "failed"]
    /\ UNCHANGED <<clock, rows, claim>>

\* The batch commits; 200 gives the link, 409 mints again, a lost answer throws.
Put(h) ==
    /\ host[h].pc = "sent"
    /\ rows' = IF Inserts(h)
               THEN [Reaped(host[h].now) EXCEPT ![host[h].id] =
                        [owner |-> h, expires |-> host[h].now + Ttl]]
               ELSE Reaped(host[h].now)
    /\ host' \in {[host EXCEPT ![h].pc = IF Inserts(h) THEN "linked" ELSE "mint"],
                  [host EXCEPT ![h].pc = "failed"]}
    /\ UNCHANGED <<clock, claim>>

\* The backend is unavailable: 500 with nothing stored.
PutFails(h) ==
    /\ host[h].pc = "sent"
    /\ host' = [host EXCEPT ![h].pc = "failed"]
    /\ UNCHANGED <<clock, rows, claim>>

-----------------------------------------------------------------------------
(* claimHandoff and POST                                                   *)

\* A claimant follows a link that was shown, or presents an id it merely observed.
Request(c) ==
    /\ claim[c].pc = "idle"
    /\ \E i \in Ids, proof \in Hosts \union {NoProof} :
        /\ proof # NoProof => host[proof].pc = "linked" /\ host[proof].id = i
        /\ claim' = [claim EXCEPT ![c] = [pc |-> "sent", id |-> i, proof |-> proof, now |-> clock]]
    /\ UNCHANGED <<clock, rows, host>>

\* The statement burns the row it matches; the answer, when it arrives, is the
\* box of a row that had not expired and a uniform 404 otherwise.
Answer(c) ==
    IF Burns(c) /\ ~Expired(rows[claim[c].id], claim[c].now) THEN "served" ELSE "miss"

Claim(c) ==
    /\ claim[c].pc = "sent"
    /\ rows' = IF Burns(c) THEN Burnt(c) ELSE rows
    /\ claim' \in {[claim EXCEPT ![c].pc = Answer(c)], [claim EXCEPT ![c].pc = "lost"]}
    /\ UNCHANGED <<clock, host>>

\* The sweeping cron, with a clock read at any earlier moment.
Sweep(now) ==
    /\ rows' = Reaped(now)
    /\ UNCHANGED <<clock, host, claim>>

Next ==
    \/ Tick
    \/ \E h \in Hosts : Mint(h) \/ GiveUp(h) \/ Put(h) \/ PutFails(h)
    \/ \E c \in Claimants : Request(c) \/ Claim(c)
    \/ \E now \in 0..clock : Sweep(now)

Spec == Init /\ [][Next]_vars

-----------------------------------------------------------------------------
(* Properties                                                              *)

\* Every variable stays in its domain; a host tries at most MaxRemint times.
TypeOK ==
    /\ clock \in Times
    /\ rows \in [Ids -> Row \union {NoRow}]
    /\ host \in [Hosts -> HostState]
    /\ claim \in [Claimants -> ClaimState]

\* A box is served to one claimant at most, however many redeem its link at once.
ServedOnce == \A c, d \in Claimants :
    claim[c].pc = "served" /\ claim[d].pc = "served" /\ c # d => claim[c].proof # claim[d].proof

Redeemed(h) == \E c \in Claimants :
    claim[c].pc \in {"miss", "lost", "served"} /\ claim[c].proof = h

\* A link that was shown stays good for the whole life of its row, until its
\* holder's claim reaches the store: no collision, observer of the id or early
\* reaping takes the row away.
LinkIsGood == \A h \in Hosts :
    host[h].pc = "linked" /\ clock < host[h].now + Ttl =>
        \/ rows[host[h].id] = [owner |-> h, expires |-> host[h].now + Ttl]
        \/ Redeemed(h)

Owns(h, i) == rows[i] # NoRow /\ rows[i].owner = h

\* What ServedOnce and LinkIsGood rest on: clocks are read before they are used; a
\* host has a row only where its last attempt put it; a proof is known only from a
\* link; and a box that was served left no row behind.
PastClocks == (\A h \in Hosts : host[h].now <= clock) /\ (\A c \in Claimants : claim[c].now <= clock)
RowIsLast == \A h \in Hosts, i \in Ids :
    Owns(h, i) => host[h].pc \in {"linked", "failed"} /\ host[h].id = i
ProofFromLink == \A c \in Claimants : claim[c].proof \in Hosts =>
    host[claim[c].proof].pc = "linked" /\ host[claim[c].proof].id = claim[c].id
ServedIsGone == \A c \in Claimants : claim[c].pc = "served" =>
    claim[c].proof \in Hosts /\ \A i \in Ids : ~Owns(claim[c].proof, i)
Inv == PastClocks /\ RowIsLast /\ ProofFromLink /\ ServedIsGone /\ ServedOnce /\ LinkIsGood
=============================================================================
