----------------------------- MODULE StoreProofs -----------------------------
(***************************************************************************)
(* What the small stores keep, for any number of parties, ids and calls.   *)
(* The handoff's table: a box is served once, and a link that was shown    *)
(* works until it is redeemed or expires.  The browser's end of it: a      *)
(* claimed pass, which no link gives again, stays with its tab until the   *)
(* user lets go of it (BurnedNotLost).                                     *)
(* The host's identity file: what is at the secret's path was never        *)
(* overwritten.  The old inode is scrubbed only after the rename has taken *)
(* it from the path and the fsync from every directory a loss of power may *)
(* bring back (OldIsGone), and nothing puts it there again, because a      *)
(* minted secret takes the path at most once (PlacedOnce).                 *)
(* The broker's locator of its databases: what it answers was so while the *)
(* call ran, since an answer in flight is of a moment of its call          *)
(* (Witnessed) and no memo stands in for a request about the catalog       *)
(* (CatalogAsked).                                                         *)
(***************************************************************************)
EXTENDS HandoffStore, BrowserEntry, IdentityStore, TursoLocator, TLAPS

-----------------------------------------------------------------------------
(* The handoff's table                                                     *)

\* The range of the times an expiry is computed from.
LEMMA TimesAreNaturals == Times \subseteq Nat /\ (\A t \in Times : t + Ttl \in 0..(MaxTime + Ttl))
  BY HandoffAssumption DEF Times

\* Reaping keeps the table's type, brings no row back, and spares what has not expired.
LEMMA ReapedRows ==
  ASSUME NEW now, rows \in [Ids -> Row \union {NoRow}]
  PROVE  /\ Reaped(now) \in [Ids -> Row \union {NoRow}]
         /\ \A i \in Ids : Reaped(now)[i] = NoRow \/ Reaped(now)[i] = rows[i]
         /\ \A i \in Ids : rows[i] # NoRow /\ ~Expired(rows[i], now) => Reaped(now)[i] = rows[i]
  BY DEF Reaped

\* Every variable keeps its type in every step.
LEMMA TypeStep == TypeOK /\ [Next]_vars => TypeOK'
<1> SUFFICES ASSUME TypeOK, [Next]_vars PROVE TypeOK'
  OBVIOUS
<1>1. CASE Tick
  BY <1>1, HandoffAssumption DEF TypeOK, Tick, Times
<1>2. ASSUME NEW h \in Hosts, Mint(h) PROVE TypeOK'
  <2>1. PICK i \in Ids : host' = [host EXCEPT ![h] =
            [pc |-> "sent", tries |-> host[h].tries + 1, id |-> i, now |-> clock]]
    BY <1>2 DEF Mint
  <2>2. host[h].tries + 1 \in 0..MaxRemint
    BY <1>2, HandoffAssumption DEF TypeOK, HostState, Mint, MayMint
  <2>3. host' \in [Hosts -> HostState]
    BY <2>1, <2>2 DEF TypeOK, HostState
  <2> QED
    BY <1>2, <2>3 DEF TypeOK, Mint
<1>3. ASSUME NEW h \in Hosts, GiveUp(h) PROVE TypeOK'
  BY <1>3 DEF TypeOK, HostState, GiveUp
<1>4. ASSUME NEW h \in Hosts, Put(h) PROVE TypeOK'
  <2>1. [owner |-> h, expires |-> host[h].now + Ttl] \in Row
    BY TimesAreNaturals DEF TypeOK, HostState, Row
  <2>2. rows' \in [Ids -> Row \union {NoRow}]
    BY <1>4, <2>1, ReapedRows DEF TypeOK, Put
  <2>3. host' \in [Hosts -> HostState]
    BY <1>4 DEF TypeOK, HostState, Put
  <2> QED
    BY <1>4, <2>2, <2>3 DEF TypeOK, Put
<1>5. ASSUME NEW h \in Hosts, PutFails(h) PROVE TypeOK'
  BY <1>5 DEF TypeOK, HostState, PutFails
<1>6. ASSUME NEW c \in Claimants, Request(c) PROVE TypeOK'
  BY <1>6 DEF TypeOK, ClaimState, Request
<1>7. ASSUME NEW c \in Claimants, Claim(c) PROVE TypeOK'
  <2>1. rows' \in [Ids -> Row \union {NoRow}]
    BY <1>7 DEF TypeOK, Claim, Burnt
  <2>2. claim' \in [Claimants -> ClaimState]
    BY <1>7 DEF TypeOK, ClaimState, Claim, Answer
  <2> QED
    BY <1>7, <2>1, <2>2 DEF TypeOK, Claim
<1>8. ASSUME NEW now \in 0..clock, Sweep(now) PROVE TypeOK'
  BY <1>8, ReapedRows DEF TypeOK, Sweep
<1>9. CASE UNCHANGED vars
  BY <1>9 DEF TypeOK, vars
<1> QED
  BY <1>1, <1>2, <1>3, <1>4, <1>5, <1>6, <1>7, <1>8, <1>9 DEF Next

\* The initial state is well typed.
LEMMA InitTyped == Init => TypeOK
<1>1. AnyId \in Ids
  BY HandoffAssumption DEF AnyId
<1> QED
  BY <1>1, HandoffAssumption DEF Init, TypeOK, HostState, ClaimState, Times

\* Every variable stays in its domain, for every number of hosts and claimants.
THEOREM TypeCorrect == Spec => []TypeOK
<1> QED
  BY InitTyped, TypeStep, PTL DEF Spec

-----------------------------------------------------------------------------
(* The inductive invariant, one lemma per action                           *)

\* Reaping with a clock read in the past takes no row that a live link names,
\* and cannot give a host a row it did not have.
LEMMA ReapedOwners ==
  ASSUME TypeOK, Inv, NEW now \in 0..clock
  PROVE  /\ \A h \in Hosts, i \in Ids : Reaped(now)[i] # NoRow /\ Reaped(now)[i].owner = h => Owns(h, i)
         /\ \A h \in Hosts : host[h].pc = "linked" /\ clock < host[h].now + Ttl =>
                Reaped(now)[host[h].id] = [owner |-> h, expires |-> host[h].now + Ttl] \/ Redeemed(h)
<1>1. \A i \in Ids : Reaped(now)[i] = NoRow \/ Reaped(now)[i] = rows[i]
  BY ReapedRows DEF TypeOK
<1>2. \A h \in Hosts, i \in Ids : Reaped(now)[i] # NoRow /\ Reaped(now)[i].owner = h => Owns(h, i)
  BY <1>1 DEF Owns
<1>3. ASSUME NEW h \in Hosts, host[h].pc = "linked", clock < host[h].now + Ttl, ~Redeemed(h)
      PROVE  Reaped(now)[host[h].id] = [owner |-> h, expires |-> host[h].now + Ttl]
  <2>1. rows[host[h].id] = [owner |-> h, expires |-> host[h].now + Ttl]
    BY <1>3 DEF Inv, LinkIsGood
  <2>2. rows[host[h].id] # NoRow /\ host[h].id \in Ids
    <3>1. host[h].id \in Ids /\ host[h].now + Ttl \in 0..(MaxTime + Ttl)
      BY TimesAreNaturals DEF TypeOK, HostState
    <3>2. rows[host[h].id] \in Row
      BY <2>1, <3>1 DEF Row
    <3> QED
      BY <3>1, <3>2, NoRowAssumption
  <2>3. ~Expired(rows[host[h].id], now)
    BY <2>1, <1>3, HandoffAssumption DEF Expired, TypeOK, HostState, Times
  <2> QED
    BY <2>1, <2>2, <2>3, ReapedRows DEF TypeOK
<1> QED
  BY <1>2, <1>3

LEMMA InvTick == TypeOK /\ Inv /\ Tick => Inv'
<1> SUFFICES ASSUME TypeOK, Inv, Tick PROVE Inv'
  OBVIOUS
<1>1. PastClocks'
  BY HandoffAssumption DEF TypeOK, HostState, ClaimState, Times, Inv, PastClocks, Tick
<1>2. RowIsLast' /\ ProofFromLink' /\ ServedIsGone' /\ ServedOnce'
  BY DEF Inv, RowIsLast, ProofFromLink, ServedIsGone, ServedOnce, Owns, Tick
<1>3. LinkIsGood'
  BY HandoffAssumption DEF Inv, LinkIsGood, Redeemed, Tick, TypeOK, HostState, Times
<1> QED
  BY <1>1, <1>2, <1>3 DEF Inv

LEMMA InvSweep == TypeOK /\ Inv /\ (\E now \in 0..clock : Sweep(now)) => Inv'
<1> SUFFICES ASSUME TypeOK, Inv, NEW now \in 0..clock, Sweep(now) PROVE Inv'
  OBVIOUS
<1>1. UNCHANGED <<clock, host, claim>> /\ rows' = Reaped(now)
  BY DEF Sweep
<1>2. \A h \in Hosts, i \in Ids : Owns(h, i)' => Owns(h, i)
  BY <1>1, ReapedOwners DEF Owns
<1>3. PastClocks' /\ RowIsLast' /\ ProofFromLink' /\ ServedIsGone' /\ ServedOnce'
  BY <1>1, <1>2 DEF Inv, PastClocks, RowIsLast, ProofFromLink, ServedIsGone, ServedOnce
<1>4. LinkIsGood'
  BY <1>1, ReapedOwners DEF LinkIsGood, Redeemed
<1> QED
  BY <1>3, <1>4 DEF Inv

\* A host that is not linked, and does not become so, disturbs nothing while the table stands still.
LEMMA InvHost ==
  ASSUME TypeOK, Inv, NEW h \in Hosts, Mint(h) \/ GiveUp(h) \/ PutFails(h)
  PROVE  Inv'
<1>1. UNCHANGED <<clock, rows, claim>> /\ host[h].pc \in {"mint", "sent"}
  BY DEF Mint, GiveUp, PutFails
<1>2. /\ \A g \in Hosts \ {h} : host'[g] = host[g]
      /\ host'[h].pc # "linked" /\ host'[h].now <= clock
  <2>1. CASE Mint(h)
    BY <2>1, HandoffAssumption DEF Mint, TypeOK, HostState, Times
  <2>2. CASE GiveUp(h) \/ PutFails(h)
    BY <2>2 DEF GiveUp, PutFails, TypeOK, HostState, Inv, PastClocks
  <2> QED
    BY <2>1, <2>2
<1>3. \A i \in Ids : ~Owns(h, i)
  BY <1>1 DEF Inv, RowIsLast
<1>4. \A c \in Claimants : claim[c].proof # h
  BY <1>1 DEF Inv, ProofFromLink
<1>5. PastClocks'
  BY <1>1, <1>2 DEF Inv, PastClocks
<1>6. RowIsLast' /\ ProofFromLink' /\ ServedIsGone' /\ ServedOnce'
  BY <1>1, <1>2, <1>3, <1>4 DEF Inv, RowIsLast, ProofFromLink, ServedIsGone, ServedOnce, Owns
<1>7. LinkIsGood'
  BY <1>1, <1>2 DEF Inv, LinkIsGood, Redeemed
<1> QED
  BY <1>5, <1>6, <1>7 DEF Inv

LEMMA InvRequest ==
  ASSUME TypeOK, Inv, NEW c \in Claimants, Request(c)
  PROVE  Inv'
<1>1. UNCHANGED <<clock, rows, host>> /\ claim[c].pc = "idle"
  BY DEF Request
<1>2. PICK i \in Ids, proof \in Hosts \union {NoProof} :
        /\ proof # NoProof => host[proof].pc = "linked" /\ host[proof].id = i
        /\ claim' = [claim EXCEPT ![c] = [pc |-> "sent", id |-> i, proof |-> proof, now |-> clock]]
  BY DEF Request
<1>3. /\ claim'[c] = [pc |-> "sent", id |-> i, proof |-> proof, now |-> clock]
      /\ \A d \in Claimants \ {c} : claim'[d] = claim[d]
  BY <1>2 DEF TypeOK
<1>4. PastClocks'
  BY <1>1, <1>3, HandoffAssumption DEF Inv, PastClocks, TypeOK, Times
<1>5. RowIsLast' /\ ServedIsGone' /\ ServedOnce'
  BY <1>1, <1>3 DEF Inv, RowIsLast, ServedIsGone, ServedOnce, Owns
<1>6. ProofFromLink'
  BY <1>1, <1>2, <1>3, HandoffAssumption DEF Inv, ProofFromLink
<1>7. \A h \in Hosts : Redeemed(h) => Redeemed(h)'
  BY <1>1, <1>3 DEF Redeemed
<1>8. LinkIsGood'
  BY <1>1, <1>7 DEF Inv, LinkIsGood
<1> QED
  BY <1>4, <1>5, <1>6, <1>8 DEF Inv

\* A host stores its row only in a free place, so every other link keeps its own.
LEMMA InvPut ==
  ASSUME TypeOK, Inv, NEW h \in Hosts, Put(h)
  PROVE  Inv'
<1> DEFINE mine == [owner |-> h, expires |-> host[h].now + Ttl]
           reaped == Reaped(host[h].now)
<1>1. UNCHANGED <<clock, claim>> /\ host[h].pc = "sent" /\ host[h].id \in Ids
  BY DEF Put, TypeOK, HostState
<1>2. host[h].now \in 0..clock
  BY HandoffAssumption DEF Inv, PastClocks, TypeOK, HostState, Times
<1>3. /\ \A g \in Hosts \ {h} : host'[g] = host[g]
      /\ host'[h].id = host[h].id /\ host'[h].now = host[h].now
      /\ host'[h].pc = "linked" => Inserts(h)
      /\ Inserts(h) => host'[h].pc \in {"linked", "failed"}
  BY DEF Put, TypeOK, HostState
<1>4. /\ Inserts(h) => rows' = [reaped EXCEPT ![host[h].id] = mine] /\ reaped[host[h].id] = NoRow
      /\ ~Inserts(h) => rows' = reaped
  BY DEF Put, Inserts
<1>5. reaped \in [Ids -> Row \union {NoRow}]
  BY ReapedRows DEF TypeOK
<1>6. \A i \in Ids : ~Owns(h, i)
  BY <1>1 DEF Inv, RowIsLast
<1>7. \A c \in Claimants : claim[c].proof # h
  BY <1>1 DEF Inv, ProofFromLink
<1>8. \A g \in Hosts \ {h}, i \in Ids : Owns(g, i)' => Owns(g, i)
  BY <1>1, <1>2, <1>4, <1>5, ReapedOwners DEF Owns
<1>9. \A i \in Ids : Owns(h, i)' => Inserts(h) /\ i = host[h].id
  BY <1>1, <1>2, <1>4, <1>5, <1>6, ReapedOwners DEF Owns
<1>10. PastClocks'
  BY <1>1, <1>3 DEF Inv, PastClocks
<1>11. RowIsLast'
  BY <1>3, <1>8, <1>9 DEF Inv, RowIsLast
<1>12. ProofFromLink' /\ ServedIsGone' /\ ServedOnce'
  BY <1>1, <1>3, <1>7, <1>8 DEF Inv, ProofFromLink, ServedIsGone, ServedOnce
<1>13. LinkIsGood'
  <2> SUFFICES ASSUME NEW g \in Hosts, host'[g].pc = "linked", clock < host'[g].now + Ttl,
                      ~Redeemed(g)
               PROVE  rows'[host'[g].id] = [owner |-> g, expires |-> host'[g].now + Ttl]
    BY <1>1 DEF LinkIsGood, Redeemed
  <2>1. CASE g = h
    BY <2>1, <1>1, <1>3, <1>4, <1>5
  <2>2. CASE g # h
    <3>1. host'[g] = host[g] /\ host[g].id \in Ids
      BY <2>2, <1>3 DEF TypeOK, HostState
    <3>2. reaped[host[g].id] = [owner |-> g, expires |-> host[g].now + Ttl]
      BY <3>1, <1>2, ReapedOwners
    <3>3. reaped[host[g].id] # NoRow
      <4>1. host[g].now + Ttl \in 0..(MaxTime + Ttl)
        <5>1. host[g].now \in Times
          BY DEF TypeOK, HostState
        <5> QED
          BY <5>1, TimesAreNaturals
      <4>2. [owner |-> g, expires |-> host[g].now + Ttl] \in Row
        BY <4>1 DEF Row
      <4> QED
        BY <3>2, <4>2, NoRowAssumption
    <3>4. rows'[host[g].id] = reaped[host[g].id]
      <4>1. CASE Inserts(h)
        <5>1. host[g].id # host[h].id
          BY <1>4, <3>3, <4>1
        <5> HIDE DEF mine, reaped
        <5> QED
          BY <1>4, <1>5, <3>1, <4>1, <5>1
      <4>2. CASE ~Inserts(h)
        BY <1>4, <4>2
      <4> QED
        BY <4>1, <4>2
    <3> QED
      BY <3>1, <3>2, <3>4
  <2> QED
    BY <2>1, <2>2
<1> QED
  BY <1>10, <1>11, <1>12, <1>13 DEF Inv

\* A claim burns one row, the row of the host whose proof it carries.
LEMMA InvClaim ==
  ASSUME TypeOK, Inv, NEW c \in Claimants, Claim(c)
  PROVE  Inv'
<1>1. UNCHANGED <<clock, host>> /\ claim[c].pc = "sent" /\ claim[c].id \in Ids
  BY DEF Claim, TypeOK, ClaimState
<1>2. /\ \A d \in Claimants \ {c} : claim'[d] = claim[d]
      /\ claim'[c].id = claim[c].id /\ claim'[c].proof = claim[c].proof
      /\ claim'[c].now = claim[c].now /\ claim'[c].pc \in {"served", "miss", "lost"}
      /\ claim'[c].pc = "served" => Burns(c)
  BY DEF Claim, Answer, TypeOK, ClaimState
<1>3. /\ Burns(c) => rows' = [rows EXCEPT ![claim[c].id] = NoRow]
      /\ ~Burns(c) => rows' = rows
  BY DEF Claim, Burnt
<1>4. \A i \in Ids : rows'[i] = NoRow \/ rows'[i] = rows[i]
  BY <1>1, <1>3 DEF TypeOK
<1>5. \A h \in Hosts, i \in Ids : Owns(h, i)' => Owns(h, i)
  BY <1>4 DEF Owns
<1>6. Burns(c) => Owns(claim[c].proof, claim[c].id) /\ claim[c].proof \in Hosts
  BY <1>1 DEF Burns, Owns, TypeOK, Row
<1>7. Burns(c) => \A i \in Ids : ~(rows'[i] # NoRow /\ rows'[i].owner = claim[c].proof)
  <2>1. Burns(c) => \A i \in Ids : Owns(claim[c].proof, i) => i = claim[c].id
    BY <1>1, <1>6 DEF Inv, RowIsLast
  <2>2. Burns(c) => rows'[claim[c].id] = NoRow
    BY <1>1, <1>3 DEF TypeOK
  <2>4. ASSUME Burns(c), NEW i \in Ids, i # claim[c].id PROVE ~(rows'[i] # NoRow /\ rows'[i].owner = claim[c].proof)
    BY <1>5, <1>6, <2>1, <2>4 DEF Owns
  <2>5. ASSUME Burns(c), NEW i \in Ids PROVE ~(rows'[i] # NoRow /\ rows'[i].owner = claim[c].proof)
    BY <2>2, <2>4, <2>5
  <2> QED
    BY <2>5
<1>8. PastClocks' /\ RowIsLast' /\ ProofFromLink'
  BY <1>1, <1>2, <1>5 DEF Inv, PastClocks, RowIsLast, ProofFromLink
<1>9. ServedIsGone'
  <2>1. \A d \in Claimants \ {c} : claim'[d].pc = "served" =>
          claim'[d].proof \in Hosts /\ \A i \in Ids : ~(rows'[i] # NoRow /\ rows'[i].owner = claim'[d].proof)
    BY <1>2, <1>5 DEF Inv, ServedIsGone, Owns
  <2>2. claim'[c].pc = "served" =>
          claim'[c].proof \in Hosts /\ \A i \in Ids : ~(rows'[i] # NoRow /\ rows'[i].owner = claim'[c].proof)
    BY <1>2, <1>6, <1>7
  <2> QED
    BY <2>1, <2>2 DEF ServedIsGone, Owns
<1>10. ServedOnce'
  <2>1. \A d \in Claimants : claim[d].pc = "served" /\ Burns(c) => claim[d].proof # claim[c].proof
    BY <1>1, <1>6 DEF Inv, ServedIsGone
  <2> QED
    BY <1>2, <2>1 DEF Inv, ServedOnce
<1>11. \A h \in Hosts : Redeemed(h) => Redeemed(h)'
  BY <1>1, <1>2 DEF Redeemed
<1>12. LinkIsGood'
  <2> SUFFICES ASSUME NEW h \in Hosts, host[h].pc = "linked", clock < host[h].now + Ttl,
                      ~Redeemed(h)'
               PROVE  rows'[host[h].id] = [owner |-> h, expires |-> host[h].now + Ttl]
    BY <1>1 DEF LinkIsGood, Redeemed
  <2>1. rows[host[h].id] = [owner |-> h, expires |-> host[h].now + Ttl] /\ host[h].id \in Ids
    BY <1>11 DEF Inv, LinkIsGood, TypeOK, HostState
  <2>2. claim[c].proof # h
    BY <1>2 DEF Redeemed
  <2>3. Burns(c) => host[h].id # claim[c].id
    BY <2>1, <2>2 DEF Burns
  <2> QED
    BY <1>3, <2>1, <2>3 DEF TypeOK
<1> QED
  BY <1>8, <1>9, <1>10, <1>12 DEF Inv

LEMMA InitInv == Init => Inv
<1> SUFFICES ASSUME Init PROVE Inv
  OBVIOUS
<1>1. PastClocks /\ RowIsLast
  BY DEF Init, PastClocks, RowIsLast, Owns
<1>2. ProofFromLink /\ ServedIsGone /\ ServedOnce /\ LinkIsGood
  BY HandoffAssumption DEF Init, ProofFromLink, ServedIsGone, ServedOnce, LinkIsGood
<1> QED
  BY <1>1, <1>2 DEF Inv

LEMMA InvStep == TypeOK /\ Inv /\ [Next]_vars => Inv'
<1> SUFFICES ASSUME TypeOK, Inv, [Next]_vars PROVE Inv'
  OBVIOUS
<1>1. CASE UNCHANGED vars
  BY <1>1 DEF vars, Inv, PastClocks, RowIsLast, ProofFromLink, ServedIsGone, ServedOnce, LinkIsGood,
              Owns, Redeemed
<1>2. ASSUME NEW h \in Hosts, Mint(h) \/ GiveUp(h) \/ Put(h) \/ PutFails(h) PROVE Inv'
  BY <1>2, InvHost, InvPut
<1>3. ASSUME NEW c \in Claimants, Request(c) \/ Claim(c) PROVE Inv'
  BY <1>3, InvRequest, InvClaim
<1> QED
  BY <1>1, <1>2, <1>3, InvTick, InvSweep DEF Next

\* A host has a row only where its last attempt put it, and a served box left none.
LEMMA InvHolds == Spec => []Inv
<1> QED
  BY InitTyped, TypeStep, InitInv, InvStep, PTL DEF Spec

\* However many claims race, whichever answers are lost, a box is served to one claimant.
THEOREM BoxServedOnce == Spec => []ServedOnce
<1>1. Inv => ServedOnce
  BY DEF Inv
<1> QED
  BY <1>1, InvHolds, PTL

\* A link that was shown works until its holder redeems it or its time is over.
THEOREM ShownLinkIsGood == Spec => []LinkIsGood
<1>1. Inv => LinkIsGood
  BY DEF Inv
<1> QED
  BY <1>1, InvHolds, PTL

-------------------------------------------------------------------------------
(* The browser's end: what a screen keeps                                  *)

USE DEF stored, entryVars

\* A page's fields, and those of a call.
LEMMA PageIs ==
  ASSUME NEW p \in Page
  PROVE  /\ p.viewer \in Passes \union {Nowhere} /\ p.input \in Passes \union {Nowhere}
         /\ p.otk \in Links \union {Nowhere} /\ p.revealed \in Links \union {Nowhere}
         /\ p.claiming \in BOOLEAN /\ p.connecting \in BOOLEAN /\ p.restoring \in BOOLEAN
BY DEF Page

\* A claim that is told its screen is gone is the same claim otherwise.
LEMMA HeldIs ==
  ASSUME NEW c, CallOK(c), NEW b \in BOOLEAN
  PROVE  LET d == [c EXCEPT !.held = c.held /\ b]
         IN  CallOK(d) /\ d.kind = c.kind /\ (d.held => d = c /\ b)
<1> DEFINE d == [c EXCEPT !.held = c.held /\ b]
<1>1. c \in Call /\ c.held \in BOOLEAN
  BY DEF CallOK, Call
<1>2. d \in Call /\ d.kind = c.kind /\ d.at = c.at /\ d.pass = c.pass /\ d.held = (c.held /\ b)
  BY <1>1 DEF Call
<1>3. CallOK(d)
  BY <1>2 DEF CallOK
<1>4. c.held /\ b => d = c
  BY <1>1 DEF Call
<1> QED
  BY <1>2, <1>3, <1>4

\* What a page shows next: a screen that is not a Pairing has nothing revealed and waits for no claim.
LEMMA ShowIs ==
  ASSUME EntryTypeOK, NEW t \in Tabs, NEW p \in Page, NEW tasks, \A c \in tasks : CallOK(c),
         Show(t, p, tasks)
  PROVE  /\ tab' \in [Tabs -> Page] /\ jobs' \in [Tabs -> SUBSET Call]
         /\ \A u \in Tabs : \A c \in jobs'[u] : CallOK(c)
         /\ \A u \in Tabs \ {t} : tab'[u] = tab[u] /\ jobs'[u] = jobs[u]
         /\ OnPairing(p) => tab'[t] = p
         /\ ~OnPairing(p) => /\ ~OnPairing(tab'[t]) /\ tab'[t].revealed = Nowhere
                             /\ tab'[t].otk = p.otk /\ tab'[t].input = p.input
                             /\ tab'[t].restoring = p.restoring
         /\ \A c \in jobs'[t] : \E d \in tasks :
               /\ c.kind = d.kind /\ (c.kind # "claim" => c = d)
               /\ c.kind = "claim" /\ c.held => c = d /\ OnPairing(p)
<1> DEFINE q == [p EXCEPT !.revealed = Nowhere, !.claiming = FALSE]
           told(c) == IF c.kind = "claim" THEN [c EXCEPT !.held = c.held /\ OnPairing(p)] ELSE c
<1>1. tab' = [tab EXCEPT ![t] = IF OnPairing(p) THEN p ELSE q]
      /\ jobs' = [jobs EXCEPT ![t] = {told(c) : c \in tasks}]
  BY DEF Show
<1>2. /\ q \in Page /\ q.revealed = Nowhere /\ q.otk = p.otk /\ q.input = p.input
      /\ q.restoring = p.restoring /\ q.viewer = p.viewer
  BY DEF Page
<1>3. ~OnPairing(p) => ~OnPairing(q)
  BY <1>2 DEF OnPairing
<1>4. OnPairing(p) \in BOOLEAN
  BY DEF OnPairing
<1>5. ASSUME NEW c \in tasks
      PROVE  /\ CallOK(told(c)) /\ told(c).kind = c.kind /\ (c.kind # "claim" => told(c) = c)
             /\ c.kind = "claim" /\ told(c).held => told(c) = c /\ OnPairing(p)
  BY <1>4, <1>5, HeldIs
<1> HIDE DEF q, told
<1>6. tab' \in [Tabs -> Page] /\ tab'[t] = (IF OnPairing(p) THEN p ELSE q)
      /\ \A u \in Tabs \ {t} : tab'[u] = tab[u]
  BY <1>1, <1>2 DEF EntryTypeOK
<1>7. jobs'[t] = {told(c) : c \in tasks} /\ \A u \in Tabs \ {t} : jobs'[u] = jobs[u]
  BY <1>1 DEF EntryTypeOK
<1>8. \A u \in Tabs : \A c \in jobs'[u] : CallOK(c)
  BY <1>5, <1>7 DEF EntryTypeOK
<1>9. jobs' \in [Tabs -> SUBSET Call]
  BY <1>1, <1>8 DEF EntryTypeOK, CallOK
<1>10. \A c \in jobs'[t] : \E d \in tasks :
          /\ c.kind = d.kind /\ (c.kind # "claim" => c = d)
          /\ c.kind = "claim" /\ c.held => c = d /\ OnPairing(p)
  <2> TAKE c \in jobs'[t]
  <2>1. PICK d \in tasks : c = told(d)
    BY <1>7
  <2> QED
    BY <1>5, <2>1
<1> QED
  BY <1>2, <1>3, <1>6, <1>7, <1>8, <1>9, <1>10

\* A tab whose step is none of these keeps its part of the invariant.
LEMMA OthersKeep ==
  ASSUME NEW u, TabInv(u), tab'[u] = tab[u], jobs'[u] = jobs[u], owed'[u] = owed[u],
         u \in older => u \in older'
  PROVE  TabInv(u)'
BY DEF TabInv, RevealedPairs, OneAwaited, Awaited, SettledFirst, OwedKept, OnPairing

\* A Pairing p has one claim at most to wait for, and has nothing revealed meanwhile.
AwaitsOne(p, tasks) == \A c \in tasks : c.kind = "claim" /\ c.held =>
    p.claiming /\ p.revealed = Nowhere /\ \A d \in tasks : d.kind = "claim" /\ d.held => d = c

\* What a step must see to for the tab that shows something else.
LEMMA TabKeeps ==
  ASSUME EntryTypeOK, NEW t \in Tabs, NEW p \in Page, NEW tasks, \A c \in tasks : CallOK(c),
         Show(t, p, tasks), AwaitsOne(p, tasks),
         t \notin older' => \A c \in tasks :
             /\ c.kind \in {"load", "connect"} => p.otk = Nowhere
             /\ c.kind = "load" => tasks = {c} /\ p.restoring /\ owed'[t] = {},
         t \notin older' => \A o \in owed'[t] : o = p.input \/ (OnPairing(p) /\ o = p.revealed)
  PROVE  TabInv(t)'
<1>1. /\ OnPairing(p) => tab'[t] = p
      /\ ~OnPairing(p) => /\ ~OnPairing(tab'[t]) /\ tab'[t].revealed = Nowhere
                          /\ tab'[t].otk = p.otk /\ tab'[t].input = p.input
                          /\ tab'[t].restoring = p.restoring
  BY ShowIs
<1>2. \A c \in jobs'[t] : \E d \in tasks :
         /\ c.kind = d.kind /\ (c.kind # "claim" => c = d)
         /\ c.kind = "claim" /\ c.held => c = d /\ OnPairing(p)
  BY ShowIs
<1>3. RevealedPairs(t)'
  BY <1>1 DEF RevealedPairs, OnPairing
<1>4. OneAwaited(t)'
  <2>1. \A c \in Awaited(t)' : c \in tasks /\ c.kind = "claim" /\ c.held /\ OnPairing(p)
    BY <1>2 DEF Awaited
  <2>2. \A c \in Awaited(t)' : p.claiming /\ p.revealed = Nowhere /\ \A d \in Awaited(t)' : d = c
    BY <2>1 DEF AwaitsOne
  <2>3. \A c \in Awaited(t)' : tab'[t] = p
    BY <1>1, <2>1
  <2> QED
    BY <2>1, <2>2, <2>3 DEF OneAwaited, OnPairing
<1>5. SettledFirst(t)'
  <2> SUFFICES ASSUME t \notin older', NEW c \in jobs'[t]
               PROVE  /\ c.kind \in {"load", "connect"} => tab'[t].otk = Nowhere
                      /\ c.kind = "load" => jobs'[t] = {c} /\ tab'[t].restoring /\ owed'[t] = {}
    BY DEF SettledFirst
  <2>1. tab'[t].otk = p.otk /\ tab'[t].restoring = p.restoring
    BY <1>1
  <2>2. c.kind \in {"load", "connect"} => c \in tasks
    BY <1>2
  <2>3. ASSUME c.kind = "load" PROVE jobs'[t] = {c}
    <3>1. tasks = {c}
      BY <2>2, <2>3
    <3> QED
      BY <1>2, <2>3, <3>1
  <2> QED
    BY <2>1, <2>2, <2>3
<1>6. OwedKept(t)'
  BY <1>1 DEF OwedKept
<1> QED
  BY <1>3, <1>4, <1>5, <1>6 DEF TabInv

\* A step that neither starts nor answers a claim waits for the one there was.
LEMMA AwaitedStay ==
  ASSUME NEW t, NEW p, NEW tasks, TabInv(t), p.claiming = tab[t].claiming, p.revealed = tab[t].revealed,
         \A c \in tasks : c.kind = "claim" /\ c.held => c \in jobs[t]
  PROVE  AwaitsOne(p, tasks)
BY DEF AwaitsOne, TabInv, OneAwaited, Awaited

\* What is owed lies in the field or on the Pairing.
LEMMA OwedLies ==
  ASSUME EntryTypeOK, NEW t \in Tabs, TabInv(t), t \notin older, NEW o \in owed[t]
  PROVE  o = tab[t].input \/ (OnPairing(tab[t]) /\ o = tab[t].revealed)
<1>1. o # Nowhere
  BY PassesAssumption DEF EntryTypeOK, Passes
<1> QED
  BY <1>1 DEF TabInv, OwedKept, RevealedPairs

\* The part of the state no screen shows.
StoresOK == /\ key \in Nat /\ keys \in Nat /\ burned \subseteq Links
            /\ blob \in [Tabs -> [pass : Passes, key : Nat] \union {Nowhere}]
            /\ erasing \in Nat /\ older \subseteq Tabs /\ clashed \in BOOLEAN

\* A step of one tab.
LEMMA StepKeeps ==
  ASSUME EntryInv, NEW t \in Tabs, NEW p \in Page, NEW tasks, \A c \in tasks : CallOK(c),
         Show(t, p, tasks), StoresOK',
         NEW links \in SUBSET Links, Owe(t, links), \A u \in Tabs \ {t} : u \in older => u \in older',
         AwaitsOne(p, tasks),
         t \notin older' => \A c \in tasks :
             /\ c.kind \in {"load", "connect"} => p.otk = Nowhere
             /\ c.kind = "load" => tasks = {c} /\ p.restoring /\ links = {},
         t \notin older' => \A o \in links : o = p.input \/ (OnPairing(p) /\ o = p.revealed)
  PROVE  EntryInv'
<1>1. EntryTypeOK /\ \A u \in Tabs : TabInv(u)
  BY DEF EntryInv
<1>2. owed' \in [Tabs -> SUBSET Links] /\ owed'[t] = links /\ \A u \in Tabs \ {t} : owed'[u] = owed[u]
  BY <1>1 DEF Owe, EntryTypeOK
<1>3. TabInv(t)'
  BY <1>1, <1>2, TabKeeps
<1>4. \A u \in Tabs \ {t} : tab'[u] = tab[u] /\ jobs'[u] = jobs[u]
  BY <1>1, ShowIs
<1>5. \A u \in Tabs \ {t} : TabInv(u)'
  BY <1>1, <1>2, <1>4, OthersKeep
<1>6. tab' \in [Tabs -> Page] /\ jobs' \in [Tabs -> SUBSET Call] /\ \A u \in Tabs : \A c \in jobs'[u] : CallOK(c)
  BY <1>1, ShowIs
<1>7. EntryTypeOK'
  BY <1>2, <1>6 DEF EntryTypeOK, StoresOK, CallOK
<1> QED
  BY <1>3, <1>5, <1>7 DEF EntryInv

-------------------------------------------------------------------------------
(* The user's acts                                                         *)

\* What holds of a tab before its step.
LEMMA Before ==
  ASSUME EntryInv, NEW t \in Tabs
  PROVE  /\ EntryTypeOK /\ StoresOK /\ TabInv(t) /\ tab[t] \in Page /\ \A c \in jobs[t] : CallOK(c)
         /\ owed[t] \in SUBSET Links /\ (owed' = owed => Owe(t, owed[t]))
         /\ t \notin older => \A c \in jobs[t] :
               /\ c.kind \in {"load", "connect"} => tab[t].otk = Nowhere
               /\ c.kind = "load" => jobs[t] = {c} /\ tab[t].restoring /\ owed[t] = {}
BY DEF EntryInv, EntryTypeOK, StoresOK, TabInv, SettledFirst, Owe

LEMMA ReloadStep == ASSUME EntryInv, NEW t \in Tabs, Reload(t) PROVE EntryInv'
<1>0. EntryTypeOK /\ StoresOK
  BY Before
<1>1. Blank \in Page
  BY DEF Blank, Page
<1>2. Owe(t, {}) /\ older' = older \ {t} /\ StoresOK'
  BY <1>0 DEF Reload, StoresOK
<1>3. CASE blob[t] = Nowhere
  <2>1. Show(t, Blank, {})
    BY <1>3 DEF Reload
  <2> QED
    BY <1>1, <1>2, <2>1, StepKeeps DEF AwaitsOne
<1>4. CASE blob[t] # Nowhere
  <2> DEFINE p == [Blank EXCEPT !.restoring = TRUE]
             c == Restore(blob[t])
  <2>1. Show(t, p, {c})
    BY <1>4 DEF Reload
  <2>2. p \in Page /\ p.otk = Nowhere /\ p.restoring
    BY DEF Blank, Page
  <2>3. blob[t].pass \in Passes /\ blob[t].key \in Nat
    BY <1>0, <1>4 DEF EntryTypeOK
  <2>4. CallOK(c) /\ c.kind = "load"
    BY <2>3 DEF Restore, Starts, CallOK, Call
  <2> HIDE DEF p, c
  <2>5. AwaitsOne(p, {c})
    BY <2>4 DEF AwaitsOne
  <2> QED
    BY <1>2, <2>1, <2>2, <2>4, <2>5, StepKeeps
<1> QED
  BY <1>3, <1>4

LEMMA HashChangeStep == ASSUME EntryInv, NEW t \in Tabs, NEW entry \in HashEntries, HashChange(t, entry) PROVE EntryInv'
<1> DEFINE p == AfterHash(tab[t], entry)
           links == IF entry.kind = "pass" THEN {} ELSE owed[t] \ {tab[t].revealed}
<1>0. /\ EntryTypeOK /\ StoresOK /\ TabInv(t) /\ tab[t] \in Page /\ \A c \in jobs[t] : CallOK(c)
      /\ owed[t] \in SUBSET Links
  BY Before
<1>1. Show(t, p, jobs[t]) /\ Owe(t, links) /\ UNCHANGED <<key, keys, blob, erasing, clashed, burned>>
      /\ older' = IF \E c \in jobs[t] : c.kind \in {"load", "connect"} THEN older \union {t} ELSE older
  BY DEF HashChange
<1>2. /\ p \in Page /\ p.claiming = tab[t].claiming /\ p.revealed = tab[t].revealed
      /\ entry.kind # "pass" => p.input = tab[t].input
  <2>1. CASE entry.kind = "handoff"
    BY <1>0, <2>1 DEF AfterHash, HashEntries, Page
  <2>2. CASE entry.kind = "pass"
    BY <1>0, <2>2 DEF AfterHash, HashEntries, Page, Passes
  <2>3. CASE entry.kind = "handoff-disabled"
    BY <1>0, <2>3 DEF AfterHash, HashEntries, Page
  <2> QED
    BY <2>1, <2>2, <2>3 DEF HashEntries
<1>3. StoresOK'
  BY <1>0, <1>1 DEF StoresOK
<1>4. AwaitsOne(p, jobs[t])
  BY <1>0, <1>2, AwaitedStay
<1>5. t \notin older' => t \notin older /\ \A c \in jobs[t] : c.kind \notin {"load", "connect"}
  BY <1>1
<1>6. t \notin older => \A o \in links : o = p.input
  BY <1>0, <1>2, OwedLies
<1>7. links \in SUBSET Links
  BY <1>0
<1> HIDE DEF p, links
<1> QED
  BY <1>0, <1>1, <1>2, <1>3, <1>4, <1>5, <1>6, <1>7, StepKeeps

LEMMA TypedInStep == ASSUME EntryInv, NEW t \in Tabs, NEW pass \in Typed, Type(t, pass) PROVE EntryInv'
<1> DEFINE p == [tab[t] EXCEPT !.input = pass]
<1>0. EntryTypeOK /\ StoresOK /\ TabInv(t) /\ tab[t] \in Page /\ \A c \in jobs[t] : CallOK(c)
  BY Before
<1>1. Show(t, p, jobs[t]) /\ Owe(t, {}) /\ UNCHANGED <<key, keys, blob, erasing, clashed, burned, older>>
      /\ tab[t].otk = Nowhere /\ ~tab[t].restoring
  BY DEF Type, OnConnectScreen
<1>2. p \in Page /\ p.claiming = tab[t].claiming /\ p.revealed = tab[t].revealed /\ p.otk = Nowhere
  BY <1>0, <1>1 DEF Page, Passes
<1>3. StoresOK'
  BY <1>0, <1>1 DEF StoresOK
<1>4. AwaitsOne(p, jobs[t])
  BY <1>0, <1>2, AwaitedStay
<1>5. t \notin older' => \A c \in jobs[t] : c.kind # "load"
  BY <1>1, Before
<1> HIDE DEF p
<1> QED
  BY <1>0, <1>1, <1>2, <1>3, <1>4, <1>5, StepKeeps

LEMMA SubmitStep == ASSUME EntryInv, NEW t \in Tabs, Submit(t) PROVE EntryInv'
<1> DEFINE p == Connecting(tab[t])
           c == Starts("connect", "go", tab[t].input, FALSE)
           tasks == jobs[t] \union {c}
<1>0. EntryTypeOK /\ StoresOK /\ TabInv(t) /\ tab[t] \in Page /\ owed[t] \in SUBSET Links
      /\ \A d \in jobs[t] : CallOK(d)
  BY Before
<1>1. Show(t, p, tasks) /\ owed' = owed /\ UNCHANGED <<key, keys, blob, erasing, clashed, burned, older>>
      /\ tab[t].otk = Nowhere /\ ~tab[t].restoring /\ tab[t].input # Nowhere
  BY DEF Submit, OnConnectScreen
<1>2. p \in Page /\ p.claiming = tab[t].claiming /\ p.revealed = tab[t].revealed /\ p.otk = Nowhere
      /\ p.input = tab[t].input
  BY <1>0, <1>1 DEF Page, Connecting
<1>3. CallOK(c) /\ c.kind = "connect"
  BY <1>0, <1>1, PageIs DEF Starts, CallOK, Call
<1>4. StoresOK' /\ Owe(t, owed[t])
  BY <1>0, <1>1, Before DEF StoresOK
<1> HIDE DEF p, c
<1>5. AwaitsOne(p, tasks)
  BY <1>0, <1>2, <1>3, AwaitedStay
<1>6. t \notin older' => \A d \in tasks : d.kind # "load"
  BY <1>1, <1>3, Before
<1>7. t \notin older' => \A o \in owed[t] : o = p.input
  BY <1>0, <1>1, <1>2, OwedLies DEF OnPairing
<1>8. \A d \in tasks : CallOK(d)
  BY <1>0, <1>3
<1> HIDE DEF tasks
<1> QED
  BY <1>0, <1>1, <1>2, <1>4, <1>5, <1>6, <1>7, <1>8, StepKeeps

LEMMA RevealStep == ASSUME EntryInv, NEW t \in Tabs, Reveal(t) PROVE EntryInv'
<1> DEFINE p == [tab[t] EXCEPT !.claiming = TRUE]
           c == Starts("claim", "go", tab[t].otk, TRUE)
           tasks == jobs[t] \union {c}
<1>0. EntryTypeOK /\ StoresOK /\ TabInv(t) /\ tab[t] \in Page /\ owed[t] \in SUBSET Links
      /\ \A d \in jobs[t] : CallOK(d)
  BY Before
<1>1. Show(t, p, tasks) /\ owed' = owed /\ UNCHANGED <<key, keys, blob, erasing, clashed, burned, older>>
      /\ OnPairing(tab[t]) /\ tab[t].revealed = Nowhere /\ ~tab[t].claiming
  BY DEF Reveal
<1>2. p \in Page /\ p.claiming /\ p.revealed = Nowhere /\ p.input = tab[t].input
  BY <1>0, <1>1 DEF Page
<1>3. CallOK(c) /\ c.kind = "claim"
  BY <1>0, <1>1, PageIs DEF Starts, CallOK, Call, OnPairing, Passes
<1>4. StoresOK' /\ Owe(t, owed[t])
  BY <1>0, <1>1, Before DEF StoresOK
<1>5. \A d \in jobs[t] : ~(d.kind = "claim" /\ d.held)
  BY <1>0, <1>1 DEF TabInv, OneAwaited, Awaited
<1> HIDE DEF p, c
<1>6. AwaitsOne(p, tasks)
  BY <1>2, <1>3, <1>5 DEF AwaitsOne
<1>7. t \notin older' => \A d \in tasks : d.kind \notin {"load", "connect"}
  BY <1>1, <1>3, Before DEF OnPairing
<1>8. t \notin older' => \A o \in owed[t] : o = p.input
  BY <1>0, <1>1, <1>2, OwedLies, PassesAssumption DEF Passes
<1>9. \A d \in tasks : CallOK(d)
  BY <1>0, <1>3
<1> HIDE DEF tasks
<1> QED
  BY <1>0, <1>1, <1>2, <1>4, <1>6, <1>7, <1>8, <1>9, StepKeeps

LEMMA OnConnectStep == ASSUME EntryInv, NEW t \in Tabs, OnConnect(t) PROVE EntryInv'
<1> DEFINE p == Connecting(Confirmed(tab[t]))
           c == Starts("connect", "go", tab[t].revealed, FALSE)
           tasks == jobs[t] \union {c}
           links == owed[t] \intersect {tab[t].revealed}
<1>0. EntryTypeOK /\ StoresOK /\ TabInv(t) /\ tab[t] \in Page /\ owed[t] \in SUBSET Links
      /\ \A d \in jobs[t] : CallOK(d)
  BY Before
<1>1. Show(t, p, tasks) /\ Owe(t, links) /\ UNCHANGED <<key, keys, blob, erasing, clashed, burned, older>>
      /\ OnPairing(tab[t]) /\ tab[t].revealed # Nowhere
  BY DEF OnConnect
<1>2. p \in Page /\ p.claiming = tab[t].claiming /\ p.revealed = tab[t].revealed /\ p.otk = Nowhere
      /\ p.input = tab[t].revealed
  BY <1>0, <1>1 DEF Page, Connecting, Confirmed, Passes
<1>3. CallOK(c) /\ c.kind = "connect"
  BY <1>0, <1>1, PageIs DEF Starts, CallOK, Call, Passes
<1>4. StoresOK' /\ links \in SUBSET Links /\ \A o \in links : o = p.input
  BY <1>0, <1>1, <1>2 DEF StoresOK
<1> HIDE DEF p, c, links
<1>5. AwaitsOne(p, tasks)
  BY <1>0, <1>2, <1>3, AwaitedStay
<1>6. t \notin older' => \A d \in tasks : d.kind # "load"
  BY <1>1, <1>3, Before DEF OnPairing
<1>7. \A d \in tasks : CallOK(d)
  BY <1>0, <1>3
<1> HIDE DEF tasks
<1> QED
  BY <1>1, <1>2, <1>4, <1>5, <1>6, <1>7, StepKeeps

LEMMA OnCancelStep == ASSUME EntryInv, NEW t \in Tabs, OnCancel(t) PROVE EntryInv'
<1> DEFINE p == [tab[t] EXCEPT !.otk = Nowhere]
<1>0. EntryTypeOK /\ StoresOK /\ TabInv(t) /\ tab[t] \in Page /\ owed[t] \in SUBSET Links
      /\ \A d \in jobs[t] : CallOK(d)
  BY Before
<1>1. Show(t, p, jobs[t]) /\ owed' = owed /\ UNCHANGED <<key, keys, blob, erasing, clashed, burned, older>>
      /\ OnPairing(tab[t]) /\ tab[t].revealed = Nowhere
  BY DEF OnCancel
<1>2. p \in Page /\ p.claiming = tab[t].claiming /\ p.revealed = tab[t].revealed /\ p.otk = Nowhere
      /\ p.input = tab[t].input
  BY <1>0 DEF Page
<1>3. StoresOK' /\ Owe(t, owed[t])
  BY <1>0, <1>1, Before DEF StoresOK
<1>4. AwaitsOne(p, jobs[t])
  BY <1>0, <1>2, AwaitedStay
<1>5. t \notin older' => \A d \in jobs[t] : d.kind # "load"
  BY <1>1, Before DEF OnPairing
<1>6. t \notin older' => \A o \in owed[t] : o = p.input
  BY <1>0, <1>1, <1>2, OwedLies, PassesAssumption DEF Passes
<1> HIDE DEF p
<1> QED
  BY <1>0, <1>1, <1>2, <1>3, <1>4, <1>5, <1>6, StepKeeps

LEMMA OnForgetStep == ASSUME EntryInv, NEW t \in Tabs, OnForget(t) PROVE EntryInv'
<1> DEFINE p == [tab[t] EXCEPT !.viewer = Nowhere, !.otk = Nowhere, !.input = Nowhere]
<1>0. EntryTypeOK /\ StoresOK /\ TabInv(t) /\ tab[t] \in Page /\ \A d \in jobs[t] : CallOK(d)
  BY Before
<1>1. Show(t, p, jobs[t]) /\ Owe(t, {}) /\ UNCHANGED <<key, keys, clashed, burned, older>>
      /\ blob' = [blob EXCEPT ![t] = Nowhere] /\ erasing' = erasing + 1
  BY DEF OnForget
<1>2. p \in Page /\ p.claiming = tab[t].claiming /\ p.revealed = tab[t].revealed /\ p.otk = Nowhere
      /\ p.restoring = tab[t].restoring
  BY <1>0 DEF Page
<1>3. StoresOK'
  BY <1>0, <1>1 DEF StoresOK
<1>4. AwaitsOne(p, jobs[t])
  BY <1>0, <1>2, AwaitedStay
<1>5. t \notin older' => \A d \in jobs[t] : d.kind = "load" => jobs[t] = {d} /\ p.restoring
  BY <1>1, <1>2, Before
<1> HIDE DEF p
<1> QED
  BY <1>0, <1>1, <1>2, <1>3, <1>4, <1>5, StepKeeps

-------------------------------------------------------------------------------
(* Answers                                                                 *)

LEMMA ClaimedStep ==
  ASSUME EntryInv, NEW t \in Tabs, NEW c \in jobs[t], NEW outcome \in Outcomes, Claimed(t, c, outcome)
  PROVE  EntryInv'
<1> DEFINE opened == outcome = "answered" /\ c.held /\ c.pass \notin burned
           p == [tab[t] EXCEPT !.claiming = tab[t].claiming /\ ~c.held,
                               !.revealed = IF opened THEN c.pass ELSE tab[t].revealed]
           tasks == jobs[t] \ {c}
           links == IF opened THEN owed[t] \union {c.pass} ELSE owed[t]
<1>0. EntryTypeOK /\ StoresOK /\ TabInv(t) /\ tab[t] \in Page /\ owed[t] \in SUBSET Links
      /\ \A d \in jobs[t] : CallOK(d)
  BY Before
<1>1. Show(t, p, tasks) /\ Owe(t, links) /\ UNCHANGED <<key, keys, blob, erasing, clashed, older>>
      /\ c.kind = "claim" /\ (burned' = burned \/ burned' = burned \union {c.pass})
  BY DEF Claimed
<1>2. c.pass \in Links /\ c.held \in BOOLEAN
  BY <1>0, <1>1 DEF CallOK, Call
<1>3. /\ p \in Page /\ p.input = tab[t].input /\ p.otk = tab[t].otk /\ p.restoring = tab[t].restoring
      /\ p.viewer = tab[t].viewer
      /\ opened => p.revealed = c.pass /\ c.held
      /\ ~c.held => p.claiming = tab[t].claiming /\ p.revealed = tab[t].revealed
      /\ ~opened => p.revealed = tab[t].revealed
  BY <1>0, <1>2 DEF Page
<1>4. StoresOK' /\ links \in SUBSET Links
  BY <1>0, <1>1, <1>2 DEF StoresOK
<1>5. c.held => /\ OnPairing(tab[t]) /\ tab[t].revealed = Nowhere
                /\ \A d \in jobs[t] : d.kind = "claim" /\ d.held => d = c
  BY <1>0, <1>1 DEF TabInv, OneAwaited, Awaited
<1>6. OnPairing(p) <=> OnPairing(tab[t])
  BY <1>3 DEF OnPairing
<1>7. links = (IF opened THEN owed[t] \union {c.pass} ELSE owed[t])
  OBVIOUS
<1> HIDE DEF p, opened, links
<1>8. AwaitsOne(p, tasks)
  <2>1. CASE c.held
    BY <1>5, <2>1 DEF AwaitsOne
  <2>2. CASE ~c.held
    BY <1>0, <1>3, <2>2, AwaitedStay
  <2> QED
    BY <2>1, <2>2
<1>9. t \notin older' => \A d \in tasks : (d.kind \in {"load", "connect"} => p.otk = Nowhere) /\ d.kind # "load"
  BY <1>1, <1>3, Before
<1>10. t \notin older' => \A o \in links : o = p.input \/ (OnPairing(p) /\ o = p.revealed)
  <2>1. CASE opened
    BY <1>0, <1>1, <1>3, <1>5, <1>6, <1>7, <2>1, OwedLies, PassesAssumption DEF Passes
  <2>2. CASE ~opened
    BY <1>0, <1>1, <1>3, <1>6, <1>7, <2>2, OwedLies
  <2> QED
    BY <2>1, <2>2
<1>11. \A d \in tasks : CallOK(d)
  BY <1>0
<1> HIDE DEF tasks
<1> QED
  BY <1>1, <1>3, <1>4, <1>8, <1>9, <1>10, <1>11, StepKeeps

\* The end of a connect or of a save.
LEMMA EndedIs ==
  ASSUME NEW q \in Page, NEW c, CallOK(c)
  PROVE  /\ Ended(q, c) \in Page /\ Ended(q, c).claiming = q.claiming /\ Ended(q, c).revealed = q.revealed
         /\ Ended(q, c).input = q.input /\ Ended(q, c).otk = q.otk
         /\ OnPairing(q) => OnPairing(Ended(q, c))
<1>1. c.held \in BOOLEAN
  BY DEF CallOK, Call
<1>2. /\ Ended(q, c) \in Page /\ Ended(q, c).claiming = q.claiming /\ Ended(q, c).revealed = q.revealed
      /\ Ended(q, c).input = q.input /\ Ended(q, c).otk = q.otk /\ Ended(q, c).viewer = q.viewer
      /\ Ended(q, c).restoring = (q.restoring /\ ~c.held)
  BY <1>1 DEF Ended, Page
<1> HIDE DEF Ended
<1> QED
  BY <1>2 DEF OnPairing

LEMMA ConnectedStep == ASSUME EntryInv, NEW t \in Tabs, NEW c \in jobs[t], Connected(t, c) PROVE EntryInv'
<1>0. EntryTypeOK /\ StoresOK /\ TabInv(t) /\ tab[t] \in Page /\ owed[t] \in SUBSET Links
      /\ \A d \in jobs[t] : CallOK(d)
  BY Before
<1>1. c.kind = "connect" /\ owed' = owed /\ UNCHANGED <<key, keys, blob, erasing, clashed, burned, older>>
  BY DEF Connected
<1>2. CallOK(c) /\ c.pass \in Passes
  BY <1>0 DEF CallOK, Call
<1>3. StoresOK' /\ Owe(t, owed[t])
  BY <1>0, <1>1, Before DEF StoresOK
<1>4. t \notin older' => tab[t].otk = Nowhere /\ \A d \in jobs[t] : d.kind # "load"
  <2>1. t \notin older /\ (\E d \in jobs[t] : d.kind = "load") => FALSE
    BY <1>1, Before
  <2> QED
    BY <1>1, <2>1, Before
<1>5. t \notin older' => \A o \in owed[t] : o = tab[t].input
  BY <1>0, <1>1, <1>4, OwedLies DEF OnPairing
<1>6. CASE c.pass \in Malformed
  <2> DEFINE p == Ended(tab[t], c)
             tasks == jobs[t] \ {c}
  <2>1. Show(t, p, tasks)
    BY <1>6 DEF Connected
  <2>2. p \in Page /\ p.claiming = tab[t].claiming /\ p.revealed = tab[t].revealed
        /\ p.input = tab[t].input /\ p.otk = tab[t].otk
    BY <1>0, <1>2, EndedIs
  <2> HIDE DEF p
  <2>3. AwaitsOne(p, tasks)
    BY <1>0, <2>2, AwaitedStay
  <2>4. \A d \in tasks : CallOK(d)
    BY <1>0
  <2>5. t \notin older' => \A d \in tasks : p.otk = Nowhere /\ d.kind # "load"
    BY <1>4, <2>2
  <2> HIDE DEF tasks
  <2> QED
    BY <1>0, <1>1, <1>3, <1>5, <2>1, <2>2, <2>3, <2>4, <2>5, StepKeeps
<1>7. CASE c.pass \notin Malformed
  <2> DEFINE p == [tab[t] EXCEPT !.viewer = c.pass]
             e == [c EXCEPT !.kind = "save", !.at = "get"]
             tasks == (jobs[t] \ {c}) \union {e}
  <2>1. Show(t, p, tasks)
    BY <1>7 DEF Connected
  <2>2. p \in Page /\ p.claiming = tab[t].claiming /\ p.revealed = tab[t].revealed
        /\ p.input = tab[t].input /\ p.otk = tab[t].otk
    BY <1>0, <1>2 DEF Page
  <2>3. CallOK(e) /\ e.kind = "save"
    BY <1>2 DEF CallOK, Call
  <2> HIDE DEF p, e
  <2>4. AwaitsOne(p, tasks)
    BY <1>0, <2>2, <2>3, AwaitedStay
  <2>5. \A d \in tasks : CallOK(d)
    BY <1>0, <2>3
  <2>6. t \notin older' => \A d \in tasks : p.otk = Nowhere /\ d.kind # "load"
    BY <1>4, <2>2, <2>3
  <2> HIDE DEF tasks
  <2> QED
    BY <1>0, <1>1, <1>3, <1>5, <2>1, <2>2, <2>4, <2>5, <2>6, StepKeeps
<1> QED
  BY <1>6, <1>7

\* A load or a save that goes on to its next transaction, with the tab as it is.
LEMMA GoesOn ==
  ASSUME EntryInv, NEW t \in Tabs, NEW c \in jobs[t], NEW e, CallOK(e), e.kind = c.kind, c.kind # "claim",
         Show(t, tab[t], (jobs[t] \ {c}) \union {e}), StoresOK', owed' = owed, older' = older
  PROVE  EntryInv'
<1> DEFINE tasks == (jobs[t] \ {c}) \union {e}
<1>0. EntryTypeOK /\ StoresOK /\ TabInv(t) /\ tab[t] \in Page /\ owed[t] \in SUBSET Links
      /\ \A d \in jobs[t] : CallOK(d)
  BY Before
<1>1. AwaitsOne(tab[t], tasks)
  BY <1>0, AwaitedStay
<1>2. Owe(t, owed[t]) /\ \A d \in tasks : CallOK(d)
  BY <1>0, Before
<1>3. t \notin older' => \A d \in tasks :
         /\ d.kind \in {"load", "connect"} => tab[t].otk = Nowhere
         /\ d.kind = "load" => tasks = {d} /\ tab[t].restoring /\ owed[t] = {}
  BY Before
<1>4. t \notin older' => \A o \in owed[t] : o = tab[t].input \/ (OnPairing(tab[t]) /\ o = tab[t].revealed)
  BY <1>0, OwedLies
<1>5. Show(t, tab[t], tasks)
  OBVIOUS
<1> HIDE DEF tasks
<1> QED
  BY <1>0, <1>1, <1>2, <1>3, <1>4, <1>5, StepKeeps

LEMMA GetKeyStep == ASSUME EntryInv, NEW t \in Tabs, NEW c \in jobs[t], GetKey(t, c) PROVE EntryInv'
<1>0. EntryTypeOK /\ StoresOK /\ TabInv(t) /\ tab[t] \in Page /\ owed[t] \in SUBSET Links
      /\ \A d \in jobs[t] : CallOK(d)
  BY Before
<1>1. c.at = "get" /\ UNCHANGED <<key, burned, blob, erasing, owed, older, clashed>>
  BY DEF GetKey
<1>2. CallOK(c) /\ c.kind \in {"load", "save"} /\ key \in Nat /\ keys \in Nat
  BY <1>0, <1>1 DEF CallOK, Call, StoresOK
<1>3. CASE Usable
  <2> DEFINE e == [c EXCEPT !.at = "wrap", !.key = key]
  <2>1. Show(t, tab[t], (jobs[t] \ {c}) \union {e}) /\ UNCHANGED keys
    BY <1>3 DEF GetKey
  <2>2. CallOK(e) /\ e.kind = c.kind
    BY <1>2 DEF CallOK, Call
  <2>3. StoresOK'
    BY <1>0, <1>1, <2>1 DEF StoresOK
  <2> HIDE DEF e
  <2> QED
    BY <1>1, <1>2, <2>1, <2>2, <2>3, GoesOn
<1>4. CASE ~Usable
  <2> DEFINE e == [c EXCEPT !.at = "put", !.key = keys + 1, !.seen = key]
  <2>1. Show(t, tab[t], (jobs[t] \ {c}) \union {e}) /\ keys' = keys + 1
    BY <1>4 DEF GetKey
  <2>2. c \in Call /\ keys + 1 \in Nat
    BY <1>2 DEF CallOK
  <2>3. e \in Call /\ e.kind = c.kind /\ e.at = "put"
    BY <1>2, <2>2 DEF Call
  <2>4. CallOK(e)
    BY <1>2, <2>3 DEF CallOK
  <2>5. StoresOK'
    BY <1>0, <1>1, <1>2, <2>1 DEF StoresOK
  <2> HIDE DEF e
  <2> QED
    BY <1>1, <1>2, <2>1, <2>3, <2>4, <2>5, GoesOn
<1> QED
  BY <1>3, <1>4

LEMMA PutKeyStep == ASSUME EntryInv, NEW t \in Tabs, NEW c \in jobs[t], PutKey(t, c) PROVE EntryInv'
<1> DEFINE e == [c EXCEPT !.at = "wrap"]
<1>0. EntryTypeOK /\ StoresOK /\ TabInv(t) /\ tab[t] \in Page /\ owed[t] \in SUBSET Links
      /\ \A d \in jobs[t] : CallOK(d)
  BY Before
<1>1. /\ c.at = "put" /\ UNCHANGED <<keys, burned, blob, erasing, owed, older>>
      /\ key' = c.key /\ clashed' = (clashed \/ key # c.seen)
      /\ Show(t, tab[t], (jobs[t] \ {c}) \union {e})
  BY DEF PutKey
<1>2. CallOK(c) /\ c.kind \in {"load", "save"} /\ c.key \in Nat
  BY <1>0, <1>1 DEF CallOK, Call
<1>3. CallOK(e) /\ e.kind = c.kind
  BY <1>2 DEF CallOK, Call
<1>4. StoresOK'
  BY <1>0, <1>1, <1>2 DEF StoresOK
<1> HIDE DEF e
<1> QED
  BY <1>1, <1>2, <1>3, <1>4, GoesOn

\* A load or a save that is over and leaves the field and the Pairing alone.
LEMMA GoesAway ==
  ASSUME EntryInv, NEW t \in Tabs, NEW c \in jobs[t], c.kind # "claim", NEW p \in Page,
         p.claiming = tab[t].claiming, p.revealed = tab[t].revealed, p.input = tab[t].input,
         p.otk = tab[t].otk, OnPairing(tab[t]) => OnPairing(p),
         Show(t, p, jobs[t] \ {c}), StoresOK', owed' = owed, older' = older
  PROVE  EntryInv'
<1> DEFINE tasks == jobs[t] \ {c}
<1>0. EntryTypeOK /\ StoresOK /\ TabInv(t) /\ tab[t] \in Page /\ owed[t] \in SUBSET Links
      /\ \A d \in jobs[t] : CallOK(d)
  BY Before
<1>1. AwaitsOne(p, tasks)
  BY <1>0, AwaitedStay
<1>2. Owe(t, owed[t]) /\ \A d \in tasks : CallOK(d)
  BY <1>0, Before
<1>3. t \notin older' => \A d \in tasks :
         (d.kind \in {"load", "connect"} => p.otk = Nowhere) /\ d.kind # "load"
  BY Before
<1>4. t \notin older' => \A o \in owed[t] : o = p.input \/ (OnPairing(p) /\ o = p.revealed)
  BY <1>0, OwedLies
<1>5. Show(t, p, tasks)
  OBVIOUS
<1> HIDE DEF tasks
<1> QED
  BY <1>0, <1>1, <1>2, <1>3, <1>4, <1>5, StepKeeps

LEMMA WrapStep == ASSUME EntryInv, NEW t \in Tabs, NEW c \in jobs[t], Wrap(t, c) PROVE EntryInv'
<1>0. EntryTypeOK /\ StoresOK /\ TabInv(t) /\ tab[t] \in Page /\ owed[t] \in SUBSET Links
      /\ \A d \in jobs[t] : CallOK(d)
  BY Before
<1>1. /\ c.kind = "save" /\ UNCHANGED <<key, keys, burned, erasing, owed, older, clashed>>
      /\ blob' = [blob EXCEPT ![t] = [pass |-> c.pass, key |-> c.key]]
      /\ Show(t, Ended(tab[t], c), jobs[t] \ {c})
  BY DEF Wrap
<1>2. CallOK(c) /\ [pass |-> c.pass, key |-> c.key] \in [pass : Passes, key : Nat]
  BY <1>0 DEF CallOK, Call
<1>3. StoresOK'
  BY <1>0, <1>1, <1>2 DEF StoresOK
<1> QED
  BY <1>0, <1>1, <1>2, <1>3, EndedIs, GoesAway

LEMMA UnwrapStep == ASSUME EntryInv, NEW t \in Tabs, NEW c \in jobs[t], Unwrap(t, c) PROVE EntryInv'
<1>0. EntryTypeOK /\ StoresOK /\ TabInv(t) /\ tab[t] \in Page /\ owed[t] \in SUBSET Links
      /\ \A d \in jobs[t] : CallOK(d)
  BY Before
<1>1. c.kind = "load" /\ UNCHANGED <<key, keys, blob, erasing, clashed, burned, owed, older>>
  BY DEF Unwrap
<1>2. CallOK(c) /\ c.pass \in Passes
  BY <1>0 DEF CallOK, Call
<1>3. StoresOK' /\ Owe(t, owed[t])
  BY <1>0, <1>1, Before DEF StoresOK
<1>4. t \notin older' => tab[t].otk = Nowhere /\ jobs[t] = {c} /\ owed[t] = {}
  BY <1>1, Before
<1>5. CASE c.key = c.sealed
  <2> DEFINE p == Connecting([tab[t] EXCEPT !.input = c.pass])
             e == Starts("connect", "go", c.pass, TRUE)
             tasks == (jobs[t] \ {c}) \union {e}
  <2>1. Show(t, p, tasks)
    BY <1>5 DEF Unwrap
  <2>2. p \in Page /\ p.claiming = tab[t].claiming /\ p.revealed = tab[t].revealed /\ p.otk = tab[t].otk
    BY <1>0, <1>2 DEF Page, Connecting
  <2>3. CallOK(e) /\ e.kind = "connect"
    BY <1>2 DEF Starts, CallOK, Call
  <2> HIDE DEF p, e
  <2>4. AwaitsOne(p, tasks)
    BY <1>0, <2>2, <2>3, AwaitedStay
  <2>5. \A d \in tasks : CallOK(d)
    BY <1>0, <2>3
  <2>6. t \notin older' => \A d \in tasks : p.otk = Nowhere /\ d.kind # "load"
    BY <1>4, <2>2, <2>3
  <2> HIDE DEF tasks
  <2> QED
    BY <1>0, <1>1, <1>3, <1>4, <2>1, <2>2, <2>4, <2>5, <2>6, StepKeeps
<1>6. CASE c.key # c.sealed
  <2> DEFINE p == [tab[t] EXCEPT !.restoring = FALSE]
  <2>1. Show(t, p, jobs[t] \ {c})
    BY <1>6 DEF Unwrap
  <2>2. p \in Page /\ p.claiming = tab[t].claiming /\ p.revealed = tab[t].revealed /\ p.otk = tab[t].otk
        /\ p.input = tab[t].input /\ p.viewer = tab[t].viewer /\ ~p.restoring
    BY <1>0 DEF Page
  <2> HIDE DEF p
  <2>3. OnPairing(tab[t]) => OnPairing(p)
    BY <2>2 DEF OnPairing
  <2> QED
    BY <1>1, <1>3, <2>1, <2>2, <2>3, GoesAway
<1> QED
  BY <1>5, <1>6

LEMMA StorageFailsStep == ASSUME EntryInv, NEW t \in Tabs, NEW c \in jobs[t], StorageFails(t, c) PROVE EntryInv'
<1>0. EntryTypeOK /\ StoresOK /\ TabInv(t) /\ tab[t] \in Page /\ owed[t] \in SUBSET Links
      /\ \A d \in jobs[t] : CallOK(d)
  BY Before
<1>1. c.at \in {"get", "put"} /\ UNCHANGED <<key, keys, blob, erasing, clashed, burned, owed, older>>
  BY DEF StorageFails
<1>2. CallOK(c) /\ c.kind \in {"load", "save"}
  BY <1>0, <1>1 DEF CallOK, Call
<1>3. StoresOK'
  BY <1>0, <1>1 DEF StoresOK
<1>4. CASE c.kind = "save"
  <2>1. Show(t, Ended(tab[t], c), jobs[t] \ {c})
    BY <1>4 DEF StorageFails
  <2> QED
    BY <1>0, <1>1, <1>2, <1>3, <2>1, EndedIs, GoesAway
<1>5. CASE c.kind # "save"
  <2> DEFINE p == [tab[t] EXCEPT !.restoring = FALSE]
  <2>1. Show(t, p, jobs[t] \ {c})
    BY <1>5 DEF StorageFails
  <2>2. p \in Page /\ p.claiming = tab[t].claiming /\ p.revealed = tab[t].revealed /\ p.otk = tab[t].otk
        /\ p.input = tab[t].input /\ p.viewer = tab[t].viewer /\ ~p.restoring
    BY <1>0 DEF Page
  <2> HIDE DEF p
  <2>3. OnPairing(tab[t]) => OnPairing(p)
    BY <2>2 DEF OnPairing
  <2> QED
    BY <1>1, <1>2, <1>3, <2>1, <2>2, <2>3, GoesAway
<1> QED
  BY <1>4, <1>5

LEMMA EraseStep == EntryInv /\ Erase => EntryInv'
<1> SUFFICES ASSUME EntryInv, Erase PROVE EntryInv'
  OBVIOUS
<1>1. UNCHANGED <<keys, burned, tab, blob, jobs, owed, older>> /\ key' = 0 /\ erasing > 0
      /\ erasing' = erasing - 1 /\ clashed' = (clashed \/ key # 0)
  BY DEF Erase
<1>2. EntryTypeOK'
  BY <1>1 DEF EntryInv, EntryTypeOK, CallOK
<1>3. \A u \in Tabs : TabInv(u)'
  BY <1>1, OthersKeep DEF EntryInv
<1> QED
  BY <1>2, <1>3 DEF EntryInv

LEMMA StutterKeeps == EntryInv /\ UNCHANGED entryVars => EntryInv'
<1> SUFFICES ASSUME EntryInv, UNCHANGED entryVars PROVE EntryInv'
  OBVIOUS
<1>1. EntryTypeOK'
  BY DEF EntryInv, EntryTypeOK, CallOK
<1>2. \A u \in Tabs : TabInv(u)'
  BY OthersKeep DEF EntryInv
<1> QED
  BY <1>1, <1>2 DEF EntryInv

LEMMA EntryInitInv == EntryInit => EntryInv
<1> SUFFICES ASSUME EntryInit PROVE EntryInv
  OBVIOUS
<1>1. Blank \in Page /\ Blank.revealed = Nowhere
  BY DEF Blank, Page
<1>2. \A t \in Tabs : tab[t] = Blank /\ jobs[t] = {} /\ owed[t] = {}
  BY DEF EntryInit
<1>3. EntryTypeOK
  BY <1>1, <1>2 DEF EntryInit, EntryTypeOK
<1>4. \A t \in Tabs : TabInv(t)
  BY <1>1, <1>2 DEF TabInv, RevealedPairs, OneAwaited, Awaited, SettledFirst, OwedKept
<1> QED
  BY <1>3, <1>4 DEF EntryInv

\* The browser's part is well typed, and what is owed to a user lies where OwedKept says.
THEOREM EntryInvHolds == EntrySpec => []EntryInv
<1>1. EntryInv /\ [EntryNext]_entryVars => EntryInv'
  <2> SUFFICES ASSUME EntryInv, [EntryNext]_entryVars PROVE EntryInv'
    OBVIOUS
  <2>1. CASE EntryNext
    BY <2>1, EraseStep, ReloadStep, HashChangeStep, TypedInStep, SubmitStep, RevealStep, OnConnectStep,
       OnCancelStep, OnForgetStep, ClaimedStep, ConnectedStep, GetKeyStep, PutKeyStep, WrapStep,
       UnwrapStep, StorageFailsStep DEF EntryNext
  <2>2. CASE UNCHANGED entryVars
    BY <2>2, StutterKeeps
  <2> QED
    BY <2>1, <2>2
<1> QED
  BY EntryInitInv, <1>1, PTL DEF EntrySpec

\* A claimed pass stays on a screen, in the field or in the console of its tab until the user lets go of it,
\* for any number of tabs, links, passes, reloads and lost answers.
THEOREM BurnedPassIsKept == EntrySpec => []BurnedNotLost
<1>1. EntryInv => BurnedNotLost
  <2> SUFFICES ASSUME EntryInv, NEW t \in Tabs, t \notin older, NEW o \in owed[t] PROVE o \in Holds(t)
    BY DEF BurnedNotLost
  <2>1. o = tab[t].input \/ o = tab[t].revealed
    BY Before, OwedLies
  <2> QED
    BY <2>1 DEF Holds
<1> QED
  BY <1>1, EntryInvHolds, PTL

-----------------------------------------------------------------------------
(* The identity file                                                       *)

\* Directory entries stay directory entries when one of them is pointed elsewhere.
LEMMA PointsToTyped ==
  ASSUME IdentityTypeOK, NEW entry \in {"path", "old"}, NEW file \in File, PointsTo(entry, file)
  PROVE  dir' \in Entries /\ survives' \subseteq Entries
  BY DEF IdentityTypeOK, PointsTo, Entries

\* Pointing <path>.old elsewhere leaves the path, and what may survive at it, alone.
LEMMA OldKeepsPath ==
  ASSUME IdentityTypeOK, PoweredWhole, NEW file, PointsTo("old", file)
  PROVE  /\ dir'.path = dir.path /\ dir' \in survives'
         /\ \A e \in survives' : \E f \in survives : e.path = f.path
<1>1. dir' = [dir EXCEPT !["old"] = file] /\ dir \in Entries /\ dir \in survives
  BY DEF PointsTo, IdentityTypeOK, PoweredWhole
<1>2. survives' = survives \union {[e EXCEPT !["old"] = file] : e \in survives}
  BY DEF PointsTo
<1>3. \A e \in survives : [e EXCEPT !["old"] = file].path = e.path
  BY DEF IdentityTypeOK, Entries
<1> QED
  BY <1>1, <1>2, <1>3 DEF Entries

\* Pointing the path to a file adds that file to what may survive there.
LEMMA PathTakesFile ==
  ASSUME IdentityTypeOK, PoweredWhole, NEW file, PointsTo("path", file)
  PROVE  /\ dir'.path = file /\ dir' \in survives'
         /\ \A e \in survives' : e.path = file \/ \E f \in survives : e.path = f.path
<1>1. dir' = [dir EXCEPT !["path"] = file] /\ dir \in Entries /\ dir \in survives
  BY DEF PointsTo, IdentityTypeOK, PoweredWhole
<1>2. survives' = survives \union {[e EXCEPT !["path"] = file] : e \in survives}
  BY DEF PointsTo
<1>3. \A e \in survives : [e EXCEPT !["path"] = file].path = file
  BY DEF IdentityTypeOK, Entries
<1> QED
  BY <1>1, <1>2, <1>3 DEF Entries

-----------------------------------------------------------------------------
(* Types                                                                   *)

\* A step keeps the types, and the inode a replacement holds is a file.
LEMMA IdentityTypeStep ==
  IdentityTypeOK /\ OldIsFile /\ PoweredWhole /\ [IdentityNext]_identityVars => IdentityTypeOK' /\ OldIsFile'
<1> SUFFICES ASSUME IdentityTypeOK, OldIsFile, PoweredWhole, [IdentityNext]_identityVars
             PROVE  IdentityTypeOK' /\ OldIsFile'
  OBVIOUS
<1> USE DEF File, Secrets
<1>1. ASSUME NEW c \in Commands, Ensure(c) PROVE IdentityTypeOK' /\ OldIsFile'
  BY <1>1 DEF IdentityTypeOK, OldIsFile, HoldsOld, Ensure, Tells, Goes, At, CommandState, Entries
<1>2. ASSUME NEW c \in Commands, WriteTemp(c) PROVE IdentityTypeOK' /\ OldIsFile'
  BY <1>2 DEF IdentityTypeOK, OldIsFile, HoldsOld, WriteTemp, Goes, At, CommandState
<1>3. ASSUME NEW c \in Commands, Link(c) PROVE IdentityTypeOK' /\ OldIsFile'
  <2>1. dir' \in Entries /\ survives' \subseteq Entries
    BY <1>3, PointsToTyped DEF Link, IdentityTypeOK
  <2> QED
    BY <1>3, <2>1 DEF IdentityTypeOK, OldIsFile, HoldsOld, Link, Goes, At, CommandState
<1>4. ASSUME NEW c \in Commands, LoadWinner(c) PROVE IdentityTypeOK' /\ OldIsFile'
  BY <1>4 DEF IdentityTypeOK, OldIsFile, HoldsOld, LoadWinner, Tells, Goes, At, CommandState, Entries
<1>5. ASSUME NEW c \in Commands, Confirm(c) PROVE IdentityTypeOK' /\ OldIsFile'
  <2>1. PICK keep \in BOOLEAN :
          cmd' = [cmd EXCEPT ![c].pc = "confirmed", ![c].saw = dir.path, ![c].keep = keep]
    BY <1>5 DEF Confirm
  <2>2. dir.path \in File
    BY DEF IdentityTypeOK, Entries
  <2>3. cmd' \in [Commands -> CommandState]
    <3> DEFINE confirmed == [cmd[c] EXCEPT !.pc = "confirmed", !.saw = dir.path, !.keep = keep]
    <3>1. cmd[c] \in CommandState
      BY <1>5 DEF IdentityTypeOK
    <3>2. confirmed \in CommandState
      BY <2>1, <2>2, <3>1 DEF CommandState
    <3>3. cmd' = [cmd EXCEPT ![c] = confirmed]
      BY <2>1 DEF IdentityTypeOK, CommandState
    <3> QED
      BY <1>5, <3>2, <3>3 DEF IdentityTypeOK
  <2> QED
    BY <1>5, <2>1, <2>3 DEF IdentityTypeOK, OldIsFile, HoldsOld, Confirm, At, CommandState
<1>6. ASSUME NEW c \in Commands, Recheck(c) PROVE IdentityTypeOK' /\ OldIsFile'
  BY <1>6 DEF IdentityTypeOK, OldIsFile, HoldsOld, Recheck, Goes, At, CommandState
<1>7. ASSUME NEW c \in Commands, Prepare(c) PROVE IdentityTypeOK' /\ OldIsFile'
  <2>1. dir' \in Entries /\ survives' \subseteq Entries
    BY <1>7, PointsToTyped DEF Prepare, Refused, IdentityTypeOK, CommandState
  <2>2. dir.path \in File
    BY DEF IdentityTypeOK, Entries
  <2> QED
    BY <1>7, <2>1, <2>2 DEF IdentityTypeOK, OldIsFile, HoldsOld, Prepare, Refused, Goes, At, CommandState
<1>8. ASSUME NEW c \in Commands, Rename(c) PROVE IdentityTypeOK' /\ OldIsFile'
  <2>1. dir' \in Entries /\ survives' \subseteq Entries
    BY <1>8, PointsToTyped DEF Rename, IdentityTypeOK
  <2> QED
    BY <1>8, <2>1 DEF IdentityTypeOK, OldIsFile, HoldsOld, Rename, Goes, At, CommandState
<1>9. ASSUME NEW c \in Commands, SyncDirectory(c) PROVE IdentityTypeOK' /\ OldIsFile'
  <2>1. PICK ok \in BOOLEAN :
          /\ survives' = IF ok THEN Synced ELSE survives
          /\ cmd' = [cmd EXCEPT ![c].pc = IF cmd[c].keep THEN "named" ELSE "synced",
                                ![c].durable = ok]
    BY <1>9 DEF SyncDirectory
  <2>2. survives' \subseteq Entries
    BY <2>1 DEF IdentityTypeOK, Synced
  <2> DEFINE synced == [cmd[c] EXCEPT !.pc = IF cmd[c].keep THEN "named" ELSE "synced", !.durable = ok]
  <2>3. cmd[c] \in CommandState
    BY <1>9 DEF IdentityTypeOK
  <2>4. synced \in CommandState
    BY <2>1, <2>3 DEF CommandState
  <2>5. cmd' = [cmd EXCEPT ![c] = synced]
    BY <2>1 DEF IdentityTypeOK, CommandState
  <2>6. IdentityTypeOK'
    BY <1>9, <2>2, <2>4, <2>5 DEF IdentityTypeOK, SyncDirectory
  <2>7. /\ synced.fd = cmd[c].fd /\ synced.keep = cmd[c].keep
        /\ synced.pc = IF cmd[c].keep THEN "named" ELSE "synced"
    BY <2>3 DEF CommandState
  <2> HIDE DEF synced
  <2>8. cmd'[c] = synced /\ \A d \in Commands : d # c => cmd'[d] = cmd[d]
    BY <2>5 DEF IdentityTypeOK
  <2>9. cmd[c].pc = "renamed"
    BY <1>9 DEF SyncDirectory, At
  <2>10. OldIsFile'
    BY <2>7, <2>8, <2>9 DEF OldIsFile, HoldsOld, At
  <2> QED
    BY <2>6, <2>10
<1>10. ASSUME NEW c \in Commands, Scrub(c) PROVE IdentityTypeOK' /\ OldIsFile'
  <2>1. cmd[c].fd # Nothing
    <3>1. cmd[c].pc = "synced"
      BY <1>10 DEF Scrub, At
    <3>2. cmd[c].pc = "synced" => ~cmd[c].keep
      BY <1>10 DEF OldIsFile, At
    <3>3. cmd[c].pc = "synced" /\ ~cmd[c].keep => cmd[c].fd # Nothing
      BY <1>10 DEF OldIsFile, HoldsOld
    <3> QED
      BY <3>1, <3>2, <3>3
  <2>2. cmd[c].fd \in Secrets
    BY <2>1 DEF IdentityTypeOK, CommandState
  <2> QED
    BY <1>10, <2>2 DEF IdentityTypeOK, OldIsFile, HoldsOld, Scrub, Goes, At, CommandState
<1>11. ASSUME NEW c \in Commands, TellNew(c) PROVE IdentityTypeOK' /\ OldIsFile'
  <2>1. cmd' = [cmd EXCEPT ![c].pc = "told", ![c].answer = c]
    BY <1>11 DEF TellNew, Tells
  <2>2. cmd' \in [Commands -> CommandState]
    <3> DEFINE told == [cmd[c] EXCEPT !.pc = "told", !.answer = c]
    <3>1. cmd[c] \in CommandState /\ c \in File
      BY <1>11 DEF IdentityTypeOK
    <3>2. told \in CommandState
      BY <3>1 DEF CommandState
    <3>3. cmd' = [cmd EXCEPT ![c] = told]
      BY <1>11, <2>1 DEF IdentityTypeOK, CommandState
    <3> QED
      BY <1>11, <3>2, <3>3 DEF IdentityTypeOK
  <2> QED
    BY <1>11, <2>1, <2>2 DEF IdentityTypeOK, OldIsFile, HoldsOld, TellNew, At
<1>12. ASSUME NEW c \in Commands, Kill(c) PROVE IdentityTypeOK' /\ OldIsFile'
  BY <1>12 DEF IdentityTypeOK, OldIsFile, HoldsOld, Kill, Goes, At, CommandState
<1>13. CASE LosePower
  <2>1. dir' \in Entries /\ survives' \subseteq Entries
    BY <1>13 DEF LosePower, IdentityTypeOK
  <2>2. cmd' \in [Commands -> CommandState]
    BY <1>13 DEF LosePower, IdentityTypeOK, CommandState
  <2>3. OldIsFile'
    BY <1>13 DEF LosePower, IdentityTypeOK, OldIsFile, HoldsOld, At, CommandState
  <2> QED
    BY <1>13, <2>1, <2>2, <2>3 DEF LosePower, IdentityTypeOK
<1>14. CASE UNCHANGED identityVars
  BY <1>14 DEF IdentityTypeOK, OldIsFile, HoldsOld, At, identityVars
<1> QED
  BY <1>1, <1>2, <1>3, <1>4, <1>5, <1>6, <1>7, <1>8, <1>9, <1>10, <1>11, <1>12, <1>13, <1>14 DEF IdentityNext

\* The initial state satisfies the invariant.
LEMMA IdentityInitInv == IdentityInit => IdentityInv
<1> SUFFICES ASSUME IdentityInit PROVE IdentityInv
  OBVIOUS
<1>1. dir \in Entries
  BY DEF IdentityInit, Entries, File, Secrets
<1>2. IdentityTypeOK
  BY <1>1 DEF IdentityInit, IdentityTypeOK, CommandState, Entries, File, Secrets
<1>3. OldIsFile /\ OldIsGone
  BY DEF IdentityInit, OldIsFile, HoldsOld, OldIsGone, At
<1>4. PlacedOnce /\ PoweredWhole
  BY FilesAssumption DEF IdentityInit, PlacedOnce, PoweredWhole
<1> QED
  BY <1>2, <1>3, <1>4 DEF IdentityInv

-----------------------------------------------------------------------------
(* What may stand at the path                                              *)

\* Until the power fails no scrubbed file is at the path.
LEMMA WholeStep == IdentityInv /\ [IdentityNext]_identityVars => PoweredWhole'
<1> SUFFICES ASSUME IdentityInv, [IdentityNext]_identityVars PROVE PoweredWhole'
  OBVIOUS
<1> USE DEF IdentityInv
<1>1. ASSUME NEW c \in Commands, Link(c) PROVE PoweredWhole'
  <2>1. CASE LinkTakes
    <3>1. PointsTo("path", c) /\ c \notin scrubbed
      BY <1>1, <2>1 DEF Link, PlacedOnce, MayPlace, At
    <3> QED
      BY <1>1, <3>1, PathTakesFile DEF Link, PoweredWhole
  <2>2. CASE ~LinkTakes
    BY <1>1, <2>2 DEF Link, PoweredWhole
  <2> QED
    BY <2>1, <2>2
<1>2. ASSUME NEW c \in Commands, Prepare(c) PROVE PoweredWhole'
  <2>1. UNCHANGED <<scrubbed, outage>> /\ (PointsTo("old", cmd[c].saw) \/ UNCHANGED <<dir, survives>>)
    BY <1>2 DEF Prepare, Refused
  <2> QED
    BY <2>1, OldKeepsPath DEF PoweredWhole
<1>3. ASSUME NEW c \in Commands, Rename(c) PROVE PoweredWhole'
  <2>1. c \notin scrubbed /\ UNCHANGED <<scrubbed, outage>>
    BY <1>3 DEF Rename, PlacedOnce, MayPlace, At
  <2>2. \/ PointsTo("path", c) \/ PointsTo("old", Nothing) \/ UNCHANGED <<dir, survives>>
    BY <1>3 DEF Rename
  <2> QED
    BY <2>1, <2>2, PathTakesFile, OldKeepsPath DEF PoweredWhole
<1>4. ASSUME NEW c \in Commands, SyncDirectory(c) PROVE PoweredWhole'
  <2>1. survives' \in {{dir}, survives}
    BY <1>4 DEF SyncDirectory, Synced
  <2> QED
    BY <1>4, <2>1 DEF SyncDirectory, PoweredWhole
<1>5. ASSUME NEW c \in Commands, Scrub(c) PROVE PoweredWhole'
  <2>1. dir.path # cmd[c].fd
    BY <1>5 DEF Scrub, OldIsGone, OldIsFile, At
  <2> QED
    BY <1>5, <2>1 DEF Scrub, PoweredWhole
<1>6. CASE LosePower
  BY <1>6 DEF LosePower, PoweredWhole
<1>7. CASE UNCHANGED <<dir, survives, scrubbed, outage>>
  BY <1>7 DEF PoweredWhole
<1> QED
  BY <1>1, <1>2, <1>3, <1>4, <1>5, <1>6, <1>7
  DEF IdentityNext, Ensure, WriteTemp, LoadWinner, Confirm, Recheck, TellNew, Kill, identityVars

-----------------------------------------------------------------------------
(* A secret takes the path at most once                                    *)

\* No step of a command makes it able to place its secret again, and the inode a command
\* holds is the one it held, none, or the file at the path.
LEMMA CommandSteps ==
  ASSUME IdentityTypeOK, [IdentityNext]_identityVars
  PROVE  \A d \in Commands : /\ MayPlace(d)' => MayPlace(d) /\ cmd'[d].durable = cmd[d].durable
                             /\ cmd'[d].fd \in {cmd[d].fd, Nothing, dir.path}
<1>1. ASSUME NEW c \in Commands,
             \/ Ensure(c) \/ WriteTemp(c) \/ Link(c) \/ LoadWinner(c) \/ Confirm(c) \/ Recheck(c)
      PROVE  \A d \in Commands : /\ MayPlace(d)' => MayPlace(d) /\ cmd'[d].durable = cmd[d].durable
                                 /\ cmd'[d].fd = cmd[d].fd
  BY <1>1 DEF IdentityTypeOK, CommandState, MayPlace, Ensure, WriteTemp, Link, LoadWinner, Confirm,
              Recheck, Tells, Goes, At
<1>2. ASSUME NEW c \in Commands, Prepare(c)
      PROVE  \A d \in Commands : /\ MayPlace(d)' => MayPlace(d) /\ cmd'[d].durable = cmd[d].durable
                                 /\ cmd'[d].fd \in {cmd[d].fd, Nothing, dir.path}
  BY <1>2 DEF IdentityTypeOK, CommandState, MayPlace, Prepare, Refused, Goes, At
<1>3. ASSUME NEW c \in Commands,
             Rename(c) \/ SyncDirectory(c) \/ Scrub(c) \/ TellNew(c) \/ Kill(c)
      PROVE  \A d \in Commands : /\ MayPlace(d)' => MayPlace(d) /\ cmd'[d].durable = cmd[d].durable
                                 /\ cmd'[d].fd = cmd[d].fd
  BY <1>3 DEF IdentityTypeOK, CommandState, MayPlace, Rename, SyncDirectory, Scrub, TellNew, Kill,
              Tells, Goes, At
<1>4. CASE LosePower
  BY <1>4 DEF LosePower, IdentityTypeOK, CommandState, MayPlace
<1>5. CASE UNCHANGED identityVars
  BY <1>5 DEF identityVars, MayPlace
<1> QED
  BY <1>1, <1>2, <1>3, <1>4, <1>5 DEF IdentityNext

\* The step that places a secret takes the right to place it away.
LEMMA PlacedStep == IdentityInv /\ [IdentityNext]_identityVars => PlacedOnce'
<1> SUFFICES ASSUME IdentityInv, [IdentityNext]_identityVars, NEW d \in Commands, MayPlace(d)'
             PROVE  /\ \A e \in survives' : e.path # d
                    /\ d \notin scrubbed'
                    /\ \A c \in Commands : cmd'[c].fd # d
                    /\ ~cmd'[d].durable
  BY DEF PlacedOnce
<1> USE DEF IdentityInv
<1>1. /\ MayPlace(d) /\ cmd'[d].durable = cmd[d].durable
      /\ \A c \in Commands : cmd'[c].fd \in {cmd[c].fd, Nothing, dir.path}
  BY CommandSteps
<1>2. /\ \A e \in survives : e.path # d
      /\ d \notin scrubbed /\ \A c \in Commands : cmd[c].fd # d
      /\ ~cmd[d].durable
  BY <1>1 DEF PlacedOnce
<1>3. \A c \in Commands : cmd'[c].fd # d
  BY <1>1, <1>2, FilesAssumption DEF PoweredWhole
<1>4. d \notin scrubbed'
  <2>1. ASSUME NEW c \in Commands, Scrub(c) PROVE d \notin scrubbed'
    <3>1. cmd[c].fd # d
      BY <1>2
    <3> QED
      BY <1>2, <2>1, <3>1 DEF Scrub
  <2>2. CASE UNCHANGED scrubbed
    BY <1>2, <2>2
  <2> QED
    BY <2>1, <2>2
    DEF IdentityNext, Ensure, WriteTemp, Link, LoadWinner, Confirm, Recheck, Prepare, Rename,
        SyncDirectory, TellNew, Kill, LosePower, identityVars
<1>5. \A e \in survives' : e.path # d
  <2>1. ASSUME NEW c \in Commands, Link(c) PROVE \A e \in survives' : e.path # d
    <3>1. LinkTakes => c # d
      BY <2>1 DEF Link, Goes, MayPlace, IdentityTypeOK, CommandState
    <3> QED
      BY <1>2, <2>1, <3>1, PathTakesFile DEF Link
  <2>2. ASSUME NEW c \in Commands, Prepare(c) PROVE \A e \in survives' : e.path # d
    BY <1>2, <2>2, OldKeepsPath DEF Prepare, Refused
  <2>3. ASSUME NEW c \in Commands, Rename(c) PROVE \A e \in survives' : e.path # d
    <3>1. c # d
      BY <2>3 DEF Rename, Goes, MayPlace, IdentityTypeOK, CommandState
    <3> QED
      BY <1>2, <2>3, <3>1, PathTakesFile, OldKeepsPath DEF Rename
  <2>4. ASSUME NEW c \in Commands, SyncDirectory(c) PROVE \A e \in survives' : e.path # d
    <3>1. survives' \in {{dir}, survives} /\ dir \in survives
      BY <2>4 DEF SyncDirectory, Synced, PoweredWhole
    <3> QED
      BY <1>2, <3>1
  <2>5. CASE LosePower
    BY <1>2, <2>5 DEF LosePower
  <2>6. CASE UNCHANGED survives
    BY <1>2, <2>6
  <2> QED
    BY <2>1, <2>2, <2>3, <2>4, <2>5, <2>6
    DEF IdentityNext, Ensure, WriteTemp, LoadWinner, Confirm, Recheck, Scrub, TellNew, Kill, identityVars
<1> QED
  BY <1>1, <1>2, <1>3, <1>4, <1>5

-----------------------------------------------------------------------------
(* The old inode has left                                                  *)

\* Between the rename and the scrub nothing brings the old file back to the path: another
\* command's rename puts its own new secret there.  After an fsync that succeeded not even
\* a loss of power does.
LEMMA OldStep == IdentityInv /\ [IdentityNext]_identityVars => OldIsGone'
<1> DEFINE Left(d) == cmd[d].pc \in {"renamed", "synced"} /\ ~cmd[d].keep => dir.path # cmd[d].fd
           Gone(d) == cmd[d].durable /\ cmd[d].fd # Nothing => \A e \in survives : e.path # cmd[d].fd
<1> SUFFICES ASSUME IdentityInv, [IdentityNext]_identityVars, NEW d \in Commands
             PROVE  Left(d)' /\ Gone(d)'
  BY DEF OldIsGone
<1> USE DEF IdentityInv
<1>1. Left(d) /\ Gone(d)
  BY DEF OldIsGone
\* The commands that stand where they stood, with an inode that no one may place.
<1>2. ASSUME NEW c \in Commands, Link(c) PROVE Left(d)' /\ Gone(d)'
  <2>1. /\ cmd'[d].pc \in {"renamed", "synced"} => cmd'[d] = cmd[d]
        /\ cmd'[d].fd = cmd[d].fd /\ cmd'[d].durable = cmd[d].durable
    BY <1>2 DEF Link, Goes, IdentityTypeOK, CommandState
  <2>2. LinkTakes => cmd[d].fd # c
    BY <1>2 DEF Link, PlacedOnce, MayPlace, At
  <2> QED
    BY <1>1, <1>2, <2>1, <2>2, PathTakesFile DEF Link
<1>3. ASSUME NEW c \in Commands, Prepare(c) PROVE Left(d)' /\ Gone(d)'
  <2>1. /\ cmd'[d].pc \in {"renamed", "synced"} => cmd'[d] = cmd[d]
        /\ d # c => cmd'[d] = cmd[d]
    BY <1>3 DEF Prepare, Goes, IdentityTypeOK, CommandState
  <2>2. ~cmd'[c].durable
    <3>1. ~cmd[c].durable
      BY <1>3 DEF Prepare, PlacedOnce, MayPlace, At
    <3>2. cmd'[c].durable = cmd[c].durable
      BY <1>3 DEF Prepare, Goes, IdentityTypeOK, CommandState
    <3> QED
      BY <3>1, <3>2
  <2>3. dir'.path = dir.path /\ \A e \in survives' : \E f \in survives : e.path = f.path
    BY <1>3, OldKeepsPath DEF Prepare, Refused
  <2>4. Left(d)'
    BY <1>1, <2>1, <2>3
  <2>5. CASE d = c
    BY <2>2, <2>4, <2>5
  <2>6. CASE d # c
    BY <1>1, <2>1, <2>3, <2>4, <2>6
  <2> QED
    BY <2>5, <2>6
<1>4. ASSUME NEW c \in Commands, Rename(c) PROVE Left(d)' /\ Gone(d)'
  <2>1. cmd[d].fd # c
    BY <1>4 DEF Rename, PlacedOnce, MayPlace, At
  <2>2. cmd'[d].fd = cmd[d].fd /\ cmd'[d].durable = cmd[d].durable
    BY <1>4 DEF Rename, Goes, IdentityTypeOK, CommandState
  <2>3. CASE PointsTo("path", c) /\ Goes(c, "renamed")
    BY <1>1, <2>1, <2>2, <2>3, PathTakesFile
  <2>4. CASE Goes(c, "failed") /\ (PointsTo("old", Nothing) \/ UNCHANGED <<dir, survives>>)
    <3>1. cmd'[d].pc \in {"renamed", "synced"} => cmd'[d] = cmd[d]
      BY <2>4 DEF Goes, IdentityTypeOK, CommandState
    <3> QED
      BY <1>1, <2>2, <2>4, <3>1, OldKeepsPath
  <2> QED
    BY <1>4, <2>3, <2>4 DEF Rename
<1>5. ASSUME NEW c \in Commands, SyncDirectory(c) PROVE Left(d)' /\ Gone(d)'
  <2>1. PICK ok \in BOOLEAN :
          /\ survives' = IF ok THEN Synced ELSE survives
          /\ cmd' = [cmd EXCEPT ![c].pc = IF cmd[c].keep THEN "named" ELSE "synced",
                                ![c].durable = ok]
    BY <1>5 DEF SyncDirectory
  <2>2. /\ cmd'[d].fd = cmd[d].fd /\ cmd'[d].keep = cmd[d].keep
        /\ d # c => cmd'[d] = cmd[d]
        /\ d = c => cmd'[d].durable = ok
    BY <2>1 DEF IdentityTypeOK, CommandState
  <2>3. cmd[c].pc = "renamed" /\ dir' = dir /\ dir \in survives
    BY <1>5 DEF SyncDirectory, At, PoweredWhole
  <2>4. Left(d)'
    <3>1. CASE d = c
      BY <1>1, <2>2, <2>3, <3>1
    <3>2. CASE d # c
      BY <1>1, <2>2, <2>3, <3>2
    <3> QED
      BY <3>1, <3>2
  <2>5. Gone(d)'
    <3>1. CASE ok /\ d = c
      <4>1. survives' = {dir}
        BY <2>1, <3>1 DEF Synced
      <4>2. cmd[d].fd # Nothing => ~cmd[d].keep
        <5>1. cmd[c].pc = "renamed" /\ cmd[c].keep => cmd[c].fd = Nothing
          BY <2>3 DEF OldIsFile, At
        <5> QED
          BY <2>3, <3>1, <5>1
      <4> QED
        BY <1>1, <2>2, <2>3, <3>1, <4>1, <4>2
    <3>2. CASE ok /\ d # c
      <4>1. survives' = {dir}
        BY <2>1, <3>2 DEF Synced
      <4> QED
        BY <1>1, <2>2, <2>3, <3>2, <4>1
    <3>3. CASE ~ok
      <4>1. survives' = survives
        BY <2>1, <3>3
      <4> QED
        BY <1>1, <2>2, <3>3, <4>1
    <3> QED
      BY <2>1, <3>1, <3>2, <3>3
  <2> QED
    BY <2>4, <2>5
<1>6. ASSUME NEW c \in Commands,
             \/ Ensure(c) \/ WriteTemp(c) \/ LoadWinner(c) \/ Confirm(c) \/ Recheck(c)
             \/ Scrub(c) \/ TellNew(c) \/ Kill(c)
      PROVE  Left(d)' /\ Gone(d)'
  <2>1. /\ cmd'[d].pc \in {"renamed", "synced"} => cmd'[d] = cmd[d]
        /\ cmd'[d].fd = cmd[d].fd /\ cmd'[d].durable = cmd[d].durable
    BY <1>6 DEF IdentityTypeOK, CommandState, Ensure, WriteTemp, LoadWinner, Confirm, Recheck, Scrub,
                TellNew, Kill, Tells, Goes, At
  <2>2. UNCHANGED <<dir, survives>>
    BY <1>6 DEF Ensure, WriteTemp, LoadWinner, Confirm, Recheck, Scrub, TellNew, Kill
  <2> QED
    BY <1>1, <2>1, <2>2
<1>7. CASE LosePower
  <2>1. /\ cmd'[d].pc \notin {"renamed", "synced"}
        /\ cmd'[d].fd = cmd[d].fd /\ cmd'[d].durable = cmd[d].durable
    BY <1>7 DEF LosePower, IdentityTypeOK, CommandState, Running, At
  <2>2. survives' \subseteq survives
    BY <1>7 DEF LosePower
  <2> QED
    BY <1>1, <2>1, <2>2
<1>8. CASE UNCHANGED identityVars
  <2>1. cmd' = cmd /\ dir' = dir /\ survives' = survives
    BY <1>8 DEF identityVars
  <2> QED
    BY <1>1, <2>1
<1> QED
  BY <1>2, <1>3, <1>4, <1>5, <1>6, <1>7, <1>8 DEF IdentityNext

-----------------------------------------------------------------------------
\* The invariant holds in every reachable state.
THEOREM IdentityInvHolds == IdentitySpec => []IdentityInv
<1>1. IdentityInv /\ [IdentityNext]_identityVars => IdentityInv'
  BY IdentityTypeStep, WholeStep, PlacedStep, OldStep DEF IdentityInv
<1> QED
  BY IdentityInitInv, <1>1, PTL DEF IdentitySpec

\* Every variable keeps its type, for any number of commands.
THEOREM IdentityTypeCorrect == IdentitySpec => []IdentityTypeOK
<1> QED
  BY IdentityInvHolds, PTL DEF IdentityInv

\* Whatever commands overlap, and wherever they are killed or the power fails, the file at
\* the secret's path is never one whose bytes were overwritten, unless the power failed and
\* no command that took that file from the path could fsync the directory.
THEOREM PathIsWhole == IdentitySpec => []NeverGarbage
<1>1. IdentityInv => NeverGarbage
  <2> SUFFICES ASSUME IdentityInv, dir.path \in scrubbed
               PROVE  outage /\ \A c \in Commands : cmd[c].fd = dir.path => ~cmd[c].durable
    BY DEF NeverGarbage
  <2>1. dir.path # Nothing
    BY FilesAssumption DEF IdentityInv, IdentityTypeOK, Secrets
  <2>2. ASSUME NEW c \in Commands, cmd[c].fd = dir.path PROVE ~cmd[c].durable
    BY <2>1, <2>2 DEF IdentityInv, OldIsGone, PoweredWhole
  <2>3. outage
    BY Zenon DEF IdentityInv, PoweredWhole, IdentityTypeOK
  <2> QED
    BY <2>2, <2>3
<1> QED
  BY <1>1, IdentityInvHolds, PTL

-----------------------------------------------------------------------------
(* The locator                                                             *)

\* What one call's part of the invariant comes to.
OwnTruth(c) ==
    /\ call[c].op = "exists" /\ call[c].at \in {"ok", "absent"} => (call[c].at = "ok") \in during[c]
    /\ call[c].op = "ensureIndex" /\ call[c].at = "ok" => TRUE \in during[c]
OwnPart(c) == OwnName(c) /\ Witnessed(c) /\ OwnTruth(c)

LEMMA InvByCall ==
  LocatorInv <=> LocatorTypeOK /\ OneCatalog /\ CatalogAsked /\ \A c \in Calls : OwnPart(c)
  BY Zenon DEF LocatorInv, OwnPart, OwnTruth, AnswerWasTrue

\* A change of the account reaches the history of every call in progress.
LEMMA BecomesSeen ==
  ASSUME LocatorTypeOK, NEW databases \in SUBSET Names, Becomes(databases), NEW d \in Calls
  PROVE  /\ during'[d] \in SUBSET BOOLEAN
         /\ call[d].at # "idle" => during[d] \subseteq during'[d]
                                   /\ (call[d].name \in databases) \in during'[d]
<1>1. during'[d] = IF call[d].at = "idle" THEN {} ELSE during[d] \cup {call[d].name \in databases}
  BY DEF Becomes
<1> DEFINE b == call[d].name \in databases
<1>2. b \in BOOLEAN
  OBVIOUS
<1> HIDE DEF b
<1>3. during'[d] = IF call[d].at = "idle" THEN {} ELSE during[d] \cup {b}
  BY <1>1 DEF b
<1>4. during'[d] \in SUBSET BOOLEAN /\ (call[d].at # "idle" => during[d] \subseteq during'[d] /\ b \in during'[d])
  BY <1>2, <1>3 DEF LocatorTypeOK
<1> QED
  BY <1>4 DEF b

\* A call that does not move keeps its part, whatever becomes of the account.
LEMMA OwnKept ==
  ASSUME LocatorTypeOK, NEW d \in Calls, OwnPart(d), call'[d] = call[d],
         \/ cloud' = cloud /\ during'[d] = during[d]
         \/ \E databases \in SUBSET Names : Becomes(databases)
  PROVE  OwnPart(d)'
<1>1. CASE cloud' = cloud /\ during'[d] = during[d]
  BY <1>1 DEF OwnPart, OwnName, Witnessed, OwnTruth, Asks
<1>2. ASSUME NEW databases \in SUBSET Names, Becomes(databases) PROVE OwnPart(d)'
  <2>1. cloud' = databases
    BY <1>2 DEF Becomes
  <2>2. call[d].at # "idle" => during[d] \subseteq during'[d] /\ (call[d].name \in cloud') \in during'[d]
    BY <1>2, <2>1, BecomesSeen
  <2>3. Asks(d) => call[d].at # "idle"
    BY DEF OwnPart, OwnName, Asks
  <2>4. Asks(d)' <=> Asks(d)
    BY DEF Asks
  <2>5. OwnName(d)'
    BY <2>4 DEF OwnPart, OwnName
  <2>6. Witnessed(d)'
    BY <2>2, <2>3, <2>4 DEF OwnPart, Witnessed
  <2>7. OwnTruth(d)'
    BY <2>2, <2>3 DEF OwnPart, OwnTruth
  <2> QED
    BY <2>5, <2>6, <2>7 DEF OwnPart
<1> QED
  BY <1>1, <1>2

\* The account and the memo change, and no call moves.
LEMMA AccountStep ==
  ASSUME LocatorInv, call' = call, known' \subseteq known,
         \/ cloud' = cloud /\ during' = during
         \/ \E databases \in SUBSET Names : Becomes(databases)
  PROVE  LocatorInv'
<1>1. LocatorTypeOK /\ OneCatalog /\ CatalogAsked /\ \A c \in Calls : OwnPart(c)
  BY InvByCall
<1>2. OneCatalog'
  BY <1>1 DEF OneCatalog
<1>3. CatalogAsked'
  BY <1>1 DEF CatalogAsked
<1>4. ASSUME NEW d \in Calls PROVE OwnPart(d)'
  BY <1>1, OwnKept
<1>5. cloud' \subseteq Names /\ during' \in [Calls -> SUBSET BOOLEAN]
  <2>1. CASE cloud' = cloud /\ during' = during
    BY <1>1, <2>1 DEF LocatorTypeOK
  <2>2. ASSUME NEW databases \in SUBSET Names, Becomes(databases) PROVE cloud' \subseteq Names /\ during' \in [Calls -> SUBSET BOOLEAN]
    <3>1. \A d \in Calls : during'[d] \in SUBSET BOOLEAN
      BY <1>1, <2>2, BecomesSeen
    <3> QED
      BY <2>2, <3>1 DEF Becomes
  <2> QED
    BY <2>1, <2>2
<1>6. LocatorTypeOK'
  BY <1>1, <1>5 DEF LocatorTypeOK
<1> QED
  BY <1>2, <1>3, <1>4, <1>6 DEF LocatorInv, OwnPart, OwnTruth, AnswerWasTrue

\* One call moves, and the account with it or not.
LEMMA CallStep ==
  ASSUME LocatorInv, NEW c \in Calls,
         call' \in [Calls -> LocatorCall], known' \subseteq Names,
         \A d \in Calls : d # c => call'[d] = call[d],
         \/ /\ cloud' = cloud /\ during' \in [Calls -> SUBSET BOOLEAN]
            /\ \A d \in Calls : d # c => during'[d] = during[d]
         \/ \E databases \in SUBSET Names : Becomes(databases),
         OwnPart(c)',
         call'[c].op = "ensureIndex" => \A d \in Calls : call[d].op = "ensureIndex" => d = c,
         call'[c].op = "ensureIndex" /\ call'[c].at \in {"post", "get"} => IndexName \notin known',
         IndexName \in known' => IndexName \in known \/ call[c].op = "ensureIndex"
  PROVE  LocatorInv'
<1>1. LocatorTypeOK /\ OneCatalog /\ CatalogAsked /\ \A d \in Calls : OwnPart(d)
  BY InvByCall
<1>2. OneCatalog'
  BY <1>1 DEF OneCatalog
<1>3. CatalogAsked'
  BY <1>1 DEF CatalogAsked, OneCatalog
<1>4. ASSUME NEW d \in Calls PROVE OwnPart(d)'
  <2>1. CASE d = c
    BY <2>1
  <2>2. CASE d # c
    BY <1>1, <2>2, OwnKept
  <2> QED
    BY <2>1, <2>2
<1>5. cloud' \subseteq Names /\ during' \in [Calls -> SUBSET BOOLEAN]
  <2>1. CASE cloud' = cloud /\ during' \in [Calls -> SUBSET BOOLEAN]
    BY <1>1, <2>1 DEF LocatorTypeOK
  <2>2. ASSUME NEW databases \in SUBSET Names, Becomes(databases)
        PROVE  cloud' \subseteq Names /\ during' \in [Calls -> SUBSET BOOLEAN]
    <3>1. \A d \in Calls : during'[d] \in SUBSET BOOLEAN
      BY <1>1, <2>2, BecomesSeen
    <3> QED
      BY <2>2, <3>1 DEF Becomes
  <2> QED
    BY <2>1, <2>2
<1>6. LocatorTypeOK'
  BY <1>5 DEF LocatorTypeOK
<1> QED
  BY <1>2, <1>3, <1>4, <1>6 DEF LocatorInv, OwnPart, OwnTruth, AnswerWasTrue

\* A call begins: its history starts with what is so now.
LEMMA BeginsStep ==
  ASSUME LocatorInv, NEW c \in Calls, NEW n \in Names,
         NEW op \in {"ensure", "ensureIndex", "exists", "ready", "drop", "dropScope"},
         NEW at \in {"ok", "post", "get", "probe", "delete", "list"},
         op \in {"ensure", "ensureIndex", "exists"} => at \in {"ok", "post", "get"},
         Begun(c, op, n, at), known' \subseteq known,
         op \in {"ready", "drop", "dropScope"} => at \notin {"get", "post"},
         op \in {"ensure", "exists"} => n # IndexName,
         op = "exists" => at = "get",
         op = "ensureIndex" => /\ n = IndexName /\ at = "post" /\ IndexName \notin known'
                               /\ \A d \in Calls : call[d].op # "ensureIndex"
  PROVE  LocatorInv'
<1>1. LocatorTypeOK /\ OneCatalog
  BY DEF LocatorInv
<1> DEFINE new == [op |-> op, name |-> n, at |-> at, reply |-> "none", todo |-> {}]
           b == n \in cloud
<1>2. new \in LocatorCall /\ b \in BOOLEAN
  BY DEF LocatorCall
<1>3. new.op = op /\ new.name = n /\ new.at = at /\ new.reply = "none"
  OBVIOUS
<1>4. call' = [call EXCEPT ![c] = new] /\ during' = [during EXCEPT ![c] = {b}] /\ cloud' = cloud
  <2>1. UNCHANGED <<cloud, serving, outside>>
    BY Zenon DEF Begun
  <2>2. call' = [call EXCEPT ![c] = new] /\ during' = [during EXCEPT ![c] = {b}]
    BY Zenon DEF Begun, new, b
  <2> QED
    BY <2>1, <2>2
<1>5. b = (n \in cloud')
  BY <1>4
<1> HIDE DEF new, b
<1>6. call'[c] = new /\ during'[c] = {b}
  BY <1>1, <1>4 DEF LocatorTypeOK
<1>7. OwnPart(c)'
  BY <1>3, <1>5, <1>6 DEF OwnPart, OwnName, Witnessed, OwnTruth, Asks
<1>8. /\ call' \in [Calls -> LocatorCall] /\ during' \in [Calls -> SUBSET BOOLEAN]
      /\ known' \subseteq Names
      /\ \A d \in Calls : d # c => call'[d] = call[d] /\ during'[d] = during[d]
  BY <1>1, <1>2, <1>4 DEF LocatorTypeOK
<1> QED
  BY <1>3, <1>4, <1>6, <1>7, <1>8, CallStep

\* A call goes on, and its name, its operation and its history stay.
LEMMA OnwardPart ==
  ASSUME LocatorTypeOK, NEW c \in Calls, OwnPart(c), call[c].at # "idle",
         call'[c] \in LocatorCall, call'[c].op = call[c].op,
         call'[c].name = call[c].name \/ ~Asks(c),
         call'[c].at # "idle", Asks(c) => call'[c].at \in {"get", "post", "ok", "absent", "failed"},
         call'[c].at \in {"get", "post"} => Asks(c) /\ (call[c].op = "exists" => call'[c].at = "get"),
         cloud' = cloud, during' = during,
         call'[c].reply # "none" => \/ ~Asks(c)
                                    \/ call'[c].at = "get" /\ call'[c].reply = "found" /\ call[c].name \in cloud
                                    \/ call'[c].at = "get" /\ call'[c].reply = "absent" /\ call[c].name \notin cloud
                                    \/ call'[c].at = "post" /\ call'[c].reply = "conflict" /\ call[c].name \in cloud
                                    \/ call'[c].reply \in {"error", "refused"},
         call[c].op = "exists" /\ call'[c].at = "ok" => TRUE \in during[c],
         call[c].op = "exists" /\ call'[c].at = "absent" => FALSE \in during[c],
         call[c].op = "ensureIndex" /\ call'[c].at = "ok" => TRUE \in during[c]
  PROVE  OwnPart(c)'
<1>1. Asks(c)' <=> Asks(c)
  BY DEF Asks
<1>2. OwnName(c)'
  BY <1>1 DEF OwnPart, OwnName, Asks
<1>3. OwnTruth(c)'
  BY DEF OwnTruth
<1> DEFINE b == call[c].name \in cloud
<1>4. Asks(c) => b \in during[c]
  BY DEF OwnPart, Witnessed
<1>5. Asks(c) => (call'[c].name \in cloud') = b
  OBVIOUS
<1>6. b \in BOOLEAN
  OBVIOUS
<1>7. Asks(c) => (call'[c].name \in cloud') \in during'[c]
  BY <1>4, <1>5
<1>8. Asks(c) /\ b => TRUE \in during[c]
  BY <1>4, <1>6
<1>9. Asks(c) /\ ~b => FALSE \in during[c]
  BY <1>4, <1>6
<1>10. call'[c].at \in {"get", "post"} => Asks(c)
  OBVIOUS
<1>11. Witnessed(c)'
  BY <1>1, <1>7, <1>8, <1>9, <1>10 DEF Witnessed
<1> QED
  BY <1>2, <1>3, <1>11 DEF OwnPart

\* A call goes on while the account stays.
LEMMA OnwardStep ==
  ASSUME LocatorInv, NEW c \in Calls, NEW next \in LocatorCall, call' = [call EXCEPT ![c] = next],
         call[c].at # "idle", next.op = call[c].op, next.name = call[c].name \/ ~Asks(c),
         next.at # "idle", Asks(c) => next.at \in {"get", "post", "ok", "absent", "failed"},
         next.at \in {"get", "post"} => Asks(c) /\ (call[c].op = "exists" => next.at = "get"),
         cloud' = cloud, during' = during, known' \subseteq Names,
         next.reply # "none" => \/ ~Asks(c)
                                \/ next.at = "get" /\ next.reply = "found" /\ call[c].name \in cloud
                                \/ next.at = "get" /\ next.reply = "absent" /\ call[c].name \notin cloud
                                \/ next.at = "post" /\ next.reply = "conflict" /\ call[c].name \in cloud
                                \/ next.reply \in {"error", "refused"},
         call[c].op = "exists" /\ next.at = "ok" => TRUE \in during[c],
         call[c].op = "exists" /\ next.at = "absent" => FALSE \in during[c],
         call[c].op = "ensureIndex" /\ next.at = "ok" => TRUE \in during[c],
         IndexName \in known' => IndexName \in known \/ call[c].op = "ensureIndex",
         call[c].op = "ensureIndex" /\ next.at \in {"post", "get"} => IndexName \notin known'
  PROVE  LocatorInv'
<1>1. LocatorTypeOK /\ OneCatalog /\ \A d \in Calls : OwnPart(d)
  BY InvByCall
<1>2. call'[c] = next /\ call' \in [Calls -> LocatorCall] /\ during' \in [Calls -> SUBSET BOOLEAN]
  BY <1>1 DEF LocatorTypeOK
<1>3. \A d \in Calls : d # c => call'[d] = call[d] /\ during'[d] = during[d]
  BY <1>1 DEF LocatorTypeOK
<1>4. OwnPart(c)'
  BY <1>1, <1>2, OnwardPart
<1>5. call'[c].op = "ensureIndex" => \A d \in Calls : call[d].op = "ensureIndex" => d = c
  BY <1>1, <1>2 DEF OneCatalog
<1> QED
  BY <1>2, <1>3, <1>4, <1>5, CallStep

\* What a call under way is.
LEMMA CallFacts ==
  ASSUME LocatorInv, NEW c \in Calls
  PROVE  /\ call[c] \in LocatorCall /\ known \subseteq Names /\ call \in [Calls -> LocatorCall]
         /\ call[c].op = "none" <=> call[c].at = "idle"
         /\ call[c].at \in {"get", "post"} => Asks(c)
         /\ Asks(c) => call[c].at \in {"get", "post", "ok", "absent", "failed"}
         /\ call[c].op = "exists" => call[c].at # "post"
         /\ Asks(c) => (call[c].name = IndexName <=> call[c].op = "ensureIndex")
         /\ Witnessed(c)
         /\ call[c].op = "ensureIndex" /\ call[c].at \in {"post", "get"} => IndexName \notin known
  BY DEF LocatorInv, LocatorTypeOK, OwnName, CatalogAsked

LEMMA ExpireStep ==
  ASSUME LocatorInv, NEW n \in Names,
         OthersCreate(n) \/ OthersDelete(n) \/ Propagate(n) \/ Expire(n) \/ Forget(n)
  PROVE  LocatorInv'
<1>1. CASE OthersCreate(n)
  <2>1. cloud \union {n} \in SUBSET Names
    BY DEF LocatorInv, LocatorTypeOK
  <2> QED
    BY <1>1, <2>1, AccountStep DEF OthersCreate
<1>2. CASE OthersDelete(n)
  <2>1. cloud \ {n} \in SUBSET Names
    BY DEF LocatorInv, LocatorTypeOK
  <2> QED
    BY <1>2, <2>1, AccountStep DEF OthersDelete
<1>3. CASE Propagate(n) \/ Expire(n) \/ Forget(n)
  BY <1>3, AccountStep DEF Propagate, Expire, Forget
<1> QED
  BY <1>1, <1>2, <1>3

LEMMA BeginSteps ==
  ASSUME LocatorInv, NEW c \in Calls,
         \/ \E n \in Names \ {IndexName} : EnsureDatabase(c, n) \/ Exists(c, n)
         \/ \E n \in Names : AwaitReady(c, n) \/ DropStored(c, n)
         \/ EnsureIndex(c) \/ DropScope(c)
  PROVE  LocatorInv'
<1>1. ASSUME NEW n \in Names \ {IndexName}, EnsureDatabase(c, n) PROVE LocatorInv'
  <2> DEFINE at == IF n \in known THEN "ok" ELSE "post"
  <2>1. Begun(c, "ensure", n, at) /\ known' = known
    BY <1>1 DEF EnsureDatabase
  <2>2. at \in {"ok", "post"}
    OBVIOUS
  <2> HIDE DEF at
  <2> QED
    BY <1>1, <2>1, <2>2, BeginsStep
<1>2. ASSUME NEW n \in Names \ {IndexName}, Exists(c, n) PROVE LocatorInv'
  <2>1. Begun(c, "exists", n, "get") /\ known' = known
    BY <1>2 DEF Exists, AsksAgain
  <2> QED
    BY <1>2, <2>1, BeginsStep
<1>3. ASSUME NEW n \in Names, AwaitReady(c, n) PROVE LocatorInv'
  BY <1>3, BeginsStep DEF AwaitReady
<1>4. ASSUME NEW n \in Names, DropStored(c, n) PROVE LocatorInv'
  BY <1>4, BeginsStep DEF DropStored
<1>5. CASE EnsureIndex(c)
  <2>1. IndexName \notin known' /\ known' \subseteq known
    BY <1>5 DEF EnsureIndex, IndexMemo
  <2>2. Begun(c, "ensureIndex", IndexName, "post")
    BY <1>5, <2>1 DEF EnsureIndex
  <2>3. \A d \in Calls : call[d].op # "ensureIndex"
    BY <1>5 DEF EnsureIndex
  <2> QED
    BY <2>1, <2>2, <2>3, BeginsStep, CatalogAssumption
<1>6. CASE DropScope(c)
  BY <1>6, BeginsStep, CatalogAssumption DEF DropScope
<1> QED
  BY <1>1, <1>2, <1>3, <1>4, <1>5, <1>6

\* The account answers a creation: what it answers is so at that moment.
LEMMA PostStep ==
  ASSUME LocatorInv, NEW c \in Calls, Post(c)
  PROVE  LocatorInv'
<1>1. /\ call[c] \in LocatorCall /\ call[c].at = "post" /\ known' = known /\ Asks(c)
      /\ call[c].op # "exists" /\ LocatorTypeOK /\ OneCatalog /\ OwnPart(c)
  BY CallFacts, InvByCall DEF Post, Sent
<1>2. ASSUME NEW reply \in {"created", "conflict", "refused", "error"}, Settles(c, reply)
      PROVE  /\ call'[c] = [call[c] EXCEPT !.reply = reply] /\ call' \in [Calls -> LocatorCall]
             /\ call' = [call EXCEPT ![c] = [call[c] EXCEPT !.reply = reply]]
             /\ [call[c] EXCEPT !.reply = reply] \in LocatorCall
             /\ \A d \in Calls : d # c => call'[d] = call[d]
  <2>1. [call[c] EXCEPT !.reply = reply] \in LocatorCall
    BY <1>1 DEF LocatorCall
  <2> QED
    BY <1>1, <1>2, <2>1 DEF Settles, LocatorTypeOK
<1> DEFINE n == call[c].name
<1>3. CASE n \notin cloud /\ Becomes(cloud \union {n})
           /\ \E reply \in {"created", "error"} : Settles(c, reply)
  <2>1. cloud \union {n} \in SUBSET Names /\ cloud' = cloud \union {n}
    BY <1>1, <1>3 DEF LocatorTypeOK, LocatorCall, Becomes
  <2>2. during[c] \subseteq during'[c] /\ (n \in cloud \union {n}) \in during'[c]
    BY <1>1, <1>3, <2>1, BecomesSeen
  <2>3. TRUE \in during'[c] /\ (n \in cloud') \in during'[c]
    BY <2>1, <2>2
  <2>4. PICK reply \in {"created", "error"} : Settles(c, reply)
    BY <1>3
  <2>5. /\ call'[c].op = call[c].op /\ call'[c].name = n /\ call'[c].at = "post" /\ call'[c].reply = reply
        /\ call' \in [Calls -> LocatorCall] /\ \A d \in Calls : d # c => call'[d] = call[d]
    BY <1>1, <1>2, <2>4 DEF LocatorCall
  <2>6. OwnPart(c)'
    BY <1>1, <2>3, <2>5 DEF OwnPart, OwnName, Witnessed, OwnTruth, Asks
  <2>7. call'[c].op = "ensureIndex" => /\ \A d \in Calls : call[d].op = "ensureIndex" => d = c
                                       /\ IndexName \notin known
    BY <1>1, <2>5, CallFacts DEF OneCatalog
  <2> QED
    BY <1>1, <1>3, <2>1, <2>5, <2>6, <2>7, CallStep DEF LocatorTypeOK
<1>4. CASE UNCHANGED <<cloud, during>> /\ \E reply \in {"error", "refused"} : Settles(c, reply)
  <2>1. PICK reply \in {"error", "refused"} : Settles(c, reply)
    BY <1>4
  <2> DEFINE next == [call[c] EXCEPT !.reply = reply]
  <2>2. /\ next.op = call[c].op /\ next.name = n /\ next.at = "post" /\ next.reply = reply
        /\ next \in LocatorCall /\ call' = [call EXCEPT ![c] = next]
    BY <1>1, <1>2, <2>1 DEF LocatorCall
  <2> HIDE DEF next
  <2>3. call[c].op = "ensureIndex" => IndexName \notin known
    BY <1>1, CallFacts
  <2> QED
    BY <1>1, <1>4, <2>2, <2>3, OnwardStep DEF LocatorTypeOK
<1>5. CASE n \in cloud /\ UNCHANGED <<cloud, during>> /\ Settles(c, "conflict")
  <2> DEFINE next == [call[c] EXCEPT !.reply = "conflict"]
  <2>2. /\ next.op = call[c].op /\ next.name = n /\ next.at = "post" /\ next.reply = "conflict"
        /\ next \in LocatorCall /\ call' = [call EXCEPT ![c] = next]
    BY <1>1, <1>2, <1>5 DEF LocatorCall
  <2> HIDE DEF next
  <2>3. call[c].op = "ensureIndex" => IndexName \notin known
    BY <1>1, CallFacts
  <2> QED
    BY <1>1, <1>5, <2>2, <2>3, OnwardStep DEF LocatorTypeOK
<1>6. \/ n \notin cloud /\ Becomes(cloud \union {n}) /\ \E reply \in {"created", "error"} : Settles(c, reply)
      \/ n \in cloud /\ UNCHANGED <<cloud, during>> /\ \E reply \in {"conflict", "refused"} : Settles(c, reply)
      \/ UNCHANGED <<cloud, during>> /\ \E reply \in {"error", "refused"} : Settles(c, reply)
  BY Zenon DEF Post
<1> QED
  BY <1>3, <1>4, <1>5, <1>6

\* The other requests, and what becomes of the account by them.
LEMMA RequestSteps ==
  ASSUME LocatorInv, NEW c \in Calls, Get(c) \/ Delete(c) \/ List(c) \/ Probe(c)
  PROVE  LocatorInv'
<1>1. LocatorTypeOK /\ OneCatalog /\ OwnPart(c) /\ call[c] \in LocatorCall
  BY CallFacts, InvByCall
<1>2. ASSUME NEW reply \in {"found", "absent", "gone", "serving", "notReady", "error"}, Settles(c, reply)
      PROVE  /\ [call[c] EXCEPT !.reply = reply] \in LocatorCall
             /\ call' = [call EXCEPT ![c] = [call[c] EXCEPT !.reply = reply]]
             /\ [call[c] EXCEPT !.reply = reply].op = call[c].op
             /\ [call[c] EXCEPT !.reply = reply].name = call[c].name
             /\ [call[c] EXCEPT !.reply = reply].at = call[c].at
             /\ [call[c] EXCEPT !.reply = reply].reply = reply
  BY <1>1, <1>2 DEF LocatorCall, Settles
<1>3. CASE Get(c)
  <2>1. PICK reply \in {"found", "absent", "error"} :
          /\ Settles(c, reply)
          /\ reply = "found" => call[c].name \in cloud
          /\ reply = "absent" => call[c].name \notin cloud
    BY <1>3 DEF Get
  <2> DEFINE next == [call[c] EXCEPT !.reply = reply]
  <2>2. /\ next.op = call[c].op /\ next.name = call[c].name /\ next.at = call[c].at /\ next.reply = reply
        /\ next \in LocatorCall /\ call' = [call EXCEPT ![c] = next]
    BY <1>2, <2>1
  <2> HIDE DEF next
  <2>3. call[c].at = "get" /\ UNCHANGED <<cloud, serving, known, during, calls, outside>>
    BY <1>3 DEF Get, Sent
  <2>4. Asks(c) /\ (call[c].op = "ensureIndex" => IndexName \notin known)
    BY <2>3, CallFacts
  <2> QED
    BY <1>1, <2>1, <2>2, <2>3, <2>4, OnwardStep DEF LocatorTypeOK
<1>4. CASE Delete(c)
  <2>1. call[c].at = "delete" /\ known' = known
    BY <1>4 DEF Delete, Sent
  <2>2. ~Asks(c)
    BY <2>1, CallFacts
  <2>3. PICK reply \in {"gone", "error"} : Settles(c, reply)
    BY <1>4 DEF Delete
  <2> DEFINE next == [call[c] EXCEPT !.reply = reply]
  <2>4. /\ next.op = call[c].op /\ next.name = call[c].name /\ next.at = call[c].at /\ next.reply = reply
        /\ next \in LocatorCall /\ call' = [call EXCEPT ![c] = next]
    BY <1>2, <2>3
  <2> HIDE DEF next
  <2>5. CASE UNCHANGED <<cloud, serving, during>>
    BY <1>1, <2>1, <2>2, <2>4, <2>5, OnwardStep DEF LocatorTypeOK, Asks
  <2>6. CASE Becomes(cloud \ {call[c].name})
    <3>1. call'[c] = next /\ call' \in [Calls -> LocatorCall] /\ \A d \in Calls : d # c => call'[d] = call[d]
      BY <1>1, <2>4 DEF LocatorTypeOK
    <3>2. OwnPart(c)'
      BY <1>1, <2>1, <2>2, <2>4, <3>1 DEF OwnPart, OwnName, Witnessed, OwnTruth, Asks
    <3>3. cloud \ {call[c].name} \in SUBSET Names
      BY <1>1 DEF LocatorTypeOK
    <3> QED
      BY <1>1, <2>1, <2>2, <2>4, <2>6, <3>1, <3>2, <3>3, CallStep DEF LocatorTypeOK, Asks
  <2> QED
    BY <1>4, <2>5, <2>6 DEF Delete
<1>5. CASE Probe(c)
  <2>1. call[c].at = "probe" /\ UNCHANGED <<cloud, serving, known, during, calls, outside>>
    BY <1>5 DEF Probe, Sent
  <2>2. ~Asks(c)
    BY <2>1, CallFacts
  <2>3. PICK reply \in {"serving", "notReady", "error"} : Settles(c, reply)
    BY <1>5 DEF Probe
  <2> DEFINE next == [call[c] EXCEPT !.reply = reply]
  <2>4. /\ next.op = call[c].op /\ next.name = call[c].name /\ next.at = call[c].at /\ next.reply = reply
        /\ next \in LocatorCall /\ call' = [call EXCEPT ![c] = next]
    BY <1>2, <2>3
  <2> HIDE DEF next
  <2> QED
    BY <1>1, <2>1, <2>2, <2>4, OnwardStep DEF LocatorTypeOK, Asks
<1>6. CASE List(c)
  <2> DEFINE at == IF call[c].at = "list" THEN "listed" ELSE "relisted"
             next == [call[c] EXCEPT !.at = at, !.todo = cloud]
  <2>1. call[c].at \in {"list", "relist"} /\ UNCHANGED <<cloud, serving, known, during, calls, outside>>
    BY <1>6 DEF List
  <2>2. ~Asks(c)
    BY <2>1, CallFacts
  <2>3. call' = [call EXCEPT ![c] = next]
    BY <1>6 DEF List
  <2>4. /\ next.op = call[c].op /\ next.name = call[c].name /\ next.at \in {"listed", "relisted"}
        /\ next \in LocatorCall
    BY <1>1 DEF LocatorTypeOK, LocatorCall
  <2> HIDE DEF next
  <2> QED
    BY <1>1, <2>1, <2>2, <2>3, <2>4, OnwardStep DEF LocatorTypeOK, Asks
<1> QED
  BY <1>3, <1>4, <1>5, <1>6


\* The caller goes on with an answer.
LEMMA OnwardRecord ==
  ASSUME LocatorInv, NEW c \in Calls, NEW at, Onward(c, at),
         at \in {"post", "get", "listed", "relist", "probe", "ok", "absent", "failed"}
  PROVE  \E next \in LocatorCall :
           /\ call' = [call EXCEPT ![c] = next]
           /\ next.op = call[c].op /\ next.name = call[c].name /\ next.at = at /\ next.reply = "none"
<1> DEFINE next == [call[c] EXCEPT !.at = at, !.reply = "none"]
<1>1. call[c] \in LocatorCall
  BY CallFacts
<1>2. next \in LocatorCall /\ next.op = call[c].op /\ next.name = call[c].name /\ next.at = at /\ next.reply = "none"
  BY <1>1 DEF LocatorCall
<1>3. call' = [call EXCEPT ![c] = next]
  BY DEF Onward
<1> QED
  BY <1>2, <1>3

LEMMA GoesOnStep ==
  ASSUME LocatorInv, NEW c \in Calls, NEW at, Onward(c, at), call[c].at # "idle",
         at \in {"get", "listed", "relist", "probe", "ok", "absent", "failed"},
         Asks(c) => at \in {"get", "ok", "absent", "failed"}, at = "get" => Asks(c),
         cloud' = cloud, during' = during, known' \subseteq Names,
         call[c].op = "exists" /\ at = "ok" => TRUE \in during[c],
         call[c].op = "exists" /\ at = "absent" => FALSE \in during[c],
         call[c].op = "ensureIndex" /\ at = "ok" => TRUE \in during[c],
         IndexName \in known' => IndexName \in known \/ call[c].op = "ensureIndex",
         call[c].op = "ensureIndex" /\ at = "get" => IndexName \notin known'
  PROVE  LocatorInv'
<1>1. PICK next \in LocatorCall :
        /\ call' = [call EXCEPT ![c] = next]
        /\ next.op = call[c].op /\ next.name = call[c].name /\ next.at = at /\ next.reply = "none"
  BY OnwardRecord
<1> QED
  BY <1>1, OnwardStep

LEMMA AnswerSteps ==
  ASSUME LocatorInv, NEW c \in Calls,
         Posted(c) \/ Got(c) \/ Deleted(c) \/ Relisted(c) \/ Probed(c) \/ Deadline(c)
  PROVE  LocatorInv'
<1>1. /\ call[c] \in LocatorCall /\ known \subseteq Names /\ call[c].name \in Names
      /\ call[c].op = "none" <=> call[c].at = "idle"
      /\ call[c].at \in {"get", "post"} => Asks(c)
      /\ Asks(c) => call[c].at \in {"get", "post", "ok", "absent", "failed"}
      /\ call[c].op = "exists" => call[c].at # "post"
      /\ Asks(c) => (call[c].name = IndexName <=> call[c].op = "ensureIndex")
      /\ call[c].op = "ensureIndex" /\ call[c].at \in {"post", "get"} => IndexName \notin known
  BY CallFacts DEF LocatorCall
<1>2. /\ call[c].at = "get" /\ call[c].reply = "found" => TRUE \in during[c]
      /\ call[c].at = "get" /\ call[c].reply = "absent" => FALSE \in during[c]
      /\ call[c].at = "post" /\ call[c].reply \in {"created", "conflict"} => TRUE \in during[c]
  BY CallFacts DEF Witnessed
<1>3. CASE Posted(c)
  <2>1. call[c].at = "post" /\ UNCHANGED <<cloud, serving, during, calls, outside>> /\ Asks(c)
    BY <1>1, <1>3 DEF Posted, Answered
  <2>2. CASE call[c].reply \in {"created", "conflict"} /\ known' = known \union {call[c].name} /\ Onward(c, "ok")
    BY <1>1, <1>2, <2>1, <2>2, GoesOnStep
  <2>3. CASE call[c].reply = "refused" /\ UNCHANGED known
             /\ Onward(c, IF call[c].name \in known THEN "ok" ELSE "get")
    <3>1. CASE call[c].name \in known
      BY <1>1, <2>1, <2>3, <3>1, GoesOnStep
    <3>2. CASE call[c].name \notin known
      BY <1>1, <2>1, <2>3, <3>2, GoesOnStep
    <3> QED
      BY <3>1, <3>2
  <2>4. CASE Onward(c, "failed") /\ UNCHANGED known
    BY <1>1, <2>1, <2>4, GoesOnStep
  <2> QED
    BY <1>3, <2>2, <2>3, <2>4 DEF Posted
<1>4. CASE Got(c)
  <2>1. call[c].at = "get" /\ UNCHANGED <<cloud, serving, during, calls, outside>> /\ Asks(c)
    BY <1>1, <1>4 DEF Got, Answered
  <2>2. CASE call[c].reply = "found" /\ known' = known \union {call[c].name} /\ Onward(c, "ok")
    BY <1>1, <1>2, <2>1, <2>2, GoesOnStep
  <2>3. CASE call[c].reply = "absent" /\ known' = known \ {call[c].name}
             /\ Onward(c, IF call[c].op = "exists" THEN "absent" ELSE "failed")
    <3>1. CASE call[c].op = "exists"
      BY <1>1, <1>2, <2>1, <2>3, <3>1, GoesOnStep
    <3>2. CASE call[c].op # "exists"
      BY <1>1, <2>1, <2>3, <3>2, GoesOnStep
    <3> QED
      BY <3>1, <3>2
  <2>4. CASE Onward(c, "failed") /\ UNCHANGED known
    BY <1>1, <2>1, <2>4, GoesOnStep
  <2> QED
    BY <1>4, <2>2, <2>3, <2>4 DEF Got
<1>5. CASE Deleted(c)
  <2>1. call[c].at = "delete" /\ UNCHANGED <<cloud, serving, during, calls, outside>> /\ ~Asks(c)
    BY <1>1, <1>5 DEF Deleted, Answered
  <2>2. known' \subseteq known
    BY <1>5 DEF Deleted
  <2>3. \E at \in {"ok", "listed", "failed"} : Onward(c, at)
    BY <1>5 DEF Deleted
  <2> QED
    BY <1>1, <2>1, <2>2, <2>3, GoesOnStep DEF Asks
<1>6. CASE Relisted(c) \/ Probed(c) \/ Deadline(c)
  <2>1. call[c].at \in {"relisted", "probe"} /\ UNCHANGED <<cloud, serving, known, during, calls, outside>>
    BY <1>6 DEF Relisted, Probed, Deadline, Answered
  <2>2. ~Asks(c)
    BY <1>1, <2>1
  <2>3. \E at \in {"ok", "probe", "failed"} : Onward(c, at)
    BY <1>6 DEF Relisted, Probed, Deadline
  <2> QED
    BY <1>1, <2>1, <2>2, <2>3, GoesOnStep DEF Asks
<1> QED
  BY <1>3, <1>4, <1>5, <1>6

\* A sweep takes the next name, and a caller that has its answer leaves.
LEMMA NextDropStep ==
  ASSUME LocatorInv, NEW c \in Calls, NextDrop(c)
  PROVE  LocatorInv'
<1>1. call[c].at = "listed" /\ UNCHANGED <<cloud, serving, known, during, calls, outside>>
  BY DEF NextDrop
<1>2. ~Asks(c) /\ call[c] \in LocatorCall /\ known \subseteq Names
  BY <1>1, CallFacts
<1>3. ASSUME NEW n \in call[c].todo,
             call' = [call EXCEPT ![c].at = "delete", ![c].name = n, ![c].todo = call[c].todo \ {n}]
      PROVE  LocatorInv'
  <2> DEFINE next == [call[c] EXCEPT !.at = "delete", !.name = n, !.todo = call[c].todo \ {n}]
  <2>1. /\ next.op = call[c].op /\ next.at = "delete" /\ next \in LocatorCall /\ next.reply = call[c].reply
        /\ call' = [call EXCEPT ![c] = next]
    BY <1>2, <1>3 DEF LocatorCall
  <2> HIDE DEF next
  <2> QED
    BY <1>1, <1>2, <2>1, OnwardStep DEF Asks
<1>4. CASE Onward(c, "relist")
  BY <1>1, <1>2, <1>4, GoesOnStep DEF Asks
<1> QED
  BY <1>3, <1>4 DEF NextDrop

LEMMA ReturnStep ==
  ASSUME LocatorInv, NEW c \in Calls, Return(c)
  PROVE  LocatorInv'
<1>1. LocatorTypeOK
  BY DEF LocatorInv
<1>2. /\ call' = [call EXCEPT ![c] = Idle] /\ during' = [during EXCEPT ![c] = {}]
      /\ cloud' = cloud /\ known' = known
  BY DEF Return
<1>3. Idle \in LocatorCall /\ Idle.op = "none" /\ Idle.at = "idle" /\ Idle.reply = "none"
  BY CatalogAssumption DEF Idle, LocatorCall
<1>4. call'[c] = Idle /\ call' \in [Calls -> LocatorCall] /\ during' \in [Calls -> SUBSET BOOLEAN]
      /\ \A d \in Calls : d # c => call'[d] = call[d] /\ during'[d] = during[d]
  BY <1>1, <1>2, <1>3 DEF LocatorTypeOK
<1>5. OwnPart(c)'
  BY <1>3, <1>4 DEF OwnPart, OwnName, Witnessed, OwnTruth, Asks
<1> QED
  BY <1>1, <1>2, <1>3, <1>4, <1>5, CallStep DEF LocatorTypeOK

\* The invariant of the locator holds in every reachable state.
THEOREM LocatorInvariant == LocatorSpec => []LocatorInv
<1>1. LocatorInit => LocatorInv
  BY CatalogAssumption DEF LocatorInit, LocatorInv, LocatorTypeOK, LocatorCall, Idle, OneCatalog, CatalogAsked,
     AnswerWasTrue, OwnName, Witnessed, Asks
<1>2. LocatorInv /\ [LocatorNext]_locatorVars => LocatorInv'
  <2> SUFFICES ASSUME LocatorInv, [LocatorNext]_locatorVars PROVE LocatorInv'
    OBVIOUS
  <2>1. CASE UNCHANGED locatorVars
    BY <2>1 DEF LocatorInv, LocatorTypeOK, OneCatalog, CatalogAsked, AnswerWasTrue, OwnName, Witnessed, Asks,
       locatorVars
  <2>2. CASE LocatorNext
    BY <2>2, ExpireStep, BeginSteps, PostStep, RequestSteps, AnswerSteps, NextDropStep, ReturnStep
       DEF LocatorNext
  <2> QED
    BY <2>1, <2>2
<1> QED
  BY <1>1, <1>2, PTL DEF LocatorSpec

\* For any number of calls, databases and other users of the account: what exists() answers,
\* and that ensureIndex() found or made the catalog, was so at some moment of the call.
THEOREM AnswersWereTrue == LocatorSpec => []AnswerWasTrue
<1>1. LocatorInv => AnswerWasTrue
  BY DEF LocatorInv
<1> QED
  BY <1>1, LocatorInvariant, PTL
==============================================================================
