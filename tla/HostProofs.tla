------------------------------ MODULE HostProofs ------------------------------
(***************************************************************************)
(* The processes of the host.                                              *)
(* The launcher, for any number of sessions and of attempts: when the      *)
(* process exits, every session it announced is shown as ended, or every   *)
(* attempt to say so failed.  The proxy, for any number of connections and *)
(* requests: once close() has run, it has no socket and no upstream        *)
(* request open, and opens none.                                           *)
(* The tmux driver, for every set of texts and of local prompts and every  *)
(* Budget: the gate of the running turn is older than no completion that   *)
(* could release it (GateHeld), and a text is in one place on its way from *)
(* the inbox to the pane (PastedInOrder).  A batch of transcript lines is  *)
(* a recursive function of time; what it does to the completion facts is   *)
(* an induction over that time, by the lemma UpTo.                         *)
(***************************************************************************)
EXTENDS HostLaunch, MitmProxy, TmuxDriver, WellFoundedInduction, FiniteSetTheorems, TLAPS

-----------------------------------------------------------------------------
(* The launcher                                                            *)

\* What terminalizePresence leaves: the tombstone there is, or a new one, which is tried
\* only if the session was announced.
LEMMA TerminalizedIs ==
  ASSUME LaunchTypeOK, NEW s \in Sessions
  PROVE  /\ Terminalized(s) \in Tombstone
         /\ Terminalized(s).state # "none"
         /\ tomb[s].state # "none" => Terminalized(s) = tomb[s]
         /\ tomb[s].state = "none" /\ s \in started =>
                Terminalized(s).state = "trying" /\ Terminalized(s).live
         /\ tomb[s].state = "none" /\ s \notin started => Terminalized(s).state = "over"
  BY DEF LaunchTypeOK, Tombstone, Terminalized

\* An attempt that is stored is on its way no more.
LEMMA TombStoredIs ==
  ASSUME LaunchTypeOK, NEW s \in Sessions, TombStored(s)
  PROVE  /\ tomb' \in [Sessions -> Tombstone]
         /\ tomb'[s].state = tomb[s].state /\ ~tomb'[s].live
         /\ \A r \in Sessions \ {s} : tomb'[r] = tomb[r]
<1> DEFINE next == [tomb[s] EXCEPT !.live = FALSE]
<1>1. tomb[s] \in Tombstone
  BY DEF LaunchTypeOK
<1>2. next \in Tombstone /\ next.state = tomb[s].state /\ ~next.live
  BY <1>1 DEF Tombstone
<1>3. tomb' = [tomb EXCEPT ![s] = next]
  BY DEF TombStored, LaunchTypeOK, Tombstone
<1> QED
  BY <1>2, <1>3 DEF LaunchTypeOK

\* An answered attempt is the last.
LEMMA TombAnsweredIs ==
  ASSUME LaunchTypeOK, NEW s \in Sessions, TombAnswered(s)
  PROVE  /\ tomb' \in [Sessions -> Tombstone]
         /\ tomb'[s].state = "over" /\ ~tomb'[s].live
         /\ \A r \in Sessions \ {s} : tomb'[r] = tomb[r]
<1> DEFINE next == [tomb[s] EXCEPT !.state = "over"]
<1>1. tomb[s] \in Tombstone
  BY DEF LaunchTypeOK
<1>2. next \in Tombstone /\ next.state = "over" /\ next.live = tomb[s].live
  BY <1>1 DEF Tombstone
<1>3. tomb' = [tomb EXCEPT ![s] = next]
  BY DEF TombAnswered, LaunchTypeOK, Tombstone
<1> QED
  BY <1>2, <1>3 DEF LaunchTypeOK, TombAnswered

\* A failed attempt is followed by another, or was the last.
LEMMA TombFailsIs ==
  ASSUME LaunchTypeOK, NEW s \in Sessions, TombFails(s)
  PROVE  /\ tomb' \in [Sessions -> Tombstone]
         /\ \/ tomb'[s].state = "trying" /\ tomb'[s].live /\ UNCHANGED terminals
            \/ tomb'[s].state = "gave up" /\ terminals' = terminals \ {s}
         /\ \A r \in Sessions \ {s} : tomb'[r] = tomb[r]
<1> DEFINE retried == [tomb[s] EXCEPT !.failed = tomb[s].failed + 1, !.live = TRUE]
           given == [tomb[s] EXCEPT !.state = "gave up"]
<1>1. tomb[s] \in Tombstone /\ tomb[s].state = "trying"
  BY DEF LaunchTypeOK, TombFails
<1>2. retried \in Tombstone /\ retried.state = "trying" /\ retried.live
  <2>1. tomb[s].failed \in Nat
    BY <1>1 DEF Tombstone
  <2>2. tomb[s].failed + 1 \in Nat
    BY <2>1
  <2> QED
    BY <1>1, <2>2 DEF Tombstone
<1>3. given \in Tombstone /\ given.state = "gave up"
  BY <1>1 DEF Tombstone
<1>4. CASE tomb[s].failed < Retries
  <2>1. tomb' = [tomb EXCEPT ![s] = retried] /\ UNCHANGED terminals
    BY <1>4 DEF TombFails, LaunchTypeOK, Tombstone
  <2> QED
    BY <1>2, <2>1 DEF LaunchTypeOK
<1>5. CASE ~(tomb[s].failed < Retries)
  <2>1. tomb' = [tomb EXCEPT ![s] = given] /\ terminals' = terminals \ {s}
    BY <1>5 DEF TombFails, LaunchTypeOK, Tombstone
  <2> QED
    BY <1>3, <2>1 DEF LaunchTypeOK
<1> QED
  BY <1>4, <1>5

\* The bus never takes a session's end back.
LEMMA StoredIs ==
  ASSUME LaunchTypeOK, NEW s \in Sessions, NEW what \in {"live", "ended"}
  PROVE  /\ Stored(s, what) \in [Sessions -> {"nothing", "live", "ended"}]
         /\ \A r \in Sessions : bus[r] = "ended" => Stored(s, what)[r] = "ended"
         /\ what = "ended" => Stored(s, what)[s] = "ended"
         /\ \A r \in Sessions \ {s} : Stored(s, what)[r] = bus[r]
  BY DEF LaunchTypeOK, Stored

\* Every step keeps the types.
LEMMA TypeStep == LaunchTypeOK /\ [LaunchNext]_launchVars => LaunchTypeOK'
<1> SUFFICES ASSUME LaunchTypeOK, [LaunchNext]_launchVars PROVE LaunchTypeOK'
  OBVIOUS
<1> USE DEF native, bridging, ending
<1>1. ASSUME NEW s \in Sessions, Register(s) PROVE LaunchTypeOK'
  <2>1. CASE TearingDown
    BY <1>1, <2>1 DEF LaunchTypeOK, Register, TearingDown
  <2>2. CASE ~TearingDown
    BY <1>1, <2>2 DEF LaunchTypeOK, Register, TearingDown
  <2> QED
    BY <2>1, <2>2
<1>2. ASSUME NEW s \in Sessions, SessionCloses(s) PROVE LaunchTypeOK'
  BY <1>2, TerminalizedIs DEF LaunchTypeOK, SessionCloses
<1>3. ASSUME NEW s \in Sessions, Prepared(s) PROVE LaunchTypeOK'
  <2>1. CASE OwnerEnded(s)
    BY <1>3, <2>1, TerminalizedIs DEF LaunchTypeOK, Prepared, Tracked, OwnerEnded
  <2>2. CASE ~OwnerEnded(s)
    BY <1>3, <2>2 DEF LaunchTypeOK, Prepared, OwnerEnded
  <2> QED
    BY <2>1, <2>2
<1>4. ASSUME NEW s \in Sessions, PrepareFails(s) PROVE LaunchTypeOK'
  BY <1>4, TerminalizedIs DEF LaunchTypeOK, PrepareFails, Tracked
<1>5. ASSUME NEW s \in Sessions, AnnounceStored(s) PROVE LaunchTypeOK'
  BY <1>5, StoredIs DEF LaunchTypeOK, AnnounceStored
<1>6. ASSUME NEW s \in Sessions, AnnounceSettles(s) PROVE LaunchTypeOK'
  BY <1>6 DEF LaunchTypeOK, AnnounceSettles
<1>7. ASSUME NEW s \in Sessions, TombStored(s) PROVE LaunchTypeOK'
  BY <1>7, TombStoredIs, StoredIs DEF LaunchTypeOK, TombStored
<1>8. ASSUME NEW s \in Sessions, TombAnswered(s) PROVE LaunchTypeOK'
  BY <1>8, TombAnsweredIs DEF LaunchTypeOK, TombAnswered
<1>9. ASSUME NEW s \in Sessions, TombFails(s) PROVE LaunchTypeOK'
  <2>1. UNCHANGED <<launch, session, bridge, prepared, announce, post, started, serving, relays, bus>>
    BY <1>9 DEF TombFails
  <2>2. tomb' \in [Sessions -> Tombstone] /\ (terminals' = terminals \/ terminals' = terminals \ {s})
    BY <1>9, TombFailsIs
  <2> QED
    BY <2>1, <2>2 DEF LaunchTypeOK
<1>10. ASSUME NEW s \in Sessions, ServeEnds(s) PROVE LaunchTypeOK'
  BY <1>10, TerminalizedIs DEF LaunchTypeOK, ServeEnds, Tracked, OwnerEnded
<1>11. ASSUME NEW s \in Sessions, Served(s) PROVE LaunchTypeOK'
  BY <1>11 DEF LaunchTypeOK, Served, Settled
<1>12. CASE ChildExits
  <2>1. \A r \in Sessions : tomb'[r] = IF bridge[r] = "ready" THEN Terminalized(r) ELSE tomb[r]
    BY <1>12 DEF ChildExits, Fenced
  <2>2. tomb' \in [Sessions -> Tombstone]
    BY <1>12, <2>1, TerminalizedIs DEF ChildExits, LaunchTypeOK
  <2> QED
    BY <1>12, <2>1, <2>2, TerminalizedIs DEF LaunchTypeOK, ChildExits, Fenced, Tracked
<1>13. CASE RelaysWaited
  BY <1>13 DEF LaunchTypeOK, RelaysWaited
<1>14. CASE TerminalsSettled
  BY <1>14 DEF LaunchTypeOK, TerminalsSettled
<1>15. CASE ProxyClosed
  BY <1>15 DEF LaunchTypeOK, ProxyClosed
<1>16. CASE UNCHANGED launchVars
  BY <1>16 DEF LaunchTypeOK, launchVars
<1> QED
  BY <1>1, <1>2, <1>3, <1>4, <1>5, <1>6, <1>7, <1>8, <1>9, <1>10, <1>11, <1>12, <1>13, <1>14, <1>15, <1>16 DEF LaunchNext, Running

\* A bridge stays tied to its session.
LEMMA BridgeStep ==
  LaunchInv /\ [LaunchNext]_launchVars => \A t \in Sessions : BridgeOfSession(t)'
<1> SUFFICES ASSUME LaunchInv, [LaunchNext]_launchVars, NEW t \in Sessions PROVE BridgeOfSession(t)'
  OBVIOUS
<1> USE DEF LaunchInv, native, bridging, ending
<1>1. ASSUME NEW s \in Sessions, Register(s) PROVE BridgeOfSession(t)'
  <2>1. CASE TearingDown
    BY <1>1, <2>1 DEF LaunchTypeOK, BridgeOfSession, TombOfSession, Register, TearingDown
  <2>2. CASE ~TearingDown
    BY <1>1, <2>2 DEF LaunchTypeOK, BridgeOfSession, TombOfSession, Register, TearingDown
  <2> QED
    BY <2>1, <2>2
<1>2. ASSUME NEW s \in Sessions, SessionCloses(s) PROVE BridgeOfSession(t)'
  BY <1>2, TerminalizedIs DEF LaunchTypeOK, BridgeOfSession, TombOfSession, SessionCloses
<1>3. ASSUME NEW s \in Sessions, Prepared(s) PROVE BridgeOfSession(t)'
  <2>1. CASE OwnerEnded(s)
    BY <1>3, <2>1, TerminalizedIs DEF LaunchTypeOK, BridgeOfSession, TombOfSession, Prepared, Tracked, OwnerEnded
  <2>2. CASE ~OwnerEnded(s)
    BY <1>3, <2>2 DEF LaunchTypeOK, BridgeOfSession, TombOfSession, Prepared, OwnerEnded
  <2> QED
    BY <2>1, <2>2
<1>4. ASSUME NEW s \in Sessions, PrepareFails(s) PROVE BridgeOfSession(t)'
  BY <1>4, TerminalizedIs DEF LaunchTypeOK, BridgeOfSession, TombOfSession, PrepareFails, Tracked
<1>5. ASSUME NEW s \in Sessions, AnnounceStored(s) PROVE BridgeOfSession(t)'
  BY <1>5, StoredIs DEF LaunchTypeOK, BridgeOfSession, TombOfSession, AnnounceStored
<1>6. ASSUME NEW s \in Sessions, AnnounceSettles(s) PROVE BridgeOfSession(t)'
  BY <1>6 DEF LaunchTypeOK, BridgeOfSession, TombOfSession, AnnounceSettles
<1>7. ASSUME NEW s \in Sessions, TombStored(s) PROVE BridgeOfSession(t)'
  BY <1>7, TombStoredIs, StoredIs DEF LaunchTypeOK, BridgeOfSession, TombOfSession, TombStored
<1>8. ASSUME NEW s \in Sessions, TombAnswered(s) PROVE BridgeOfSession(t)'
  BY <1>8, TombAnsweredIs DEF LaunchTypeOK, BridgeOfSession, TombOfSession, TombAnswered
<1>9. ASSUME NEW s \in Sessions, TombFails(s) PROVE BridgeOfSession(t)'
  <2>1. UNCHANGED <<launch, session, bridge, prepared, announce, post, started, serving, relays, bus>>
    BY <1>9 DEF TombFails
  <2>2. tomb[s].state = "trying"
    BY <1>9 DEF TombFails
  <2> QED
    BY <1>9, <2>1, <2>2, TombFailsIs DEF LaunchTypeOK, BridgeOfSession, TombOfSession
<1>10. ASSUME NEW s \in Sessions, ServeEnds(s) PROVE BridgeOfSession(t)'
  BY <1>10, TerminalizedIs DEF LaunchTypeOK, BridgeOfSession, TombOfSession, ServeEnds, Tracked, OwnerEnded
<1>11. ASSUME NEW s \in Sessions, Served(s) PROVE BridgeOfSession(t)'
  BY <1>11 DEF LaunchTypeOK, BridgeOfSession, TombOfSession, Served, Settled
<1>12. CASE ChildExits
  <2>1. \A r \in Sessions : tomb'[r] = IF bridge[r] = "ready" THEN Terminalized(r) ELSE tomb[r]
    BY <1>12 DEF ChildExits, Fenced
  <2>2. tomb' \in [Sessions -> Tombstone]
    BY <1>12, <2>1, TerminalizedIs DEF ChildExits, LaunchTypeOK
  <2> QED
    BY <1>12, <2>1, <2>2, TerminalizedIs DEF LaunchTypeOK, BridgeOfSession, TombOfSession, ChildExits, Fenced, Tracked
<1>13. CASE RelaysWaited
  BY <1>13 DEF LaunchTypeOK, BridgeOfSession, TombOfSession, RelaysWaited
<1>14. CASE TerminalsSettled
  BY <1>14 DEF LaunchTypeOK, BridgeOfSession, TombOfSession, TerminalsSettled
<1>15. CASE ProxyClosed
  BY <1>15 DEF LaunchTypeOK, BridgeOfSession, TombOfSession, ProxyClosed
<1>16. CASE UNCHANGED launchVars
  BY <1>16 DEF LaunchTypeOK, BridgeOfSession, TombOfSession, launchVars
<1> QED
  BY <1>1, <1>2, <1>3, <1>4, <1>5, <1>6, <1>7, <1>8, <1>9, <1>10, <1>11, <1>12, <1>13, <1>14, <1>15, <1>16 DEF LaunchNext, Running

\* A tombstone stays tied to its session, and tracked while it is tried behind a closed bridge.
LEMMA TombStep ==
  LaunchInv /\ [LaunchNext]_launchVars => \A t \in Sessions : TombOfSession(t)'
<1> SUFFICES ASSUME LaunchInv, [LaunchNext]_launchVars, NEW t \in Sessions PROVE TombOfSession(t)'
  OBVIOUS
<1> USE DEF LaunchInv, native, bridging, ending
<1>1. ASSUME NEW s \in Sessions, Register(s) PROVE TombOfSession(t)'
  <2>1. CASE TearingDown
    BY <1>1, <2>1 DEF LaunchTypeOK, BridgeOfSession, TombOfSession, Register, TearingDown
  <2>2. CASE ~TearingDown
    BY <1>1, <2>2 DEF LaunchTypeOK, BridgeOfSession, TombOfSession, Register, TearingDown
  <2> QED
    BY <2>1, <2>2
<1>2. ASSUME NEW s \in Sessions, SessionCloses(s) PROVE TombOfSession(t)'
  BY <1>2, TerminalizedIs DEF LaunchTypeOK, BridgeOfSession, TombOfSession, SessionCloses
<1>3. ASSUME NEW s \in Sessions, Prepared(s) PROVE TombOfSession(t)'
  <2>1. CASE OwnerEnded(s)
    BY <1>3, <2>1, TerminalizedIs DEF LaunchTypeOK, BridgeOfSession, TombOfSession, Prepared, Tracked, OwnerEnded
  <2>2. CASE ~OwnerEnded(s)
    BY <1>3, <2>2 DEF LaunchTypeOK, BridgeOfSession, TombOfSession, Prepared, OwnerEnded
  <2> QED
    BY <2>1, <2>2
<1>4. ASSUME NEW s \in Sessions, PrepareFails(s) PROVE TombOfSession(t)'
  BY <1>4, TerminalizedIs DEF LaunchTypeOK, BridgeOfSession, TombOfSession, PrepareFails, Tracked
<1>5. ASSUME NEW s \in Sessions, AnnounceStored(s) PROVE TombOfSession(t)'
  BY <1>5, StoredIs DEF LaunchTypeOK, BridgeOfSession, TombOfSession, AnnounceStored
<1>6. ASSUME NEW s \in Sessions, AnnounceSettles(s) PROVE TombOfSession(t)'
  BY <1>6 DEF LaunchTypeOK, BridgeOfSession, TombOfSession, AnnounceSettles
<1>7. ASSUME NEW s \in Sessions, TombStored(s) PROVE TombOfSession(t)'
  BY <1>7, TombStoredIs, StoredIs DEF LaunchTypeOK, BridgeOfSession, TombOfSession, TombStored
<1>8. ASSUME NEW s \in Sessions, TombAnswered(s) PROVE TombOfSession(t)'
  BY <1>8, TombAnsweredIs DEF LaunchTypeOK, BridgeOfSession, TombOfSession, TombAnswered
<1>9. ASSUME NEW s \in Sessions, TombFails(s) PROVE TombOfSession(t)'
  <2>1. UNCHANGED <<session, bridge, started>> /\ tomb[s].state = "trying"
    BY <1>9 DEF TombFails
  <2>2. TombOfSession(s) /\ TombOfSession(t)
    BY <1>9
  <2>3. CASE t = s
    BY <1>9, <2>1, <2>2, <2>3, TombFailsIs DEF TombOfSession
  <2>4. CASE t # s
    <3>1. tomb'[t] = tomb[t] /\ (t \in terminals => t \in terminals')
      BY <1>9, <2>4, TombFailsIs
    <3> QED
      BY <2>1, <2>2, <3>1 DEF TombOfSession
  <2> QED
    BY <2>3, <2>4
<1>10. ASSUME NEW s \in Sessions, ServeEnds(s) PROVE TombOfSession(t)'
  BY <1>10, TerminalizedIs DEF LaunchTypeOK, BridgeOfSession, TombOfSession, ServeEnds, Tracked, OwnerEnded
<1>11. ASSUME NEW s \in Sessions, Served(s) PROVE TombOfSession(t)'
  BY <1>11 DEF LaunchTypeOK, BridgeOfSession, TombOfSession, Served, Settled
<1>12. CASE ChildExits
  <2>1. \A r \in Sessions : tomb'[r] = IF bridge[r] = "ready" THEN Terminalized(r) ELSE tomb[r]
    BY <1>12 DEF ChildExits, Fenced
  <2>2. tomb' \in [Sessions -> Tombstone]
    BY <1>12, <2>1, TerminalizedIs DEF ChildExits, LaunchTypeOK
  <2> QED
    BY <1>12, <2>1, <2>2, TerminalizedIs DEF LaunchTypeOK, BridgeOfSession, TombOfSession, ChildExits, Fenced, Tracked
<1>13. CASE RelaysWaited
  BY <1>13 DEF LaunchTypeOK, BridgeOfSession, TombOfSession, RelaysWaited
<1>14. CASE TerminalsSettled
  BY <1>14 DEF LaunchTypeOK, BridgeOfSession, TombOfSession, TerminalsSettled
<1>15. CASE ProxyClosed
  BY <1>15 DEF LaunchTypeOK, BridgeOfSession, TombOfSession, ProxyClosed
<1>16. CASE UNCHANGED launchVars
  BY <1>16 DEF LaunchTypeOK, BridgeOfSession, TombOfSession, launchVars
<1> QED
  BY <1>1, <1>2, <1>3, <1>4, <1>5, <1>6, <1>7, <1>8, <1>9, <1>10, <1>11, <1>12, <1>13, <1>14, <1>15, <1>16 DEF LaunchNext, Running

\* What a tombstone put on the bus stays there.
LEMMA StoredStep ==
  LaunchInv /\ [LaunchNext]_launchVars => \A t \in Sessions : TombIsStored(t)'
<1> SUFFICES ASSUME LaunchInv, [LaunchNext]_launchVars, NEW t \in Sessions PROVE TombIsStored(t)'
  OBVIOUS
<1> USE DEF LaunchInv, native, bridging, ending
<1>1. ASSUME NEW s \in Sessions, Register(s) PROVE TombIsStored(t)'
  <2>1. CASE TearingDown
    BY <1>1, <2>1 DEF LaunchTypeOK, BridgeOfSession, TombOfSession, TombIsStored, Register, TearingDown
  <2>2. CASE ~TearingDown
    BY <1>1, <2>2 DEF LaunchTypeOK, BridgeOfSession, TombOfSession, TombIsStored, Register, TearingDown
  <2> QED
    BY <2>1, <2>2
<1>2. ASSUME NEW s \in Sessions, SessionCloses(s) PROVE TombIsStored(t)'
  BY <1>2, TerminalizedIs DEF LaunchTypeOK, BridgeOfSession, TombOfSession, TombIsStored, SessionCloses
<1>3. ASSUME NEW s \in Sessions, Prepared(s) PROVE TombIsStored(t)'
  <2>1. CASE OwnerEnded(s)
    BY <1>3, <2>1, TerminalizedIs DEF LaunchTypeOK, BridgeOfSession, TombOfSession, TombIsStored, Prepared, Tracked, OwnerEnded
  <2>2. CASE ~OwnerEnded(s)
    BY <1>3, <2>2 DEF LaunchTypeOK, BridgeOfSession, TombOfSession, TombIsStored, Prepared, OwnerEnded
  <2> QED
    BY <2>1, <2>2
<1>4. ASSUME NEW s \in Sessions, PrepareFails(s) PROVE TombIsStored(t)'
  BY <1>4, TerminalizedIs DEF LaunchTypeOK, BridgeOfSession, TombOfSession, TombIsStored, PrepareFails, Tracked
<1>5. ASSUME NEW s \in Sessions, AnnounceStored(s) PROVE TombIsStored(t)'
  BY <1>5, StoredIs DEF LaunchTypeOK, BridgeOfSession, TombOfSession, TombIsStored, AnnounceStored
<1>6. ASSUME NEW s \in Sessions, AnnounceSettles(s) PROVE TombIsStored(t)'
  BY <1>6 DEF LaunchTypeOK, BridgeOfSession, TombOfSession, TombIsStored, AnnounceSettles
<1>7. ASSUME NEW s \in Sessions, TombStored(s) PROVE TombIsStored(t)'
  BY <1>7, TombStoredIs, StoredIs DEF LaunchTypeOK, BridgeOfSession, TombOfSession, TombIsStored, TombStored
<1>8. ASSUME NEW s \in Sessions, TombAnswered(s) PROVE TombIsStored(t)'
  BY <1>8, TombAnsweredIs DEF LaunchTypeOK, BridgeOfSession, TombOfSession, TombIsStored, TombAnswered
<1>9. ASSUME NEW s \in Sessions, TombFails(s) PROVE TombIsStored(t)'
  <2>1. UNCHANGED <<launch, session, bridge, prepared, announce, post, started, serving, relays, bus>>
    BY <1>9 DEF TombFails
  <2>2. tomb[s].state = "trying"
    BY <1>9 DEF TombFails
  <2>3. \/ tomb'[s].state = "trying" /\ tomb'[s].live
        \/ tomb'[s].state = "gave up"
    BY <1>9, TombFailsIs
  <2>4. t # s => tomb'[t] = tomb[t]
    BY <1>9, TombFailsIs
  <2> QED
    BY <2>1, <2>3, <2>4 DEF TombIsStored
<1>10. ASSUME NEW s \in Sessions, ServeEnds(s) PROVE TombIsStored(t)'
  BY <1>10, TerminalizedIs DEF LaunchTypeOK, BridgeOfSession, TombOfSession, TombIsStored, ServeEnds, Tracked, OwnerEnded
<1>11. ASSUME NEW s \in Sessions, Served(s) PROVE TombIsStored(t)'
  BY <1>11 DEF LaunchTypeOK, BridgeOfSession, TombOfSession, TombIsStored, Served, Settled
<1>12. CASE ChildExits
  <2>1. \A r \in Sessions : tomb'[r] = IF bridge[r] = "ready" THEN Terminalized(r) ELSE tomb[r]
    BY <1>12 DEF ChildExits, Fenced
  <2>2. tomb' \in [Sessions -> Tombstone]
    BY <1>12, <2>1, TerminalizedIs DEF ChildExits, LaunchTypeOK
  <2> QED
    BY <1>12, <2>1, <2>2, TerminalizedIs DEF LaunchTypeOK, BridgeOfSession, TombOfSession, TombIsStored, ChildExits, Fenced, Tracked
<1>13. CASE RelaysWaited
  BY <1>13 DEF LaunchTypeOK, BridgeOfSession, TombOfSession, TombIsStored, RelaysWaited
<1>14. CASE TerminalsSettled
  BY <1>14 DEF LaunchTypeOK, BridgeOfSession, TombOfSession, TombIsStored, TerminalsSettled
<1>15. CASE ProxyClosed
  BY <1>15 DEF LaunchTypeOK, BridgeOfSession, TombOfSession, TombIsStored, ProxyClosed
<1>16. CASE UNCHANGED launchVars
  BY <1>16 DEF LaunchTypeOK, BridgeOfSession, TombOfSession, TombIsStored, launchVars
<1> QED
  BY <1>1, <1>2, <1>3, <1>4, <1>5, <1>6, <1>7, <1>8, <1>9, <1>10, <1>11, <1>12, <1>13, <1>14, <1>15, <1>16 DEF LaunchNext, Running

\* Nothing opens behind the exit, and no attempt starts behind the last.
LEMMA FenceStep == LaunchInv /\ [LaunchNext]_launchVars => Fence'
<1> SUFFICES ASSUME LaunchInv, [LaunchNext]_launchVars PROVE Fence'
  OBVIOUS
<1> USE DEF LaunchInv, native, bridging, ending
<1>1. ASSUME NEW s \in Sessions, Register(s) PROVE Fence'
  <2>1. CASE TearingDown
    BY <1>1, <2>1 DEF LaunchTypeOK, BridgeOfSession, TombOfSession, Fence, TearingDown, Register
  <2>2. CASE ~TearingDown
    BY <1>1, <2>2 DEF LaunchTypeOK, BridgeOfSession, TombOfSession, Fence, TearingDown, Register
  <2> QED
    BY <2>1, <2>2
<1>2. ASSUME NEW s \in Sessions, SessionCloses(s) PROVE Fence'
  BY <1>2, TerminalizedIs DEF LaunchTypeOK, BridgeOfSession, TombOfSession, Fence, TearingDown, SessionCloses
<1>3. ASSUME NEW s \in Sessions, Prepared(s) PROVE Fence'
  <2>1. CASE OwnerEnded(s)
    BY <1>3, <2>1, TerminalizedIs DEF LaunchTypeOK, BridgeOfSession, TombOfSession, Fence, TearingDown, Prepared, Tracked, OwnerEnded
  <2>2. CASE ~OwnerEnded(s)
    BY <1>3, <2>2 DEF LaunchTypeOK, BridgeOfSession, TombOfSession, Fence, TearingDown, Prepared, OwnerEnded
  <2> QED
    BY <2>1, <2>2
<1>4. ASSUME NEW s \in Sessions, PrepareFails(s) PROVE Fence'
  BY <1>4, TerminalizedIs DEF LaunchTypeOK, BridgeOfSession, TombOfSession, Fence, TearingDown, PrepareFails, Tracked
<1>5. ASSUME NEW s \in Sessions, AnnounceStored(s) PROVE Fence'
  BY <1>5, StoredIs DEF LaunchTypeOK, BridgeOfSession, TombOfSession, Fence, TearingDown, AnnounceStored
<1>6. ASSUME NEW s \in Sessions, AnnounceSettles(s) PROVE Fence'
  BY <1>6 DEF LaunchTypeOK, BridgeOfSession, TombOfSession, Fence, TearingDown, AnnounceSettles
<1>7. ASSUME NEW s \in Sessions, TombStored(s) PROVE Fence'
  BY <1>7, TombStoredIs, StoredIs DEF LaunchTypeOK, BridgeOfSession, TombOfSession, Fence, TearingDown, TombStored
<1>8. ASSUME NEW s \in Sessions, TombAnswered(s) PROVE Fence'
  BY <1>8, TombAnsweredIs DEF LaunchTypeOK, BridgeOfSession, TombOfSession, Fence, TearingDown, TombAnswered
<1>9. ASSUME NEW s \in Sessions, TombFails(s) PROVE Fence'
  <2>1. UNCHANGED <<launch, session, bridge, prepared, announce, post, started, serving, relays, bus>>
    BY <1>9 DEF TombFails
  <2>2. tomb[s].state = "trying"
    BY <1>9 DEF TombFails
  <2> QED
    BY <1>9, <2>1, <2>2, TombFailsIs DEF LaunchTypeOK, BridgeOfSession, TombOfSession, Fence, TearingDown
<1>10. ASSUME NEW s \in Sessions, ServeEnds(s) PROVE Fence'
  BY <1>10, TerminalizedIs DEF LaunchTypeOK, BridgeOfSession, TombOfSession, Fence, TearingDown, ServeEnds, Tracked, OwnerEnded
<1>11. ASSUME NEW s \in Sessions, Served(s) PROVE Fence'
  BY <1>11 DEF LaunchTypeOK, BridgeOfSession, TombOfSession, Fence, TearingDown, Served, Settled
<1>12. CASE ChildExits
  <2>1. \A r \in Sessions : tomb'[r] = IF bridge[r] = "ready" THEN Terminalized(r) ELSE tomb[r]
    BY <1>12 DEF ChildExits, Fenced
  <2>2. tomb' \in [Sessions -> Tombstone]
    BY <1>12, <2>1, TerminalizedIs DEF ChildExits, LaunchTypeOK
  <2> QED
    BY <1>12, <2>1, <2>2, TerminalizedIs DEF LaunchTypeOK, BridgeOfSession, TombOfSession, Fence, TearingDown, ChildExits, Fenced, Tracked
<1>13. CASE RelaysWaited
  BY <1>13 DEF LaunchTypeOK, BridgeOfSession, TombOfSession, Fence, TearingDown, RelaysWaited
<1>14. CASE TerminalsSettled
  BY <1>14 DEF LaunchTypeOK, BridgeOfSession, TombOfSession, Fence, TearingDown, TerminalsSettled
<1>15. CASE ProxyClosed
  BY <1>15 DEF LaunchTypeOK, BridgeOfSession, TombOfSession, Fence, TearingDown, ProxyClosed
<1>16. CASE UNCHANGED launchVars
  BY <1>16 DEF LaunchTypeOK, BridgeOfSession, TombOfSession, Fence, TearingDown, launchVars
<1> QED
  BY <1>1, <1>2, <1>3, <1>4, <1>5, <1>6, <1>7, <1>8, <1>9, <1>10, <1>11, <1>12, <1>13, <1>14, <1>15, <1>16 DEF LaunchNext, Running

\* The invariant holds when the child starts.
LEMMA InitInv == LaunchInit => LaunchInv
  BY DEF LaunchInit, LaunchInv, LaunchTypeOK, Tombstone, Fence, TearingDown, BridgeOfSession, TombOfSession, TombIsStored

\* The invariant holds in every reachable state.
THEOREM InvHolds == LaunchSpec => []LaunchInv
<1>1. LaunchInv /\ [LaunchNext]_launchVars => LaunchInv'
  BY TypeStep, BridgeStep, TombStep, StoredStep, FenceStep DEF LaunchInv
<1> QED
  BY InitInv, <1>1, PTL DEF LaunchSpec

\* Every variable keeps its type.
THEOREM TypeCorrect == LaunchSpec => []LaunchTypeOK
<1> QED
  BY InvHolds, PTL DEF LaunchInv

\* When the process exits no session it announced is a ghost on the bus: its tombstone is
\* stored, or all its attempts have failed.
THEOREM NoGhostAtExit == LaunchSpec => []NoGhost
<1>1. LaunchInv => NoGhost
  <2> SUFFICES ASSUME LaunchInv, launch = "done", NEW s \in started
               PROVE  bus[s] = "ended" \/ tomb[s].state = "gave up"
    BY DEF NoGhost
  <2>1. bridge[s] = "closed"
    BY DEF LaunchInv, LaunchTypeOK, Fence, TearingDown, BridgeOfSession
  <2>2. tomb[s].state \in {"over", "gave up"}
    <3>1. tomb[s] \in Tombstone /\ s \in Sessions
      BY DEF LaunchInv, LaunchTypeOK
    <3>2. tomb[s].state \in {"none", "trying", "over", "gave up"}
      BY <3>1 DEF Tombstone
    <3> QED
      BY <2>1, <3>1, <3>2 DEF LaunchInv, Fence, TombOfSession
  <2> QED
    BY <2>2 DEF LaunchInv, LaunchTypeOK, TombIsStored
<1> QED
  BY <1>1, InvHolds, PTL

-----------------------------------------------------------------------------
(* The proxy                                                               *)

\* A request stays a request when it moves on, and when it is done.
LEMMA MovesTyped ==
  ASSUME ProxyTypeOK, NEW c \in Conns, NEW at \in Stages, Moves(c, at)
  PROVE  request' \in [Conns -> RequestState]
<1>1. request[c] \in RequestState
  BY DEF ProxyTypeOK
<1>2. [request[c] EXCEPT !.at = at] \in RequestState
  BY <1>1 DEF RequestState
<1> QED
  BY <1>2 DEF ProxyTypeOK, Moves

LEMMA DoneTyped ==
  ASSUME ProxyTypeOK, NEW c \in Conns, Done(c)
  PROVE  request' \in [Conns -> RequestState]
  BY DEF ProxyTypeOK, Done, NoRequest, RequestState, Stages

\* Every step keeps the types.
LEMMA ProxyTypeStep == ProxyTypeOK /\ [ProxyNext]_proxyVars => ProxyTypeOK'
<1> SUFFICES ASSUME ProxyTypeOK, [ProxyNext]_proxyVars PROVE ProxyTypeOK'
  OBVIOUS
<1>1. ASSUME NEW c \in Conns, Connect(c) PROVE ProxyTypeOK'
  BY <1>1 DEF ProxyTypeOK, Connect
<1>2. ASSUME NEW c \in Conns, OnConnect(c) PROVE ProxyTypeOK'
  BY <1>2 DEF ProxyTypeOK, OnConnect, Refused
<1>3. ASSUME NEW c \in Conns, Dialed(c) PROVE ProxyTypeOK'
  BY <1>3 DEF ProxyTypeOK, Dialed, Killed
<1>4. ASSUME NEW c \in Conns, TunnelEnds(c) PROVE ProxyTypeOK'
  BY <1>4 DEF ProxyTypeOK, TunnelEnds, Killed
<1>5. ASSUME NEW c \in Conns, ClientLeaves(c) PROVE ProxyTypeOK'
  BY <1>5 DEF ProxyTypeOK, ClientLeaves
<1>6. ASSUME NEW c \in Conns, NEW kind \in {"worker", "bridge", "other"}, Request(c, kind)
      PROVE  ProxyTypeOK'
  <2>1. requests' \in Nat
    BY <1>6 DEF Request, ProxyTypeOK
  <2>2. [kind |-> kind, at |-> "body", whole |-> FALSE] \in RequestState
    BY <1>6 DEF RequestState, Stages
  <2>3. request' \in [Conns -> RequestState]
    BY <1>6, <2>2 DEF Request, ProxyTypeOK
  <2> QED
    BY <1>6, <2>1, <2>3 DEF ProxyTypeOK, Request
<1>7. ASSUME NEW c \in Conns, BodySettles(c) PROVE ProxyTypeOK'
  <2>1. request' \in [Conns -> RequestState]
    BY <1>7, MovesTyped DEF BodySettles, Stages
  <2> QED
    BY <1>7, <2>1 DEF ProxyTypeOK, BodySettles
<1>8. ASSUME NEW c \in Conns, BodyRefused(c) PROVE ProxyTypeOK'
  <2>1. request' \in [Conns -> RequestState]
    BY <1>8, DoneTyped DEF BodyRefused
  <2> QED
    BY <1>8, <2>1 DEF ProxyTypeOK, BodyRefused
<1>9. ASSUME NEW c \in Conns, Resume(c) PROVE ProxyTypeOK'
  <2>1. request' \in [Conns -> RequestState]
    BY <1>9, MovesTyped, DoneTyped DEF Resume, Stages
  <2> QED
    BY <1>9, <2>1 DEF ProxyTypeOK, Resume
<1>10. ASSUME NEW c \in Conns, Responds(c) PROVE ProxyTypeOK'
  <2>1. request' \in [Conns -> RequestState]
    BY <1>10, MovesTyped, DoneTyped DEF Responds, Stages
  <2> QED
    BY <1>10, <2>1 DEF ProxyTypeOK, Responds, UpstreamGone
<1>11. ASSUME NEW c \in Conns, ResponseEnds(c) PROVE ProxyTypeOK'
  <2>1. [request[c] EXCEPT !.at = "ending", !.whole = TRUE] \in RequestState
    BY <1>11 DEF ProxyTypeOK, RequestState, Stages
  <2>2. request' \in [Conns -> RequestState]
    BY <1>11, <2>1 DEF ProxyTypeOK, ResponseEnds, RequestState
  <2> QED
    BY <1>11, <2>2 DEF ProxyTypeOK, ResponseEnds, UpstreamGone
<1>12. ASSUME NEW c \in Conns, UpstreamFails(c) PROVE ProxyTypeOK'
  <2>1. request' \in [Conns -> RequestState]
    BY <1>12, MovesTyped, DoneTyped DEF UpstreamFails, Stages
  <2> QED
    BY <1>12, <2>1 DEF ProxyTypeOK, UpstreamFails, UpstreamGone
<1>13. ASSUME NEW c \in Conns, Finish(c) PROVE ProxyTypeOK'
  <2>1. request' \in [Conns -> RequestState]
    BY <1>13, DoneTyped DEF Finish
  <2>2. observed' \subseteq [conn : Conns, whole : BOOLEAN]
    BY <1>13 DEF ProxyTypeOK, Finish, RequestState
  <2> QED
    BY <1>13, <2>1, <2>2 DEF ProxyTypeOK, Finish
<1>14. ASSUME NEW c \in Conns, ResponseCloses(c) PROVE ProxyTypeOK'
  <2>1. request' \in [Conns -> RequestState]
    BY <1>14, DoneTyped DEF ResponseCloses
  <2> QED
    BY <1>14, <2>1 DEF ProxyTypeOK, ResponseCloses, UpstreamGone
<1>15. CASE CloseProxy
  BY <1>15 DEF ProxyTypeOK, CloseProxy
<1>16. CASE UNCHANGED proxyVars
  BY <1>16 DEF ProxyTypeOK, proxyVars
<1> QED
  BY <1>1, <1>2, <1>3, <1>4, <1>5, <1>6, <1>7, <1>8, <1>9, <1>10, <1>11, <1>12, <1>13, <1>14, <1>15, <1>16 DEF ProxyNext

\* What is open is owned, and nothing opens behind the close.
LEMMA OwnedStep == ProxyInv /\ [ProxyNext]_proxyVars => Owned' /\ NothingOutlivesClose'
<1> SUFFICES ASSUME ProxyInv, [ProxyNext]_proxyVars PROVE Owned' /\ NothingOutlivesClose'
  OBVIOUS
<1> USE DEF ProxyInv, Client, Remote
<1>1. ASSUME NEW c \in Conns, Connect(c) PROVE Owned' /\ NothingOutlivesClose'
  BY <1>1 DEF ProxyTypeOK, Owned, NothingOutlivesClose, Connect
<1>2. ASSUME NEW c \in Conns, OnConnect(c) PROVE Owned' /\ NothingOutlivesClose'
  BY <1>2 DEF ProxyTypeOK, Owned, NothingOutlivesClose, OnConnect, Refused
<1>3. ASSUME NEW c \in Conns, Dialed(c) PROVE Owned' /\ NothingOutlivesClose'
  BY <1>3 DEF ProxyTypeOK, Owned, NothingOutlivesClose, Dialed, Killed
<1>4. ASSUME NEW c \in Conns, TunnelEnds(c) PROVE Owned' /\ NothingOutlivesClose'
  BY <1>4 DEF ProxyTypeOK, Owned, NothingOutlivesClose, TunnelEnds, Killed
<1>5. ASSUME NEW c \in Conns, ClientLeaves(c) PROVE Owned' /\ NothingOutlivesClose'
  BY <1>5 DEF ProxyTypeOK, Owned, NothingOutlivesClose, ClientLeaves
<1>6. ASSUME NEW c \in Conns, NEW kind \in {"worker", "bridge", "other"}, Request(c, kind)
      PROVE  Owned' /\ NothingOutlivesClose'
  BY <1>6 DEF ProxyTypeOK, Owned, NothingOutlivesClose, Request
<1>7. ASSUME NEW c \in Conns, BodySettles(c) PROVE Owned' /\ NothingOutlivesClose'
  BY <1>7 DEF ProxyTypeOK, Owned, NothingOutlivesClose, BodySettles, Moves
<1>8. ASSUME NEW c \in Conns, BodyRefused(c) PROVE Owned' /\ NothingOutlivesClose'
  BY <1>8 DEF ProxyTypeOK, Owned, NothingOutlivesClose, BodyRefused, Done, NoRequest
<1>9. ASSUME NEW c \in Conns, Resume(c) PROVE Owned' /\ NothingOutlivesClose'
  BY <1>9 DEF ProxyTypeOK, Owned, NothingOutlivesClose, Resume, GivenUp, Moves, Done, NoRequest, UpstreamGone
<1>10. ASSUME NEW c \in Conns, Responds(c) PROVE Owned' /\ NothingOutlivesClose'
  BY <1>10 DEF ProxyTypeOK, Owned, NothingOutlivesClose, Responds, Moves, Done, NoRequest, UpstreamGone
<1>11. ASSUME NEW c \in Conns, ResponseEnds(c) PROVE Owned' /\ NothingOutlivesClose'
  BY <1>11 DEF ProxyTypeOK, Owned, NothingOutlivesClose, ResponseEnds, UpstreamGone
<1>12. ASSUME NEW c \in Conns, UpstreamFails(c) PROVE Owned' /\ NothingOutlivesClose'
  BY <1>12 DEF ProxyTypeOK, Owned, NothingOutlivesClose, UpstreamFails, Moves, Done, NoRequest, UpstreamGone
<1>13. ASSUME NEW c \in Conns, Finish(c) PROVE Owned' /\ NothingOutlivesClose'
  BY <1>13 DEF ProxyTypeOK, Owned, NothingOutlivesClose, Finish, Forwarded, Done, NoRequest
<1>14. ASSUME NEW c \in Conns, ResponseCloses(c) PROVE Owned' /\ NothingOutlivesClose'
  BY <1>14 DEF ProxyTypeOK, Owned, NothingOutlivesClose, ResponseCloses, Done, NoRequest, UpstreamGone
<1>15. CASE CloseProxy
  BY <1>15 DEF ProxyTypeOK, Owned, NothingOutlivesClose, CloseProxy
<1>16. CASE UNCHANGED proxyVars
  BY <1>16 DEF ProxyTypeOK, Owned, NothingOutlivesClose, proxyVars
<1> QED
  BY <1>1, <1>2, <1>3, <1>4, <1>5, <1>6, <1>7, <1>8, <1>9, <1>10, <1>11, <1>12, <1>13, <1>14, <1>15, <1>16 DEF ProxyNext

\* The invariant holds when the proxy starts.
LEMMA ProxyInitInv == ProxyInit => ProxyInv
<1> SUFFICES ASSUME ProxyInit PROVE ProxyInv
  OBVIOUS
<1>1. NoRequest \in RequestState
  BY DEF NoRequest, RequestState, Stages
<1>2. request \in [Conns -> RequestState]
  BY <1>1 DEF ProxyInit
<1>3. \A c \in Conns : client[c] = "none" /\ remote[c] = "none" /\ upstream[c] = "none"
  BY DEF ProxyInit
<1>4. /\ client \in [Conns -> {"none", "queued", "open", "gone"}]
      /\ remote \in [Conns -> {"none", "dialing", "open", "gone"}]
      /\ upstream \in [Conns -> {"none", "live", "gone"}]
  BY DEF ProxyInit
<1>5. ProxyTypeOK
  BY <1>2, <1>4 DEF ProxyInit, ProxyTypeOK
<1>6. Owned
  BY <1>3 DEF Owned
<1>7. NothingOutlivesClose
  BY <1>3 DEF NothingOutlivesClose
<1> QED
  BY <1>5, <1>6, <1>7 DEF ProxyInv

\* Every variable keeps its type, and what is open is owned.
THEOREM ProxyInvHolds == ProxySpec => []ProxyInv
<1>1. ProxyInv /\ [ProxyNext]_proxyVars => ProxyInv'
  BY ProxyTypeStep, OwnedStep DEF ProxyInv
<1> QED
  BY ProxyInitInv, <1>1, PTL DEF ProxySpec

\* Whatever was queued or parked when close() ran, the stopped proxy has no socket and no
\* upstream request open.
THEOREM ClosedForGood == ProxySpec => []NothingOutlivesClose
<1> QED
  BY ProxyInvHolds, PTL DEF ProxyInv

-----------------------------------------------------------------------------
(* The tmux pane: induction                                                *)

LEMMA LeastNatural == ASSUME NEW S \in SUBSET Nat, S # {} PROVE \E n \in S : \A m \in S : n <= m
<1>1. PICK x \in S : \A y \in S : ~(<<y, x>> \in OpToRel(<, Nat))
  BY NatLessThanWellFounded, WFMin
<1>2. \A y \in S : <<y, x>> \in OpToRel(<, Nat) <=> y < x
  BY DEF OpToRel
<1>3. \A y \in S : ~(y < x)
  BY <1>1, <1>2, Zenon
<1> QED
  BY <1>3

\* Induction up to N over a set.
LEMMA UpTo ==
  ASSUME NEW N \in Nat, NEW T, 0 \in T, \A n \in 1..N : n - 1 \in T => n \in T
  PROVE  \A n \in 0..N : n \in T
<1> DEFINE S == {n \in 0..N : n \notin T}
<1> SUFFICES ASSUME S # {} PROVE FALSE
  OBVIOUS
<1>1. S \in SUBSET Nat
  OBVIOUS
<1>2. PICK n \in S : \A m \in S : n <= m
  BY <1>1, LeastNatural
<1>3. n \in 1..N /\ n - 1 \in 0..N /\ n - 1 < n
  BY <1>2
<1> QED
  BY <1>2, <1>3

-----------------------------------------------------------------------------
(* The batch of lines                                                      *)

\* What the capture loop has of its own while it handles a batch.
IsBatchState(p) ==
    p = [facts |-> p.facts, seen |-> p.seen, ledger |-> p.ledger, shown |-> p.shown,
         status |-> p.status, closed |-> p.closed]

\* A line adds a completion to the facts or none, and never opens a closed session.
LEMMA HandleIs ==
  ASSUME NEW p, IsBatchState(p), p.closed \in BOOLEAN, NEW line
  PROVE  LET q == Handle(p, line) IN
         /\ IsBatchState(q) /\ q.closed \in BOOLEAN /\ (p.closed => q.closed)
         /\ q.facts = p.facts \/ (EndsTurn(line) /\ q.facts = Append(p.facts, line.at))
<1> DEFINE a == p.facts
           b == p.seen
           c == p.ledger
           d == p.shown
           e == p.status
           f == p.closed
           q == Handle(p, line)
<1>1. p = [facts |-> a, seen |-> b, ledger |-> c, shown |-> d, status |-> e, closed |-> f] /\ f \in BOOLEAN
  BY DEF IsBatchState
<1> HIDE DEF a, b, c, d, e, f
<1>2. CASE line.kind \in {"completed", "cancelled", "blocked"}
  <2>1. q = [p EXCEPT !.facts = IF EndsTurn(line) THEN Append(p.facts, line.at) ELSE p.facts,
                      !.closed = p.closed \/ line.kind = "blocked"]
    BY <1>1, <1>2 DEF Handle
  <2>2. q = [facts |-> IF EndsTurn(line) THEN Append(a, line.at) ELSE a, seen |-> b, ledger |-> c, shown |-> d,
             status |-> e, closed |-> (f \/ line.kind = "blocked")]
    BY <1>1, <2>1
  <2> DEFINE h == f \/ line.kind = "blocked"
  <2>3. h \in BOOLEAN /\ (f => h)
    BY <1>1
  <2>4. q.closed = h /\ IsBatchState(q)
        /\ q.facts = IF EndsTurn(line) THEN Append(a, line.at) ELSE a
    <3> HIDE DEF h, q
    <3> QED
      BY <2>2 DEF IsBatchState, h
  <2> HIDE DEF h, q
  <2>5. p.closed = f /\ p.facts = a
    BY DEF f, a
  <2>6. q.facts = p.facts \/ (EndsTurn(line) /\ q.facts = Append(p.facts, line.at))
    BY <2>4, <2>5, Zenon
  <2> QED
    BY <2>3, <2>4, <2>5, <2>6 DEF q
<1>3. CASE line.kind \notin {"completed", "cancelled", "blocked"} /\ line.at \in p.seen
  <2>1. q = p
    BY <1>3 DEF Handle
  <2> QED
    BY <1>1, <2>1 DEF IsBatchState
<1>4. CASE line.kind \notin {"completed", "cancelled", "blocked"} /\ line.at \notin p.seen
  <2> DEFINE mine == line.kind = "user" /\ line.of \in p.ledger
  <2>1. q = [p EXCEPT !.seen = p.seen \union {line.at},
                      !.ledger = IF mine THEN p.ledger \ {line.of} ELSE p.ledger,
                      !.shown = IF mine \/ p.closed THEN p.shown ELSE Append(p.shown, line),
                      !.status = IF p.closed THEN p.status ELSE Observed(p.status, line)]
    BY <1>1, <1>4 DEF Handle
  <2>2. q = [facts |-> a, seen |-> b \union {line.at}, ledger |-> IF mine THEN c \ {line.of} ELSE c,
             shown |-> IF mine \/ f THEN d ELSE Append(d, line),
             status |-> IF f THEN e ELSE Observed(e, line), closed |-> f]
    <3> HIDE DEF mine
    <3> QED
      BY <1>1, <2>1
  <2> QED
    BY <1>1, <2>2 DEF IsBatchState
<1> QED
  BY <1>2, <1>3, <1>4

\* The state after the lines up to each time.
IsRun(now, lines, before) ==
    now = [t \in 0..clock |->
             IF t = 0 THEN before
             ELSE IF Merged(lines, t) = {} THEN now[t - 1]
             ELSE Handle(now[t - 1], CHOOSE l \in Merged(lines, t) : TRUE)]

LEMMA RunExists == ASSUME clock \in Nat, NEW lines, NEW before PROVE \E now : IsRun(now, lines, before)
<1> DEFINE After(p, t) == IF Merged(lines, t) = {} THEN p ELSE Handle(p, CHOOSE l \in Merged(lines, t) : TRUE)
           Run(k, f) == f = [t \in 0..k |-> IF t = 0 THEN before ELSE After(f[t - 1], t)]
           T == {k \in 0..clock : \E f : Run(k, f)}
<1> HIDE DEF After
<1>1. 0 \in T
  <2>1. Run(0, [t \in 0..0 |-> before])
    OBVIOUS
  <2> HIDE DEF Run
  <2> QED
    BY <2>1
<1>2. ASSUME NEW k \in 1..clock, k - 1 \in T PROVE k \in T
  <2>1. PICK f : Run(k - 1, f)
    BY <1>2
  <2> DEFINE g == [t \in 0..k |-> IF t = k THEN After(f[k - 1], k) ELSE f[t]]
  <2>2. \A t \in 0..(k - 1) : g[t] = f[t]
    OBVIOUS
  <2>3. g[k] = After(f[k - 1], k)
    OBVIOUS
  <2>4. DOMAIN g = 0..k /\ g = [t \in 0..k |-> g[t]]
    OBVIOUS
  <2> HIDE DEF g
  <2>5. ASSUME NEW t \in 0..k PROVE g[t] = IF t = 0 THEN before ELSE After(g[t - 1], t)
    <3>1. CASE t = k
      <4>1. g[t - 1] = f[k - 1] /\ t # 0
        BY <2>2, <3>1
      <4> QED
        BY <2>3, <3>1, <4>1
    <3>2. CASE t = 0
      BY <2>1, <2>2, <3>2
    <3>3. CASE t \in 1..(k - 1)
      <4>1. t - 1 \in 0..(k - 1) /\ t \in 0..(k - 1) /\ t # 0
        BY <3>3
      <4>2. f[t] = After(f[t - 1], t)
        BY <2>1, <4>1
      <4> QED
        BY <2>2, <4>1, <4>2
    <3> QED
      BY <3>1, <3>2, <3>3
  <2>6. Run(k, g)
    BY <2>4, <2>5
  <2>7. k \in 0..clock
    OBVIOUS
  <2> HIDE DEF Run
  <2> QED
    BY <2>6, <2>7
<1> HIDE DEF T
<1>3. \A k \in 0..clock : k \in T
  BY <1>1, <1>2, UpTo
<1>4. clock \in 0..clock
  OBVIOUS
<1>5. clock \in T
  BY <1>3, <1>4, Zenon
<1>6. \E f : Run(clock, f)
  BY <1>5, Zenon DEF T
<1> QED
  BY <1>6 DEF After, IsRun

LEMMA EmittedIs ==
  ASSUME clock \in Nat, NEW lines, NEW before
  PROVE  \E now : IsRun(now, lines, before) /\ Emitted(lines, before) = now[clock]
<1> DEFINE now == CHOOSE f : IsRun(f, lines, before)
<1>1. IsRun(now, lines, before)
  BY RunExists, Zenon
<1>2. Emitted(lines, before) = now[clock]
  BY Zenon DEF Emitted, IsRun
<1> QED
  BY <1>1, <1>2, Zenon

\* What a batch does: it adds completions of its lines to the facts, and never opens a
\* closed session.
BatchGives(lines, before, after) ==
    /\ after.facts \in Seq(Nat) /\ after.closed \in BOOLEAN /\ (before.closed => after.closed)
    /\ \A i \in DOMAIN after.facts :
         \/ \E j \in DOMAIN before.facts : after.facts[i] = before.facts[j]
         \/ \E l \in lines : EndsTurn(l) /\ after.facts[i] = l.at

LEMMA BatchIs ==
  ASSUME clock \in Nat, NEW lines, \A l \in lines : EndsTurn(l) => l.at \in Nat,
         NEW before, IsBatchState(before), before.facts \in Seq(Nat), before.closed \in BOOLEAN
  PROVE  BatchGives(lines, before, Emitted(lines, before))
<1> DEFINE From(x) == \/ \E j \in DOMAIN before.facts : x = before.facts[j]
                      \/ \E l \in lines : EndsTurn(l) /\ x = l.at
           Good(p) == /\ IsBatchState(p) /\ p.facts \in Seq(Nat) /\ p.closed \in BOOLEAN
                      /\ (before.closed => p.closed)
                      /\ \A i \in DOMAIN p.facts : From(p.facts[i])
<1>1. PICK now : IsRun(now, lines, before) /\ Emitted(lines, before) = now[clock]
  BY EmittedIs
<1> DEFINE T == {t \in 0..clock : Good(now[t])}
<1>2. 0 \in T
  <2>1. now[0] = before
    BY <1>1 DEF IsRun
  <2>2. Good(before)
    OBVIOUS
  <2> HIDE DEF Good
  <2> QED
    BY <2>1, <2>2
<1>3. ASSUME NEW t \in 1..clock, t - 1 \in T PROVE t \in T
  <2> DEFINE p == now[t - 1]
  <2>1. Good(p) /\ t \in 0..clock /\ t # 0
    BY <1>3
  <2>2. now[t] = IF Merged(lines, t) = {} THEN p ELSE Handle(p, CHOOSE l \in Merged(lines, t) : TRUE)
    BY <1>1, <2>1 DEF IsRun
  <2>3. CASE Merged(lines, t) = {}
    <3> HIDE DEF Good
    <3> QED
      BY <2>1, <2>2, <2>3
  <2>4. CASE Merged(lines, t) # {}
    <3> DEFINE l == CHOOSE m \in Merged(lines, t) : TRUE
               q == Handle(p, l)
    <3>1. l \in lines
      BY <2>4 DEF Merged
    <3> HIDE DEF l
    <3>2. /\ IsBatchState(q) /\ q.closed \in BOOLEAN /\ (p.closed => q.closed)
          /\ q.facts = p.facts \/ (EndsTurn(l) /\ q.facts = Append(p.facts, l.at))
      BY <2>1, HandleIs
    <3>3. now[t] = q
      BY <2>2, <2>4 DEF l
    <3> HIDE DEF q
    <3>4. q.facts \in Seq(Nat) /\ \A i \in DOMAIN q.facts : From(q.facts[i])
      <4>1. CASE q.facts = p.facts
        BY <2>1, <4>1
      <4>2. CASE EndsTurn(l) /\ q.facts = Append(p.facts, l.at)
        <5>1. From(l.at) /\ l.at \in Nat
          BY <3>1, <4>2
        <5> DEFINE old == p.facts
        <5>2. old \in Seq(Nat) /\ \A i \in DOMAIN old : From(old[i])
          BY <2>1
        <5>3. q.facts = Append(old, l.at)
          BY <4>2
        <5> HIDE DEF old, From
        <5> QED
          BY <5>1, <5>2, <5>3
      <4> QED
        BY <3>2, <4>1, <4>2
    <3>5. Good(q)
      BY <2>1, <3>2, <3>4
    <3> HIDE DEF Good
    <3> QED
      BY <2>1, <3>3, <3>5
  <2> QED
    BY <2>3, <2>4
<1> HIDE DEF T
<1>4. \A t \in 0..clock : t \in T
  BY <1>2, <1>3, UpTo
<1>5. clock \in 0..clock
  OBVIOUS
<1>6. clock \in T
  BY <1>4, <1>5, Zenon
<1>7. Good(now[clock])
  BY <1>6, Zenon DEF T
<1> QED
  BY <1>1, <1>7 DEF BatchGives

-----------------------------------------------------------------------------
(* What each kind of step leaves alone                                     *)

Loop == BindTranscript \/ StartupFails \/ PollMain \/ EmitBatch \/ RenameGate \/ CompareGate \/ RestoreGate
        \/ Drained \/ FollowRotation \/ ProbePane \/ Reread \/ IdleTimer
Helping == TakeText \/ LoadBuffer \/ RunHelper \/ ClaimGate \/ GateBusy \/ Paste \/ Enter \/ Answered \/ GiveUp \/ HelperFails \/ LoadFails
Pane == (\E l \in Locals : LocalPrompt(l)) \/ Claude \/ PromptBlocked \/ CallAgent \/ Interrupted \/ Rotate
        \/ SessionEnd \/ PaneExits

LEMMA NextIs == PaneNext <=> Pane \/ Loop \/ Helping \/ \E t \in Texts : Send(t)
  BY DEF PaneNext, Pane, Loop, Helping, Capture, Helper

LEMMA NativeFrame ==
  ASSUME Native PROVE phase # "stopped" /\ pane = "alive"
                      /\ UNCHANGED <<aside, lock, phase, tail, seen, shown, facts, missed, status,
                                     inject, sessionClosed, inbox, ackedTexts, ledger, typed>>
  BY DEF Native, capture, pumped

LEMMA PaneFrame == Pane => Native
  BY DEF Pane, Claude, LocalPrompt, PromptHook, AgentWrites, AgentAnswers, TurnCompletes, PromptBlocked,
     CallAgent, Interrupted, Rotate, SessionEnd, PaneExits

LEMMA CapturingFrame ==
  ASSUME NEW at, Capturing(at)
  PROVE  phase = at /\ UNCHANGED <<clock, pane, waiting, turn, files, sub, marker, ended, lock,
                                   inbox, ackedTexts, ledger, inject, typed>>
  BY DEF Capturing, claude, pumped

LEMMA LoopFrame == Loop => UNCHANGED <<clock, waiting, turn, files, sub, marker, inbox, ackedTexts, inject, typed>>
<1>1. ASSUME NEW at, Capturing(at) PROVE UNCHANGED <<clock, waiting, turn, files, sub, marker, inbox, ackedTexts, inject, typed>>
  BY <1>1, CapturingFrame
<1>2. EmitBatch => UNCHANGED <<clock, waiting, turn, files, sub, marker, inbox, ackedTexts, inject, typed>>
  BY DEF EmitBatch, claude
<1>3. FollowRotation => UNCHANGED <<clock, waiting, turn, files, sub, marker, inbox, ackedTexts, inject, typed>>
  BY DEF FollowRotation, claude
<1> QED
  BY <1>1, <1>2, <1>3 DEF Loop, BindTranscript, StartupFails, PollMain, RenameGate, CompareGate, RestoreGate,
     Drained, ProbePane, Reread, IdleTimer

LEMMA HelpingFrame ==
  (Helping \/ \E t \in Texts : Send(t)) => UNCHANGED <<aside, phase, tail, facts, turn, files, sub, marker>>
<1>1. InjectFrame => UNCHANGED <<aside, phase, tail, facts>>
  BY DEF InjectFrame, capture
<1>2. HelperFrame => UNCHANGED <<turn, files, sub, marker>> /\ InjectFrame
  BY DEF HelperFrame
<1>3. LoadBuffer \/ RunHelper \/ ClaimGate \/ GateBusy \/ Paste \/ Enter => HelperFrame
  BY DEF LoadBuffer, RunHelper, ClaimGate, GateBusy, Paste, Enter
<1>4. TakeText \/ Answered \/ GiveUp \/ LoadFails \/ (\E t \in Texts : Send(t))
        => InjectFrame /\ UNCHANGED <<turn, files, sub, marker>>
  BY DEF TakeText, Answered, GiveUp, LoadFails, Send, claude
<1>5. HelperFails => InjectFrame /\ UNCHANGED <<turn, files, sub, marker>>
  BY DEF HelperFails
<1> QED
  BY <1>1, <1>2, <1>3, <1>4, <1>5 DEF Helping

\* The capture loop closes the session or leaves it as it is.
LEMMA BatchStep ==
  ASSUME PaneTypeOK, EmitBatch
  PROVE  /\ facts' \in Seq(Nat) /\ sessionClosed' \in BOOLEAN /\ (sessionClosed => sessionClosed')
         /\ \A i \in DOMAIN facts' :
              \/ \E j \in DOMAIN facts : facts'[i] = facts[j]
              \/ \E j \in DOMAIN tail.read : EndsTurn(tail.read[j]) /\ facts'[i] = tail.read[j].at
<1> DEFINE before == [facts |-> facts, seen |-> seen, ledger |-> ledger, shown |-> shown,
                      status |-> status, closed |-> sessionClosed]
           after == Emitted(ReadLines, before)
<1>1. clock \in Nat /\ facts \in Seq(Nat) /\ sessionClosed \in BOOLEAN /\ tail.read \in Seq(Lines)
      /\ sub \in Seq(SubLines) /\ tail.subAt \in Nat
  <2>1. tail \in Tails
    BY DEF PaneTypeOK
  <2>2. tail.read \in Seq(Lines) /\ tail.subAt \in Nat
    BY <2>1 DEF Tails
  <2> QED
    BY <2>2 DEF PaneTypeOK
<1>2. facts' = after.facts /\ sessionClosed' = after.closed
  BY DEF EmitBatch
<1>3. ASSUME NEW l \in ReadLines, EndsTurn(l) PROVE \E j \in DOMAIN tail.read : l = tail.read[j]
  <2>1. CASE l \in ToSet(tail.read)
    BY <2>1 DEF ToSet
  <2>2. CASE l \in {sub[i] : i \in (tail.subAt + 1)..Len(sub)}
    <3>1. PICK i \in (tail.subAt + 1)..Len(sub) : l = sub[i]
      BY <2>2
    <3>2. i \in 1..Len(sub)
      BY <1>1, <3>1
    <3>3. sub[i].kind = "sub"
      <4>1. sub[i] \in SubLines
        BY <1>1, <3>2
      <4> QED
        BY <4>1 DEF SubLines
    <3> QED
      BY <1>3, <3>1, <3>3 DEF EndsTurn
  <2> QED
    BY <2>1, <2>2 DEF ReadLines
<1>4. \A l \in ReadLines : EndsTurn(l) => l.at \in Nat
  <2> SUFFICES ASSUME NEW l \in ReadLines, EndsTurn(l) PROVE l.at \in Nat
    OBVIOUS
  <2>1. l \in Lines
    BY <1>1, <1>3
  <2> QED
    BY <2>1 DEF Lines
<1>5. IsBatchState(before) /\ before.facts = facts /\ before.closed = sessionClosed
  BY DEF IsBatchState
<1> HIDE DEF before
<1>6. /\ after.facts \in Seq(Nat) /\ after.closed \in BOOLEAN /\ (sessionClosed => after.closed)
      /\ \A i \in DOMAIN after.facts :
           \/ \E j \in DOMAIN facts : after.facts[i] = facts[j]
           \/ \E l \in ReadLines : EndsTurn(l) /\ after.facts[i] = l.at
  <2>1. before.facts \in Seq(Nat) /\ before.closed \in BOOLEAN
    BY <1>1, <1>5
  <2> QED
    <3> DEFINE lines == ReadLines
    <3>1. clock \in Nat /\ IsBatchState(before) /\ \A l \in lines : EndsTurn(l) => l.at \in Nat
      BY <1>1, <1>4, <1>5
    <3>2. after = Emitted(lines, before)
      OBVIOUS
    <3> HIDE DEF lines, after
    <3>3. BatchGives(lines, before, after)
      BY <2>1, <3>1, <3>2, BatchIs
    <3> QED
      BY <1>5, <3>3 DEF lines, BatchGives
<1> HIDE DEF after
<1>7. ASSUME NEW i \in DOMAIN facts'
      PROVE  \/ \E j \in DOMAIN facts : facts'[i] = facts[j]
             \/ \E j \in DOMAIN tail.read : EndsTurn(tail.read[j]) /\ facts'[i] = tail.read[j].at
  <2>1. CASE \E j \in DOMAIN facts : after.facts[i] = facts[j]
    BY <1>2, <2>1
  <2>2. CASE \E l \in ReadLines : EndsTurn(l) /\ after.facts[i] = l.at
    BY <1>2, <1>3, <2>2
  <2> QED
    BY <1>2, <1>6, <1>7, <2>1, <2>2
<1> QED
  BY <1>2, <1>6, <1>7

-----------------------------------------------------------------------------
(* Types                                                                   *)

\* A suffix and the rest of a sequence.
LEMMA SuffixOf ==
  ASSUME NEW D, NEW q \in Seq(D), NEW i \in Nat
  PROVE  /\ SubSeq(q, i + 1, Len(q)) \in Seq(D) /\ Len(q) \in Nat
         /\ \A n \in DOMAIN SubSeq(q, i + 1, Len(q)) :
              i + n \in DOMAIN q /\ SubSeq(q, i + 1, Len(q))[n] = q[i + n]
  OBVIOUS

LEMMA TailOf == ASSUME NEW q \in Seq(Nat), q # <<>> PROVE Tail(q) \in Seq(Nat)
  OBVIOUS

\* Appending a line to the newest transcript.
LEMMA WriteIs ==
  ASSUME PaneTypeOK, NEW line \in Lines, Write(line)
  PROVE  /\ files' \in Seq(Seq(Lines)) /\ Len(files') = Len(files) /\ DOMAIN files' = DOMAIN files
         /\ \A f \in DOMAIN files : f # Len(files) => files'[f] = files[f]
         /\ Len(files) \in DOMAIN files /\ files'[Len(files)] = Append(files[Len(files)], line)
<1>1. files \in Seq(Seq(Lines)) /\ Len(files) # 0
  BY DEF PaneTypeOK
<1> DEFINE n == Len(files)
           longer == Append(files[n], line)
<1>2. n \in 1..n /\ DOMAIN files = 1..n /\ files[n] \in Seq(Lines)
  BY <1>1
<1>3. longer \in Seq(Lines)
  BY <1>2
<1>4. files' = [files EXCEPT ![n] = longer]
  BY DEF Write
<1> HIDE DEF longer
<1> QED
  BY <1>1, <1>2, <1>3, <1>4 DEF longer

\* A step that only writes one line of Claude's, or none, keeps the types.
LEMMA PaneType ==
  ASSUME PaneTypeOK, Pane
  PROVE  PaneTypeOK'
<1>0. /\ UNCHANGED <<aside, phase, tail, facts, inject, sessionClosed, inbox, ackedTexts, typed>>
      /\ clock \in Nat /\ waiting \in Seq(Prompts) /\ turn \in Turns \union {NULL} /\ gate \in Nat
      /\ files \in Seq(Seq(Lines)) /\ marker = Len(files) /\ marker # 0
      /\ sub \in Seq(SubLines)
  BY PaneFrame, NativeFrame DEF PaneTypeOK
<1> DEFINE Rest == /\ clock' \in Nat /\ waiting' \in Seq(Prompts) /\ turn' \in Turns \union {NULL} /\ gate' \in Nat
                   /\ sub' \in Seq(SubLines)
<1>1. ASSUME Rest, files' \in Seq(Seq(Lines)), marker' = Len(files'), marker' # 0, Len(files) <= Len(files') PROVE PaneTypeOK'
  <2>1. phase \notin {"ready", "stopped"} => tail.file \in 1..Len(files)
    BY <1>0 DEF PaneTypeOK
  <2>2. \A n \in 1..Len(files) : n \in DOMAIN files'
    BY <1>0, <1>1
  <2>3. phase' \notin {"ready", "stopped"} => tail'.file \in DOMAIN files'
    BY <1>0, <2>1, <2>2, Zenon
  <2> QED
    BY <1>0, <1>1, <2>3 DEF PaneTypeOK
<1>2. ASSUME NEW line \in Lines, Write(line), Rest, UNCHANGED marker PROVE PaneTypeOK'
  BY <1>0, <1>1, <1>2, WriteIs
<1>3. ASSUME Rest, UNCHANGED <<files, marker>> PROVE PaneTypeOK'
  BY <1>0, <1>1, <1>3
<1>4. waiting # <<>> => Head(waiting) \in Prompts /\ Tail(waiting) \in Seq(Prompts)
  BY <1>0
<1>5. turn # NULL => turn \in Turns /\ turn.of \in Prompts
  BY <1>0 DEF Turns
<1>6. ASSUME NEW l \in Locals, LocalPrompt(l) PROVE PaneTypeOK'
  <2>1. waiting' = Append(waiting, l) /\ l \in Prompts
        /\ UNCHANGED <<clock, turn, files, sub, marker, gate>>
    BY <1>6 DEF LocalPrompt, Prompts
  <2>2. Rest
    BY <1>0, <2>1
  <2> QED
    BY <1>3, <2>1, <2>2
<1>7. CASE PromptHook
  <2>1. /\ clock' = clock + 1 /\ gate' = clock' /\ waiting' = Tail(waiting) /\ waiting # <<>>
        /\ turn' = [of |-> Head(waiting), at |-> "main"]
        /\ Write(Line("user", Head(waiting))) /\ UNCHANGED <<sub, marker>>
    BY <1>7 DEF PromptHook
  <2>2. Line("user", Head(waiting)) \in Lines
    BY <1>0, <1>4, <2>1 DEF Line, Lines
  <2>3. turn' \in Turns
    BY <1>4, <2>1 DEF Turns
  <2>4. Rest
    BY <1>0, <1>4, <2>1, <2>3
  <2> QED
    BY <1>2, <2>1, <2>2, <2>4
<1>8. CASE PromptBlocked
  <2>1. /\ clock' = clock + 1 /\ (gate' = clock' \/ gate' = gate) /\ waiting' = Tail(waiting) /\ waiting # <<>>
        /\ Write(Line("blocked", Head(waiting))) /\ UNCHANGED <<sub, marker, turn>>
    BY <1>8 DEF PromptBlocked
  <2>2. Line("blocked", Head(waiting)) \in Lines
    BY <1>0, <1>4, <2>1 DEF Line, Lines
  <2>3. Rest
    BY <1>0, <1>4, <2>1
  <2> QED
    BY <1>2, <2>1, <2>2, <2>3
<1>9. CASE CallAgent
  <2>1. /\ clock' = clock + 1 /\ turn # NULL /\ turn' = [turn EXCEPT !.at = "agent"]
        /\ Write(Line("call", turn.of)) /\ UNCHANGED <<sub, marker, waiting, gate>>
    BY <1>9 DEF CallAgent
  <2>2. Line("call", turn.of) \in Lines
    BY <1>0, <1>5, <2>1 DEF Line, Lines
  <2>3. turn' \in Turns
    BY <1>5, <2>1 DEF Turns
  <2>4. Rest
    BY <1>0, <2>1, <2>3
  <2> QED
    BY <1>2, <2>1, <2>2, <2>4
<1>10. CASE AgentWrites
  <2>1. /\ clock' = clock + 1 /\ turn # NULL /\ turn' = [turn EXCEPT !.at = "back"]
        /\ sub' = Append(sub, Line("sub", turn.of)) /\ UNCHANGED <<files, marker, waiting, gate>>
    BY <1>10 DEF AgentWrites
  <2>2. Line("sub", turn.of) \in SubLines
    BY <1>0, <1>5, <2>1 DEF Line, SubLines
  <2>3. turn' \in Turns
    BY <1>5, <2>1 DEF Turns
  <2>4. Rest
    BY <1>0, <2>1, <2>2, <2>3
  <2> QED
    BY <1>3, <2>1, <2>4
<1>11. CASE AgentAnswers
  <2>1. /\ clock' = clock + 1 /\ turn # NULL /\ turn' = [turn EXCEPT !.at = "done"]
        /\ Write(Line("result", turn.of)) /\ UNCHANGED <<sub, marker, waiting, gate>>
    BY <1>11 DEF AgentAnswers
  <2>2. Line("result", turn.of) \in Lines
    BY <1>0, <1>5, <2>1 DEF Line, Lines
  <2>3. turn' \in Turns
    BY <1>5, <2>1 DEF Turns
  <2>4. Rest
    BY <1>0, <2>1, <2>3
  <2> QED
    BY <1>2, <2>1, <2>2, <2>4
<1>12. CASE TurnCompletes \/ Interrupted
  <2>1. PICK kind \in {"completed", "cancelled"} : EndTurn(kind)
    BY <1>12 DEF TurnCompletes, Interrupted
  <2>2. /\ clock' = clock + 1 /\ turn # NULL /\ turn' = NULL
        /\ Write(Line(kind, turn.of)) /\ UNCHANGED <<sub, marker, waiting, gate>>
    BY <2>1 DEF EndTurn
  <2>3. Line(kind, turn.of) \in Lines
    BY <1>0, <1>5, <2>2 DEF Line, Lines
  <2>4. Rest
    BY <1>0, <2>2
  <2> QED
    BY <1>2, <2>2, <2>3, <2>4
<1>13. CASE Rotate
  <2>1. files' = Append(files, <<>>) /\ sub' = <<>> /\ marker' = marker + 1
        /\ UNCHANGED <<clock, waiting, turn, gate>>
    BY <1>13 DEF Rotate
  <2>2. files' \in Seq(Seq(Lines)) /\ Len(files') = Len(files) + 1
    BY <1>0, <2>1
  <2>3. Rest
    BY <1>0, <2>1
  <2>4. marker' = Len(files') /\ marker' # 0 /\ Len(files) <= Len(files')
    BY <1>0, <2>1, <2>2
  <2> QED
    BY <1>1, <2>2, <2>3, <2>4
<1>14. CASE SessionEnd
  <2>1. clock' = clock + 1 /\ gate' = clock' /\ UNCHANGED <<waiting, turn, files, sub, marker>>
    BY <1>14 DEF SessionEnd
  <2>2. Rest
    BY <1>0, <2>1
  <2> QED
    BY <1>3, <2>1, <2>2
<1>15. CASE PaneExits
  <2>1. turn' = NULL /\ waiting' = <<>> /\ UNCHANGED <<clock, files, sub, marker, gate>>
    BY <1>15 DEF PaneExits
  <2>2. Rest
    BY <1>0, <2>1
  <2> QED
    BY <1>3, <2>1, <2>2
<1> HIDE DEF Rest
<1> QED
  BY <1>6, <1>7, <1>8, <1>9, <1>10, <1>11, <1>12, <1>13, <1>14, <1>15 DEF Pane, Claude

LEMMA LoopType ==
  ASSUME PaneTypeOK, Loop
  PROVE  PaneTypeOK'
<1>0. /\ UNCHANGED <<clock, waiting, turn, files, sub, marker, inbox, ackedTexts, inject, typed>>
      /\ gate \in Nat /\ aside \in Nat /\ tail \in Tails /\ facts \in Seq(Nat) /\ sessionClosed \in BOOLEAN
      /\ files \in Seq(Seq(Lines)) /\ marker = Len(files) /\ marker # 0 /\ sub \in Seq(SubLines)
      /\ (phase \notin {"ready", "stopped"} => tail.file \in DOMAIN files)
      /\ (phase \in {"renamed", "restore"} => facts # <<>>)
  BY LoopFrame DEF PaneTypeOK
<1>1. ASSUME gate' \in Nat, aside' \in Nat, tail' \in Tails, facts' \in Seq(Nat), sessionClosed' \in BOOLEAN,
             phase' \notin {"ready", "stopped"} => tail'.file \in DOMAIN files,
             phase' \in {"renamed", "restore"} => facts' # <<>>
      PROVE  PaneTypeOK'
  BY <1>0, <1>1 DEF PaneTypeOK
<1>2. CASE BindTranscript
  <2>1. /\ phase' = "main" /\ tail' = [tail EXCEPT !.file = marker] /\ UNCHANGED <<gate, aside, sessionClosed, facts>>
    BY <1>2 DEF BindTranscript, TailFrame
  <2>3. marker \in DOMAIN files /\ marker \in Nat
    BY <1>0
  <2>2. tail' \in Tails /\ tail'.file = marker
    BY <1>0, <2>1, <2>3 DEF Tails
  <2> QED
    BY <1>0, <1>1, <2>1, <2>2, <2>3
<1>3. CASE StartupFails
  <2>1. phase' = "stopped" /\ sessionClosed' = TRUE /\ UNCHANGED <<tail, gate, aside, facts>>
    BY <1>3 DEF StartupFails, TailFrame
  <2> QED
    BY <1>0, <1>1, <2>1
<1>4. CASE PollMain
  <2>1. /\ phase = "main" /\ phase' = "emit" /\ sessionClosed' = (sessionClosed \/ (ended /\ ~tail.again)) /\ UNCHANGED <<gate, aside, facts>>
        /\ tail' = [tail EXCEPT !.read = SubSeq(files[tail.file], tail.at + 1, Len(files[tail.file])),
                                !.at = Len(files[tail.file])]
    BY <1>4 DEF PollMain, TailFrame, Capturing
  <2> DEFINE file == files[tail.file]
             rest == SubSeq(file, tail.at + 1, Len(file))
  <2>2. file \in Seq(Lines) /\ tail.at \in Nat
    BY <1>0, <2>1 DEF Tails
  <2>3. rest \in Seq(Lines) /\ Len(file) \in Nat
    BY <2>2, SuffixOf
  <2>4. tail' = [tail EXCEPT !.read = rest, !.at = Len(file)]
    BY <2>1
  <2> HIDE DEF file, rest
  <2>5. tail' \in Tails /\ tail'.file = tail.file
    BY <1>0, <2>3, <2>4 DEF Tails
  <2>6. sessionClosed' \in BOOLEAN
    BY <1>0, <2>1
  <2> QED
    BY <1>0, <1>1, <2>1, <2>5, <2>6
<1>5. CASE EmitBatch
  <2>1. facts' \in Seq(Nat) /\ sessionClosed' \in BOOLEAN
    BY <1>5, BatchStep
  <2>2. phase = "emit" /\ phase' = "facts" /\ tail' = [tail EXCEPT !.read = <<>>, !.subAt = Len(sub)] /\ UNCHANGED <<gate, aside>>
    BY <1>5 DEF EmitBatch
  <2>3. <<>> \in Seq(Lines) /\ Len(sub) \in Nat
    BY <1>0
  <2>4. tail' \in Tails /\ tail'.file = tail.file
    BY <1>0, <2>2, <2>3 DEF Tails
  <2> QED
    BY <1>0, <1>1, <2>1, <2>2, <2>4
<1>6. CASE RenameGate
  <2>1. /\ phase = "facts" /\ facts # <<>> /\ UNCHANGED <<tail, sessionClosed>>
        /\ \/ facts' = Tail(facts) /\ UNCHANGED <<gate, aside, phase>>
           \/ gate' = 0 /\ aside' = gate /\ UNCHANGED facts
    BY <1>6 DEF RenameGate, Capturing
  <2>2. Tail(facts) \in Seq(Nat)
    BY <1>0, <2>1
  <2>3. facts' \in Seq(Nat)
    BY <1>0, <2>1, <2>2
  <2>5. gate' \in Nat /\ aside' \in Nat /\ (phase' \in {"renamed", "restore"} => facts' # <<>>)
    BY <1>0, <2>1
  <2>4. tail.file \in DOMAIN files
    BY <1>0, <2>1
  <2> QED
    BY <1>0, <1>1, <2>1, <2>3, <2>4, <2>5
<1>7. CASE CompareGate
  <2>1. /\ phase = "renamed" /\ UNCHANGED <<tail, sessionClosed, gate>>
        /\ \/ aside' = 0 /\ facts' = Tail(facts) /\ phase' = "facts"
           \/ UNCHANGED <<aside, facts>>
    BY <1>7 DEF CompareGate, Capturing
  <2>2. tail.file \in DOMAIN files
    BY <1>0, <2>1
  <2>3. Tail(facts) \in Seq(Nat)
    BY <1>0, <2>1, TailOf
  <2>4. facts' \in Seq(Nat)
    BY <1>0, <2>1, <2>3
  <2>5. aside' \in Nat /\ (phase' \in {"renamed", "restore"} => facts' # <<>>)
    BY <1>0, <2>1
  <2> QED
    BY <1>0, <1>1, <2>1, <2>2, <2>4, <2>5
<1>8. CASE RestoreGate
  <2>1. /\ phase = "restore" /\ phase' = "facts" /\ UNCHANGED <<tail, sessionClosed>>
        /\ gate' = (IF gate = 0 THEN aside ELSE gate) /\ aside' = 0 /\ facts' = Tail(facts)
    BY <1>8 DEF RestoreGate, Capturing
  <2>2. tail.file \in DOMAIN files
    BY <1>0, <2>1
  <2>3. facts' \in Seq(Nat)
    BY <1>0, <2>1, TailOf
  <2>4. gate' \in Nat /\ aside' \in Nat
    BY <1>0, <2>1
  <2> QED
    BY <1>0, <1>1, <2>1, <2>2, <2>3, <2>4
<1>9. CASE Drained
  <2>1. phase = "facts" /\ phase' = "probe" /\ UNCHANGED <<tail, gate, aside, sessionClosed, facts>>
    BY <1>9 DEF Drained, Capturing, TailFrame
  <2>2. tail.file \in DOMAIN files
    BY <1>0, <2>1
  <2> QED
    BY <1>0, <1>1, <2>1, <2>2
<1>10. CASE FollowRotation
  <2>1. /\ phase = "probe" /\ phase' \in {"probe", "main"} /\ UNCHANGED <<gate, aside, sessionClosed, facts>>
        /\ \/ tail' = Attached
           \/ tail' = [tail EXCEPT !.again = TRUE]
    BY <1>10 DEF FollowRotation, TailFrame
  <2>2. marker \in DOMAIN files /\ marker \in Nat
    BY <1>0
  <2>3. tail.file \in DOMAIN files
    BY <1>0, <2>1
  <2>4. <<>> \in Seq(Lines)
    OBVIOUS
  <2>5. CASE tail' = Attached
    <3>1. tail' \in Tails /\ tail'.file = marker
      BY <2>2, <2>4, <2>5 DEF Attached, Tails
    <3> QED
      BY <1>0, <1>1, <2>1, <2>2, <3>1
  <2>6. CASE tail' = [tail EXCEPT !.again = TRUE]
    <3>1. tail' \in Tails /\ tail'.file = tail.file
      BY <1>0, <2>6 DEF Tails
    <3> QED
      BY <1>0, <1>1, <2>1, <2>3, <3>1
  <2> QED
    BY <2>1, <2>5, <2>6
<1>11. CASE ProbePane
  <2>1. /\ phase = "probe" /\ phase' \in {"main", "stopped"} /\ UNCHANGED <<tail, facts, gate, aside>>
        /\ (sessionClosed' = sessionClosed \/ sessionClosed' = (sessionClosed \/ missed' = 2))
    BY <1>11 DEF ProbePane, Capturing
  <2>2. sessionClosed' \in BOOLEAN
    BY <1>0, <2>1
  <2>3. tail.file \in DOMAIN files
    BY <1>0, <2>1
  <2> QED
    BY <1>0, <1>1, <2>1, <2>2, <2>3
<1>12. CASE Reread
  <2>1. tail' = [tail EXCEPT !.at = 0] /\ UNCHANGED <<phase, gate, aside, sessionClosed, facts>>
    BY <1>12 DEF Reread, TailFrame
  <2>2. tail' \in Tails /\ tail'.file = tail.file
    BY <1>0, <2>1 DEF Tails
  <2> QED
    BY <1>0, <1>1, <2>1, <2>2
<1>13. CASE IdleTimer
  <2>1. UNCHANGED <<phase, tail, facts, gate, aside, sessionClosed>>
    BY <1>13 DEF IdleTimer
  <2> QED
    BY <1>0, <1>1, <2>1
<1> QED
  BY <1>2, <1>3, <1>4, <1>5, <1>6, <1>7, <1>8, <1>9, <1>10, <1>11, <1>12, <1>13 DEF Loop

LEMMA HelpingType ==
  ASSUME PaneTypeOK, Helping \/ \E t \in Texts : Send(t)
  PROVE  PaneTypeOK'
<1>0. /\ UNCHANGED <<aside, phase, tail, facts, turn, files, sub, marker>>
      /\ clock \in Nat /\ waiting \in Seq(Prompts) /\ gate \in Nat /\ sessionClosed \in BOOLEAN
      /\ inbox \in Seq(Texts) /\ typed \in Seq(Texts) /\ ackedTexts \in SUBSET Texts
      /\ inject \in Injections \union {NULL}
  BY HelpingFrame DEF PaneTypeOK
<1>1. ASSUME clock' \in Nat, waiting' \in Seq(Prompts), gate' \in Nat, sessionClosed' \in BOOLEAN,
             inbox' \in Seq(Texts), typed' \in Seq(Texts), ackedTexts' \in SUBSET Texts,
             inject' \in Injections \union {NULL}
      PROVE  PaneTypeOK'
  BY <1>0, <1>1 DEF PaneTypeOK
<1>2. inject # NULL => inject \in Injections /\ inject.of \in Texts /\ inject.of \in Prompts
  BY <1>0 DEF Injections, Prompts
<1>3. ASSUME NEW stage \in {"load", "try", "running", "claimed", "pasted", "applied", "unknown"}, inject # NULL, Reach(stage)
      PROVE  inject' \in Injections
  BY <1>2, <1>3 DEF Reach, Injections
<1>4. ASSUME NEW t \in Texts, Send(t) PROVE PaneTypeOK'
  <2>1. inbox' = Append(inbox, t) /\ UNCHANGED <<clock, waiting, gate, inject, ackedTexts, sessionClosed, typed>>
    BY <1>4 DEF Send, claude
  <2>2. inbox' \in Seq(Texts)
    BY <1>0, <2>1
  <2> QED
    BY <1>0, <1>1, <2>1, <2>2
<1>5. CASE TakeText
  <2>1. /\ inbox # <<>> /\ inject' = [of |-> Head(inbox), at |-> "load"] /\ inbox' = Tail(inbox)
        /\ UNCHANGED <<clock, waiting, gate, ackedTexts, sessionClosed, typed>>
    BY <1>5 DEF TakeText, claude
  <2>2. Head(inbox) \in Texts /\ Tail(inbox) \in Seq(Texts)
    BY <1>0, <2>1
  <2>3. inject' \in Injections
    BY <2>1, <2>2 DEF Injections
  <2> QED
    BY <1>0, <1>1, <2>1, <2>2, <2>3
<1>6. CASE LoadBuffer \/ RunHelper \/ GateBusy
  <2>1. inject # NULL /\ (Reach("try") \/ Reach("running")) /\ UNCHANGED <<clock, waiting, gate, sessionClosed, typed, inbox, ackedTexts>>
    BY <1>6 DEF LoadBuffer, RunHelper, GateBusy, HelperFrame, pumped, At
  <2> QED
    BY <1>0, <1>1, <1>3, <2>1
<1>7. CASE ClaimGate
  <2>1. inject # NULL /\ Reach("claimed") /\ clock' = clock + 1 /\ gate' = clock'
        /\ UNCHANGED <<waiting, sessionClosed, typed, inbox, ackedTexts>>
    BY <1>7 DEF ClaimGate, HelperFrame, pumped, At
  <2>2. clock' \in Nat
    BY <1>0, <2>1
  <2> QED
    BY <1>0, <1>1, <1>3, <2>1, <2>2
<1>8. CASE Paste
  <2>1. inject # NULL /\ Reach("pasted") /\ typed' = Append(typed, inject.of)
        /\ UNCHANGED <<clock, waiting, gate, sessionClosed, inbox, ackedTexts>>
    BY <1>8 DEF Paste, HelperFrame, pumped, At
  <2>2. typed' \in Seq(Texts)
    BY <1>0, <1>2, <2>1
  <2> QED
    BY <1>0, <1>1, <1>3, <2>1, <2>2
<1>9. CASE Enter
  <2>1. inject # NULL /\ Reach("applied") /\ waiting' = Append(waiting, inject.of)
        /\ UNCHANGED <<clock, gate, sessionClosed, typed, inbox, ackedTexts>>
    BY <1>9 DEF Enter, HelperFrame, pumped, At
  <2>2. waiting' \in Seq(Prompts)
    BY <1>0, <1>2, <2>1
  <2> QED
    BY <1>0, <1>1, <1>3, <2>1, <2>2
<1>10. CASE Answered
  <2>1. /\ inject # NULL /\ inject' = NULL /\ (ackedTexts' = ackedTexts \/ ackedTexts' = ackedTexts \union {inject.of})
        /\ UNCHANGED <<clock, waiting, gate, inbox, sessionClosed, typed>>
    BY <1>10 DEF Answered, At, claude
  <2> QED
    BY <1>0, <1>1, <1>2, <2>1
<1>11. CASE GiveUp \/ LoadFails
  <2>1. inject' = NULL /\ sessionClosed' = TRUE /\ UNCHANGED <<clock, waiting, gate, inbox, ackedTexts, typed>>
    BY <1>11 DEF GiveUp, LoadFails, claude, pumped
  <2> QED
    BY <1>0, <1>1, <2>1
<1>12. CASE HelperFails
  <2>1. inject # NULL /\ Reach("unknown") /\ UNCHANGED <<clock, waiting, gate, sessionClosed, typed, inbox, ackedTexts>>
    BY <1>12 DEF HelperFails, Unknown, pumped
  <2> QED
    BY <1>0, <1>1, <1>3, <2>1
<1> QED
  BY <1>4, <1>5, <1>6, <1>7, <1>8, <1>9, <1>10, <1>11, <1>12 DEF Helping

LEMMA TmuxTypeStep == PaneTypeOK /\ [PaneNext]_paneVars => PaneTypeOK'
<1>1. PaneTypeOK /\ UNCHANGED paneVars => PaneTypeOK'
  BY DEF PaneTypeOK, paneVars, claude, capture, pumped
<1> QED
  BY <1>1, NextIs, PaneType, LoopType, HelpingType

-----------------------------------------------------------------------------
(* The gate of the running turn                                            *)

\* Newer, of the next state.
NewerNext(g) ==
    /\ \A f \in DOMAIN files' : \A i \in DOMAIN files'[f] : EndsTurn(files'[f][i]) => files'[f][i].at < g
    /\ \A i \in DOMAIN tail'.read : EndsTurn(tail'.read[i]) => tail'.read[i].at < g
    /\ \A i \in DOMAIN facts' : facts'[i] < g

LEMMA NewerMonotone ==
  ASSUME PaneTypeOK, NEW g \in Nat, NEW h \in Nat, g <= h, Newer(g) PROVE Newer(h)
<1>1. \A f \in DOMAIN files : \A i \in DOMAIN files[f] : files[f][i].at \in Nat
  <2> SUFFICES ASSUME NEW f \in DOMAIN files, NEW i \in DOMAIN files[f] PROVE files[f][i].at \in Nat
    OBVIOUS
  <2>1. files[f] \in Seq(Lines)
    BY DEF PaneTypeOK
  <2>2. files[f][i] \in Lines
    BY <2>1
  <2> QED
    BY <2>2 DEF Lines
<1>2. \A i \in DOMAIN tail.read : tail.read[i].at \in Nat
  <2> SUFFICES ASSUME NEW i \in DOMAIN tail.read PROVE tail.read[i].at \in Nat
    OBVIOUS
  <2>1. tail.read \in Seq(Lines)
    BY DEF PaneTypeOK, Tails
  <2>2. tail.read[i] \in Lines
    BY <2>1
  <2> QED
    BY <2>2 DEF Lines
<1>3. \A i \in DOMAIN facts : facts[i] \in Nat
  BY DEF PaneTypeOK
<1> QED
  BY <1>1, <1>2, <1>3 DEF Newer

\* A line that ends no turn, or one before g, leaves g newer.
LEMMA NewerWrite ==
  ASSUME PaneTypeOK, NEW g \in Nat, Newer(g), NEW line \in Lines, Write(line), UNCHANGED <<facts, tail>>,
         EndsTurn(line) => line.at < g
  PROVE  NewerNext(g)
<1>1. ASSUME NEW f \in DOMAIN files', NEW i \in DOMAIN files'[f], EndsTurn(files'[f][i])
      PROVE  files'[f][i].at < g
  <2>1. CASE f # Len(files)
    BY <1>1, <2>1, WriteIs DEF Newer
  <2>2. CASE f = Len(files)
    <3> DEFINE old == files[f]
    <3>1. f \in DOMAIN files /\ files'[f] = Append(old, line) /\ old \in Seq(Lines)
      BY <2>2, WriteIs DEF PaneTypeOK
    <3>2. \A k \in DOMAIN old : EndsTurn(old[k]) => old[k].at < g
      BY <3>1 DEF Newer
    <3> HIDE DEF old
    <3>3. files'[f][i] = line \/ (i \in DOMAIN old /\ files'[f][i] = old[i])
      BY <3>1
    <3> QED
      BY <1>1, <3>2, <3>3
  <2> QED
    BY <2>1, <2>2
<1> QED
  BY <1>1 DEF Newer, NewerNext

\* A step that ends no turn keeps the running turn's gate, if it touches neither gate nor aside.
LEMMA GateKept ==
  ASSUME PaneTypeOK, GateHeld, \A g \in Nat : Newer(g) => NewerNext(g), clock' \in Nat, clock <= clock',
         turn' # NULL => turn # NULL, UNCHANGED <<gate, aside, phase>>
  PROVE  GateHeld'
<1>1. clock \in Nat /\ gate \in Nat /\ aside \in Nat
  BY DEF PaneTypeOK
<1>2. Newer(clock' + 1)
  BY <1>1, NewerMonotone DEF GateHeld
<1>3. NewerNext(clock' + 1)
  BY <1>1, <1>2
<1>4. turn' # NULL => \/ gate' # 0 /\ NewerNext(gate')
                      \/ gate' = 0 /\ aside' # 0 /\ phase' \in {"renamed", "restore"} /\ NewerNext(aside')
  <2> SUFFICES ASSUME turn' # NULL
               PROVE  \/ gate' # 0 /\ NewerNext(gate')
                      \/ gate' = 0 /\ aside' # 0 /\ phase' \in {"renamed", "restore"} /\ NewerNext(aside')
    OBVIOUS
  <2>1. CASE gate # 0 /\ Newer(gate)
    BY <1>1, <2>1
  <2>2. CASE gate = 0 /\ aside # 0 /\ phase \in {"renamed", "restore"} /\ Newer(aside)
    BY <1>1, <2>2
  <2> QED
    BY <2>1, <2>2 DEF GateHeld
<1> QED
  BY <1>3, <1>4 DEF GateHeld, Newer, NewerNext

\* A gate written now is newer than every completion.
LEMMA GateFresh ==
  ASSUME PaneTypeOK, GateHeld, \A g \in Nat : Newer(g) => NewerNext(g), clock' = clock + 1, gate' = clock'
  PROVE  GateHeld'
<1>1. clock \in Nat
  BY DEF PaneTypeOK
<1>2. Newer(clock + 1) /\ Newer((clock + 1) + 1)
  BY <1>1, NewerMonotone DEF GateHeld
<1>3. NewerNext(clock' + 1) /\ NewerNext(gate') /\ gate' # 0
  BY <1>1, <1>2
<1> QED
  BY <1>3 DEF GateHeld, Newer, NewerNext

LEMMA GateOfNone ==
  ASSUME PaneTypeOK, GateHeld, \A g \in Nat : Newer(g) => NewerNext(g), clock' \in Nat, clock <= clock', turn' = NULL
  PROVE  GateHeld'
<1>1. clock \in Nat
  BY DEF PaneTypeOK
<1>2. Newer(clock' + 1)
  BY <1>1, NewerMonotone DEF GateHeld
<1>3. NewerNext(clock' + 1)
  BY <1>1, <1>2
<1> QED
  BY <1>3 DEF GateHeld, Newer, NewerNext

LEMMA PaneGate ==
  ASSUME PaneTypeOK, GateHeld, Pane
  PROVE  GateHeld'
<1>0. /\ UNCHANGED <<facts, tail, aside, phase>> /\ clock \in Nat
      /\ files \in Seq(Seq(Lines)) /\ turn \in Turns \union {NULL} /\ waiting \in Seq(Prompts)
  BY PaneFrame, NativeFrame DEF PaneTypeOK
<1>1. ASSUME NEW line \in Lines, Write(line), ~EndsTurn(line) PROVE \A g \in Nat : Newer(g) => NewerNext(g)
  BY <1>0, <1>1, NewerWrite
<1>2. ASSUME UNCHANGED files PROVE \A g \in Nat : Newer(g) => NewerNext(g)
  BY <1>0, <1>2 DEF Newer, NewerNext
<1>3. turn # NULL => turn.of \in Prompts
  BY <1>0 DEF Turns
<1>4. waiting # <<>> => Head(waiting) \in Prompts
  BY <1>0
<1>5. ASSUME NEW l \in Locals, LocalPrompt(l) PROVE GateHeld'
  <2>1. UNCHANGED <<clock, turn, files, gate>>
    BY <1>5 DEF LocalPrompt
  <2> QED
    BY <1>0, <1>2, <2>1, GateKept
<1>6. CASE PromptHook
  <2>1. /\ clock' = clock + 1 /\ gate' = clock' /\ waiting # <<>> /\ Write(Line("user", Head(waiting)))
    BY <1>6 DEF PromptHook
  <2>2. Line("user", Head(waiting)) \in Lines /\ ~EndsTurn(Line("user", Head(waiting)))
    BY <1>0, <1>4, <2>1 DEF Line, Lines, EndsTurn
  <2> QED
    BY <1>1, <2>1, <2>2, GateFresh
<1>7. CASE PromptBlocked
  <2>1. /\ clock' = clock + 1 /\ turn' = NULL /\ waiting # <<>> /\ Write(Line("blocked", Head(waiting)))
    BY <1>7 DEF PromptBlocked
  <2>2. Line("blocked", Head(waiting)) \in Lines /\ ~EndsTurn(Line("blocked", Head(waiting)))
    BY <1>0, <1>4, <2>1 DEF Line, Lines, EndsTurn
  <2>3. clock' \in Nat /\ clock <= clock'
    BY <1>0, <2>1
  <2> QED
    BY <1>1, <2>1, <2>2, <2>3, GateOfNone
<1>8. CASE CallAgent \/ AgentAnswers
  <2>1. PICK kind \in {"call", "result"} : Write(Line(kind, turn.of))
    BY <1>8 DEF CallAgent, AgentAnswers
  <2>2. clock' = clock + 1 /\ turn # NULL /\ UNCHANGED gate
    BY <1>8 DEF CallAgent, AgentAnswers
  <2>3. Line(kind, turn.of) \in Lines /\ ~EndsTurn(Line(kind, turn.of))
    BY <1>0, <1>3, <2>2 DEF Line, Lines, EndsTurn
  <2>4. clock' \in Nat /\ clock <= clock'
    BY <1>0, <2>2
  <2> QED
    BY <1>0, <1>1, <2>1, <2>2, <2>3, <2>4, GateKept
<1>9. CASE AgentWrites
  <2>1. clock' = clock + 1 /\ turn # NULL /\ UNCHANGED <<files, gate>>
    BY <1>9 DEF AgentWrites
  <2>2. clock' \in Nat /\ clock <= clock'
    BY <1>0, <2>1
  <2> QED
    BY <1>0, <1>2, <2>1, <2>2, GateKept
<1>10. CASE TurnCompletes \/ Interrupted
  <2>1. PICK kind \in {"completed", "cancelled"} : EndTurn(kind)
    BY <1>10 DEF TurnCompletes, Interrupted
  <2>2. clock' = clock + 1 /\ turn # NULL /\ turn' = NULL /\ Write(Line(kind, turn.of))
    BY <2>1 DEF EndTurn
  <2>3. Line(kind, turn.of) \in Lines /\ Line(kind, turn.of).at < clock' + 1
    BY <1>0, <1>3, <2>2 DEF Line, Lines
  <2>4. clock' + 1 \in Nat /\ Newer(clock' + 1)
    BY <1>0, <2>2, NewerMonotone DEF GateHeld
  <2>5. NewerNext(clock' + 1)
    BY <1>0, <2>2, <2>3, <2>4, NewerWrite
  <2> QED
    BY <2>2, <2>5 DEF GateHeld, Newer, NewerNext
<1>11. CASE Rotate
  <2>1. files' = Append(files, <<>>) /\ turn = NULL /\ UNCHANGED <<clock, turn>>
    BY <1>11 DEF Rotate
  <2>2. ASSUME NEW g \in Nat, Newer(g) PROVE NewerNext(g)
    <3>1. \A f \in DOMAIN files' : (f \in DOMAIN files /\ files'[f] = files[f]) \/ files'[f] = <<>>
      BY <1>0, <2>1
    <3>2. ASSUME NEW f \in DOMAIN files', NEW i \in DOMAIN files'[f], EndsTurn(files'[f][i])
          PROVE  files'[f][i].at < g
      BY <2>2, <3>1, <3>2 DEF Newer
    <3> QED
      BY <1>0, <2>2, <3>2 DEF Newer, NewerNext
  <2> QED
    BY <1>0, <2>1, <2>2, GateOfNone
<1>12. CASE SessionEnd
  <2>1. clock' = clock + 1 /\ gate' = clock' /\ UNCHANGED files
    BY <1>12 DEF SessionEnd
  <2> QED
    BY <1>2, <2>1, GateFresh
<1>13. CASE PaneExits
  <2>1. turn' = NULL /\ UNCHANGED <<clock, files>>
    BY <1>13 DEF PaneExits
  <2> QED
    BY <1>0, <1>2, <2>1, GateOfNone
<1> QED
  BY <1>5, <1>6, <1>7, <1>8, <1>9, <1>10, <1>11, <1>12, <1>13 DEF Pane, Claude

\* What the capture loop reads, handles or compares was written before.
LEMMA LoopNewer ==
  ASSUME PaneTypeOK, Loop, NEW g \in Nat, Newer(g)
  PROVE  NewerNext(g)
<1>0. UNCHANGED files /\ facts \in Seq(Nat) /\ tail \in Tails /\ files \in Seq(Seq(Lines))
  BY LoopFrame DEF PaneTypeOK
<1>1. ASSUME tail'.read = tail.read \/ tail'.read = <<>>, UNCHANGED facts PROVE NewerNext(g)
  BY <1>0, <1>1 DEF Newer, NewerNext
<1>2. ASSUME UNCHANGED tail, facts' = facts \/ (facts # <<>> /\ facts' = Tail(facts)) PROVE NewerNext(g)
  <2>1. \A i \in DOMAIN facts' : facts'[i] < g
    <3>1. CASE facts' = facts
      BY <3>1 DEF Newer
    <3>2. CASE facts # <<>> /\ facts' = Tail(facts)
      <4>1. \A i \in DOMAIN facts' : i + 1 \in DOMAIN facts /\ facts'[i] = facts[i + 1]
        BY <1>0, <3>2
      <4> QED
        BY <4>1 DEF Newer
    <3> QED
      BY <1>2, <3>1, <3>2
  <2> QED
    BY <1>0, <1>2, <2>1 DEF Newer, NewerNext
<1>3. CASE BindTranscript
  BY <1>0, <1>1, <1>3 DEF BindTranscript, TailFrame, Tails
<1>4. CASE StartupFails \/ Drained \/ ProbePane \/ IdleTimer
  BY <1>1, <1>4 DEF StartupFails, Drained, ProbePane, IdleTimer, TailFrame
<1>5. CASE Reread
  BY <1>0, <1>1, <1>5 DEF Reread, TailFrame, Tails
<1>6. CASE FollowRotation
  BY <1>0, <1>1, <1>6 DEF FollowRotation, TailFrame, Attached, Tails
<1>7. CASE RenameGate
  BY <1>2, <1>7 DEF RenameGate
<1>8. CASE CompareGate
  <2>1. facts # <<>>
    BY <1>8 DEF CompareGate, Capturing, PaneTypeOK
  <2> QED
    BY <1>2, <1>8, <2>1 DEF CompareGate
<1>9. CASE RestoreGate
  <2>1. facts # <<>>
    BY <1>9 DEF RestoreGate, Capturing, PaneTypeOK
  <2> QED
    BY <1>2, <1>9, <2>1 DEF RestoreGate
<1>10. CASE PollMain
  <2> DEFINE file == files[tail.file]
             rest == SubSeq(file, tail.at + 1, Len(file))
  <2>1. phase = "main" /\ tail' = [tail EXCEPT !.read = rest, !.at = Len(file)] /\ UNCHANGED facts
    BY <1>10 DEF PollMain, Capturing, TailFrame
  <2>2. tail.file \in DOMAIN files /\ file \in Seq(Lines) /\ tail.at \in Nat
    BY <1>0, <2>1 DEF PaneTypeOK, Tails
  <2>3. \A n \in DOMAIN rest : tail.at + n \in DOMAIN file /\ rest[n] = file[tail.at + n]
    BY <2>2, SuffixOf
  <2>4. \A i \in DOMAIN file : EndsTurn(file[i]) => file[i].at < g
    BY <2>2 DEF Newer
  <2> HIDE DEF file, rest
  <2>5. tail'.read = rest
    BY <1>0, <2>1 DEF Tails
  <2>6. \A i \in DOMAIN tail'.read : EndsTurn(tail'.read[i]) => tail'.read[i].at < g
    BY <2>3, <2>4, <2>5
  <2> QED
    BY <1>0, <2>1, <2>6 DEF Newer, NewerNext
<1>11. CASE EmitBatch
  <2>1. \A i \in DOMAIN facts' :
              \/ \E j \in DOMAIN facts : facts'[i] = facts[j]
              \/ \E j \in DOMAIN tail.read : EndsTurn(tail.read[j]) /\ facts'[i] = tail.read[j].at
    BY <1>11, BatchStep
  <2>2. \A i \in DOMAIN facts' : facts'[i] < g
    BY <2>1 DEF Newer
  <2>3. tail'.read = <<>>
    BY <1>0, <1>11 DEF EmitBatch, Tails
  <2> QED
    BY <1>0, <2>2, <2>3 DEF Newer, NewerNext
<1> QED
  BY <1>3, <1>4, <1>5, <1>6, <1>7, <1>8, <1>9, <1>10, <1>11 DEF Loop

LEMMA LoopGate ==
  ASSUME PaneTypeOK, GateHeld, Loop
  PROVE  GateHeld'
<1>0. /\ UNCHANGED <<clock, turn>> /\ clock \in Nat /\ gate \in Nat /\ aside \in Nat /\ facts \in Seq(Nat)
      /\ \A g \in Nat : Newer(g) => NewerNext(g)
  BY LoopFrame, LoopNewer DEF PaneTypeOK
<1>1. CASE turn = NULL
  BY <1>0, <1>1, GateOfNone
<1>2. CASE turn # NULL
  <2>1. NewerNext(clock' + 1)
    BY <1>0 DEF GateHeld
  <2>2. ASSUME \/ gate' # 0 /\ NewerNext(gate')
               \/ gate' = 0 /\ aside' # 0 /\ phase' \in {"renamed", "restore"} /\ NewerNext(aside')
        PROVE  GateHeld'
    BY <2>1, <2>2 DEF GateHeld, Newer, NewerNext
  <2>3. \/ gate # 0 /\ Newer(gate)
        \/ gate = 0 /\ aside # 0 /\ phase \in {"renamed", "restore"} /\ Newer(aside)
    BY <1>2 DEF GateHeld
  <2>4. gate # 0 /\ Newer(gate) /\ UNCHANGED gate => GateHeld'
    BY <1>0, <2>2
  <2>5. CASE phase \notin {"renamed", "restore"} /\ UNCHANGED gate
    BY <2>3, <2>4, <2>5
  <2>6. CASE RenameGate
    <3>1. phase = "facts" /\ (UNCHANGED gate \/ (gate' = 0 /\ aside' = gate /\ phase' = "renamed"))
      BY <1>0, <2>6 DEF RenameGate, Capturing
    <3>2. gate # 0 /\ Newer(gate)
      BY <2>3, <3>1
    <3> QED
      BY <1>0, <2>2, <2>4, <3>1, <3>2
  <2>7. CASE CompareGate
    <3>1. /\ UNCHANGED gate
          /\ \/ aside < Head(facts)
             \/ phase' = "restore" /\ UNCHANGED aside
      BY <2>7 DEF CompareGate
    <3>2. CASE gate # 0 /\ Newer(gate)
      BY <2>4, <3>1, <3>2
    <3>3. CASE gate = 0 /\ aside # 0 /\ Newer(aside)
      <4>1. facts # <<>>
        BY <2>7 DEF CompareGate, Capturing, PaneTypeOK
      <4>2. 1 \in DOMAIN facts /\ Head(facts) = facts[1] /\ facts[1] \in Nat
        BY <1>0, <4>1
      <4>3. ~(aside < Head(facts))
        BY <1>0, <3>3, <4>2 DEF Newer
      <4> QED
        BY <1>0, <2>2, <3>1, <3>3, <4>3
    <3> QED
      BY <2>3, <3>2, <3>3
  <2>8. CASE RestoreGate
    <3>1. gate' = IF gate = 0 THEN aside ELSE gate
      BY <2>8 DEF RestoreGate
    <3> QED
      BY <1>0, <2>2, <2>3, <3>1
  <2>9. CASE IdleTimer
    <3>1. UNCHANGED <<gate, aside, phase>>
      BY <2>9 DEF IdleTimer
    <3> QED
      BY <1>0, <3>1, GateKept
  <2>10. BindTranscript \/ StartupFails \/ PollMain \/ EmitBatch \/ Drained \/ FollowRotation \/ ProbePane \/ Reread
           => phase \notin {"renamed", "restore"} /\ UNCHANGED gate
    BY DEF BindTranscript, StartupFails, PollMain, EmitBatch, Drained, FollowRotation, ProbePane, Reread, Capturing
  <2> QED
    BY <2>5, <2>6, <2>7, <2>8, <2>9, <2>10 DEF Loop
<1> QED
  BY <1>1, <1>2

LEMMA HelpingGate ==
  ASSUME PaneTypeOK, GateHeld, Helping \/ \E t \in Texts : Send(t)
  PROVE  GateHeld'
<1>0. UNCHANGED <<aside, phase, tail, facts, turn, files>> /\ clock \in Nat
  BY HelpingFrame DEF PaneTypeOK
<1>1. \A g \in Nat : Newer(g) => NewerNext(g)
  BY <1>0 DEF Newer, NewerNext
<1>2. CASE ClaimGate
  <2>1. clock' = clock + 1 /\ gate' = clock'
    BY <1>2 DEF ClaimGate
  <2> QED
    BY <1>1, <2>1, GateFresh
<1>3. ASSUME ~ClaimGate PROVE UNCHANGED <<clock, gate>>
  BY <1>3 DEF Helping, TakeText, LoadBuffer, RunHelper, GateBusy, Paste, Enter, Answered, GiveUp, HelperFails, Unknown, LoadFails, Send
<1>4. CASE ~ClaimGate
  BY <1>0, <1>1, <1>3, <1>4, GateKept
<1> QED
  BY <1>2, <1>4

LEMMA GateStep == PaneTypeOK /\ GateHeld /\ [PaneNext]_paneVars => GateHeld'
<1>1. PaneTypeOK /\ GateHeld /\ UNCHANGED paneVars => GateHeld'
  BY DEF GateHeld, Newer, paneVars, claude, capture
<1> QED
  BY <1>1, NextIs, PaneGate, LoopGate, HelpingGate

-----------------------------------------------------------------------------
(* The texts                                                               *)

\* A step that moves no text, and does not open the session.
LEMMA PasteKept ==
  ASSUME PastedInOrder, UNCHANGED <<inbox, typed, ackedTexts, inject>>, sessionClosed => sessionClosed'
  PROVE  PastedInOrder'
BY DEF PastedInOrder

LEMMA CloseMonotone == PaneTypeOK /\ (Loop \/ Pane) => (sessionClosed => sessionClosed')
<1>1. Pane => UNCHANGED sessionClosed
  BY PaneFrame, NativeFrame
<1>2. PaneTypeOK /\ EmitBatch => (sessionClosed => sessionClosed')
  BY BatchStep
<1>3. Loop /\ ~EmitBatch => (sessionClosed => sessionClosed')
  BY DEF Loop, BindTranscript, StartupFails, PollMain, RenameGate, CompareGate, RestoreGate, Drained, FollowRotation,
     ProbePane, Reread, IdleTimer
<1> QED
  BY <1>1, <1>2, <1>3

LEMMA ReachIs ==
  ASSUME PaneTypeOK, inject # NULL, NEW stage, Reach(stage)
  PROVE  inject'.of = inject.of /\ inject'.at = stage
BY DEF PaneTypeOK, Injections, Reach

LEMMA ReachSome ==
  ASSUME PaneTypeOK, inject # NULL, NEW stage \in {"try", "running", "claimed", "pasted", "applied", "unknown"}, Reach(stage)
  PROVE  inject' # NULL
<1>1. inject' \in Injections
  BY DEF PaneTypeOK, Injections, Reach
<1> QED
  BY <1>1, DriverAssumption

LEMMA SendPaste == ASSUME PaneTypeOK, PastedInOrder, NEW t \in Texts, Send(t) PROVE PastedInOrder'
<1>1. /\ t \notin ToSet(inbox) \union ToSet(typed) \union {i.of : i \in {inject} \ {NULL}}
      /\ inbox' = Append(inbox, t) /\ UNCHANGED <<inject, ackedTexts, sessionClosed, typed>> /\ inbox \in Seq(Texts)
  BY DEF Send, PaneTypeOK
<1>2. (\A i \in DOMAIN inbox : inbox[i] # t) /\ (\A j \in DOMAIN typed : typed[j] # t)
  BY <1>1 DEF ToSet
<1>3. inject # NULL => inject.of # t
  BY <1>1
<1>4. \A i \in DOMAIN inbox' : (inbox'[i] = t /\ i = Len(inbox) + 1) \/ (i \in DOMAIN inbox /\ inbox'[i] = inbox[i])
  BY <1>1
<1> QED
  BY <1>1, <1>2, <1>3, <1>4 DEF PastedInOrder

LEMMA HelpingPaste == ASSUME PaneTypeOK, PastedInOrder, Helping PROVE PastedInOrder'
<1>0. inbox \in Seq(Texts) /\ typed \in Seq(Texts) /\ inject \in Injections \union {NULL}
  BY DEF PaneTypeOK
<1>1. CASE TakeText
  <2>1. /\ inject = NULL /\ inbox # <<>> /\ ~sessionClosed /\ UNCHANGED <<ackedTexts, sessionClosed, typed>>
        /\ inject' = [of |-> Head(inbox), at |-> "load"] /\ inbox' = Tail(inbox)
    BY <1>1 DEF TakeText
  <2>2. \A i \in DOMAIN inbox' : i + 1 \in DOMAIN inbox /\ inbox'[i] = inbox[i + 1] /\ i + 1 # 1
    BY <1>0, <2>1
  <2>3. 1 \in DOMAIN inbox /\ inject'.of = inbox[1] /\ inject'.at = "load"
    BY <1>0, <2>1
  <2>4. \A i, j \in DOMAIN inbox' : i # j => i + 1 # j + 1
    BY <1>0, <2>1
  <2> QED
    BY <2>1, <2>2, <2>3, <2>4 DEF PastedInOrder
<1>2. CASE LoadBuffer \/ RunHelper \/ ClaimGate \/ GateBusy \/ Enter
  <2>1. PICK stage \in {"try", "running", "claimed", "applied"} :
          /\ Reach(stage) /\ inject # NULL
          /\ stage \in {"try", "running", "claimed"} => inject.at \in {"load", "try", "running"}
          /\ stage = "applied" => inject.at = "pasted"
    BY <1>2 DEF LoadBuffer, RunHelper, ClaimGate, GateBusy, Enter, At
  <2>2. UNCHANGED <<inbox, ackedTexts, typed, sessionClosed>>
    BY <1>2 DEF LoadBuffer, RunHelper, ClaimGate, GateBusy, Enter, HelperFrame, pumped
  <2> QED
    BY <2>1, <2>2, ReachIs, ReachSome DEF PastedInOrder
<1>3. CASE Paste
  <2>1. inject # NULL /\ inject.at = "claimed" /\ Reach("pasted") /\ typed' = Append(typed, inject.of)
        /\ UNCHANGED <<inbox, ackedTexts, sessionClosed>>
    BY <1>3 DEF Paste, At, HelperFrame, pumped
  <2>2. \A i \in DOMAIN typed' : (typed'[i] = inject.of /\ i = Len(typed) + 1)
                                   \/ (i \in DOMAIN typed /\ typed'[i] = typed[i])
    BY <1>0, <2>1
  <2>3. typed' # <<>> /\ typed'[Len(typed')] = inject.of
    BY <1>0, <2>1
  <2>4. \A j \in DOMAIN typed : j \in DOMAIN typed' /\ typed'[j] = typed[j]
    BY <1>0, <2>1
  <2>5. inject'.of = inject.of /\ inject'.at = "pasted"
    BY <2>1, ReachIs
  <2>6. inject' # NULL
    BY <2>1, ReachSome
  <2> QED
    BY <2>1, <2>2, <2>3, <2>4, <2>5, <2>6 DEF PastedInOrder
<1>4. CASE Answered
  <2>1. /\ inject # NULL /\ (inject.at = "applied" \/ (inject.at = "try" /\ sessionClosed))
        /\ inject' = NULL /\ UNCHANGED <<inbox, sessionClosed, typed>>
        /\ ackedTexts' = IF inject.at = "applied" THEN ackedTexts \union {inject.of} ELSE ackedTexts
    BY <1>4 DEF Answered, At
  <2>2. inject.at = "applied" => Len(typed) \in DOMAIN typed /\ typed[Len(typed)] = inject.of
    BY <1>0, <2>1 DEF PastedInOrder
  <2> QED
    BY <2>1, <2>2 DEF PastedInOrder
<1>5. CASE GiveUp \/ LoadFails
  <2>1. inject' = NULL /\ sessionClosed' /\ UNCHANGED <<inbox, ackedTexts, typed>> /\ inject # NULL /\ inject.at \in {"load", "unknown"}
    BY <1>5 DEF GiveUp, LoadFails, pumped, At
  <2> QED
    BY <2>1 DEF PastedInOrder
<1>6. CASE HelperFails
  <2>1. inject # NULL /\ Reach("unknown") /\ UNCHANGED <<inbox, ackedTexts, typed, sessionClosed>>
    BY <1>6 DEF HelperFails, Unknown, pumped
  <2>2. inject'.of = inject.of /\ inject'.at = "unknown"
    BY <2>1, ReachIs
  <2>3. inject' # NULL
    BY <2>1, ReachSome
  <2> QED
    BY <2>1, <2>2, <2>3 DEF PastedInOrder
<1> QED
  BY <1>1, <1>2, <1>3, <1>4, <1>5, <1>6 DEF Helping

LEMMA PasteStep == PaneTypeOK /\ PastedInOrder /\ [PaneNext]_paneVars => PastedInOrder'
<1>1. PastedInOrder /\ UNCHANGED paneVars => PastedInOrder'
  BY PasteKept DEF paneVars, pumped
<1>2. PaneTypeOK /\ PastedInOrder /\ Pane => PastedInOrder'
  BY PaneFrame, NativeFrame, PasteKept
<1>3. PaneTypeOK /\ PastedInOrder /\ Loop => PastedInOrder'
  BY LoopFrame, CloseMonotone, PasteKept
<1> QED
  BY <1>1, <1>2, <1>3, NextIs, SendPaste, HelpingPaste

-----------------------------------------------------------------------------
(* The theorems                                                            *)

\* The two parts of the invariant hold of every state of every pane session.
THEOREM TmuxInvariant == PaneSpec => []TmuxInv
<1>1. PaneInit => TmuxInv
  <2> SUFFICES ASSUME PaneInit PROVE TmuxInv
    OBVIOUS
  <2>1. PaneTypeOK
    <3>1. <<>> \in Seq(Lines) /\ << <<>> >> \in Seq(Seq(Lines)) /\ Len(<< <<>> >>) = 1
      OBVIOUS
    <3>2. tail \in Tails
      BY <3>1 DEF PaneInit, Tails
    <3>3. <<>> \in Seq(Prompts) /\ <<>> \in Seq(SubLines) /\ <<>> \in Seq(Nat) /\ <<>> \in Seq(Texts)
      OBVIOUS
    <3>4. files \in Seq(Seq(Lines)) /\ marker = Len(files) /\ marker # 0
      BY <3>1 DEF PaneInit
    <3>5. phase = "ready"
      BY DEF PaneInit
    <3> QED
      BY <3>2, <3>3, <3>4, <3>5 DEF PaneInit, PaneTypeOK
  <2>2. GateHeld
    BY DEF PaneInit, GateHeld, Newer
  <2>3. PastedInOrder
    BY DEF PaneInit, PastedInOrder
  <2> QED
    BY <2>1, <2>2, <2>3 DEF TmuxInv
<1>2. TmuxInv /\ [PaneNext]_paneVars => TmuxInv'
  BY TmuxTypeStep, GateStep, PasteStep DEF TmuxInv
<1> QED
  BY <1>1, <1>2, PTL DEF PaneSpec

\* While a native turn runs, its gate is in place or about to be linked back.
THEOREM GateHolds == PaneSpec => []GateGuardsTurn
<1>1. TmuxInv => GateGuardsTurn
  BY DEF TmuxInv, GateHeld, GateGuardsTurn
<1> QED
  BY <1>1, TmuxInvariant, PTL

LEMMA CountOfDistinct ==
  ASSUME NEW S, NEW s \in Seq(S), \A i, j \in DOMAIN s : i # j => s[i] # s[j]
  PROVE  Cardinality(ToSet(s)) = Len(s)
<1>1. s \in Bijection(1..Len(s), ToSet(s))
  <2>1. DOMAIN s = 1..Len(s) /\ ToSet(s) = {s[i] : i \in 1..Len(s)}
    BY DEF ToSet
  <2> QED
    BY <2>1 DEF Bijection, Injection, Surjection, IsInjective
<1>2. ExistsBijection(1..Len(s), ToSet(s))
  BY <1>1 DEF ExistsBijection
<1>3. Len(s) \in Nat
  OBVIOUS
<1>4. IsFiniteSet(1..Len(s)) /\ Cardinality(1..Len(s)) = IF 1 > Len(s) THEN 0 ELSE Len(s) - 1 + 1
  BY <1>3, FS_Interval
<1>5. Cardinality(1..Len(s)) = Len(s)
  BY <1>3, <1>4
<1> QED
  BY <1>2, <1>4, <1>5, FS_Bijection

\* A browser text is pasted once and in order, and an acknowledged one was pasted.
THEOREM PastedOnce == PaneSpec => []AppliedOnce
<1>1. TmuxInv => AppliedOnce
  <2> SUFFICES ASSUME TmuxInv PROVE AppliedOnce
    OBVIOUS
  <2>1. typed \in Seq(Texts) /\ PastedInOrder
    BY DEF TmuxInv, PaneTypeOK
  <2>2. Cardinality(ToSet(typed)) = Len(typed)
    BY <2>1, CountOfDistinct DEF PastedInOrder
  <2>3. ackedTexts \subseteq ToSet(typed)
    BY <2>1 DEF PastedInOrder, ToSet
  <2>4. typed # <<>> /\ inject # NULL /\ inject.at \in {"load", "try", "running"} => Last(typed) \in ackedTexts
    BY <2>1 DEF PastedInOrder, Last
  <2> QED
    BY <2>2, <2>3, <2>4 DEF AppliedOnce
<1> QED
  BY <1>1, TmuxInvariant, PTL
==============================================================================
