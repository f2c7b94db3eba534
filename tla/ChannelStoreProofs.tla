-------------------------- MODULE ChannelStoreProofs --------------------------
(***************************************************************************)
(* Proofs about ChannelStore for every set of instances, requests, frames  *)
(* and legacy logs, and for every bound: type correctness, the create lock *)
(* (OneClient), the catalog that precedes every frame (FrameAfterCatalog), *)
(* the presence fence (FenceMatchesLog, TerminalIsLast), what an           *)
(* acknowledgement is worth across a loss of the database (AckedFramesKept), *)
(* and that the store implements the promise of ChannelLog.                *)
(***************************************************************************)
EXTENDS ChannelStore, TLAPS

\* The expansion of every UNCHANGED tuple.
USE DEF vars, durable, memory, request, history, Inst

-------------------------------------------------------------------------------
\* A write goes to a generation: reopening a channel that has its row counts up from it.
LEMMA NextGenType == TypeOK /\ row # NoRow => NextGen \in Nat
  BY DEF TypeOK, NextGen, ChannelRow

\* A frame that is not the close sentinel is one of Frames, and its session is one of Sids.
LEMMA OpIsFrame == ASSUME TypeOK, NEW r \in Requests, op[r] # Close
                   PROVE  op[r] \in Frames /\ op[r].sid \in Sids
  BY DEF TypeOK, Sids

\* Settling a request, with or without evicting the client, keeps the types it touches.
LEMMA FinishType ==
  ASSUME TypeOK, NEW r \in Requests, Finish(r)
  PROVE  /\ pc' \in [Requests -> Labels] /\ op' \in [Requests -> Frames \cup {Close}]
         /\ lease' \in [Requests -> {"none", "held", "dead"}]
         /\ known' \in [Requests -> BOOLEAN] /\ made' \in [Requests -> BOOLEAN]
         /\ lock' \in [Instances -> Requests \cup {NoRequest}]
  BY DEF TypeOK, Finish, LockWithout, Labels

LEMMA EvictType ==
  ASSUME TypeOK, NEW r \in Requests, EvictAndFinish(r)
  PROVE  /\ pc' \in [Requests -> Labels] /\ op' \in [Requests -> Frames \cup {Close}]
         /\ lease' \in [Requests -> {"none", "held", "dead"}]
         /\ known' \in [Requests -> BOOLEAN] /\ made' \in [Requests -> BOOLEAN]
         /\ lock' \in [Instances -> Requests \cup {NoRequest}]
         /\ entry' \in [Instances -> [open : BOOLEAN, known : BOOLEAN, ready : BOOLEAN]]
  <1>1. NoEntry \in [open : BOOLEAN, known : BOOLEAN, ready : BOOLEAN]
    BY DEF NoEntry
  <1>2. entry' \in [Instances -> [open : BOOLEAN, known : BOOLEAN, ready : BOOLEAN]]
    BY <1>1 DEF TypeOK, EvictAndFinish
  <1>3. lease' \in [Requests -> {"none", "held", "dead"}]
    BY DEF TypeOK, EvictAndFinish
  <1> QED BY <1>2, <1>3 DEF TypeOK, EvictAndFinish, LockWithout, Labels

\* The initial states are typed, those with a legacy log included.
LEMMA TypeInit == Init => TypeOK
  <1> SUFFICES ASSUME Init PROVE TypeOK
    OBVIOUS
  <1>1. row \in ChannelRow \cup {NoRow}
    <2>1. row = NoRow \/ row = [gen |-> 0, closed |-> FALSE]
      BY Zenon DEF Init
    <2>2. [gen |-> 0, closed |-> FALSE] \in ChannelRow
      BY DEF ChannelRow
    <2> QED BY <2>1, <2>2, Zenon
  <1>2. log \in Seq(LogEntry)
    <2>1. CASE log = <<>>
      BY <2>1
    <2>2. ASSUME NEW s \in LegacyLogs, log = StoredAt0(s)
          PROVE  log \in Seq(LogEntry)
      <3>1. s \in Seq(Frames)
        BY LegacyAssumption
      <3>2. \A i \in 1..Len(s) : [gen |-> 0, frame |-> s[i]] \in LogEntry
        BY <3>1 DEF LogEntry
      <3> QED BY <2>2, <3>1, <3>2 DEF StoredAt0
    <2> QED BY <2>1, <2>2 DEF Init
  <1>3. acked \subseteq Nat \X Frames
    <2>1. acked = {<<0, log[i].frame>> : i \in 1..Len(log)}
      BY Zenon DEF Init
    <2>2. ASSUME NEW i \in 1..Len(log) PROVE log[i].frame \in Frames
      <3>1. log[i] \in LogEntry
        BY <1>2
      <3> QED BY <3>1 DEF LogEntry
    <2> QED BY <2>1, <2>2
  <1>4. op \in [Requests -> Frames \cup {Close}] /\ pc \in [Requests -> Labels]
    BY DEF Init, Labels
  <1> QED BY <1>1, <1>2, <1>3, <1>4 DEF Init, TypeOK, NoEntry

-------------------------------------------------------------------------------
\* Type correctness, one step per action.
LEMMA TypeStep == TypeOK /\ [Next]_vars => TypeOK'
  <1> SUFFICES ASSUME TypeOK, [Next]_vars PROVE TypeOK'
    OBVIOUS
  <1> USE DEF TypeOK, Goto, Labels
  <1>1. ASSUME NEW r \in Requests, Start(r) PROVE TypeOK'
    BY <1>1 DEF Start
  <1>2. ASSUME NEW r \in Requests, TakeLock(r) PROVE TypeOK'
    BY <1>2 DEF TakeLock
  <1>3. ASSUME NEW r \in Requests, ReadIndex(r) PROVE TypeOK'
    BY <1>3 DEF ReadIndex, Known
  <1>4. ASSUME NEW r \in Requests, ReadExists(r) PROVE TypeOK'
    BY <1>4 DEF ReadExists, Finish, LockWithout
  <1>5. ASSUME NEW r \in Requests, Ensure(r) PROVE TypeOK'
    BY <1>5 DEF Ensure
  <1>6. ASSUME NEW r \in Requests, Open(r) PROVE TypeOK'
    BY <1>6 DEF Open
  <1>7. ASSUME NEW r \in Requests, OpenFails(r) PROVE TypeOK'
    BY <1>7 DEF OpenFails, Finish, LockWithout
  <1>8. ASSUME NEW r \in Requests, SchemaOk(r) PROVE TypeOK'
    <2>1. Backfill \subseteq Sids
      BY DEF Backfill, TerminalSids
    <2>2. entry' \in [Instances -> [open : BOOLEAN, known : BOOLEAN, ready : BOOLEAN]]
      <3>1. entry' = entry \/ entry' = [entry EXCEPT ![Home[r]].ready = TRUE]
        BY <1>8, Zenon DEF SchemaOk
      <3>2. CASE entry' = entry
        BY <3>2
      <3>3. CASE entry' = [entry EXCEPT ![Home[r]].ready = TRUE]
        BY <3>3, HomeAssumption
      <3> QED BY <3>1, <3>2, <3>3
    <2>4. /\ phys' \in {"absent", "empty", "core"} /\ proj' \in BOOLEAN /\ fence' \subseteq Sids
          /\ UNCHANGED <<catalog, row, log, losses>>
      <3>1. CASE UNCHANGED <<durable, entry>>
        BY <3>1
      <3>2. CASE Migrate /\ UNCHANGED <<catalog, row, log, losses>>
        BY <3>2, <2>1 DEF Migrate
      <3> QED BY <1>8, <3>1, <3>2, Zenon DEF SchemaOk
    <2>3. lock' \in [Instances -> Requests \cup {NoRequest}] /\ pc' \in [Requests -> Labels]
      BY <1>8 DEF SchemaOk, LockWithout
    <2> QED BY <1>8, <2>2, <2>3, <2>4, Zenon DEF SchemaOk
  <1>9. ASSUME NEW r \in Requests, SchemaFails(r) PROVE TypeOK'
    BY <1>9 DEF SchemaFails, NoEntry
  <1>10. ASSUME NEW r \in Requests, StatementFails(r) PROVE TypeOK'
    BY <1>10, EvictType DEF StatementFails
  <1>11. ASSUME NEW r \in Requests, EmptyFileReappears(r) PROVE TypeOK'
    BY <1>11, EvictType DEF EmptyFileReappears
  <1>12. ASSUME NEW r \in Requests, RequestFails(r) PROVE TypeOK'
    BY <1>12 DEF RequestFails, Finish, LockWithout
  <1>13. ASSUME NEW r \in Requests, Establish(r) PROVE TypeOK'
    <2>1. [gen |-> 0, closed |-> FALSE] \in ChannelRow
      BY DEF ChannelRow
    <2>2. row' \in ChannelRow \cup {NoRow}
      BY <1>13, <2>1 DEF Establish
    <2>3. made' \in [Requests -> BOOLEAN] /\ pc' \in [Requests -> Labels]
      BY <1>13 DEF Establish, AfterEstablish
    <2> QED BY <1>13, <2>2, <2>3, Zenon DEF Establish
  <1>14. ASSUME NEW r \in Requests, EstablishNothing(r) PROVE TypeOK'
    BY <1>14 DEF EstablishNothing, Finish, LockWithout
  <1>15. ASSUME NEW r \in Requests, AddToCatalog(r) PROVE TypeOK'
    BY <1>15 DEF AddToCatalog, Catalogued
  <1>16. ASSUME NEW r \in Requests, FrameSuppressed(r) PROVE TypeOK'
    BY <1>16 DEF FrameSuppressed, Finish, LockWithout
  <1>17. ASSUME NEW r \in Requests, WriteFrame(r) PROVE TypeOK'
    <2>1. NextGen \in Nat /\ op[r] \in Frames /\ op[r].sid \in Sids
      BY <1>17, NextGenType, OpIsFrame DEF WriteFrame
    <2>2. [gen |-> NextGen, frame |-> op[r]] \in LogEntry
      BY <2>1 DEF LogEntry
    <2>3. [gen |-> NextGen, closed |-> FALSE] \in ChannelRow
      BY <2>1 DEF ChannelRow
    <2>4. log' \in Seq(LogEntry)
      BY <1>17, <2>2 DEF WriteFrame
    <2>5. row' \in ChannelRow \cup {NoRow} /\ fence' \subseteq Sids
      BY <1>17, <2>1, <2>3 DEF WriteFrame
    <2>6. acked' \subseteq Nat \X Frames /\ creations' \in Nat
      BY <1>17, <2>1 DEF WriteFrame
    <2>7. /\ pc' \in [Requests -> Labels] /\ op' \in [Requests -> Frames \cup {Close}]
          /\ lease' \in [Requests -> {"none", "held", "dead"}]
          /\ known' \in [Requests -> BOOLEAN] /\ made' \in [Requests -> BOOLEAN]
          /\ lock' \in [Instances -> Requests \cup {NoRequest}]
      BY <1>17, FinishType DEF WriteFrame
    <2>8. UNCHANGED <<catalog, phys, proj, losses, entry, legacy>>
      BY <1>17 DEF WriteFrame
    <2> QED BY <2>4, <2>5, <2>6, <2>7, <2>8
  <1>18. ASSUME NEW r \in Requests, FrameRejected(r) PROVE TypeOK'
    BY <1>18 DEF FrameRejected, Finish, LockWithout
  <1>19. ASSUME NEW r \in Requests, MarkClosed(r) PROVE TypeOK'
    <2>1. row' \in ChannelRow \cup {NoRow}
      <3>1. CASE row = NoRow
        BY <1>19, <3>1 DEF MarkClosed
      <3>2. CASE row \in ChannelRow /\ row # NoRow
        BY <1>19, <3>2 DEF MarkClosed, ChannelRow
      <3> QED BY <3>1, <3>2
    <2>2. UNCHANGED <<catalog, phys, log, fence, proj, losses, entry, history>>
      BY <1>19 DEF MarkClosed
    <2> QED BY <1>19, <2>1, <2>2, FinishType DEF MarkClosed
  <1>20. ASSUME NEW i \in Instances, EvictIdle(i) PROVE TypeOK'
    BY <1>20 DEF EvictIdle, NoEntry
  <1>21. ASSUME NEW i \in Instances, Crash(i) PROVE TypeOK'
    BY <1>21 DEF Crash, NoEntry
  <1>22. CASE LoseStore
    <2>1. /\ row' = NoRow /\ log' = <<>> /\ fence' = {} /\ proj' = FALSE /\ losses' = losses + 1
          /\ phys' \in {"absent", "empty", "core"}
          /\ UNCHANGED <<catalog, memory, request, history>>
      BY <1>22 DEF LoseStore
    <2>2. log' \in Seq(LogEntry) /\ fence' \subseteq Sids /\ losses' \in Nat
      BY <2>1
    <2>3. row' \in ChannelRow \cup {NoRow}
      BY <2>1
    <2> QED BY <2>1, <2>2, <2>3
  <1>23. CASE UNCHANGED vars
    BY <1>23
  <1> QED
    BY <1>1, <1>2, <1>3, <1>4, <1>5, <1>6, <1>7, <1>8, <1>9, <1>10, <1>11, <1>12, <1>13,
       <1>14, <1>15, <1>16, <1>17, <1>18, <1>19, <1>20, <1>21, <1>22, <1>23 DEF Next, Step

\* Every variable keeps its type, whatever the requests, crashes and losses.
THEOREM TypeCorrect == Spec => []TypeOK
  BY TypeInit, TypeStep, PTL DEF Spec

-------------------------------------------------------------------------------
\* Evicting a client can only empty cache entries and settle its request.
CacheShrinks ==
    /\ \A i \in Instances :
         /\ entry'[i].open => entry[i].open
         /\ entry'[i].known => entry[i].known
         /\ entry'[i].ready => entry[i].ready
    /\ \A q \in Requests :
         /\ known'[q] => known[q]
         /\ pc'[q] = pc[q] \/ pc'[q] = "idle"

LEMMA EvictShrinks == ASSUME TypeOK, NEW r \in Requests, EvictAndFinish(r)
                      PROVE  CacheShrinks
  <1>1. \A i \in Instances : entry'[i] = entry[i] \/ entry'[i] = NoEntry
    BY DEF TypeOK, EvictAndFinish
  <1>2. \A q \in Requests : (known'[q] => known[q]) /\ (pc'[q] = pc[q] \/ pc'[q] = "idle")
    BY DEF TypeOK, EvictAndFinish
  <1>3. \A i \in Instances :
           /\ entry'[i].open => entry[i].open
           /\ entry'[i].known => entry[i].known
           /\ entry'[i].ready => entry[i].ready
    BY <1>1 DEF NoEntry
  <1> QED BY <1>2, <1>3 DEF CacheShrinks

\* The catalog never forgets, and no request passes it unwritten.
LEMMA KnownStep == TypeOK /\ KnownIsCatalogued /\ [Next]_vars => KnownIsCatalogued'
  <1> SUFFICES ASSUME TypeOK, KnownIsCatalogued, [Next]_vars PROVE KnownIsCatalogued'
    OBVIOUS
  <1> USE HomeAssumption DEF TypeOK, KnownIsCatalogued
  <1>1. ASSUME NEW r \in Requests, Start(r) PROVE KnownIsCatalogued'
    BY <1>1 DEF Start, Goto
  <1>2. ASSUME NEW r \in Requests, TakeLock(r) PROVE KnownIsCatalogued'
    BY <1>2 DEF TakeLock, OpenedMeanwhile, Goto
  <1>3. ASSUME NEW r \in Requests, ReadIndex(r) PROVE KnownIsCatalogued'
    BY <1>3 DEF ReadIndex, Known, Goto
  <1>4. ASSUME NEW r \in Requests, ReadExists(r) PROVE KnownIsCatalogued'
    BY <1>4 DEF ReadExists, Finish, LockWithout, Goto
  <1>5. ASSUME NEW r \in Requests, Ensure(r) PROVE KnownIsCatalogued'
    BY <1>5 DEF Ensure, Goto
  <1>6. ASSUME NEW r \in Requests, Open(r) PROVE KnownIsCatalogued'
    BY <1>6 DEF Open, Goto
  <1>7. ASSUME NEW r \in Requests, OpenFails(r) PROVE KnownIsCatalogued'
    BY <1>7 DEF OpenFails, Finish, LockWithout
  <1>8. ASSUME NEW r \in Requests, SchemaOk(r) PROVE KnownIsCatalogued'
    <2>1. entry' = entry \/ entry' = [entry EXCEPT ![Home[r]].ready = TRUE]
      BY <1>8, Zenon DEF SchemaOk
    <2>2. ASSUME NEW i \in Instances PROVE entry'[i].known = entry[i].known
      <3>1. CASE entry' = entry
        BY <3>1
      <3>2. CASE entry' = [entry EXCEPT ![Home[r]].ready = TRUE]
        <4>1. entry[i] \in [open : BOOLEAN, known : BOOLEAN, ready : BOOLEAN]
          OBVIOUS
        <4>2. entry'[i] = IF i = Home[r] THEN [entry[i] EXCEPT !.ready = TRUE] ELSE entry[i]
          BY <3>2
        <4> QED BY <4>1, <4>2
      <3> QED BY <2>1, <3>1, <3>2
    <2>3. pc' = [pc EXCEPT ![r] = "establish"] /\ UNCHANGED <<catalog, known>>
      BY <1>8, Zenon DEF SchemaOk, Goto
    <2> QED BY <2>2, <2>3
  <1>9. ASSUME NEW r \in Requests, SchemaFails(r) PROVE KnownIsCatalogued'
    BY <1>9 DEF SchemaFails, NoEntry
  <1>10. ASSUME NEW r \in Requests, StatementFails(r) PROVE KnownIsCatalogued'
    <2>1. EvictAndFinish(r) /\ UNCHANGED <<catalog, proj>> /\ (phys' = phys \/ phys' = "empty")
      BY <1>10, Zenon DEF StatementFails
    <2>2. CacheShrinks
      BY <2>1, EvictShrinks, Zenon
    <2> QED BY <2>1, <2>2 DEF CacheShrinks
  <1>11. ASSUME NEW r \in Requests, EmptyFileReappears(r) PROVE KnownIsCatalogued'
    <2>1. EvictAndFinish(r) /\ UNCHANGED <<catalog, proj>> /\ (phys' = phys \/ phys' = "empty")
      BY <1>11, Zenon DEF EmptyFileReappears
    <2>2. CacheShrinks
      BY <2>1, EvictShrinks, Zenon
    <2> QED BY <2>1, <2>2 DEF CacheShrinks
  <1>12. ASSUME NEW r \in Requests, RequestFails(r) PROVE KnownIsCatalogued'
    BY <1>12 DEF RequestFails, Finish, LockWithout
  <1>13. ASSUME NEW r \in Requests, Establish(r) PROVE KnownIsCatalogued'
    BY <1>13 DEF Establish, Usable, AfterEstablish, Goto
  <1>14. ASSUME NEW r \in Requests, EstablishNothing(r) PROVE KnownIsCatalogued'
    BY <1>14 DEF EstablishNothing, Usable, Finish, LockWithout
  <1>15. ASSUME NEW r \in Requests, AddToCatalog(r) PROVE KnownIsCatalogued'
    BY <1>15 DEF AddToCatalog, Catalogued, Goto
  <1>16. ASSUME NEW r \in Requests, FrameSuppressed(r) PROVE KnownIsCatalogued'
    BY <1>16 DEF FrameSuppressed, Usable, Finish, LockWithout
  <1>17. ASSUME NEW r \in Requests, WriteFrame(r) PROVE KnownIsCatalogued'
    BY <1>17 DEF WriteFrame, Usable, Finish, LockWithout
  <1>18. ASSUME NEW r \in Requests, FrameRejected(r) PROVE KnownIsCatalogued'
    BY <1>18 DEF FrameRejected, Usable, Finish, LockWithout
  <1>19. ASSUME NEW r \in Requests, MarkClosed(r) PROVE KnownIsCatalogued'
    BY <1>19 DEF MarkClosed, Usable, Finish, LockWithout
  <1>20. ASSUME NEW i \in Instances, EvictIdle(i) PROVE KnownIsCatalogued'
    BY <1>20 DEF EvictIdle, NoEntry
  <1>21. ASSUME NEW i \in Instances, Crash(i) PROVE KnownIsCatalogued'
    BY <1>21 DEF Crash, NoEntry
  <1>22. CASE LoseStore
    BY <1>22 DEF LoseStore
  <1>23. CASE UNCHANGED vars
    BY <1>23
  <1> QED
    BY <1>1, <1>2, <1>3, <1>4, <1>5, <1>6, <1>7, <1>8, <1>9, <1>10, <1>11, <1>12, <1>13,
       <1>14, <1>15, <1>16, <1>17, <1>18, <1>19, <1>20, <1>21, <1>22, <1>23 DEF Next, Step

\* Only the holder of the create lock opens a client, and none is cached meanwhile.
LEMMA LockStep == TypeOK /\ LockGuardsOpening /\ [Next]_vars => LockGuardsOpening'
  <1> SUFFICES ASSUME TypeOK, LockGuardsOpening, [Next]_vars PROVE LockGuardsOpening'
    OBVIOUS
  <1> USE HomeAssumption DEF TypeOK, LockGuardsOpening, Opening
  <1>1. ASSUME NEW r \in Requests, Start(r) PROVE LockGuardsOpening'
    BY <1>1 DEF Start, Goto
  <1>2. ASSUME NEW r \in Requests, TakeLock(r) PROVE LockGuardsOpening'
    BY <1>2 DEF TakeLock, OpenedMeanwhile, Goto
  <1>3. ASSUME NEW r \in Requests, ReadIndex(r) PROVE LockGuardsOpening'
    BY <1>3 DEF ReadIndex, Known, Goto
  <1>4. ASSUME NEW r \in Requests, ReadExists(r) PROVE LockGuardsOpening'
    BY <1>4 DEF ReadExists, Finish, LockWithout, Goto
  <1>5. ASSUME NEW r \in Requests, Ensure(r) PROVE LockGuardsOpening'
    BY <1>5 DEF Ensure, Goto
  <1>6. ASSUME NEW r \in Requests, Open(r) PROVE LockGuardsOpening'
    BY <1>6 DEF Open, Goto
  <1>7. ASSUME NEW r \in Requests, OpenFails(r) PROVE LockGuardsOpening'
    BY <1>7 DEF OpenFails, Finish, LockWithout
  <1>8. ASSUME NEW r \in Requests, SchemaOk(r) PROVE LockGuardsOpening'
    <2>1. entry' = entry \/ entry' = [entry EXCEPT ![Home[r]].ready = TRUE]
      BY <1>8, Zenon DEF SchemaOk
    <2>2. \A i \in Instances : entry'[i].open = entry[i].open
      BY <2>1
    <2>3. /\ pc' = [pc EXCEPT ![r] = "establish"]
          /\ lock' = [i \in Instances |-> IF lock[i] = r THEN NoRequest ELSE lock[i]]
      BY <1>8, Zenon DEF SchemaOk, Goto, LockWithout
    <2> QED BY <2>2, <2>3
  <1>9. ASSUME NEW r \in Requests, SchemaFails(r) PROVE LockGuardsOpening'
    BY <1>9 DEF SchemaFails, NoEntry
  <1>10. ASSUME NEW r \in Requests, StatementFails(r) PROVE LockGuardsOpening'
    BY <1>10 DEF StatementFails, EvictAndFinish, LockWithout, NoEntry, NeedsClient
  <1>11. ASSUME NEW r \in Requests, EmptyFileReappears(r) PROVE LockGuardsOpening'
    <2>1. /\ EvictAndFinish(r) /\ pc[r] # "queued"
          /\ pc' = [pc EXCEPT ![r] = "idle"]
          /\ lock' = [i \in Instances |-> IF lock[i] = r THEN NoRequest ELSE lock[i]]
      BY <1>11, Zenon DEF EmptyFileReappears, EvictAndFinish, LockWithout, NeedsClient
    <2>2. CacheShrinks
      BY <2>1, EvictShrinks, Zenon
    <2> QED BY <2>1, <2>2 DEF CacheShrinks
  <1>12. ASSUME NEW r \in Requests, RequestFails(r) PROVE LockGuardsOpening'
    BY <1>12 DEF RequestFails, Finish, LockWithout
  <1>13. ASSUME NEW r \in Requests, Establish(r) PROVE LockGuardsOpening'
    BY <1>13 DEF Establish, Usable, AfterEstablish, Goto
  <1>14. ASSUME NEW r \in Requests, EstablishNothing(r) PROVE LockGuardsOpening'
    BY <1>14 DEF EstablishNothing, Usable, Finish, LockWithout
  <1>15. ASSUME NEW r \in Requests, AddToCatalog(r) PROVE LockGuardsOpening'
    BY <1>15 DEF AddToCatalog, Catalogued, Goto
  <1>16. ASSUME NEW r \in Requests, FrameSuppressed(r) PROVE LockGuardsOpening'
    BY <1>16 DEF FrameSuppressed, Usable, Finish, LockWithout
  <1>17. ASSUME NEW r \in Requests, WriteFrame(r) PROVE LockGuardsOpening'
    BY <1>17 DEF WriteFrame, Usable, Finish, LockWithout
  <1>18. ASSUME NEW r \in Requests, FrameRejected(r) PROVE LockGuardsOpening'
    BY <1>18 DEF FrameRejected, Usable, Finish, LockWithout
  <1>19. ASSUME NEW r \in Requests, MarkClosed(r) PROVE LockGuardsOpening'
    BY <1>19 DEF MarkClosed, Usable, Finish, LockWithout
  <1>20. ASSUME NEW i \in Instances, EvictIdle(i) PROVE LockGuardsOpening'
    BY <1>20 DEF EvictIdle, NoEntry
  <1>21. ASSUME NEW i \in Instances, Crash(i) PROVE LockGuardsOpening'
    BY <1>21 DEF Crash, NoEntry
  <1>22. CASE LoseStore
    BY <1>22 DEF LoseStore
  <1>23. CASE UNCHANGED vars
    BY <1>23
  <1> QED
    BY <1>1, <1>2, <1>3, <1>4, <1>5, <1>6, <1>7, <1>8, <1>9, <1>10, <1>11, <1>12, <1>13,
       <1>14, <1>15, <1>16, <1>17, <1>18, <1>19, <1>20, <1>21, <1>22, <1>23 DEF Next, Step

\* A checked schema makes the entry ready, unless the lease is dead, and moves the request on.
LEMMA SchemaKeeps ==
  ASSUME TypeOK, NEW r \in Requests, SchemaOk(r)
  PROVE  /\ \A i \in Instances : /\ entry'[i].open = entry[i].open /\ entry'[i].known = entry[i].known
                                 /\ entry[i].ready => entry'[i].ready
         /\ lease[r] = "dead" \/ entry'[Inst(r)].ready
         /\ pc[r] = "schema" /\ pc'[r] = "establish"
         /\ \A q \in Requests \ {r} : pc'[q] = pc[q]
         /\ UNCHANGED <<lease, known>>
  <1>1. /\ pc[r] = "schema" /\ pc' = [pc EXCEPT ![r] = "establish"] /\ UNCHANGED <<lease, known>>
        /\ \/ entry' = entry /\ (lease[r] = "dead" \/ entry[Inst(r)].ready)
           \/ entry' = [entry EXCEPT ![Inst(r)].ready = TRUE]
    BY Zenon DEF SchemaOk, Goto
  <1>2. Inst(r) \in Instances /\ entry[Inst(r)] \in [open : BOOLEAN, known : BOOLEAN, ready : BOOLEAN]
    BY HomeAssumption DEF TypeOK, Inst
  <1>3. CASE entry' = entry /\ (lease[r] = "dead" \/ entry[Inst(r)].ready)
    BY <1>1, <1>3 DEF TypeOK
  <1>4. CASE entry' = [entry EXCEPT ![Inst(r)].ready = TRUE]
    BY <1>1, <1>2, <1>4 DEF TypeOK
  <1> QED BY <1>1, <1>3, <1>4

\* A lease stays on a cached, checked client until it is released or dead.
LEMMA LeaseStep == TypeOK /\ LockGuardsOpening /\ LeaseIsLive /\ [Next]_vars => LeaseIsLive'
  <1> SUFFICES ASSUME TypeOK, LockGuardsOpening, LeaseIsLive, [Next]_vars PROVE LeaseIsLive'
    OBVIOUS
  <1> USE HomeAssumption DEF TypeOK, LockGuardsOpening, Opening, LeaseIsLive
  <1>1. ASSUME NEW r \in Requests, Start(r) PROVE LeaseIsLive'
    BY <1>1 DEF Start, Goto
  <1>2. ASSUME NEW r \in Requests, TakeLock(r) PROVE LeaseIsLive'
    BY <1>2 DEF TakeLock, OpenedMeanwhile, Goto
  <1>3. ASSUME NEW r \in Requests, ReadIndex(r) PROVE LeaseIsLive'
    BY <1>3 DEF ReadIndex, Known, Goto
  <1>4. ASSUME NEW r \in Requests, ReadExists(r) PROVE LeaseIsLive'
    BY <1>4 DEF ReadExists, Finish, LockWithout, Goto
  <1>5. ASSUME NEW r \in Requests, Ensure(r) PROVE LeaseIsLive'
    BY <1>5 DEF Ensure, Goto
  <1>6. ASSUME NEW r \in Requests, Open(r) PROVE LeaseIsLive'
    BY <1>6 DEF Open, Goto
  <1>7. ASSUME NEW r \in Requests, OpenFails(r) PROVE LeaseIsLive'
    BY <1>7 DEF OpenFails, Finish, LockWithout
  <1>8. ASSUME NEW r \in Requests, SchemaOk(r) PROVE LeaseIsLive'
    BY <1>8, SchemaKeeps
  <1>9. ASSUME NEW r \in Requests, SchemaFails(r) PROVE LeaseIsLive'
    BY <1>9 DEF SchemaFails, NoEntry
  <1>10. ASSUME NEW r \in Requests, StatementFails(r) PROVE LeaseIsLive'
    BY <1>10 DEF StatementFails, EvictAndFinish, LockWithout, NoEntry, NeedsClient
  <1>11. ASSUME NEW r \in Requests, EmptyFileReappears(r) PROVE LeaseIsLive'
    BY <1>11 DEF EmptyFileReappears, EvictAndFinish, LockWithout, NoEntry, NeedsClient
  <1>12. ASSUME NEW r \in Requests, RequestFails(r) PROVE LeaseIsLive'
    BY <1>12 DEF RequestFails, Finish, LockWithout
  <1>13. ASSUME NEW r \in Requests, Establish(r) PROVE LeaseIsLive'
    BY <1>13 DEF Establish, Usable, AfterEstablish, Goto
  <1>14. ASSUME NEW r \in Requests, EstablishNothing(r) PROVE LeaseIsLive'
    BY <1>14 DEF EstablishNothing, Usable, Finish, LockWithout
  <1>15. ASSUME NEW r \in Requests, AddToCatalog(r) PROVE LeaseIsLive'
    BY <1>15 DEF AddToCatalog, Catalogued, Goto
  <1>16. ASSUME NEW r \in Requests, FrameSuppressed(r) PROVE LeaseIsLive'
    BY <1>16 DEF FrameSuppressed, Usable, Finish, LockWithout
  <1>17. ASSUME NEW r \in Requests, WriteFrame(r) PROVE LeaseIsLive'
    BY <1>17 DEF WriteFrame, Usable, Finish, LockWithout
  <1>18. ASSUME NEW r \in Requests, FrameRejected(r) PROVE LeaseIsLive'
    BY <1>18 DEF FrameRejected, Usable, Finish, LockWithout
  <1>19. ASSUME NEW r \in Requests, MarkClosed(r) PROVE LeaseIsLive'
    BY <1>19 DEF MarkClosed, Usable, Finish, LockWithout
  <1>20. ASSUME NEW i \in Instances, EvictIdle(i) PROVE LeaseIsLive'
    BY <1>20 DEF EvictIdle, NoEntry
  <1>21. ASSUME NEW i \in Instances, Crash(i) PROVE LeaseIsLive'
    BY <1>21 DEF Crash, NoEntry
  <1>22. CASE LoseStore
    BY <1>22 DEF LoseStore
  <1>23. CASE UNCHANGED vars
    BY <1>23
  <1> QED
    BY <1>1, <1>2, <1>3, <1>4, <1>5, <1>6, <1>7, <1>8, <1>9, <1>10, <1>11, <1>12, <1>13,
       <1>14, <1>15, <1>16, <1>17, <1>18, <1>19, <1>20, <1>21, <1>22, <1>23 DEF Next, Step

\* The migration that checks a client creates the projection table.
LEMMA ProjectionStep == TypeOK /\ ProjectionReady /\ [Next]_vars => ProjectionReady'
  <1> SUFFICES ASSUME TypeOK, ProjectionReady, [Next]_vars PROVE ProjectionReady'
    OBVIOUS
  <1> USE HomeAssumption DEF TypeOK, ProjectionReady
  <1>1. ASSUME NEW r \in Requests, Start(r) PROVE ProjectionReady'
    BY <1>1 DEF Start, Goto
  <1>2. ASSUME NEW r \in Requests, TakeLock(r) PROVE ProjectionReady'
    BY <1>2 DEF TakeLock, OpenedMeanwhile, Goto
  <1>3. ASSUME NEW r \in Requests, ReadIndex(r) PROVE ProjectionReady'
    BY <1>3 DEF ReadIndex, Known, Goto
  <1>4. ASSUME NEW r \in Requests, ReadExists(r) PROVE ProjectionReady'
    BY <1>4 DEF ReadExists, Finish, LockWithout, Goto
  <1>5. ASSUME NEW r \in Requests, Ensure(r) PROVE ProjectionReady'
    BY <1>5 DEF Ensure, Goto
  <1>6. ASSUME NEW r \in Requests, Open(r) PROVE ProjectionReady'
    BY <1>6 DEF Open, Goto
  <1>7. ASSUME NEW r \in Requests, OpenFails(r) PROVE ProjectionReady'
    BY <1>7 DEF OpenFails, Finish, LockWithout
  <1>8. ASSUME NEW r \in Requests, SchemaOk(r) PROVE ProjectionReady'
    BY <1>8 DEF SchemaOk, Migrate, LockWithout, Goto
  <1>9. ASSUME NEW r \in Requests, SchemaFails(r) PROVE ProjectionReady'
    BY <1>9 DEF SchemaFails, NoEntry
  <1>10. ASSUME NEW r \in Requests, StatementFails(r) PROVE ProjectionReady'
    <2>1. EvictAndFinish(r) /\ UNCHANGED <<catalog, proj>> /\ (phys' = phys \/ phys' = "empty")
      BY <1>10, Zenon DEF StatementFails
    <2>2. CacheShrinks
      BY <2>1, EvictShrinks, Zenon
    <2> QED BY <2>1, <2>2 DEF CacheShrinks
  <1>11. ASSUME NEW r \in Requests, EmptyFileReappears(r) PROVE ProjectionReady'
    <2>1. EvictAndFinish(r) /\ UNCHANGED <<catalog, proj>> /\ (phys' = phys \/ phys' = "empty")
      BY <1>11, Zenon DEF EmptyFileReappears
    <2>2. CacheShrinks
      BY <2>1, EvictShrinks, Zenon
    <2> QED BY <2>1, <2>2 DEF CacheShrinks
  <1>12. ASSUME NEW r \in Requests, RequestFails(r) PROVE ProjectionReady'
    BY <1>12 DEF RequestFails, Finish, LockWithout
  <1>13. ASSUME NEW r \in Requests, Establish(r) PROVE ProjectionReady'
    BY <1>13 DEF Establish, Usable, AfterEstablish, Goto
  <1>14. ASSUME NEW r \in Requests, EstablishNothing(r) PROVE ProjectionReady'
    BY <1>14 DEF EstablishNothing, Usable, Finish, LockWithout
  <1>15. ASSUME NEW r \in Requests, AddToCatalog(r) PROVE ProjectionReady'
    BY <1>15 DEF AddToCatalog, Catalogued, Goto
  <1>16. ASSUME NEW r \in Requests, FrameSuppressed(r) PROVE ProjectionReady'
    BY <1>16 DEF FrameSuppressed, Usable, Finish, LockWithout
  <1>17. ASSUME NEW r \in Requests, WriteFrame(r) PROVE ProjectionReady'
    BY <1>17 DEF WriteFrame, Usable, Finish, LockWithout
  <1>18. ASSUME NEW r \in Requests, FrameRejected(r) PROVE ProjectionReady'
    BY <1>18 DEF FrameRejected, Usable, Finish, LockWithout
  <1>19. ASSUME NEW r \in Requests, MarkClosed(r) PROVE ProjectionReady'
    BY <1>19 DEF MarkClosed, Usable, Finish, LockWithout
  <1>20. ASSUME NEW i \in Instances, EvictIdle(i) PROVE ProjectionReady'
    BY <1>20 DEF EvictIdle, NoEntry
  <1>21. ASSUME NEW i \in Instances, Crash(i) PROVE ProjectionReady'
    BY <1>21 DEF Crash, NoEntry
  <1>22. CASE LoseStore
    BY <1>22 DEF LoseStore
  <1>23. CASE UNCHANGED vars
    BY <1>23
  <1> QED
    BY <1>1, <1>2, <1>3, <1>4, <1>5, <1>6, <1>7, <1>8, <1>9, <1>10, <1>11, <1>12, <1>13,
       <1>14, <1>15, <1>16, <1>17, <1>18, <1>19, <1>20, <1>21, <1>22, <1>23 DEF Next, Step

-------------------------------------------------------------------------------
\* Only a migration, a frame's transaction or a loss touches the log and what derives from it.
LogKept == UNCHANGED <<log, fence, proj, acked, losses>>

LEMMA LogSteps == [Next]_vars => \/ LogKept
                                 \/ \E r \in Requests : SchemaOk(r) \/ WriteFrame(r)
                                 \/ LoseStore
  <1> SUFFICES ASSUME [Next]_vars, ~LoseStore, ~ \E r \in Requests : SchemaOk(r) \/ WriteFrame(r)
               PROVE  LogKept
    OBVIOUS
  <1> USE DEF LogKept
  <1>1. ASSUME NEW r \in Requests, Start(r) PROVE LogKept
    BY <1>1, Zenon DEF Start
  <1>2. ASSUME NEW r \in Requests, TakeLock(r) PROVE LogKept
    BY <1>2, Zenon DEF TakeLock
  <1>3. ASSUME NEW r \in Requests, ReadIndex(r) PROVE LogKept
    BY <1>3, Zenon DEF ReadIndex
  <1>4. ASSUME NEW r \in Requests, ReadExists(r) PROVE LogKept
    BY <1>4, Zenon DEF ReadExists
  <1>5. ASSUME NEW r \in Requests, Ensure(r) PROVE LogKept
    BY <1>5, Zenon DEF Ensure
  <1>6. ASSUME NEW r \in Requests, Open(r) PROVE LogKept
    BY <1>6, Zenon DEF Open
  <1>7. ASSUME NEW r \in Requests, OpenFails(r) PROVE LogKept
    BY <1>7, Zenon DEF OpenFails
  <1>8. ASSUME NEW r \in Requests, SchemaFails(r) PROVE LogKept
    BY <1>8, Zenon DEF SchemaFails
  <1>9. ASSUME NEW r \in Requests, StatementFails(r) PROVE LogKept
    BY <1>9, Zenon DEF StatementFails
  <1>10. ASSUME NEW r \in Requests, EmptyFileReappears(r) PROVE LogKept
    BY <1>10, Zenon DEF EmptyFileReappears
  <1>11. ASSUME NEW r \in Requests, RequestFails(r) PROVE LogKept
    BY <1>11, Zenon DEF RequestFails
  <1>12. ASSUME NEW r \in Requests, Establish(r) PROVE LogKept
    BY <1>12, Zenon DEF Establish
  <1>13. ASSUME NEW r \in Requests, EstablishNothing(r) PROVE LogKept
    BY <1>13, Zenon DEF EstablishNothing
  <1>14. ASSUME NEW r \in Requests, AddToCatalog(r) PROVE LogKept
    BY <1>14, Zenon DEF AddToCatalog
  <1>15. ASSUME NEW r \in Requests, FrameSuppressed(r) PROVE LogKept
    BY <1>15, Zenon DEF FrameSuppressed
  <1>16. ASSUME NEW r \in Requests, FrameRejected(r) PROVE LogKept
    BY <1>16, Zenon DEF FrameRejected
  <1>17. ASSUME NEW r \in Requests, MarkClosed(r) PROVE LogKept
    BY <1>17, Zenon DEF MarkClosed
  <1>18. ASSUME NEW i \in Instances, EvictIdle(i) \/ Crash(i) PROVE LogKept
    BY <1>18, Zenon DEF EvictIdle, Crash
  <1>19. CASE UNCHANGED vars
    BY <1>19, Zenon
  <1> QED
    BY <1>1, <1>2, <1>3, <1>4, <1>5, <1>6, <1>7, <1>8, <1>9, <1>10, <1>11, <1>12, <1>13,
       <1>14, <1>15, <1>16, <1>17, <1>18, <1>19 DEF Next, Step

\* A migration back-fills the projection once, from the log as it is.
LEMMA SchemaLog ==
  ASSUME NEW r \in Requests, SchemaOk(r)
  PROVE  /\ UNCHANGED <<log, acked, losses>>
         /\ \/ UNCHANGED <<fence, proj>>
            \/ fence' = (IF proj THEN fence ELSE TerminalSids(log)) /\ proj' = TRUE
  BY Zenon DEF SchemaOk, Migrate, Backfill

\* What the transaction of a frame did to the log: nothing, because the frame was there, or one
\* entry more.
LEMMA WriteLog ==
  ASSUME TypeOK, NEW r \in Requests, WriteFrame(r)
  PROVE  /\ op[r] \in Frames /\ ~Suppressed(op[r])
         /\ UNCHANGED <<proj, losses>>
         /\ acked' = acked \cup {<<NextGen, op[r]>>}
         /\ fence' = (IF PresenceBus /\ op[r].kind = "terminal" THEN fence \cup {op[r].sid} ELSE fence)
         /\ \/ log' = log /\ \E i \in 1..Len(log) : log[i] = [gen |-> NextGen, frame |-> op[r]]
            \/ log' = Append(log, [gen |-> NextGen, frame |-> op[r]])
  <1>1. op[r] \in Frames /\ ~Suppressed(op[r])
    BY OpIsFrame DEF WriteFrame
  <1>2. /\ UNCHANGED <<proj, losses>> /\ acked' = acked \cup {<<NextGen, op[r]>>}
        /\ fence' = (IF PresenceBus /\ op[r].kind = "terminal" THEN fence \cup {op[r].sid} ELSE fence)
        /\ log' = (IF Occupied(NextGen, op[r]) THEN log
                   ELSE Append(log, [gen |-> NextGen, frame |-> op[r]]))
        /\ ~Collides(NextGen, op[r])
    BY Zenon DEF WriteFrame
  <1>3. CASE Occupied(NextGen, op[r])
    BY <1>1, <1>2, <1>3, Zenon DEF Collides
  <1>4. CASE ~Occupied(NextGen, op[r])
    BY <1>1, <1>2, <1>4, Zenon
  <1> QED BY <1>3, <1>4

\* Appending an entry adds its session to the terminals if it is one, and removes none.
LEMMA AppendTerminals ==
  ASSUME log \in Seq(LogEntry), NEW e \in LogEntry
  PROVE  TerminalSids(Append(log, e)) =
           IF e.frame.kind = "terminal" THEN TerminalSids(log) \cup {e.frame.sid}
           ELSE TerminalSids(log)
  <1> DEFINE l == Append(log, e)
  <1>1. Len(l) = Len(log) + 1 /\ l[Len(log) + 1] = e /\ \A i \in 1..Len(log) : l[i] = log[i]
    OBVIOUS
  <1>2. e.frame.sid \in Sids /\ Len(log) \in Nat
    BY DEF LogEntry, Sids
  <1>3. \A s \in Sids : s \in TerminalSids(l) <=>
          s \in TerminalSids(log) \/ (e.frame.kind = "terminal" /\ e.frame.sid = s)
    <2> SUFFICES ASSUME NEW s \in Sids
                 PROVE  (\E i \in 1..Len(l) : l[i].frame.kind = "terminal" /\ l[i].frame.sid = s)
                   <=> \/ \E i \in 1..Len(log) : log[i].frame.kind = "terminal" /\ log[i].frame.sid = s
                       \/ e.frame.kind = "terminal" /\ e.frame.sid = s
      BY DEF TerminalSids
    <2> HIDE DEF l
    <2> QED BY <1>1, <1>2
  <1>4. TerminalSids(l) \subseteq Sids /\ TerminalSids(log) \subseteq Sids
    BY DEF TerminalSids
  <1> QED BY <1>2, <1>3, <1>4

\* The projection follows the log through migrations and writes; a lost table says nothing.
LEMMA FenceStep == TypeOK /\ FenceMatchesLog /\ [Next]_vars => FenceMatchesLog'
  <1> SUFFICES ASSUME TypeOK, FenceMatchesLog, [Next]_vars, PresenceBus, proj'
               PROVE  fence' = TerminalSids(log')
    BY DEF FenceMatchesLog, TerminalSids, Sids
  <1>1. CASE LogKept
    BY <1>1 DEF LogKept, FenceMatchesLog
  <1>2. ASSUME NEW r \in Requests, SchemaOk(r) PROVE fence' = TerminalSids(log')
    BY <1>2, SchemaLog DEF FenceMatchesLog
  <1>3. ASSUME NEW r \in Requests, WriteFrame(r) PROVE fence' = TerminalSids(log')
    <2> DEFINE e == [gen |-> NextGen, frame |-> op[r]]
    <2>1. NextGen \in Nat /\ op[r] \in Frames /\ op[r].sid \in Sids
      BY <1>3, NextGenType, OpIsFrame DEF WriteFrame
    <2>2. e \in LogEntry /\ e.frame = op[r] /\ log \in Seq(LogEntry)
      BY <2>1 DEF LogEntry, TypeOK
    <2>3. fence = TerminalSids(log)
      BY <1>3, WriteLog DEF FenceMatchesLog
    <2>4. CASE log' = Append(log, e)
      BY <1>3, <2>2, <2>3, <2>4, AppendTerminals, WriteLog
    <2>5. CASE log' = log /\ \E i \in 1..Len(log) : log[i] = e
      <3>1. op[r].kind = "terminal" => op[r].sid \in TerminalSids(log)
        BY <2>1, <2>2, <2>5 DEF TerminalSids
      <3>2. fence' = IF PresenceBus /\ op[r].kind = "terminal" THEN fence \cup {op[r].sid} ELSE fence
        BY <1>3, WriteLog
      <3> QED BY <2>3, <2>5, <3>1, <3>2
    <2> QED BY <1>3, <2>4, <2>5, WriteLog
  <1>4. CASE LoseStore
    BY <1>4 DEF LoseStore
  <1> QED BY <1>1, <1>2, <1>3, <1>4, LogSteps

\* An acknowledged entry is in the log when it is acknowledged and stays there until a loss.
LEMMA KeptStep == TypeOK /\ KeptUntilLoss /\ [Next]_vars => KeptUntilLoss'
  <1> SUFFICES ASSUME TypeOK, KeptUntilLoss, [Next]_vars, losses' = 0, NEW a \in acked'
               PROVE  \E i \in 1..Len(log') : log'[i] = [gen |-> a[1], frame |-> a[2]]
    BY DEF KeptUntilLoss
  <1>1. CASE LogKept
    BY <1>1 DEF LogKept, KeptUntilLoss
  <1>2. ASSUME NEW r \in Requests, SchemaOk(r)
        PROVE  \E i \in 1..Len(log') : log'[i] = [gen |-> a[1], frame |-> a[2]]
    BY <1>2, SchemaLog DEF KeptUntilLoss
  <1>3. ASSUME NEW r \in Requests, WriteFrame(r)
        PROVE  \E i \in 1..Len(log') : log'[i] = [gen |-> a[1], frame |-> a[2]]
    <2> DEFINE e == [gen |-> NextGen, frame |-> op[r]]
    <2>1. NextGen \in Nat /\ op[r] \in Frames
      BY <1>3, NextGenType, OpIsFrame DEF WriteFrame
    <2>2. e \in LogEntry /\ log \in Seq(LogEntry)
      BY <2>1 DEF LogEntry, TypeOK
    <2>3. a \in acked \/ a = <<NextGen, op[r]>>
      BY <1>3, WriteLog
    <2>4. a \in acked => \E i \in 1..Len(log) : log[i] = [gen |-> a[1], frame |-> a[2]]
      BY <1>3, WriteLog DEF KeptUntilLoss
    <2>5. a = <<NextGen, op[r]>> => [gen |-> a[1], frame |-> a[2]] = e
      OBVIOUS
    <2>6. CASE log' = log /\ \E i \in 1..Len(log) : log[i] = e
      BY <2>3, <2>4, <2>5, <2>6
    <2>7. CASE log' = Append(log, e)
      <3> HIDE DEF e
      <3>1. /\ Len(log') = Len(log) + 1 /\ log'[Len(log) + 1] = e
            /\ \A i \in 1..Len(log) : log'[i] = log[i]
        BY <2>2, <2>7
      <3>2. Len(log) \in Nat
        BY <2>2
      <3> QED BY <2>3, <2>4, <2>5, <3>1, <3>2
    <2> QED BY <1>3, <2>6, <2>7, WriteLog
  <1>4. CASE LoseStore
    BY <1>4 DEF LoseStore, TypeOK
  <1> QED BY <1>1, <1>2, <1>3, <1>4, LogSteps

-------------------------------------------------------------------------------
\* The invariant holds initially, is kept by every step, and so holds of the specification.
LEMMA InvInit == Init => Inv
  <1> SUFFICES ASSUME Init PROVE Inv
    OBVIOUS
  <1>1. TypeOK
    BY TypeInit
  <1>2. KnownIsCatalogued /\ LockGuardsOpening /\ LeaseIsLive /\ ProjectionReady
    BY HomeAssumption DEF Init, NoEntry, KnownIsCatalogued, LockGuardsOpening, Opening, LeaseIsLive,
                          ProjectionReady
  <1>3. FenceMatchesLog
    BY DEF Init, FenceMatchesLog
  <1>4. KeptUntilLoss
    <2>1. acked = {<<0, log[i].frame>> : i \in 1..Len(log)}
      BY Zenon DEF Init
    <2>2. ASSUME NEW i \in 1..Len(log) PROVE log[i] = [gen |-> 0, frame |-> log[i].frame]
      <3>1. \E s \in LegacyLogs : log = StoredAt0(s)
        BY <2>2 DEF Init
      <3>2. PICK s \in LegacyLogs : log = StoredAt0(s)
        BY <3>1
      <3>3. s \in Seq(Frames)
        BY LegacyAssumption
      <3> QED BY <3>2, <3>3 DEF StoredAt0
    <2> QED BY <2>1, <2>2 DEF KeptUntilLoss
  <1> QED BY <1>1, <1>2, <1>3, <1>4 DEF Inv

\* One part per line of Inv.
LEMMA InvStep == Inv /\ [Next]_vars => Inv'
  BY TypeStep, KnownStep, LockStep, LeaseStep, ProjectionStep, FenceStep, KeptStep, Zenon DEF Inv

\* The inductive invariant of ChannelStore.
LEMMA InvHolds == Spec => []Inv
  BY InvInit, InvStep, PTL DEF Spec

\* One instance never opens a second client for the channel.
THEOREM OneClientHolds == Spec => []OneClient
  <1>1. Inv => OneClient
    BY HomeAssumption DEF Inv, TypeOK, LockGuardsOpening, OneClient
  <1> QED BY <1>1, InvHolds, PTL

\* The presence projection says what the retained terminal frames say.
THEOREM FenceMatches == Spec => []FenceMatchesLog
  <1>1. Inv => FenceMatchesLog
    BY DEF Inv
  <1> QED BY <1>1, InvHolds, PTL

\* Until the database is lost, every acknowledged frame can be read.
THEOREM AckedUntilLoss == Spec => [](losses = 0 => AckedFramesKept)
  <1>1. Inv => (losses = 0 => AckedFramesKept)
    BY DEF Inv, KeptUntilLoss, AckedFramesKept
  <1> QED BY <1>1, InvHolds, PTL

\* A frame is written only into a catalogued channel that has its witness row.
THEOREM FrameIsAfterCatalog == Spec => FrameAfterCatalog
  <1>1. Inv /\ [Next]_vars => [Len(log') > Len(log) => catalog /\ row # NoRow]_vars
    <2> SUFFICES ASSUME Inv, [Next]_vars, Len(log') > Len(log)
                 PROVE  catalog /\ row # NoRow
      OBVIOUS
    <2>1. log \in Seq(LogEntry)
      BY DEF Inv, TypeOK
    <2>2. CASE LogKept
      BY <2>1, <2>2 DEF LogKept
    <2>3. ASSUME NEW r \in Requests, SchemaOk(r) PROVE FALSE
      <3>1. log' = log
        BY <2>3, SchemaLog, Zenon
      <3> QED BY <2>1, <3>1
    <2>4. ASSUME NEW r \in Requests, WriteFrame(r) PROVE catalog /\ row # NoRow
      BY <2>4 DEF WriteFrame, Inv, KnownIsCatalogued
    <2>5. CASE LoseStore
      BY <2>1, <2>5 DEF LoseStore
    <2> QED BY <2>2, <2>3, <2>4, <2>5, LogSteps
  <1> QED BY <1>1, InvHolds, PTL DEF Spec, FrameAfterCatalog

\* Nothing announces a session after its stored terminal.
THEOREM TerminalAbsorbs == Spec => TerminalIsLast
  <1> DEFINE A == \A s \in TerminalSids(log) :
                    PresenceBus /\ Len(log') > Len(log) /\ log'[Len(log')].frame.sid = s
                      => log'[Len(log')].frame.kind = "other"
  <1>1. Inv /\ [Next]_vars => [A]_vars
    <2> SUFFICES ASSUME Inv, [Next]_vars, NEW s \in TerminalSids(log), PresenceBus,
                        Len(log') > Len(log), log'[Len(log')].frame.sid = s
                 PROVE  log'[Len(log')].frame.kind = "other"
      OBVIOUS
    <2>1. TypeOK /\ log \in Seq(LogEntry)
      BY DEF Inv, TypeOK
    <2>2. CASE LogKept
      BY <2>1, <2>2 DEF LogKept
    <2>3. ASSUME NEW r \in Requests, SchemaOk(r) PROVE FALSE
      <3>1. log' = log
        BY <2>3, SchemaLog, Zenon
      <3> QED BY <2>1, <3>1
    <2>4. ASSUME NEW r \in Requests, WriteFrame(r) PROVE log'[Len(log')].frame.kind = "other"
      <3> DEFINE e == [gen |-> NextGen, frame |-> op[r]]
      <3>1. op[r] \in Frames /\ op[r].sid \in Sids /\ NextGen \in Nat
        BY <2>1, <2>4, OpIsFrame, NextGenType DEF WriteFrame
      <3>2. e \in LogEntry /\ e.frame = op[r]
        BY <3>1 DEF LogEntry
      <3>3. log'[Len(log')] = e
        BY <2>1, <2>4, <3>2, WriteLog
      <3>4. op[r].sid = s
        BY <3>2, <3>3
      <3>5. proj
        BY <2>4, HomeAssumption DEF WriteFrame, Usable, Inv, LeaseIsLive, ProjectionReady
      <3>6. op[r].sid \in fence
        BY <3>4, <3>5 DEF Inv, FenceMatchesLog
      <3>7. op[r].kind \notin {"terminal", "announce"}
        BY <2>1, <2>4, <3>6, WriteLog DEF Suppressed
      <3> QED BY <3>1, <3>2, <3>3, <3>7, FramesAssumption
    <2>5. CASE LoseStore
      BY <2>1, <2>5 DEF LoseStore
    <2> QED BY <2>2, <2>3, <2>4, <2>5, LogSteps
  <1> QED BY <1>1, InvHolds, PTL DEF Spec, TerminalIsLast

-------------------------------------------------------------------------------
\* After an eviction whoever is still opening, or may create tables, is who it was.
LEMMA EvictKeepsOpen ==
  ASSUME TypeOK, NEW r \in Requests, EvictAndFinish(r)
  PROVE  /\ \A q \in Requests : pc'[q] \in {"exists", "ensure", "open"} =>
               known'[q] = known[q] /\ pc[q] \in {"exists", "ensure", "open"}
         /\ \A i \in Instances : entry'[i].open => entry'[i] = entry[i]
  <1>1. \A q \in Requests : pc'[q] # "idle" => pc'[q] = pc[q] /\ known'[q] = known[q]
    BY DEF TypeOK, EvictAndFinish
  <1>2. \A i \in Instances : entry'[i] = entry[i] \/ entry'[i] = NoEntry
    BY DEF TypeOK, EvictAndFinish
  <1>3. ~NoEntry.open
    BY DEF NoEntry
  <1>4. \A i \in Instances : entry'[i].open => entry'[i] = entry[i]
    BY <1>2, <1>3, Zenon
  <1> QED BY <1>1, <1>4

\* No request leaves its opening without a lease.
LEMMA LeasedStep == TypeOK /\ LeaseIsLive /\ LeasedPastOpen /\ [Next]_vars => LeasedPastOpen'
  <1> SUFFICES ASSUME TypeOK, LeaseIsLive, LeasedPastOpen, [Next]_vars PROVE LeasedPastOpen'
    OBVIOUS
  <1> USE HomeAssumption DEF TypeOK, LeaseIsLive, LeasedPastOpen
  <1>1. ASSUME NEW r \in Requests, Start(r) PROVE LeasedPastOpen'
    BY <1>1 DEF Start, Goto
  <1>2. ASSUME NEW r \in Requests, TakeLock(r) PROVE LeasedPastOpen'
    BY <1>2 DEF TakeLock, OpenedMeanwhile, Goto
  <1>3. ASSUME NEW r \in Requests, ReadIndex(r) PROVE LeasedPastOpen'
    BY <1>3 DEF ReadIndex, Known, Goto
  <1>4. ASSUME NEW r \in Requests, ReadExists(r) PROVE LeasedPastOpen'
    BY <1>4 DEF ReadExists, Finish, LockWithout, Goto
  <1>5. ASSUME NEW r \in Requests, Ensure(r) PROVE LeasedPastOpen'
    BY <1>5 DEF Ensure, Goto
  <1>6. ASSUME NEW r \in Requests, Open(r) PROVE LeasedPastOpen'
    BY <1>6 DEF Open, Goto
  <1>7. ASSUME NEW r \in Requests, OpenFails(r) PROVE LeasedPastOpen'
    BY <1>7 DEF OpenFails, Finish, LockWithout
  <1>8. ASSUME NEW r \in Requests, SchemaOk(r) PROVE LeasedPastOpen'
    BY <1>8 DEF SchemaOk, Migrate, LockWithout, Goto
  <1>9. ASSUME NEW r \in Requests, SchemaFails(r) PROVE LeasedPastOpen'
    BY <1>9 DEF SchemaFails, NoEntry
  <1>10. ASSUME NEW r \in Requests, StatementFails(r) PROVE LeasedPastOpen'
    BY <1>10 DEF StatementFails, EvictAndFinish, LockWithout, NoEntry, NeedsClient
  <1>11. ASSUME NEW r \in Requests, EmptyFileReappears(r) PROVE LeasedPastOpen'
    BY <1>11 DEF EmptyFileReappears, EvictAndFinish, LockWithout, NoEntry, NeedsClient
  <1>12. ASSUME NEW r \in Requests, RequestFails(r) PROVE LeasedPastOpen'
    BY <1>12 DEF RequestFails, Finish, LockWithout
  <1>13. ASSUME NEW r \in Requests, Establish(r) PROVE LeasedPastOpen'
    BY <1>13 DEF Establish, Usable, AfterEstablish, Goto
  <1>14. ASSUME NEW r \in Requests, EstablishNothing(r) PROVE LeasedPastOpen'
    BY <1>14 DEF EstablishNothing, Usable, Finish, LockWithout
  <1>15. ASSUME NEW r \in Requests, AddToCatalog(r) PROVE LeasedPastOpen'
    BY <1>15 DEF AddToCatalog, Catalogued, Goto
  <1>16. ASSUME NEW r \in Requests, FrameSuppressed(r) PROVE LeasedPastOpen'
    BY <1>16 DEF FrameSuppressed, Usable, Finish, LockWithout
  <1>17. ASSUME NEW r \in Requests, WriteFrame(r) PROVE LeasedPastOpen'
    BY <1>17 DEF WriteFrame, Usable, Finish, LockWithout
  <1>18. ASSUME NEW r \in Requests, FrameRejected(r) PROVE LeasedPastOpen'
    BY <1>18 DEF FrameRejected, Usable, Finish, LockWithout
  <1>19. ASSUME NEW r \in Requests, MarkClosed(r) PROVE LeasedPastOpen'
    BY <1>19 DEF MarkClosed, Usable, Finish, LockWithout
  <1>20. ASSUME NEW i \in Instances, EvictIdle(i) PROVE LeasedPastOpen'
    BY <1>20 DEF EvictIdle, NoEntry
  <1>21. ASSUME NEW i \in Instances, Crash(i) PROVE LeasedPastOpen'
    BY <1>21 DEF Crash, NoEntry
  <1>22. CASE LoseStore
    BY <1>22 DEF LoseStore
  <1>23. CASE UNCHANGED vars
    BY <1>23
  <1> QED
    BY <1>1, <1>2, <1>3, <1>4, <1>5, <1>6, <1>7, <1>8, <1>9, <1>10, <1>11, <1>12, <1>13,
       <1>14, <1>15, <1>16, <1>17, <1>18, <1>19, <1>20, <1>21, <1>22, <1>23 DEF Next, Step

\* Nothing is acknowledged before the catalog row, and the catalog forgets nothing.
LEMMA CataloguedStep ==
  KnownIsCatalogued /\ AckedIsCatalogued /\ [Next]_vars => AckedIsCatalogued'
  <1> SUFFICES ASSUME KnownIsCatalogued, AckedIsCatalogued, [Next]_vars PROVE AckedIsCatalogued'
    OBVIOUS
  <1>1. ASSUME NEW r \in Requests, WriteFrame(r) PROVE AckedIsCatalogued'
    <2>1. catalog /\ catalog' = catalog
      BY <1>1 DEF WriteFrame, KnownIsCatalogued
    <2> QED BY <2>1 DEF AckedIsCatalogued
  <1>2. ASSUME NEW r \in Requests, AddToCatalog(r) PROVE AckedIsCatalogued'
    BY <1>2 DEF AddToCatalog, Catalogued, AckedIsCatalogued
  <1>3. CASE UNCHANGED <<acked, catalog, legacy>>
    BY <1>3 DEF AckedIsCatalogued
  <1>4. ASSUME NEW r \in Requests,
               \/ ReadIndex(r) \/ ReadExists(r) \/ Ensure(r) \/ Open(r) \/ OpenFails(r)
               \/ SchemaOk(r) \/ SchemaFails(r)
        PROVE  UNCHANGED <<acked, catalog, legacy>>
    BY <1>4 DEF ReadIndex, ReadExists, Ensure, Open, OpenFails, SchemaOk, SchemaFails, durable, history
  <1>5. ASSUME NEW r \in Requests,
               \/ Start(r) \/ TakeLock(r) \/ StatementFails(r) \/ EmptyFileReappears(r)
               \/ RequestFails(r) \/ Establish(r) \/ EstablishNothing(r)
        PROVE  UNCHANGED <<acked, catalog, legacy>>
    BY <1>5 DEF Start, TakeLock, StatementFails, EmptyFileReappears, RequestFails, Establish,
                EstablishNothing, durable, history
  <1>6. ASSUME NEW r \in Requests, FrameSuppressed(r) \/ FrameRejected(r) \/ MarkClosed(r)
        PROVE  UNCHANGED <<acked, catalog, legacy>>
    BY <1>6 DEF FrameSuppressed, FrameRejected, MarkClosed, durable, history
  <1>7. ASSUME \/ LoseStore \/ UNCHANGED vars
               \/ \E i \in Instances : EvictIdle(i) \/ Crash(i)
        PROVE  UNCHANGED <<acked, catalog, legacy>>
    BY <1>7 DEF LoseStore, EvictIdle, Crash, vars, durable, history
  <1> QED BY <1>1, <1>2, <1>3, <1>4, <1>5, <1>6, <1>7, Zenon DEF Next, Step

\* A lost channel is found lost by everyone who reaches it.
LEMMA LostStep == Inv /\ LeasedPastOpen /\ AckedIsCatalogued /\ LostIsKnown /\ [Next /\ LossIsNoticed]_vars => LostIsKnown'
  <1> SUFFICES ASSUME Inv, LeasedPastOpen, AckedIsCatalogued, LostIsKnown, [Next /\ LossIsNoticed]_vars PROVE LostIsKnown'
    OBVIOUS
  <1> USE HomeAssumption DEF Inv, TypeOK, KnownIsCatalogued, LeaseIsLive, LockGuardsOpening, Opening, LeasedPastOpen, LostIsKnown
  <1>1. ASSUME NEW r \in Requests, Start(r) PROVE LostIsKnown'
    BY <1>1 DEF Start, Goto
  <1>2. ASSUME NEW r \in Requests, TakeLock(r) PROVE LostIsKnown'
    BY <1>2 DEF TakeLock, OpenedMeanwhile, Goto
  <1>3. ASSUME NEW r \in Requests, ReadIndex(r) PROVE LostIsKnown'
    BY <1>3 DEF ReadIndex, Known, Goto
  <1>4. ASSUME NEW r \in Requests, ReadExists(r) PROVE LostIsKnown'
    <2>1. UNCHANGED <<catalog, phys, row, entry, acked>>
      BY <1>4, Zenon DEF ReadExists, Finish, Goto, durable, memory, history
    <2>2. \A q \in Requests : pc'[q] \in {"exists", "ensure", "open"} =>
             known'[q] = known[q] /\ pc[q] \in {"exists", "ensure", "open"}
      BY <1>4 DEF ReadExists, Finish, Goto
    <2> QED BY <2>1, <2>2
  <1>5. ASSUME NEW r \in Requests, Ensure(r) PROVE LostIsKnown'
    BY <1>5 DEF Ensure, Goto
  <1>6. ASSUME NEW r \in Requests, Open(r) PROVE LostIsKnown'
    BY <1>6 DEF Open, Goto
  <1>7. ASSUME NEW r \in Requests, OpenFails(r) PROVE LostIsKnown'
    BY <1>7 DEF OpenFails, Finish, LockWithout
  <1>8. ASSUME NEW r \in Requests, SchemaOk(r) PROVE LostIsKnown'
    BY <1>8 DEF SchemaOk, Migrate, LockWithout, Goto
  <1>9. ASSUME NEW r \in Requests, SchemaFails(r) PROVE LostIsKnown'
    BY <1>9 DEF SchemaFails, NoEntry
  <1>10. ASSUME NEW r \in Requests, StatementFails(r) PROVE LostIsKnown'
    <2>1. EvictAndFinish(r) /\ UNCHANGED <<catalog, phys, row, acked>>
      BY <1>10, Zenon DEF StatementFails, durable, history
    <2> QED BY <2>1, EvictKeepsOpen
  <1>11. ASSUME NEW r \in Requests, EmptyFileReappears(r) PROVE LostIsKnown'
    <2>1. EvictAndFinish(r) /\ phys' = "empty" /\ UNCHANGED <<catalog, row, acked>>
      BY <1>11, Zenon DEF EmptyFileReappears, history
    <2> QED BY <2>1, EvictKeepsOpen
  <1>12. ASSUME NEW r \in Requests, RequestFails(r) PROVE LostIsKnown'
    BY <1>12 DEF RequestFails, Finish, LockWithout
  <1>13. ASSUME NEW r \in Requests, Establish(r) PROVE LostIsKnown'
    BY <1>13 DEF Establish, Usable, AfterEstablish, Goto
  <1>14. ASSUME NEW r \in Requests, EstablishNothing(r) PROVE LostIsKnown'
    BY <1>14 DEF EstablishNothing, Usable, Finish, LockWithout
  <1>15. ASSUME NEW r \in Requests, AddToCatalog(r) PROVE LostIsKnown'
    BY <1>15 DEF AddToCatalog, Catalogued, Goto
  <1>16. ASSUME NEW r \in Requests, FrameSuppressed(r) PROVE LostIsKnown'
    BY <1>16 DEF FrameSuppressed, Usable, Finish, LockWithout
  <1>17. ASSUME NEW r \in Requests, WriteFrame(r) PROVE LostIsKnown'
    <2>1. row' = [gen |-> NextGen, closed |-> FALSE] /\ NextGen \in Nat
      BY <1>17, NextGenType, Zenon DEF WriteFrame
    <2> QED BY <2>1 DEF NoRow
  <1>18. ASSUME NEW r \in Requests, FrameRejected(r) PROVE LostIsKnown'
    BY <1>18 DEF FrameRejected, Usable, Finish, LockWithout
  <1>19. ASSUME NEW r \in Requests, MarkClosed(r) PROVE LostIsKnown'
    <2>1. row' = NoRow => row = NoRow
      BY <1>19 DEF MarkClosed, ChannelRow, NoRow
    <2>2. UNCHANGED <<catalog, phys, entry, acked>> /\ Finish(r)
      BY <1>19, Zenon DEF MarkClosed
    <2> QED BY <2>1, <2>2 DEF Finish
  <1>20. ASSUME NEW i \in Instances, EvictIdle(i) PROVE LostIsKnown'
    BY <1>20 DEF EvictIdle, NoEntry
  <1>21. ASSUME NEW i \in Instances, Crash(i) PROVE LostIsKnown'
    BY <1>21 DEF Crash, NoEntry
  <1>22. CASE LoseStore /\ LossIsNoticed
    <2> SUFFICES ASSUME acked # {} PROVE LostIsKnown'
      BY <1>22 DEF LoseStore
    <2>1. /\ catalog
          /\ \A q \in Requests : pc[q] \in {"exists", "ensure", "open"} => known[q]
          /\ \A i \in Instances : entry[i].open /\ ~entry[i].ready => entry[i].known
      BY <1>22 DEF LoseStore, LossIsNoticed, HoldsOldReading, AckedIsCatalogued
    <2>2. phys' # "core" /\ UNCHANGED <<catalog, pc, known, entry>>
      BY <1>22 DEF LoseStore
    <2> QED BY <2>1, <2>2
  <1>23. CASE UNCHANGED vars
    BY <1>23
  <1> QED
    BY <1>1, <1>2, <1>3, <1>4, <1>5, <1>6, <1>7, <1>8, <1>9, <1>10, <1>11, <1>12, <1>13,
       <1>14, <1>15, <1>16, <1>17, <1>18, <1>19, <1>20, <1>21, <1>22, <1>23 DEF Next, Step

-------------------------------------------------------------------------------
\* The channel's row, its frames and their acknowledgements change in four places.
RowKept == UNCHANGED <<row, log, acked>>

LEMMA RowSteps ==
  [Next]_vars => \/ RowKept
                 \/ \E r \in Requests : Establish(r) \/ WriteFrame(r) \/ MarkClosed(r)
                 \/ LoseStore
  <1> SUFFICES ASSUME [Next]_vars, ~LoseStore,
                      ~ \E r \in Requests : Establish(r) \/ WriteFrame(r) \/ MarkClosed(r)
               PROVE  RowKept
    OBVIOUS
  <1> USE DEF RowKept
  <1>1. ASSUME NEW r \in Requests, Start(r) \/ TakeLock(r) \/ ReadIndex(r) \/ ReadExists(r)
        PROVE  RowKept
    BY <1>1, Zenon DEF Start, TakeLock, ReadIndex, ReadExists
  <1>2. ASSUME NEW r \in Requests, Ensure(r) \/ Open(r) \/ OpenFails(r) \/ SchemaFails(r)
        PROVE  RowKept
    BY <1>2, Zenon DEF Ensure, Open, OpenFails, SchemaFails
  <1>3. ASSUME NEW r \in Requests, SchemaOk(r) PROVE RowKept
    BY <1>3, Zenon DEF SchemaOk
  <1>4. ASSUME NEW r \in Requests, StatementFails(r) \/ EmptyFileReappears(r) \/ RequestFails(r)
        PROVE  RowKept
    BY <1>4, Zenon DEF StatementFails, EmptyFileReappears, RequestFails
  <1>5. ASSUME NEW r \in Requests, EstablishNothing(r) \/ AddToCatalog(r) PROVE RowKept
    BY <1>5, Zenon DEF EstablishNothing, AddToCatalog
  <1>6. ASSUME NEW r \in Requests, FrameSuppressed(r) \/ FrameRejected(r) PROVE RowKept
    BY <1>6, Zenon DEF FrameSuppressed, FrameRejected
  <1>7. ASSUME NEW i \in Instances, EvictIdle(i) \/ Crash(i) PROVE RowKept
    BY <1>7, Zenon DEF EvictIdle, Crash
  <1>8. CASE UNCHANGED vars
    BY <1>8, Zenon
  <1> QED
    BY <1>1, <1>2, <1>3, <1>4, <1>5, <1>6, <1>7, <1>8 DEF Next, Step

\* A frame goes under a row whose generation it may advance.
LEMMA WriteRow ==
  ASSUME TypeOK, NEW r \in Requests, WriteFrame(r)
  PROVE  /\ row \in ChannelRow /\ NextGen \in Nat /\ NextGen <= MaxGen
         /\ row' = [gen |-> NextGen, closed |-> FALSE]
         /\ [gen |-> NextGen, frame |-> op[r]] \in LogEntry
  <1>1. row # NoRow /\ NextGen <= MaxGen /\ row' = [gen |-> NextGen, closed |-> FALSE]
    BY Zenon DEF WriteFrame
  <1>2. row \in ChannelRow /\ NextGen \in Nat
    BY <1>1, NextGenType DEF TypeOK
  <1>3. op[r] \in Frames
    BY OpIsFrame DEF WriteFrame
  <1> QED BY <1>1, <1>2, <1>3 DEF LogEntry

\* The frames table stays under the row.
LEMMA LogUnderStep == TypeOK /\ LogUnderRow /\ [Next]_vars => LogUnderRow'
  <1> SUFFICES ASSUME TypeOK, LogUnderRow, [Next]_vars PROVE LogUnderRow'
    OBVIOUS
  <1>1. CASE RowKept
    BY <1>1 DEF RowKept, LogUnderRow
  <1>2. ASSUME NEW r \in Requests, Establish(r) PROVE LogUnderRow'
    BY <1>2 DEF Establish, LogUnderRow
  <1>3. ASSUME NEW r \in Requests, WriteFrame(r) PROVE LogUnderRow'
    <2> DEFINE e == [gen |-> NextGen, frame |-> op[r]]
    <2>1. /\ row \in ChannelRow /\ NextGen \in Nat
          /\ row' = [gen |-> NextGen, closed |-> FALSE] /\ e \in LogEntry
      BY <1>3, WriteRow
    <2>2. log' = log \/ log' = Append(log, e)
      BY <1>3, WriteLog
    <2>3. acked' # {} /\ row' # NoRow /\ row'.gen = NextGen
      <3>1. acked' = acked \cup {<<NextGen, op[r]>>}
        BY <1>3, WriteLog
      <3>2. row' # NoRow /\ row'.gen = NextGen
        BY <2>1 DEF NoRow
      <3> QED BY <3>1, <3>2
    <2>4. row # NoRow /\ row.gen \in Nat /\ row.gen <= NextGen
      BY <1>3, <2>1 DEF WriteFrame, NextGen, ChannelRow
    <2>5. ASSUME NEW i \in 1..Len(log) PROVE log[i].gen \in Nat /\ log[i].gen <= NextGen
      <3>1. log[i] \in LogEntry
        BY DEF TypeOK
      <3> QED BY <2>1, <2>4, <3>1 DEF LogUnderRow, LogEntry
    <2>6. \A i \in 1..Len(log') : log'[i].gen <= NextGen
      <3>1. CASE log' = log
        BY <2>5, <3>1
      <3>2. CASE log' = Append(log, e)
        <4>1. /\ Len(log') = Len(log) + 1 /\ log'[Len(log) + 1] = e /\ Len(log) \in Nat
              /\ \A i \in 1..Len(log) : log'[i] = log[i]
          BY <2>1, <3>2 DEF TypeOK
        <4>2. e.gen <= NextGen
          BY <2>1
        <4> HIDE DEF e
        <4> QED BY <2>5, <4>1, <4>2
      <3> QED BY <2>2, <3>1, <3>2
    <2> QED BY <2>3, <2>6 DEF LogUnderRow
  <1>4. ASSUME NEW r \in Requests, MarkClosed(r) PROVE LogUnderRow'
    <2>1. log' = log /\ acked' = acked /\ (row = NoRow => row' = row)
      BY <1>4, Zenon DEF MarkClosed
    <2>2. row # NoRow => row'.gen = row.gen /\ row' # NoRow
      BY <1>4 DEF MarkClosed, TypeOK, ChannelRow, NoRow
    <2> QED BY <2>1, <2>2 DEF LogUnderRow
  <1>5. CASE LoseStore
    BY <1>5 DEF LoseStore, LogUnderRow
  <1> QED BY <1>1, <1>2, <1>3, <1>4, <1>5, RowSteps

\* A row is written for the first time only before anything was acknowledged.
LEMMA FirstRow ==
  ASSUME LostIsKnown, NEW r \in Requests, Establish(r), row = NoRow
  PROVE  acked = {} /\ row' = [gen |-> 0, closed |-> FALSE]
  BY DEF Establish, Usable, LostIsKnown

\* Acknowledged frames stay in every log that can be read.
LEMMA AckedStep == TypeOK /\ LostIsKnown /\ AckedFramesKept /\ [Next]_vars => AckedFramesKept'
  <1> SUFFICES ASSUME TypeOK, LostIsKnown, AckedFramesKept, [Next]_vars, row' # NoRow, NEW a \in acked'
               PROVE  \E i \in 1..Len(log') : log'[i] = [gen |-> a[1], frame |-> a[2]]
    BY DEF AckedFramesKept
  <1>1. CASE RowKept
    BY <1>1 DEF RowKept, AckedFramesKept
  <1>2. ASSUME NEW r \in Requests, Establish(r)
        PROVE  \E i \in 1..Len(log') : log'[i] = [gen |-> a[1], frame |-> a[2]]
    <2>1. acked' = acked /\ log' = log
      BY <1>2, Zenon DEF Establish
    <2> QED BY <1>2, <2>1, FirstRow DEF AckedFramesKept
  <1>3. ASSUME NEW r \in Requests, WriteFrame(r)
        PROVE  \E i \in 1..Len(log') : log'[i] = [gen |-> a[1], frame |-> a[2]]
    <2> DEFINE e == [gen |-> NextGen, frame |-> op[r]]
    <2>1. e \in LogEntry /\ log \in Seq(LogEntry) /\ row # NoRow
      BY <1>3, WriteRow DEF TypeOK, WriteFrame
    <2>2. a \in acked \/ a = <<NextGen, op[r]>>
      BY <1>3, WriteLog
    <2>3. a \in acked => \E i \in 1..Len(log) : log[i] = [gen |-> a[1], frame |-> a[2]]
      BY <2>1 DEF AckedFramesKept
    <2>4. a = <<NextGen, op[r]>> => [gen |-> a[1], frame |-> a[2]] = e
      OBVIOUS
    <2>5. CASE log' = log /\ \E i \in 1..Len(log) : log[i] = e
      BY <2>2, <2>3, <2>4, <2>5
    <2>6. CASE log' = Append(log, e)
      <3> HIDE DEF e
      <3>1. /\ Len(log') = Len(log) + 1 /\ log'[Len(log) + 1] = e
            /\ \A i \in 1..Len(log) : log'[i] = log[i]
        BY <2>1, <2>6
      <3>2. Len(log) \in Nat
        BY <2>1
      <3> QED BY <2>2, <2>3, <2>4, <3>1, <3>2
    <2> QED BY <1>3, <2>5, <2>6, WriteLog
  <1>4. ASSUME NEW r \in Requests, MarkClosed(r)
        PROVE  \E i \in 1..Len(log') : log'[i] = [gen |-> a[1], frame |-> a[2]]
    <2>1. log' = log /\ acked' = acked /\ (row = NoRow => row' = row)
      BY <1>4, Zenon DEF MarkClosed
    <2> QED BY <2>1 DEF AckedFramesKept
  <1>5. CASE LoseStore
    BY <1>5 DEF LoseStore
  <1> QED BY <1>1, <1>2, <1>3, <1>4, <1>5, RowSteps

-------------------------------------------------------------------------------
\* The inductive invariant of the store whose losses the catalog tells.
LEMMA NoticedInit == Init => NoticedInv
  <1> SUFFICES ASSUME Init PROVE NoticedInv
    OBVIOUS
  <1>1. Inv
    BY InvInit
  <1>2. LeasedPastOpen
    BY DEF Init, LeasedPastOpen
  <1>3. acked = {<<0, log[i].frame>> : i \in 1..Len(log)}
    BY Zenon DEF Init
  <1>4. losses = 0 /\ (row = NoRow => log = <<>>)
    BY DEF Init, NoRow
  <1>5. AckedFramesKept
    BY <1>1, <1>4 DEF Inv, KeptUntilLoss, AckedFramesKept
  <1>6. LostIsKnown
    BY <1>3, <1>4 DEF LostIsKnown
  <1>7. LogUnderRow
    <2>1. log # <<>> => acked # {}
      <3>1. log # <<>> => 1 \in 1..Len(log)
        BY <1>1 DEF Inv, TypeOK
      <3> QED BY <1>3, <3>1
    <2>2. ASSUME row # NoRow, NEW i \in 1..Len(log) PROVE log[i].gen <= row.gen
      <3>1. row.gen = 0 /\ \E s \in LegacyLogs : log = StoredAt0(s)
        BY <2>2 DEF Init
      <3>2. PICK s \in LegacyLogs : log = StoredAt0(s)
        BY <3>1
      <3>3. s \in Seq(Frames)
        BY LegacyAssumption
      <3>4. log[i].gen = 0
        BY <3>2, <3>3 DEF StoredAt0
      <3> QED BY <3>1, <3>4
    <2> QED BY <1>4, <2>1, <2>2 DEF LogUnderRow
  <1>8. AckedIsCatalogued
    <2>1. acked # {} => row # NoRow
      BY <1>3, <1>4
    <2> QED BY <2>1 DEF Init, AckedIsCatalogued
  <1> QED BY <1>1, <1>2, <1>5, <1>6, <1>7, <1>8 DEF NoticedInv

LEMMA NoticedStep == NoticedInv /\ [Next /\ LossIsNoticed]_vars => NoticedInv'
  <1> SUFFICES ASSUME NoticedInv, [Next /\ LossIsNoticed]_vars PROVE NoticedInv'
    OBVIOUS
  <1>1. TypeOK /\ LeaseIsLive /\ Inv
    BY DEF NoticedInv, Inv
  <1>2. [Next]_vars
    OBVIOUS
  <1>3. Inv' /\ LogUnderRow' /\ AckedFramesKept'
    BY <1>1, <1>2, InvStep, LogUnderStep, AckedStep, Zenon DEF NoticedInv
  <1>4. LeasedPastOpen'
    BY <1>1, <1>2, LeasedStep, Zenon DEF NoticedInv
  <1>5. LostIsKnown'
    BY LostStep, Zenon DEF NoticedInv
  <1>6. AckedIsCatalogued'
    BY <1>2, CataloguedStep, Zenon DEF NoticedInv, Inv
  <1> QED BY <1>3, <1>4, <1>5, <1>6, Zenon DEF NoticedInv

LEMMA NoticedHolds == NoticedSpec => []NoticedInv
  BY NoticedInit, NoticedStep, PTL DEF NoticedSpec

\* Through every loss the catalog can tell, a channel that can be read holds every acknowledged
\* frame: a lost history is an error, never a shorter one.
THEOREM AckedKept == NoticedSpec => []AckedFramesKept
  <1>1. NoticedInv => AckedFramesKept
    BY DEF NoticedInv
  <1> QED BY <1>1, NoticedHolds, PTL

-------------------------------------------------------------------------------
\* The two specifications name the same terminal sessions.

LEMMA SameTerminals == Promise!TerminalIn(log) = TerminalSids(log)
  BY DEF Promise!TerminalIn, TerminalSids, Sids

LEMMA PromiseInit == Init => Promise!Init
  <1> SUFFICES ASSUME Init PROVE Promise!Init
    OBVIOUS
  <1>1. acked = {<<0, log[i].frame>> : i \in 1..Len(log)}
    BY Zenon DEF Init
  <1>2. CASE row = NoRow /\ log = <<>>
    BY <1>1, <1>2 DEF Promise!Init, Status
  <1>3. ASSUME row = [gen |-> 0, closed |-> FALSE], NEW s \in LegacyLogs, log = StoredAt0(s)
        PROVE  Promise!Init
    <2>1. row # NoRow /\ row.gen = 0 /\ Status = "live"
      BY <1>3 DEF NoRow, Status
    <2>2. log = Promise!StoredAt0(s)
      BY <1>3 DEF StoredAt0, Promise!StoredAt0
    <2> QED BY <2>1, <2>2 DEF Promise!Init
  <1> QED BY <1>2, <1>3 DEF Init

\* The transaction of a frame: an append to the live channel, a reopening, or nothing.
LEMMA PromiseWrite ==
  ASSUME NoticedInv, NEW r \in Requests, WriteFrame(r)
  PROVE  [Promise!Next]_(Promise!avars)
  <1> DEFINE e == [gen |-> NextGen, frame |-> op[r]]
  <1>1. TypeOK /\ FenceMatchesLog /\ LogUnderRow /\ log \in Seq(LogEntry)
    BY DEF NoticedInv, Inv, TypeOK
  <1>2. /\ row \in ChannelRow /\ NextGen \in Nat /\ NextGen <= MaxGen
        /\ row' = [gen |-> NextGen, closed |-> FALSE] /\ e \in LogEntry
    BY <1>1, WriteRow
  <1>3. row # NoRow /\ row' # NoRow /\ row'.gen = NextGen /\ Status' = "live" /\ op[r] \in Frames
    BY <1>2, OpIsFrame, <1>1 DEF NoRow, Status, WriteFrame
  <1>4. Status = (IF row.closed THEN "closed" ELSE "live")
    BY <1>3 DEF Status
  <1>5. proj
    BY HomeAssumption DEF WriteFrame, Usable, NoticedInv, Inv, LeaseIsLive, ProjectionReady
  <1>6. ~Promise!Suppressed(op[r], log)
    <2>1. ~Suppressed(op[r])
      BY <1>1, WriteLog
    <2>2. PresenceBus => fence = Promise!TerminalIn(log)
      BY <1>1, <1>5, SameTerminals DEF FenceMatchesLog
    <2> QED BY <2>1, <2>2 DEF Suppressed, Promise!Suppressed
  <1>7. /\ log' = (IF Occupied(NextGen, op[r]) THEN log ELSE Append(log, e))
    BY Zenon DEF WriteFrame
  <1>8. CASE ~row.closed /\ ~Occupied(NextGen, op[r])
    <2>1. NextGen = row.gen
      BY <1>8 DEF NextGen
    <2>2. ~Promise!Occupied(row.gen, op[r], log)
      BY <1>8, <2>1 DEF Occupied, Promise!Occupied
    <2>3. Promise!Append1(op[r])
      BY <1>3, <1>4, <1>6, <1>7, <1>8, <2>1, <2>2 DEF Promise!Append1
    <2> QED BY <1>3, <2>3 DEF Promise!Next
  <1>9. CASE ~row.closed /\ Occupied(NextGen, op[r])
    <2>1. NextGen = row.gen
      BY <1>9 DEF NextGen
    <2> QED BY <1>3, <1>4, <1>7, <1>9, <2>1 DEF Promise!avars
  <1>10. CASE row.closed
    <2>1. NextGen = row.gen + 1 /\ row.gen \in Nat
      BY <1>2, <1>10 DEF NextGen, ChannelRow
    <2>2. ~Occupied(NextGen, op[r])
      <3> SUFFICES ASSUME NEW i \in 1..Len(log), log[i].gen = NextGen PROVE FALSE
        BY DEF Occupied
      <3> QED BY <1>1, <1>3, <2>1 DEF LogUnderRow
    <2>3. row.gen < MaxGen
      BY <1>2, <2>1, BoundAssumption
    <2>4. Promise!Reopen(op[r])
      BY <1>3, <1>4, <1>6, <1>7, <1>10, <2>1, <2>2, <2>3 DEF Promise!Reopen
    <2> QED BY <1>3, <2>4 DEF Promise!Next
  <1> QED BY <1>2, <1>8, <1>9, <1>10 DEF ChannelRow

LEMMA PromiseStep == NoticedInv /\ [Next]_vars => [Promise!Next]_(Promise!avars)
  <1> SUFFICES ASSUME NoticedInv, [Next]_vars PROVE [Promise!Next]_(Promise!avars)
    OBVIOUS
  <1>0. TypeOK /\ LogUnderRow /\ LostIsKnown
    BY DEF NoticedInv, Inv
  <1>1. CASE RowKept
    BY <1>1 DEF RowKept, Promise!avars, Status
  <1>2. ASSUME NEW r \in Requests, Establish(r) PROVE [Promise!Next]_(Promise!avars)
    <2>1. log' = log /\ acked' = acked
      BY <1>2, Zenon DEF Establish
    <2>2. CASE row # NoRow
      <3>1. row' = row
        BY <1>2, <2>2, Zenon DEF Establish
      <3> QED BY <2>1, <3>1 DEF Promise!avars, Status
    <2>3. CASE row = NoRow
      <3>1. acked = {} /\ row' = [gen |-> 0, closed |-> FALSE]
        BY <1>0, <1>2, <2>3, FirstRow
      <3>2. row' # NoRow /\ row'.gen = 0 /\ Status = "none" /\ Status' = "live"
        BY <2>1, <2>3, <3>1 DEF NoRow, Status
      <3>3. Promise!Create
        BY <2>1, <2>3, <3>2 DEF Promise!Create
      <3> QED BY <3>3 DEF Promise!Next
    <2> QED BY <2>2, <2>3
  <1>3. ASSUME NEW r \in Requests, WriteFrame(r) PROVE [Promise!Next]_(Promise!avars)
    BY <1>3, PromiseWrite
  <1>4. ASSUME NEW r \in Requests, MarkClosed(r) PROVE [Promise!Next]_(Promise!avars)
    <2>1. log' = log /\ acked' = acked /\ row' = (IF row = NoRow THEN row ELSE [row EXCEPT !.closed = TRUE])
      BY <1>4, Zenon DEF MarkClosed
    <2>2. CASE row = NoRow
      BY <2>1, <2>2 DEF Promise!avars, Status
    <2>3. CASE row # NoRow
      <3>1. row \in ChannelRow /\ row' # NoRow /\ row'.gen = row.gen /\ row'.closed
        BY <1>0, <2>1, <2>3 DEF TypeOK, ChannelRow, NoRow
      <3>2. Status' = "closed" /\ Status = (IF row.closed THEN "closed" ELSE "live")
        BY <2>3, <3>1 DEF Status
      <3>3. CASE row.closed
        BY <2>1, <2>3, <3>1, <3>2, <3>3 DEF Promise!avars
      <3>4. CASE ~row.closed
        <4>1. Promise!Close
          BY <2>1, <2>3, <3>1, <3>2, <3>4 DEF Promise!Close
        <4> QED BY <4>1 DEF Promise!Next
      <3> QED BY <3>3, <3>4
    <2> QED BY <2>2, <2>3
  <1>5. CASE LoseStore
    <2>1. row' = NoRow /\ log' = <<>> /\ acked' = acked
      BY <1>5, Zenon DEF LoseStore
    <2>2. CASE acked = {}
      <3>1. log = <<>> /\ Status # "lost" /\ Status' = "none"
        BY <1>0, <2>1, <2>2 DEF LogUnderRow, Status
      <3>2. Promise!Forget
        BY <2>1, <3>1 DEF Promise!Forget
      <3> QED BY <3>2 DEF Promise!Next
    <2>3. CASE acked # {}
      <3>1. Status' = "lost"
        BY <2>1, <2>3 DEF Status
      <3>2. Promise!Lose
        BY <2>1, <3>1 DEF Promise!Lose
      <3> QED BY <3>2 DEF Promise!Next
    <2> QED BY <2>2, <2>3
  <1> QED BY <1>1, <1>2, <1>3, <1>4, <1>5, RowSteps

\* The store of caches, locks, transactions and crashes implements the channel's promise.
THEOREM StoreImplementsLog == NoticedSpec => ImplementsChannelLog
  <1>1. NoticedInv /\ [Next /\ LossIsNoticed]_vars => [Promise!Next]_(Promise!avars)
    <2>1. [Next /\ LossIsNoticed]_vars => [Next]_vars
      OBVIOUS
    <2> QED BY <2>1, PromiseStep
  <1> QED
    BY <1>1, PromiseInit, NoticedHolds, PTL DEF NoticedSpec, ImplementsChannelLog, Promise!Spec
===============================================================================
