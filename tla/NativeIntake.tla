---------------------------- MODULE NativeIntake ----------------------------
(***************************************************************************)
(* The upstream half of a Claude-native session: the worker POSTs batches  *)
(* of transcript events and retries a POST whose answer it did not see.    *)
(* A batch is admitted whole or not at all; an event's UUID is a session-  *)
(* long coordinate, so an exact retry is answered from the log and changed *)
(* bytes end the session.  The relay follows the log and seals each event. *)
(* Code: ingestNativeUpstreamBatch and followUpstream of                   *)
(* packages/cli/src/host/rc/session.ts, POST /worker/events of mitm.ts.    *)
(***************************************************************************)
EXTENDS Integers, Sequences

CONSTANTS
    MaxUuid,   \* bound: events the worker emits, named in the order it emits them
    Bytes,     \* what an event's payload may serialize to
    Batches    \* the batches the worker may POST

\* An event on the wire; uuid 0 stands for one that fails a field check (UUIDv4,
\* session_id, type allowlist, wrapper shape).
Wire == [uuid : 0..MaxUuid, bytes : Bytes]

ASSUME IntakeAssumption == MaxUuid \in Nat /\ Batches \subseteq Seq(Wire)

VARIABLES
    refusing,   \* Session.closed
    admissions, \* #upstream; an event's usSeq is its position
    answer,     \* the last POST and how it was answered
    cursor,     \* followUpstream: idx
    slice,      \* followUpstream: what is left of the slice being yielded
    relayed     \* what the relay has been handed, in order

intakeVars == <<refusing, admissions, answer, cursor, slice, relayed>>

NoAnswer == [status |-> 0, batch |-> <<>>, seqs |-> <<>>]

IntakeInit ==
    /\ refusing = FALSE
    /\ admissions = <<>> /\ answer = NoAnswer
    /\ cursor = 0 /\ slice = <<>> /\ relayed = <<>>

-----------------------------------------------------------------------------
(* Admission                                                               *)

Uuids(events) == {events[i].uuid : i \in DOMAIN events}

\* The bytes an event must repeat: those retained, or those met earlier in its batch.
Clashes(batch, i) ==
    \/ \E n \in DOMAIN admissions : admissions[n].uuid = batch[i].uuid /\ admissions[n] # batch[i]
    \/ \E j \in 1..(i - 1) : batch[j].uuid = batch[i].uuid /\ batch[j] # batch[i]

Offends(batch, i) == batch[i].uuid = 0 \/ Clashes(batch, i)

\* How many events the preflight loop passes before one offends.
Passed(batch) ==
    CHOOSE n \in 0..Len(batch) :
        /\ \A i \in 1..n : ~Offends(batch, i)
        /\ n < Len(batch) => Offends(batch, n + 1)

\* 400 for a wrong epoch, envelope or field; 409 for changed bytes.
Verdict(epochOk, batch) ==
    IF ~epochOk THEN 400
    ELSE IF Passed(batch) = Len(batch) THEN 200
    ELSE IF batch[Passed(batch) + 1].uuid = 0 THEN 400 ELSE 409

\* What the commit loop is given: the whole batch, or nothing.
Admitted(epochOk, batch) == IF Verdict(epochOk, batch) = 200 THEN batch ELSE <<>>

\* The commit loop: a retained coordinate keeps its event, a new one takes the next usSeq.
CommitAgain(log, event) == IF Len(log) = MaxUuid THEN log ELSE Append(log, event)
Commit(log, event) == IF event.uuid \in Uuids(log) THEN log ELSE Append(log, event)
Committed(events) ==
    LET log[n \in 0..Len(events)] == IF n = 0 THEN admissions ELSE Commit(log[n - 1], events[n])
    IN  log[Len(events)]

\* The usSeq an answer gives an event: its own, or that of the event it repeats.
UsSeq(log, event) == CHOOSE n \in DOMAIN log : log[n].uuid = event.uuid

\* External: the worker names events in the order it emits them and POSTs them
\* serially, so no batch skips an event; late, repeated and regrouped POSTs arrive.
InOrder(batch) == \A i \in DOMAIN batch : \A u \in 1..(batch[i].uuid - 1) :
    u \in Uuids(admissions) \/ \E j \in 1..(i - 1) : batch[j].uuid = u

\* POST /worker/events: ingestNativeUpstreamBatch, and the answer built from its result.
PostEvents(epochOk, batch) ==
    /\ InOrder(batch)
    /\ IF refusing
       THEN /\ answer' = [NoAnswer EXCEPT !.status = 410]
            /\ UNCHANGED <<refusing, admissions>>
       ELSE LET status == Verdict(epochOk, batch)
                log == Committed(Admitted(epochOk, batch)) IN
            /\ admissions' = log
            /\ refusing' = (status # 200)
            /\ answer' = IF status # 200 THEN [NoAnswer EXCEPT !.status = status]
                         ELSE [status |-> 200, batch |-> batch,
                               seqs |-> [i \in DOMAIN batch |-> UsSeq(log, batch[i])]]
    /\ UNCHANGED <<cursor, slice, relayed>>

\* close() from any other cause.
CloseIntake ==
    /\ ~refusing
    /\ refusing' = TRUE
    /\ UNCHANGED <<admissions, answer, cursor, slice, relayed>>

-----------------------------------------------------------------------------
(* followUpstream, and the relay that consumes it                          *)

\* The loop's top: closed ends it, else it slices what is new and moves its index.
NextCursor == Len(admissions)
TakeSlice ==
    /\ ~refusing /\ slice = <<>> /\ cursor < Len(admissions)
    /\ slice' = SubSeq(admissions, cursor + 1, Len(admissions))
    /\ cursor' = NextCursor
    /\ UNCHANGED <<refusing, admissions, answer, relayed>>

\* yield* hands over the rest of a slice even when the session has closed meanwhile.
YieldUp ==
    /\ slice # <<>>
    /\ relayed' = Append(relayed, Head(slice))
    /\ slice' = Tail(slice)
    /\ UNCHANGED <<refusing, admissions, answer, cursor>>

IntakeNext ==
    \/ \E epochOk \in BOOLEAN, batch \in Batches : PostEvents(epochOk, batch)
    \/ CloseIntake \/ TakeSlice \/ YieldUp

IntakeSpec == IntakeInit /\ [][IntakeNext]_intakeVars

-----------------------------------------------------------------------------
(* Properties                                                              *)

\* Every variable stays in its domain; the log never outgrows what the worker emits.
IntakeTypeOK ==
    /\ refusing \in BOOLEAN
    /\ admissions \in Seq(Wire) /\ Len(admissions) <= MaxUuid
    /\ answer.status \in {0, 200, 400, 409, 410}
    /\ cursor \in 0..Len(admissions)
    /\ slice \in Seq(Wire) /\ relayed \in Seq(Wire)

\* Retries, late copies and regrouped batches leave the log with every event
\* once, in emission order, up to the last one admitted.
AdmittedInOrder == \A n \in DOMAIN admissions : admissions[n].uuid = n

\* What the relay was handed is a beginning of the log, event by event.
RelayedInOrder == \A n \in DOMAIN relayed : relayed[n].uuid = n

\* The parts of the inductive invariant.
RelayFollows ==
    /\ cursor = Len(relayed) + Len(slice)
    /\ \A n \in 1..Len(relayed) : relayed[n] = admissions[n]
    /\ \A n \in 1..Len(slice) : slice[n] = admissions[Len(relayed) + n]
IntakeInv == IntakeTypeOK /\ AdmittedInOrder /\ RelayFollows

=============================================================================
