------------------------------ MODULE TmuxDriver ------------------------------
(***************************************************************************)
(* A plain Claude in a private tmux pane.  The capture loop tails Claude's *)
(* transcript files, the inject pump has a helper script type the          *)
(* browser's texts into the pane, and a gate file, with its mtime, keeps   *)
(* the helper out of a native turn: Claude's UserPromptSubmit hook writes  *)
(* it before a turn, the helper creates it exclusively, and the capture    *)
(* loop removes it for a completion newer than its mtime.  The hook and    *)
(* the helper exclude each other with one kernel lock; the capture loop    *)
(* does not take it.                                                       *)
(* Code: packages/cli/src/host/rc/tmux/{driver,inject,transcript,status,   *)
(* sessionhook,tmuxctl}.ts.                                                *)
(*                                                                         *)
(* Time is one counter of the writes the code compares; a line is known by *)
(* its time, which is also its uuid.  A turn spawns at most one sub-agent. *)
(* Settings merging, permission posture and file discovery are left out.   *)
(***************************************************************************)
EXTENDS Integers, Sequences, FiniteSets, SequencesExt

CONSTANTS
    Texts,      \* browser texts that reach the pane
    Locals,     \* prompts typed in the pane
    Budget,     \* bound: inputs, sub-agents, failures and file changes together
    NULL

Prompts == Texts \union Locals
Turns == [of : Prompts, at : {"main", "agent", "back", "done"}]
Injections == [of : Texts, at : {"load", "try", "running", "claimed", "pasted", "applied", "unknown"}]

ASSUME DriverAssumption == Budget \in Nat /\ NULL \notin Turns \union Injections

VARIABLES
    clock,      \* time of the latest write
    \* Claude and the pane
    pane,       \* the tmux session exists
    waiting,    \* prompts submitted and not yet started
    turn,       \* of, at ("main" | "agent" | "back"), or NULL
    files,      \* the main transcripts, the newest last: lines kind, of, at
    sub,        \* lines of the sub-agent files: parent is of
    marker,     \* number of files SessionStart has reported
    ended,      \* SessionEnd's marker file exists
    \* shared files
    gate, aside,    \* turn-active and turn-active.reconcile: mtime, or 0
    lock,           \* the helper holds the lock
    \* the capture loop
    phase,      \* "ready" | "main" | "emit" | "facts" | "renamed" | "restore" | "probe" | "stopped"
    tail,       \* file, at, read (lines polled in this drain), subAt, again (flush before a rotation)
    seen,       \* seenUuids
    shown,      \* lines pushed upstream
    facts,      \* completedTurns
    missed,     \* goneStreak
    status,     \* the StatusTracker: busy, tools, armed
    \* the inject pump and the Session
    inbox,      \* Session downstream
    inject,     \* of, at ("load" | "try" | "running" | "claimed" | "pasted" | "applied" | "unknown"), or NULL
    ackedTexts, ledger,
    sessionClosed,     \* the Session
    \* ghosts and bounds
    typed,      \* texts pasted into the pane
    used        \* of Budget

claude  == <<pane, waiting, turn, files, sub, marker, ended>>
capture == <<phase, tail, seen, shown, facts, missed, status>>
pumped == <<inbox, ackedTexts, ledger>>
paneVars == <<clock, claude, gate, aside, lock, capture, pumped, inject, sessionClosed, typed, used>>

Line(kind, of) == [kind |-> kind, of |-> of, at |-> clock']
Spend(n) == used + n <= Budget /\ used' = used + n

PaneInit ==
    /\ clock = 0
    /\ pane = "alive" /\ waiting = <<>> /\ turn = NULL
    /\ files = << <<>> >> /\ sub = <<>> /\ marker = 1 /\ ended = FALSE
    /\ gate = 0 /\ aside = 0 /\ lock = FALSE
    /\ phase = "ready" /\ tail = [file |-> 0, at |-> 0, read |-> <<>>, subAt |-> 0, again |-> FALSE]
    /\ seen = {} /\ shown = <<>> /\ facts = <<>> /\ missed = 0
    /\ status = [busy |-> FALSE, tools |-> {}, armed |-> FALSE]
    /\ inbox = <<>> /\ inject = NULL /\ ackedTexts = {} /\ ledger = {} /\ sessionClosed = FALSE
    /\ typed = <<>> /\ used = 0

-----------------------------------------------------------------------------
(* Claude, its hooks and the terminal user                                 *)

Native == phase # "stopped" /\ pane = "alive" /\ UNCHANGED <<aside, lock, capture, inject, sessionClosed, pumped, typed>>
Write(line) == files' = [files EXCEPT ![Len(files)] = Append(@, line)]

\* Enter submits a local prompt; with a turn running Claude keeps it for later.
LocalPrompt(l) ==
    /\ Native /\ Spend(1)
    /\ ~\E f \in DOMAIN files : \E i \in DOMAIN files[f] : files[f][i].of = l
    /\ l \notin ToSet(waiting) /\ ~ended
    /\ waiting' = Append(waiting, l)
    /\ UNCHANGED <<clock, pane, turn, files, sub, marker, ended, gate>>

\* The helper's prompt mode touches the gate under the lock, then the turn begins.
\* Its user line is as old as the turn.
PromptHook ==
    /\ Native /\ ~lock /\ turn = NULL /\ waiting # <<>>
    /\ clock' = clock + 1 /\ gate' = clock'
    /\ waiting' = Tail(waiting)
    /\ turn' = [of |-> Head(waiting), at |-> "main"]
    /\ Write(Line("user", Head(waiting)))
    /\ UNCHANGED <<pane, sub, marker, ended, used>>

\* Another UserPromptSubmit hook rejects the prompt; ours has touched the gate or not yet.
PromptBlocked ==
    /\ Native /\ Spend(1) /\ turn = NULL /\ waiting # <<>>
    /\ clock' = clock + 1
    /\ \/ gate' = clock' /\ ~lock
       \/ UNCHANGED gate
    /\ waiting' = Tail(waiting)
    /\ Write(Line("blocked", Head(waiting)))
    /\ UNCHANGED <<pane, turn, sub, marker, ended>>

CallAgent ==
    /\ Native /\ Spend(1) /\ turn # NULL /\ turn.at = "main"
    /\ clock' = clock + 1
    /\ turn' = [turn EXCEPT !.at = "agent"]
    /\ Write(Line("call", turn.of))
    /\ UNCHANGED <<pane, waiting, sub, marker, ended, gate>>
AgentWrites ==
    /\ Native /\ turn # NULL /\ turn.at = "agent"
    /\ clock' = clock + 1
    /\ turn' = [turn EXCEPT !.at = "back"]
    /\ sub' = Append(sub, Line("sub", turn.of))
    /\ UNCHANGED <<pane, waiting, files, marker, ended, gate, used>>
AgentAnswers ==
    /\ Native /\ turn # NULL /\ turn.at = "back"
    /\ clock' = clock + 1
    /\ turn' = [turn EXCEPT !.at = "done"]
    /\ Write(Line("result", turn.of))
    /\ UNCHANGED <<pane, waiting, sub, marker, ended, gate, used>>

\* turn_duration follows the whole loop; an interrupt can leave a tool call open.
EndTurn(kind) ==
    /\ turn # NULL
    /\ clock' = clock + 1 /\ turn' = NULL
    /\ Write(Line(kind, turn.of))
    /\ UNCHANGED <<pane, waiting, sub, marker, ended, gate>>
TurnCompletes == Native /\ turn # NULL /\ turn.at \in {"main", "done"} /\ EndTurn("completed") /\ UNCHANGED used
Interrupted   == Native /\ Spend(1) /\ EndTurn("cancelled")

\* A branched session writes to a new file, which the SessionStart hook reports.
Rotate ==
    /\ Native /\ Spend(1) /\ turn = NULL /\ ~ended /\ Len(files) < 2 /\ phase # "ready"
    /\ files' = Append(files, <<>>) /\ sub' = <<>>
    /\ marker' = marker + 1
    /\ UNCHANGED <<clock, pane, waiting, turn, ended, gate>>
\* SessionEnd's hook closes the gate under the lock and leaves its marker.
SessionEnd ==
    /\ Native /\ Spend(1) /\ ~lock /\ turn = NULL /\ ~ended
    /\ clock' = clock + 1 /\ gate' = clock' /\ ended' = TRUE
    /\ UNCHANGED <<pane, waiting, turn, files, sub, marker>>
PaneExits ==
    /\ Native /\ Spend(1) /\ pane' = "gone" /\ turn' = NULL /\ waiting' = <<>>
    /\ UNCHANGED <<clock, files, sub, marker, ended, gate>>

-----------------------------------------------------------------------------
(* The capture loop                                                        *)

Capturing(at) == phase = at /\ UNCHANGED <<clock, claude, lock, pumped, inject, typed>>
TailFrame == UNCHANGED <<seen, shown, facts, missed, status>>

\* The projection becomes visible, and the loop binds to the reported transcript.
BindTranscript ==
    /\ Capturing("ready") /\ pane = "alive"
    /\ phase' = "main" /\ tail' = [tail EXCEPT !.file = marker]
    /\ TailFrame /\ UNCHANGED <<gate, aside, sessionClosed, used>>

\* The pane is gone before Claude reports that it is ready.
StartupFails ==
    /\ Capturing("ready") /\ pane = "gone"
    /\ phase' = "stopped" /\ sessionClosed' = TRUE
    /\ TailFrame /\ UNCHANGED <<tail, gate, aside, used>>

\* One turn of the loop: SessionEnd's marker is looked at, then the main file is read.
PollMain ==
    /\ Capturing("main")
    /\ sessionClosed' = (sessionClosed \/ (ended /\ ~tail.again))
    /\ tail' = [tail EXCEPT !.read = SubSeq(files[tail.file], tail.at + 1, Len(files[tail.file])),
                            !.at = Len(files[tail.file])]
    /\ phase' = "emit"
    /\ TailFrame /\ UNCHANGED <<gate, aside, used>>

\* The sub-agent files are read after the main one, and the batch is ordered by time.
ReadLines == ToSet(tail.read) \union {sub[i] : i \in (tail.subAt + 1)..Len(sub)}
Merged(lines, t) == {l \in lines : l.at = t}

Observed(st, line) ==
    [busy |-> TRUE, armed |-> TRUE,
     tools |-> CASE line.kind = "user" -> {}
                 [] line.kind = "call" -> st.tools \union {line.of}
                 [] line.kind = "result" -> st.tools \ {line.of}
                 [] OTHER -> st.tools]
\* nativeTurnFact: when the native loop is over.
EndsTurn(line) == line.kind \in {"completed", "cancelled"}

\* handleLine: native facts, then the message, once per uuid; a text the pump has
\* entered is only counted for the status.
Handle(p, line) ==
    IF line.kind \in {"completed", "cancelled", "blocked"}
    THEN [p EXCEPT !.facts = IF EndsTurn(line) THEN Append(@, line.at) ELSE @,
                   !.closed = @ \/ line.kind = "blocked"]
    ELSE IF line.at \in p.seen THEN p
    ELSE LET mine == line.kind = "user" /\ line.of \in p.ledger IN
         [p EXCEPT !.seen = @ \union {line.at},
                   !.ledger = IF mine THEN @ \ {line.of} ELSE @,
                   !.shown = IF mine \/ p.closed THEN @ ELSE Append(@, line),
                   !.status = IF p.closed THEN @ ELSE Observed(@, line)]
Emitted(lines, before) ==
    LET now[t \in 0..clock] ==
            IF t = 0 THEN before
            ELSE IF Merged(lines, t) = {} THEN now[t - 1]
            ELSE Handle(now[t - 1], CHOOSE l \in Merged(lines, t) : TRUE)
    IN  now[clock]
EmitBatch ==
    /\ phase = "emit"
    /\ LET after == Emitted(ReadLines, [facts |-> facts, seen |-> seen, ledger |-> ledger, shown |-> shown,
                                    status |-> status, closed |-> sessionClosed]) IN
       /\ facts' = after.facts /\ seen' = after.seen /\ ledger' = after.ledger
       /\ shown' = after.shown /\ status' = after.status /\ sessionClosed' = after.closed
    /\ tail' = [tail EXCEPT !.read = <<>>, !.subAt = Len(sub)]
    /\ phase' = "facts"
    /\ UNCHANGED <<clock, claude, gate, aside, lock, missed, inbox, inject, ackedTexts, typed, used>>

\* releaseTurnGateForCompletion: rename, compare, remove or link back.
RenameGate ==
    /\ Capturing("facts") /\ facts # <<>>
    /\ IF gate = 0
       THEN facts' = Tail(facts) /\ UNCHANGED <<gate, aside, phase>>
       ELSE gate' = 0 /\ aside' = gate /\ phase' = "renamed" /\ UNCHANGED facts
    /\ UNCHANGED <<tail, seen, shown, missed, status, sessionClosed, used>>
CompareNothing ==
    /\ Capturing("renamed")
    /\ aside' = 0 /\ facts' = Tail(facts) /\ phase' = "facts"
    /\ UNCHANGED <<gate, tail, seen, shown, missed, status, sessionClosed, used>>
CompareGate ==
    /\ Capturing("renamed")
    /\ IF aside < Head(facts)
       THEN aside' = 0 /\ facts' = Tail(facts) /\ phase' = "facts"
       ELSE phase' = "restore" /\ UNCHANGED <<aside, facts>>
    /\ UNCHANGED <<gate, tail, seen, shown, missed, status, sessionClosed, used>>
RestoreGate ==
    /\ Capturing("restore")
    /\ gate' = IF gate = 0 THEN aside ELSE gate
    /\ aside' = 0 /\ facts' = Tail(facts) /\ phase' = "facts"
    /\ UNCHANGED <<tail, seen, shown, missed, status, sessionClosed, used>>
Drained ==
    /\ Capturing("facts") /\ facts = <<>>
    /\ phase' = "probe"
    /\ TailFrame /\ UNCHANGED <<tail, gate, aside, sessionClosed, used>>

\* On the slow cadence: follow a rotation, which first drains the old file again, and
\* probe the pane; a second miss in a row ends the session.
Attached == [file |-> marker, at |-> 0, read |-> <<>>, subAt |-> 0, again |-> FALSE]
FollowRotation ==
    /\ phase = "probe" /\ marker # tail.file
    /\ IF tail.again
       THEN tail' = Attached /\ ledger' = {}
       ELSE tail' = [tail EXCEPT !.again = TRUE] /\ UNCHANGED ledger
    /\ phase' = IF tail.again THEN "probe" ELSE "main"
    /\ TailFrame
    /\ UNCHANGED <<clock, claude, gate, aside, lock, inbox, inject, ackedTexts, sessionClosed, typed, used>>
ProbePane ==
    /\ Capturing("probe") /\ (marker = tail.file)
    /\ \/ pane = "alive" /\ missed' = 0 /\ phase' = "main" /\ UNCHANGED sessionClosed
       \/ /\ pane = "gone" /\ missed' = missed + 1
          /\ phase' = IF missed' = 2 THEN "stopped" ELSE "main"
          /\ sessionClosed' = (sessionClosed \/ missed' = 2)
    /\ UNCHANGED <<tail, seen, shown, facts, status, gate, aside, used>>

\* The transcript is replaced or truncated; the tailer starts again at its top.
Reread ==
    /\ Capturing("main") /\ Spend(1)
    /\ tail' = [tail EXCEPT !.at = 0]
    /\ TailFrame /\ UNCHANGED <<phase, gate, aside, sessionClosed>>

\* The idle timer: with a tool open it is set again until the silence was long.
IdleTimer ==
    /\ Capturing(phase) /\ phase # "stopped" /\ status.armed
    /\ status' = [busy |-> FALSE, tools |-> {}, armed |-> FALSE]
    /\ UNCHANGED <<phase, tail, seen, shown, facts, missed, gate, aside, sessionClosed, used>>

-----------------------------------------------------------------------------
(* The inject pump and the helper it runs through tmux                     *)

InjectFrame == phase # "stopped" /\ UNCHANGED <<aside, capture>>
HelperFrame == InjectFrame /\ UNCHANGED <<pane, turn, files, sub, marker, ended, pumped, used>>

Send(t) ==
    /\ Spend(1) /\ InjectFrame /\ phase # "ready" /\ ~sessionClosed
    /\ t \notin ToSet(inbox) \union ToSet(typed) \union {i.of : i \in {inject} \ {NULL}}
    /\ inbox' = Append(inbox, t)
    /\ UNCHANGED <<clock, claude, gate, lock, inject, ackedTexts, ledger, sessionClosed, typed>>

TakeText ==
    /\ InjectFrame /\ inject = NULL /\ inbox # <<>> /\ ~sessionClosed
    /\ inject' = [of |-> Head(inbox), at |-> "load"] /\ inbox' = Tail(inbox)
    /\ UNCHANGED <<clock, claude, gate, lock, ackedTexts, ledger, sessionClosed, typed, used>>

At(stage) == inject # NULL /\ inject.at = stage
Reach(stage) == inject' = [inject EXCEPT !.at = stage]

LoadBuffer ==
    /\ HelperFrame /\ At("load") /\ Reach("try")
    /\ UNCHANGED <<clock, waiting, gate, lock, sessionClosed, typed>>
\* The pump looks whether the session is closed before it starts a helper, and no more after.
RunHelper ==
    /\ HelperFrame /\ At("try") /\ ~sessionClosed /\ Reach("running")
    /\ UNCHANGED <<clock, waiting, gate, lock, sessionClosed, typed>>
\* Under the lock the gate is created only if absent; a busy outcome is tried again.
ClaimGate ==
    /\ HelperFrame /\ At("running") /\ ~lock /\ gate = 0
    /\ clock' = clock + 1 /\ gate' = clock' /\ lock' = TRUE
    /\ Reach("claimed")
    /\ UNCHANGED <<waiting, sessionClosed, typed>>
GateBusy ==
    /\ HelperFrame /\ At("running") /\ ~lock /\ gate # 0 /\ Reach("try")
    /\ UNCHANGED <<clock, waiting, gate, lock, sessionClosed, typed>>
Paste ==
    /\ HelperFrame /\ At("claimed") /\ pane = "alive"
    /\ typed' = Append(typed, inject.of)
    /\ Reach("pasted")
    /\ UNCHANGED <<clock, waiting, gate, lock, sessionClosed>>
Enter ==
    /\ HelperFrame /\ At("pasted") /\ pane = "alive"
    /\ waiting' = Append(waiting, inject.of) /\ lock' = FALSE
    /\ Reach("applied")
    /\ UNCHANGED <<clock, gate, sessionClosed, typed>>
\* Any step fails, or the helper dies or leaves no outcome; the kernel frees its lock.
Unknown ==
    /\ inject # NULL /\ inject.at \in {"running", "claimed", "pasted", "applied"}
    /\ Reach("unknown") /\ lock' = FALSE
    /\ UNCHANGED <<clock, waiting, gate, sessionClosed, typed>>
HelperFails ==
    /\ InjectFrame /\ (Spend(1) \/ (pane = "gone" /\ UNCHANGED used)) /\ Unknown
    /\ UNCHANGED <<pane, turn, files, sub, marker, ended, pumped>>
LoadFails ==
    /\ InjectFrame /\ Spend(1) /\ At("load")
    /\ inject' = NULL /\ sessionClosed' = TRUE
    /\ UNCHANGED <<clock, claude, gate, lock, pumped, typed>>

\* Only an applied outcome acknowledges; anything else retires the projection.
Answered ==
    /\ InjectFrame /\ (At("applied") \/ (At("try") /\ sessionClosed))
    /\ inject' = NULL
    /\ ackedTexts' = IF inject.at = "applied" THEN ackedTexts \union {inject.of} ELSE ackedTexts
    /\ ledger' = IF inject.at = "applied" THEN ledger \union {inject.of} ELSE ledger
    /\ UNCHANGED <<clock, claude, gate, lock, inbox, sessionClosed, typed, used>>
TryAgain ==
    /\ InjectFrame /\ At("unknown") /\ Reach("try")
    /\ UNCHANGED <<clock, claude, gate, lock, pumped, sessionClosed, typed, used>>
GiveUp ==
    /\ InjectFrame /\ At("unknown")
    /\ inject' = NULL /\ sessionClosed' = TRUE
    /\ UNCHANGED <<clock, claude, gate, lock, pumped, typed, used>>

-----------------------------------------------------------------------------
(* The specification                                                       *)

Capture == BindTranscript \/ StartupFails \/ PollMain \/ EmitBatch \/ RenameGate \/ CompareGate \/ RestoreGate \/ Drained \/ FollowRotation \/ ProbePane
Helper  == TakeText \/ LoadBuffer \/ RunHelper \/ ClaimGate \/ GateBusy \/ Paste \/ Enter \/ Answered \/ GiveUp
Claude  == PromptHook \/ AgentWrites \/ AgentAnswers \/ TurnCompletes

PaneNext ==
    \/ \E l \in Locals : LocalPrompt(l)
    \/ Claude \/ PromptBlocked \/ CallAgent \/ Interrupted \/ Rotate \/ SessionEnd \/ PaneExits
    \/ Capture \/ Reread \/ IdleTimer
    \/ \E t \in Texts : Send(t)
    \/ Helper \/ HelperFails \/ LoadFails

PaneSpec == PaneInit /\ [][PaneNext]_paneVars

-----------------------------------------------------------------------------
(* Properties                                                              *)

\* While a native turn runs its gate exists, or the capture loop has it aside and is about to
\* link it back: no completion, however late or read again, releases a newer turn's gate.
GateGuardsTurn == turn # NULL => gate # 0 \/ (aside # 0 /\ phase \in {"renamed", "restore"})

\* A browser text is pasted once and in order, whatever the helper's outcome, and an
\* acknowledged text was submitted.
AppliedOnce ==
    /\ Cardinality(ToSet(typed)) = Len(typed)
    /\ ackedTexts \subseteq ToSet(typed)
    /\ typed # <<>> /\ inject # NULL /\ inject.at \in {"load", "try", "running"} => Last(typed) \in ackedTexts

\* The types of what the two invariants speak of.
Lines == [kind : {"user", "call", "result", "completed", "cancelled", "blocked"}, of : Prompts, at : Nat \ {0}]
SubLines == [kind : {"sub"}, of : Prompts, at : Nat \ {0}]
Tails == [file : Nat, at : Nat, read : Seq(Lines), subAt : Nat, again : BOOLEAN]
PaneTypeOK ==
    /\ clock \in Nat /\ waiting \in Seq(Prompts) /\ turn \in Turns \union {NULL}
    /\ files \in Seq(Seq(Lines)) /\ marker = Len(files) /\ marker # 0
    /\ sub \in Seq(SubLines)
    /\ gate \in Nat /\ aside \in Nat
    /\ phase \notin {"ready", "stopped"} => tail.file \in DOMAIN files
    /\ tail \in Tails
    /\ facts \in Seq(Nat) /\ (phase \in {"renamed", "restore"} => facts # <<>>)
    /\ sessionClosed \in BOOLEAN
    /\ inbox \in Seq(Texts) /\ typed \in Seq(Texts) /\ ackedTexts \subseteq Texts
    /\ inject \in Injections \union {NULL}

\* A gate that no completion written, read or queued for comparison can release.
Newer(g) ==
    /\ \A f \in DOMAIN files : \A i \in DOMAIN files[f] : EndsTurn(files[f][i]) => files[f][i].at < g
    /\ \A i \in DOMAIN tail.read : EndsTurn(tail.read[i]) => tail.read[i].at < g
    /\ \A i \in DOMAIN facts : facts[i] < g

\* The running turn's gate, in place or aside, is such a gate.
GateHeld ==
    /\ Newer(clock + 1)
    /\ turn # NULL =>
          \/ gate # 0 /\ Newer(gate)
          \/ gate = 0 /\ aside # 0 /\ phase \in {"renamed", "restore"} /\ Newer(aside)

\* A text is in the inbox, in the pump's hands or in the pane, and what was pasted last is
\* acknowledged before the pump takes another.
PastedInOrder ==
    /\ \A i, j \in DOMAIN inbox : i # j => inbox[i] # inbox[j]
    /\ \A i, j \in DOMAIN typed : i # j => typed[i] # typed[j]
    /\ \A i \in DOMAIN inbox : \A j \in DOMAIN typed : inbox[i] # typed[j]
    /\ inject # NULL =>
          /\ \A i \in DOMAIN inbox : inbox[i] # inject.of
          /\ inject.at \in {"load", "try", "running", "claimed"} => \A j \in DOMAIN typed : typed[j] # inject.of
          /\ inject.at \in {"pasted", "applied"} => typed # <<>> /\ typed[Len(typed)] = inject.of
    /\ \A t \in ackedTexts : \E j \in DOMAIN typed : typed[j] = t
    /\ \/ typed = <<>> \/ typed[Len(typed)] \in ackedTexts
       \/ inject = NULL /\ sessionClosed
       \/ inject # NULL /\ inject.at \in {"pasted", "applied", "unknown"}

TmuxInv == PaneTypeOK /\ GateHeld /\ PastedInOrder

\* Disagreement: "remote pane mutation cannot cross an active model turn".
NeverIntoTurn == At("claimed") => turn = NULL
=============================================================================
