--------------------------- MODULE ViewerTranscript ---------------------------
(***************************************************************************)
(* One session's transcript in the browser: the composer that posts texts  *)
(* and files, the optimistic bubble each one gets at once, the generator   *)
(* that reads the session's stream through a FrameOrderer, and the rows    *)
(* the page keeps.  The host answers a posted message with an `accepted`   *)
(* frame outside the transcript's order and with its echo inside it; the   *)
(* stream repeats and reorders both.  A page that comes back to the        *)
(* foreground aborts its generator and starts another with a new orderer,  *)
(* while what the old one had released is still on its way to the page.    *)
(* Code: Transcript of apps/web/app/page.tsx, transcript() of              *)
(* apps/web/app/lib/viewer.ts; the orderer is FrameOrder.                  *)
(*                                                                         *)
(* The broker is durable, so a catch_up request changes nothing here, and  *)
(* a relay keeps its incarnation.  Its store and the host's inbox are one  *)
(* (`wire`), and a message's receipt and echo are published together.  The *)
(* notice of a gap and the tail mode of other brokers are left out.        *)
(***************************************************************************)
EXTENDS FrameOrder, SequencesExt

CONSTANTS
    MaxSends,     \* bound: messages the user sends
    MaxEvents,    \* bound: messages of the agent, each in two chunks
    MaxEdits,     \* bound: edits of the draft's text
    MaxPicks,     \* bound: files picked
    MaxReturns,   \* bound: returns to the foreground and to the list
    MaxFaults     \* bound: failed posts and preparations, link changes, lost capabilities

ASSUME ViewAssumption == MaxSends \in Nat

Sends == 1..MaxSends
None == 0

\* The frames of the session's out-stream: `of` is the message echoed, None for the agent's.
Accepted(s, n) == [msg |-> <<"accepted", s>>, seq |-> NoSeq, part |-> 0, parts |-> 1, of |-> n]
Echo(s, n)     == [msg |-> <<"user", s>>, seq |-> s, part |-> 0, parts |-> 1, of |-> n]
Chunk(s, p)    == [msg |-> <<"assistant", s>>, seq |-> s, part |-> p, parts |-> 2, of |-> None]
AllSeqs == 0..(MaxSends + MaxEvents - 1)
AllFrames == {Accepted(s, n) : s \in AllSeqs, n \in Sends} \union {Echo(s, n) : s \in AllSeqs, n \in Sends}
             \union {Chunk(s, p) : s \in AllSeqs, p \in 0..1}

VARIABLES
    \* the host
    wire,        \* posts on their way to the host, or stored and not yet handled
    hostSeq,     \* #seq of the relay
    accepted,    \* history: messages the host has accepted
    \* the page
    mount,       \* which mount of Transcript this is, 0 when none is
    rows,        \* messages
    link,        \* cs: "connected", "reconnecting", "disconnected"
    canAttach,   \* attachments, as the host advertises them
    draft,       \* input and staged, kept by Console over mounts
    sent,        \* per message: its text, its files and the mount that sent it
    preparing,   \* the send that awaits prepareComposerAttachment
    posting,     \* the send of this mount that awaits its POST (sendingRef)
    \* the generator
    ready,       \* what the orderer released and the page has not been given
    late,        \* the same of the generator that was aborted
    \* bounds and history
    typed,       \* edits of the draft's text so far; an edit is its number
    picked,      \* files picked so far
    dropped,     \* files taken out of the draft by the user or a lost capability
    returns,     \* Revive and Leave so far
    faults       \* of MaxFaults

host == <<wire, hostSeq, accepted>>
compose == <<draft, sent, preparing, posting>>
edits == <<typed, picked, dropped>>
orderer == <<channel, nextSeq, buffered, seen, out>>
all == <<orderer, host, mount, rows, link, canAttach, compose, ready, late, edits, returns, faults>>

NoSend == [text |-> None, files |-> {}, mount |-> 0]
Return == returns < MaxReturns /\ returns' = returns + 1 /\ faults' = faults
Fault == faults < MaxFaults /\ faults' = faults + 1 /\ returns' = returns

ViewInit ==
    /\ channel = {} /\ nextSeq = FirstSeq /\ buffered = [q \in Seqs |-> <<>>]
    /\ seen = <<>> /\ out = <<>>
    /\ wire = {} /\ hostSeq = FirstSeq /\ accepted = {}
    /\ mount = 1 /\ rows = <<>> /\ link = "connected" /\ canAttach = TRUE
    /\ draft = [input |-> None, staged |-> {}]
    /\ sent = [n \in Sends |-> NoSend]
    /\ preparing = NoSend /\ posting = None
    /\ ready = <<>> /\ late = <<>>
    /\ typed = 0 /\ picked = 0 /\ dropped = {} /\ returns = 0 /\ faults = 0

-------------------------------------------------------------------------------
(* The host                                                                *)

\* The inbound pump: the receipt and the echo are one unit of the publication queue; what
\* reaches the page when is up to Take.
Accept1(n) ==
    /\ n \in wire
    /\ wire' = wire \ {n} /\ accepted' = accepted \union {n}
    /\ channel' = channel \union {Accepted(hostSeq, n), Echo(hostSeq, n)}
    /\ hostSeq' = hostSeq + 1
    /\ UNCHANGED <<nextSeq, buffered, seen, out, mount, rows, link, canAttach, compose, ready, late, edits, returns, faults>>

\* The upstream pump: a message of the agent, too large for one frame.
Emit ==
    /\ hostSeq < FirstSeq + Cardinality(accepted) + MaxEvents
    /\ channel' = channel \union {Chunk(hostSeq, 0), Chunk(hostSeq, 1)}
    /\ hostSeq' = hostSeq + 1
    /\ UNCHANGED <<nextSeq, buffered, seen, out, wire, accepted, mount, rows, link, canAttach, compose, ready, late,
                   edits, returns, faults>>

-------------------------------------------------------------------------------
(* Rows                                                                    *)

\* A message as the page keeps it: `id` is its msgId, `client` its clientMsgId.
Row(id, s, n) == [id |-> id, seq |-> s, of |-> n, client |-> None, optimistic |-> FALSE, unknown |-> FALSE]
Optimistic(n) == [Row(<<"pending", n>>, NoSeq, n) EXCEPT !.client = n, !.optimistic = TRUE]
IsUser(row) == row.id[1] \in {"pending", "user"}
Provisional(row) == IsUser(row) /\ row.seq = NoSeq /\ row.client # None

\* The row with an id, or 0; no two have the same.
Find(list, id) == SelectInSeq(list, LAMBDA r : r.id = id)

\* A row in transcript order goes before what is only provisional.
Insert(list, row) ==
    LET before == SelectInSeq(list, Provisional) IN
    IF row.seq = NoSeq \/ before = 0 THEN Append(list, row) ELSE InsertAt(list, before, row)

\* appendUniqueMessage: the echo of an acknowledged message takes the place the stream
\* gives it and keeps the receipt; any other known id is a repetition.
AppendUniqueInPlace(list, row) ==
    IF \E i \in DOMAIN list : list[i].id = row.id
    THEN [i \in DOMAIN list |->
            IF list[i].id = row.id /\ list[i].seq = NoSeq THEN [row EXCEPT !.client = list[i].client]
            ELSE list[i]]
    ELSE Insert(list, row)
AppendUnique(list, row) ==
    LET i == Find(list, row.id) IN
    IF i = 0 THEN Insert(list, row)
    ELSE IF IsUser(row) /\ row.seq # NoSeq /\ list[i].seq = NoSeq /\ list[i].client # None /\ ~list[i].optimistic
    THEN Insert(RemoveAt(list, i), [row EXCEPT !.client = list[i].client])
    ELSE list

Received(row, n) == [row EXCEPT !.client = n, !.optimistic = FALSE, !.unknown = FALSE]

\* reconcileAccepted: the pending twin is known by its id alone, so a repeated receipt
\* finds none and only asserts again what it said.
ReconcileByClient(list, n, s) ==
    IF \E i \in DOMAIN list : list[i].id = <<"user", s>>
    THEN SelectSeq(list, LAMBDA r : r.client # n)
    ELSE [i \in DOMAIN list |-> IF list[i].id = <<"pending", n>>
                                THEN [Received(list[i], n) EXCEPT !.id = <<"user", s>>] ELSE list[i]]
ReconcileAccepted(list, n, s) ==
    LET twin == Find(list, <<"pending", n>>) IN
    IF Find(list, <<"user", s>>) # 0
    THEN LET others == IF twin = 0 THEN list ELSE RemoveAt(list, twin) IN
         [i \in DOMAIN others |-> IF others[i].id = <<"user", s>> THEN Received(others[i], n) ELSE others[i]]
    ELSE IF twin = 0 THEN list ELSE [list EXCEPT ![twin] = [Received(@, n) EXCEPT !.id = <<"user", s>>]]

\* markDeliveryUnknown and markPendingDeliveryUnknown: never what the host has received.
Doubt(row) == IF row.optimistic THEN [row EXCEPT !.unknown = TRUE] ELSE row
MarkDeliveryUnknown(list, n) == [i \in DOMAIN list |-> IF list[i].client = n THEN Doubt(list[i]) ELSE list[i]]
MarkPendingDeliveryUnknown(list) == [i \in DOMAIN list |-> Doubt(list[i])]

-------------------------------------------------------------------------------
(* The generator                                                           *)

\* One frame of the stream, once what it released before has been yielded: a control
\* frame passes at once, content as far as the orderer lets it.
Take(f) ==
    /\ mount # 0 /\ ready = <<>>
    /\ Receive(f)
    /\ ready' = IF f.seq = NoSeq /\ ~InWindow(f) THEN <<<<f>>>>
                ELSE SubSeq(out', Len(out) + 1, Len(out'))
    /\ UNCHANGED <<host, mount, rows, link, canAttach, compose, late, edits, returns, faults>>

\* What the page does with a message it is given.
Given(list, slot) ==
    LET f == slot[1] IN
    IF f.msg[1] = "accepted" THEN ReconcileAccepted(list, f.of, f.msg[2])
    ELSE AppendUnique(list, Row(f.msg, f.seq, f.of))

Yield ==
    /\ ready # <<>>
    /\ rows' = Given(rows, Head(ready)) /\ ready' = Tail(ready)
    /\ UNCHANGED <<orderer, host, mount, link, canAttach, compose, late, edits, returns, faults>>

\* The aborted generator ends when it asks for its next frame, not before.
YieldLate ==
    /\ late # <<>>
    /\ rows' = Given(rows, Head(late)) /\ late' = Tail(late)
    /\ UNCHANGED <<orderer, host, mount, link, canAttach, compose, ready, edits, returns, faults>>

NewOrderer == nextSeq' = FirstSeq /\ buffered' = [q \in Seqs |-> <<>>] /\ seen' = <<>> /\ out' = <<>>

\* The tab is visible again: reviveKey, the same rows under a new generator.
Revive ==
    /\ mount # 0 /\ late = <<>> /\ Return
    /\ NewOrderer
    /\ late' = ready /\ ready' = <<>>
    /\ UNCHANGED <<channel, host, mount, rows, link, canAttach, compose, edits>>

-------------------------------------------------------------------------------
(* The composer                                                            *)

Type ==
    /\ mount # 0 /\ typed < MaxEdits
    /\ typed' = typed + 1 /\ draft' = [draft EXCEPT !.input = typed']
    /\ UNCHANGED <<orderer, host, mount, rows, link, canAttach, sent, preparing, posting, ready, late,
                   picked, dropped, returns, faults>>

\* addStaged
Pick ==
    /\ mount # 0 /\ canAttach /\ link = "connected" /\ picked < MaxPicks
    /\ picked' = picked + 1 /\ draft' = [draft EXCEPT !.staged = @ \union {picked'}]
    /\ UNCHANGED <<orderer, host, mount, rows, link, canAttach, sent, preparing, posting, ready, late,
                   typed, dropped, returns, faults>>

\* removeStaged, refused while a send is under way
RemoveStaged(file) ==
    /\ mount # 0 /\ file \in draft.staged /\ preparing = NoSend /\ posting = None
    /\ draft' = [draft EXCEPT !.staged = @ \ {file}] /\ dropped' = dropped \union {file}
    /\ UNCHANGED <<orderer, host, mount, rows, link, canAttach, sent, preparing, posting, ready, late,
                   typed, picked, returns, faults>>

\* What is left of the draft when a send leaves: what was typed or picked meanwhile is
\* the next draft.
ClearedDraft(was) == [input |-> None, staged |-> {}]
NextDraft(was) ==
    [input |-> IF draft.input = was.text THEN None ELSE draft.input, staged |-> draft.staged \ was.files]

\* The bubble, the draft and the POST, with no await between them.
Commit(was) ==
    LET n == CHOOSE m \in Sends : sent[m] = NoSend /\ \A k \in 1..(m - 1) : sent[k] # NoSend IN
    /\ \E m \in Sends : sent[m] = NoSend
    /\ sent' = [sent EXCEPT ![n] = [was EXCEPT !.mount = mount]]
    /\ rows' = AppendUnique(rows, Optimistic(n))
    /\ draft' = NextDraft(was)
    /\ posting' = n /\ wire' = wire \union {n}

\* send: refused without a link, a message or while another send is under way.
Sendable == mount # 0 /\ link = "connected" /\ preparing = NoSend /\ posting = None
SendText ==
    /\ Sendable /\ draft.staged = {} /\ draft.input # None
    /\ Commit([text |-> draft.input, files |-> {}, mount |-> 0])
    /\ UNCHANGED <<orderer, hostSeq, accepted, mount, link, canAttach, preparing, ready, late,
                   edits, returns, faults>>

\* Files are read and encoded first; what is being sent is fixed now.
SendFiles ==
    /\ Sendable /\ canAttach /\ draft.staged # {}
    /\ preparing' = [text |-> draft.input, files |-> draft.staged, mount |-> mount]
    /\ UNCHANGED <<orderer, host, mount, rows, link, canAttach, draft, sent, posting, ready, late, edits, returns, faults>>

PrepareFails ==
    /\ preparing # NoSend /\ Fault
    /\ preparing' = NoSend
    /\ UNCHANGED <<orderer, host, mount, rows, link, canAttach, draft, sent, posting, ready, late, edits>>

\* The policy is read again: the link or the capability may have gone meanwhile.
AllowedNow == link = "connected" /\ canAttach
Prepared ==
    /\ preparing # NoSend
    /\ IF AllowedNow
       THEN Commit([preparing EXCEPT !.mount = 0])
       ELSE UNCHANGED <<sent, rows, draft, posting, wire>>
    /\ preparing' = NoSend
    /\ UNCHANGED <<orderer, hostSeq, accepted, mount, link, canAttach, ready, late, edits, returns, faults>>

PostAnswered ==
    /\ posting # None /\ posting \notin wire
    /\ posting' = None
    /\ UNCHANGED <<orderer, host, mount, rows, link, canAttach, draft, sent, preparing, ready, late, edits, returns, faults>>

\* A lost answer says nothing: the message may be stored, now or later, or never.
PostFails ==
    /\ posting # None /\ Fault
    /\ rows' = MarkDeliveryUnknown(rows, posting)
    /\ posting' = None
    /\ \E never \in BOOLEAN : wire' = IF never THEN wire \ {posting} ELSE wire
    /\ UNCHANGED <<orderer, hostSeq, accepted, mount, link, canAttach, draft, sent, preparing,
                   ready, late, edits>>

-------------------------------------------------------------------------------
(* The session around it                                                   *)

\* connState, as announces come and time passes; a host that is gone can confirm nothing.
LinkChanges ==
    /\ mount # 0 /\ Fault
    /\ link' \in {"connected", "reconnecting", "disconnected"} \ {link}
    /\ rows' = IF link' = "disconnected" THEN MarkPendingDeliveryUnknown(rows) ELSE rows
    /\ UNCHANGED <<orderer, host, mount, canAttach, compose, ready, late, edits>>

\* An announce withdraws attachments: what is staged is cleared at once.
WithdrawAttachments ==
    /\ mount # 0 /\ canAttach /\ Fault
    /\ canAttach' = FALSE
    /\ dropped' = dropped \union draft.staged
    /\ draft' = [draft EXCEPT !.staged = {}]
    /\ UNCHANGED <<orderer, host, mount, rows, link, sent, preparing, posting, ready, late, typed, picked>>

\* Back to the list: the page's state goes, the draft stays, a POST goes on unobserved.
Leave ==
    /\ mount # 0 /\ Return
    /\ mount' = 0 /\ rows' = <<>> /\ preparing' = NoSend /\ posting' = None
    /\ ready' = <<>> /\ late' = <<>> /\ NewOrderer
    /\ UNCHANGED <<channel, host, link, canAttach, draft, sent, edits>>

Open ==
    /\ mount = 0
    /\ mount' = returns + 1
    /\ UNCHANGED <<orderer, host, rows, link, canAttach, compose, ready, late, edits, returns, faults>>

ViewNext ==
    \/ \E n \in Sends : Accept1(n)
    \/ Emit
    \/ \E f \in Frames : Take(f)
    \/ Yield \/ YieldLate \/ Revive
    \/ Type \/ Pick \/ (\E file \in draft.staged : RemoveStaged(file))
    \/ SendText \/ SendFiles \/ PrepareFails \/ Prepared \/ PostAnswered \/ PostFails
    \/ LinkChanges \/ WithdrawAttachments \/ Leave \/ Open

ViewSpec == ViewInit /\ [][ViewNext]_all

-------------------------------------------------------------------------------
(* Properties                                                              *)

RowsOf(n) == {i \in DOMAIN rows : rows[i].of = n}
SentHere(n) == mount # 0 /\ sent[n].mount = mount
Receipted(row) == ~row.optimistic /\ ~row.unknown /\ row.client # None

\* The page shows the transcript in its order and without a hole, and what is only
\* provisional below it, although receipts overtake echoes, the stream is read again from
\* its start and an aborted generator still hands over what it had released.
RowsOrdered ==
    \E k \in 0..Len(rows) : /\ \A i \in 1..k : rows[i].seq = FirstSeq + i - 1
                            /\ \A i \in (k + 1)..Len(rows) : Provisional(rows[i])

\* A message sent from this page has a row from the moment it leaves the composer.  It has
\* two only while its echo has arrived and its receipt has not, and one ever after; only a
\* message the host has accepted is shown as received.
OneBubble ==
    \A n \in Sends : SentHere(n) =>
        /\ RowsOf(n) # {}
        /\ \A i, j \in RowsOf(n) : i # j => rows[i].optimistic # rows[j].optimistic
                                            \/ rows[i].client # rows[j].client
        /\ (\E i \in RowsOf(n) : Receipted(rows[i])) => n \in accepted /\ Cardinality(RowsOf(n)) = 1

\* Nothing the user wrote or picked is lost or sent twice: the last text and every file not
\* taken out are in the draft or in exactly one message, whatever was typed, picked,
\* withdrawn or navigated to while files were being read.  The end of the session, at which
\* the page drops the draft on purpose, is left out.
DraftKept ==
    /\ typed # 0 => typed \in {draft.input} \union {sent[n].text : n \in Sends}
    /\ \A file \in (1..picked) \ dropped :
         (IF file \in draft.staged THEN 1 ELSE 0) + Cardinality({n \in Sends : file \in sent[n].files}) = 1
    /\ \A n, m \in Sends : n # m /\ sent[n].text # None => sent[n].text # sent[m].text

\* The parts of DraftKept's inductive invariant: the types of what it speaks of, and a text
\* or a file that is being prepared is still in the draft or was taken out of it.
Message == [text : Nat, files : SUBSET Nat, mount : Nat]
DraftTypeOK ==
    /\ typed \in Nat /\ picked \in Nat /\ dropped \subseteq 1..picked
    /\ draft \in [input : 0..typed, staged : SUBSET (1..picked)]
    /\ sent \in [Sends -> Message] /\ preparing \in Message
    /\ \A m \in {preparing} \union {sent[n] : n \in Sends} : m.text <= typed /\ m.files \subseteq 1..picked
TextOnce ==
    /\ typed # 0 => typed = draft.input \/ \E n \in Sends : sent[n].text = typed
    /\ \A n \in Sends : sent[n].text # None => sent[n].text \notin {draft.input, preparing.text}
    /\ \A n, m \in Sends : n # m /\ sent[n].text # None => sent[n].text # sent[m].text
FileOnce ==
    /\ canAttach => preparing.files \subseteq draft.staged
    /\ \A n \in Sends : sent[n].files \intersect draft.staged = {}
    /\ \A n, m \in Sends : n # m => sent[n].files \intersect sent[m].files = {}
    /\ \A file \in (1..picked) \ dropped : file \in draft.staged \/ \E n \in Sends : file \in sent[n].files
DraftInv == DraftTypeOK /\ TextOnce /\ FileOnce

\* The parts of the transcript's inductive invariant.  A seq has one entry, a message one seq.
IsAccepted(f)  == f.msg = <<"accepted", f.msg[2]>> /\ f.seq = NoSeq /\ f.of \in accepted
IsEcho(f)      == f.msg = <<"user", f.msg[2]>> /\ f.seq = f.msg[2] /\ f.of \in accepted
IsAssistant(f) == f.msg = <<"assistant", f.msg[2]>> /\ f.seq = f.msg[2] /\ f.of = None
HostOK ==
    /\ hostSeq \in Nat /\ hostSeq >= FirstSeq
    /\ wire \subseteq Sends /\ accepted \subseteq Sends /\ wire \intersect accepted = {}
    /\ \A n \in wire \union accepted : sent[n] # NoSend
    /\ \A f \in channel : f.msg[2] \in FirstSeq..(hostSeq - 1) /\ f.part \in Nat /\ (IsAccepted(f) \/ IsEcho(f) \/ IsAssistant(f))
    /\ \A f, g \in channel : IF f.msg[2] = g.msg[2] THEN f.of = g.of ELSE f.of # g.of \/ f.of = None

\* What the orderer holds and has released, and the page has been given or will be.
Has(list, q) == \E i \in DOMAIN list : list[i].seq = q
Gapless(slots) ==
    /\ slots \in Seq(ToSet(slots))
    /\ \A i \in DOMAIN slots :
         /\ slots[i][1] \in channel
         /\ slots[i][1].seq # NoSeq =>
              \A q \in FirstSeq..(slots[i][1].seq - 1) : Has(rows, q) \/ \E j \in 1..(i - 1) : slots[j][1].seq = q
OrdererOK ==
    /\ nextSeq \in Nat /\ nextSeq >= FirstSeq
    /\ buffered \in [Seqs -> Seq(channel)]
    /\ \A q \in Seqs : \A i \in DOMAIN buffered[q] : buffered[q][i].seq = q
    /\ out \in Seq(ToSet(out))
    /\ \A q \in FirstSeq..(nextSeq - 1) : Has(rows, q) \/ \E j \in DOMAIN ready : ready[j][1].seq = q
    /\ Gapless(ready) /\ Gapless(late)

\* A row is a send that has not been received, or an entry of the stream.
PendingRow(row) ==
    /\ row.of \in Sends /\ sent[row.of] # NoSend
    /\ row.id = <<"pending", row.of>> /\ row.seq = NoSeq /\ row.client = row.of /\ row.optimistic
UserRow(row) ==
    /\ \E f \in channel : f.of = row.of /\ f.of # None /\ row.id = <<"user", f.msg[2]>> /\ row.seq \in {f.msg[2], NoSeq}
    /\ row.client \in {None, row.of} /\ (row.seq = NoSeq => row.client # None)
    /\ ~row.optimistic /\ ~row.unknown
AssistantRow(row) ==
    /\ \E f \in channel : f.of = None /\ row.id = <<"assistant", f.msg[2]>> /\ row.seq = f.msg[2]
    /\ row.of = None /\ row.client = None /\ ~row.optimistic /\ ~row.unknown
Ids == {"pending", "user", "assistant"} \X Nat
Rows == [id : Ids, seq : Nat \union {NoSeq}, of : Nat, client : Nat, optimistic : BOOLEAN, unknown : BOOLEAN]
RowOK(row) == PendingRow(row) \/ UserRow(row) \/ AssistantRow(row)
Apart(a, b) == a.id # b.id /\ (a.optimistic /\ a.of = b.of => b.client = None)
ListOK(list) ==
    /\ list \in Seq(Rows)
    /\ \A i \in DOMAIN list : RowOK(list[i])
    /\ \A i, j \in DOMAIN list : i # j => Apart(list[i], list[j])
RowsOK ==
    /\ ListOK(rows)
    /\ \A n \in Sends : SentHere(n) => RowsOf(n) # {}

\* A page's mount is younger than those of all messages sent before.
MountOK ==
    /\ returns \in Nat /\ mount \in 0..(returns + 1)
    /\ preparing # NoSend => mount # 0
    /\ \A n \in Sends : IF mount = 0 THEN sent[n].mount <= returns ELSE sent[n].mount <= mount
ViewInv == DraftInv /\ MountOK /\ HostOK /\ RowsOK /\ OrdererOK /\ RowsOrdered

===============================================================================
