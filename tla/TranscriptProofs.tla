--------------------------- MODULE TranscriptProofs ---------------------------
(***************************************************************************)
(* Proofs about the two ends of a transcript: ViewerTranscript, the page   *)
(* that shows it, and OpencodeDriver, the companion that projects a        *)
(* session it does not own.                                                *)
(*                                                                         *)
(* The viewer: nothing of the draft is lost, the rows are the transcript   *)
(* in its order, and a message has one bubble, for every number of         *)
(* messages, edits, returns and faults.                                    *)
(*                                                                         *)
(* The invariant has two halves.  DraftInv is about the composer alone and *)
(* is kept by itself.  The other half follows a frame: the host gives each *)
(* seq to one message (HostOK), the orderer releases no seq before those   *)
(* in front of it (OrdererOK: what is on its way to the page has its       *)
(* predecessors in the rows or before it in the same queue), and the rows  *)
(* that are given a frame with that guarantee stay a list without a hole   *)
(* (RowsOK and RowsOrdered).  So the proofs go from lists (where a row is  *)
(* found, inserted, removed), over what the page does with one slot        *)
(* (GivenIs), to the queues, and end with one step per kind of action.     *)
(*                                                                         *)
(* The companion: the upstream log is the ledger, and the ledger is never  *)
(* ahead of the history (LedgerOK); whatever the stream and the next       *)
(* reconciliation still have to bring is where its order needs it          *)
(* (StreamOK, FreshOK); and while the browser is alone, an idle that can   *)
(* release a turn is its own (SerialOK, by counting the idles).  The       *)
(* proofs go from loops and sequences, over what each operation does with  *)
(* the ledger (the lemmas ...Is and ...Kept), over what a step of the      *)
(* server adds to the history and to the stream (Grown, Told, ToldFresh),  *)
(* to one lemma per action.                                                *)
(***************************************************************************)
EXTENDS ViewerTranscript, OpencodeDriver, WellFoundedInduction, FiniteSetTheorems, SequenceTheorems, TLAPS

-----------------------------------------------------------------------------
(* The draft                                                               *)

draftVars == <<canAttach, draft, sent, preparing, typed, picked, dropped>>

LEMMA DraftKeeps == DraftInv /\ UNCHANGED draftVars => DraftInv'
  BY DEF DraftInv, DraftTypeOK, TextOnce, FileOnce, draftVars

LEMMA LeastNatural == ASSUME NEW S \in SUBSET Nat, S # {} PROVE \E n \in S : \A m \in S : n <= m
<1>1. PICK x \in S : \A y \in S : ~(<<y, x>> \in OpToRel(<, Nat))
  BY NatLessThanWellFounded, WFMin
<1>2. \A y \in S : <<y, x>> \in OpToRel(<, Nat) <=> y < x
  BY DEF OpToRel
<1>3. \A y \in S : ~(y < x)
  BY <1>1, <1>2, Zenon
<1> QED
  BY <1>3

\* A message leaves the composer under the least number that is free.
LEMMA CommitIs ==
  ASSUME NEW was, Commit(was)
  PROVE  \E n \in Sends :
           /\ sent[n] = NoSend /\ sent' = [sent EXCEPT ![n] = [was EXCEPT !.mount = mount]]
           /\ rows' = AppendUnique(rows, Optimistic(n)) /\ draft' = NextDraft(was)
           /\ posting' = n /\ wire' = wire \union {n}
<1> DEFINE Least(m) == sent[m] = NoSend /\ \A k \in 1..(m - 1) : sent[k] # NoSend
           n == CHOOSE m \in Sends : Least(m)
           S == {m \in Sends : sent[m] = NoSend}
<1>1. S \in SUBSET Nat /\ S # {}
  BY ViewAssumption DEF Commit, Sends
<1>2. PICK m \in S : \A k \in S : m <= k
  BY <1>1, LeastNatural
<1>3. m \in Sends /\ Least(m)
  BY <1>1, <1>2, ViewAssumption DEF Sends
<1> HIDE DEF Least
<1>4. n \in Sends /\ Least(n)
  BY <1>3, Zenon
<1> USE DEF Least
<1>5. /\ sent' = [sent EXCEPT ![n] = [was EXCEPT !.mount = mount]]
      /\ rows' = AppendUnique(rows, Optimistic(n)) /\ draft' = NextDraft(was)
      /\ posting' = n /\ wire' = wire \union {n}
  BY DEF Commit
<1> HIDE DEF n
<1> QED
  BY <1>4, <1>5

\* What a message takes with it leaves the draft, if it had been left there.
LEMMA CommitKeepsDraft ==
  ASSUME DraftInv, mount \in Nat, NEW was \in Message, Commit(was), was.text <= typed, was.files \subseteq draft.staged,
         \A n \in Sends : sent[n].text # None => sent[n].text # was.text,
         preparing' = NoSend, UNCHANGED <<typed, picked, dropped, canAttach>>
  PROVE  DraftInv'
<1>1. PICK n \in Sends : sent[n] = NoSend /\ sent' = [sent EXCEPT ![n] = [was EXCEPT !.mount = mount]]
                         /\ draft' = NextDraft(was)
  BY CommitIs
<1>2. /\ typed \in Nat /\ picked \in Nat /\ dropped \subseteq 1..picked
      /\ draft \in [input : 0..typed, staged : SUBSET (1..picked)] /\ sent \in [Sends -> Message]
      /\ \A m \in Sends : sent[m].text <= typed /\ sent[m].files \subseteq 1..picked
  BY DEF DraftInv, DraftTypeOK
<1> DEFINE mine == [was EXCEPT !.mount = mount]
<1>3. mine \in Message /\ mine.text = was.text /\ mine.files = was.files /\ NoSend \in Message
      /\ NoSend.text = None /\ NoSend.files = {}
  BY <1>2, ViewAssumption DEF Message, NoSend, None
<1>4. sent' \in [Sends -> Message] /\ sent'[n] = mine /\ \A m \in Sends : m # n => sent'[m] = sent[m]
  BY <1>1, <1>2, <1>3
<1> HIDE DEF mine
<1>5. /\ draft'.input = IF draft.input = was.text THEN None ELSE draft.input
      /\ draft'.staged = draft.staged \ was.files
      /\ draft' \in [input : 0..typed, staged : SUBSET (1..picked)]
  BY <1>1, <1>2 DEF NextDraft, None
<1>6. DraftTypeOK'
  <2>1. \A m \in Sends : sent'[m].text <= typed /\ sent'[m].files \subseteq 1..picked
    BY <1>2, <1>3, <1>4
  <2>2. preparing' \in Message /\ preparing'.text <= typed /\ preparing'.files \subseteq 1..picked
    BY <1>2, <1>3, ViewAssumption DEF None
  <2> QED
    BY <1>2, <1>4, <1>5, <2>1, <2>2 DEF DraftTypeOK
<1>7. TextOnce'
  <2>1. typed # 0 => typed = draft'.input \/ \E m \in Sends : sent'[m].text = typed
    <3>1. CASE typed = draft.input /\ typed # 0
      BY <1>3, <1>4, <1>5, <3>1
    <3>2. ASSUME NEW m \in Sends, sent[m].text = typed, typed # 0 PROVE m # n
      BY <1>1, <1>3, <3>2 DEF None
    <3> QED
      BY <1>4, <3>1, <3>2 DEF DraftInv, TextOnce
  <2>2. \A m \in Sends : sent'[m].text # None => sent'[m].text \notin {draft'.input, preparing'.text}
    BY <1>3, <1>4, <1>5 DEF DraftInv, TextOnce
  <2>3. \A k, m \in Sends : k # m /\ sent'[k].text # None => sent'[k].text # sent'[m].text
    BY <1>3, <1>4 DEF DraftInv, TextOnce
  <2> QED
    BY <2>1, <2>2, <2>3 DEF TextOnce
<1>8. FileOnce'
  <2>1. \A m \in Sends : sent'[m].files \intersect draft'.staged = {}
    BY <1>3, <1>4, <1>5 DEF DraftInv, FileOnce
  <2>2. \A k, m \in Sends : k # m => sent'[k].files \intersect sent'[m].files = {}
    BY <1>3, <1>4 DEF DraftInv, FileOnce
  <2>3. ASSUME NEW file \in (1..picked) \ dropped
        PROVE  file \in draft'.staged \/ \E m \in Sends : file \in sent'[m].files
    <3>1. CASE file \in draft.staged
      BY <1>3, <1>4, <1>5, <3>1
    <3>2. ASSUME NEW m \in Sends, file \in sent[m].files PROVE m # n
      BY <1>1, <1>3, <3>2
    <3> QED
      BY <1>4, <3>1, <3>2 DEF DraftInv, FileOnce
  <2>4. preparing'.files = {}
    BY <1>3
  <2> QED
    BY <2>1, <2>2, <2>3, <2>4 DEF FileOnce
<1> QED
  BY <1>6, <1>7, <1>8 DEF DraftInv

\* A draft that is edited otherwise: a new text, a new file, or files taken out.
LEMMA DraftEdited ==
  ASSUME DraftInv, UNCHANGED <<sent, preparing>>,
         \/ /\ typed' = typed + 1 /\ draft' = [draft EXCEPT !.input = typed'] /\ UNCHANGED <<picked, dropped, canAttach>>
         \/ /\ picked' = picked + 1 /\ draft' = [draft EXCEPT !.staged = draft.staged \union {picked'}]
            /\ UNCHANGED <<typed, dropped, canAttach>>
         \/ /\ \E gone \in SUBSET draft.staged :
                  draft' = [draft EXCEPT !.staged = draft.staged \ gone] /\ dropped' = dropped \union gone
            /\ UNCHANGED <<typed, picked>>
            /\ canAttach' => canAttach /\ preparing = NoSend
  PROVE  DraftInv'
<1>1. /\ typed \in Nat /\ picked \in Nat /\ dropped \subseteq 1..picked
      /\ draft \in [input : 0..typed, staged : SUBSET (1..picked)] /\ sent \in [Sends -> Message]
      /\ preparing \in Message /\ preparing.text <= typed /\ preparing.files \subseteq 1..picked
      /\ \A m \in Sends : sent[m] \in Message /\ sent[m].text <= typed /\ sent[m].files \subseteq 1..picked
  BY DEF DraftInv, DraftTypeOK
<1>2. preparing.text \in Nat /\ \A m \in Sends : sent[m].text \in Nat
  BY <1>1 DEF Message
<1>3. CASE typed' = typed + 1 /\ draft' = [draft EXCEPT !.input = typed'] /\ UNCHANGED <<picked, dropped, canAttach>>
  <2>1. draft'.input = typed + 1 /\ draft'.staged = draft.staged
        /\ draft' \in [input : 0..typed', staged : SUBSET (1..picked')]
    BY <1>1, <1>3
  <2>2. \A t \in Nat : t <= typed => t <= typed' /\ t # typed + 1
    BY <1>1, <1>3
  <2>3. DraftTypeOK'
    <3>1. typed' \in Nat
      BY <1>1, <1>3
    <3> QED
      BY <1>1, <1>2, <1>3, <2>1, <2>2, <3>1 DEF DraftTypeOK
  <2>4. TextOnce'
    <3>1. \A n \in Sends : sent[n].text # None => sent[n].text # draft'.input
      BY <1>1, <1>2, <2>1, <2>2
    <3> QED
      BY <1>3, <2>1, <3>1 DEF DraftInv, TextOnce
  <2>5. FileOnce'
    BY <1>3, <2>1 DEF DraftInv, FileOnce
  <2> QED
    BY <2>3, <2>4, <2>5 DEF DraftInv
<1>4. CASE /\ picked' = picked + 1 /\ draft' = [draft EXCEPT !.staged = draft.staged \union {picked'}]
           /\ UNCHANGED <<typed, dropped, canAttach>>
  <2>1. draft'.input = draft.input /\ draft'.staged = draft.staged \union {picked + 1}
        /\ draft' \in [input : 0..typed', staged : SUBSET (1..picked')]
    BY <1>1, <1>4
  <2>2. 1..picked \subseteq 1..picked' /\ picked + 1 \notin 1..picked /\ 1..picked' = (1..picked) \union {picked + 1}
        /\ picked' \in Nat
    BY <1>1, <1>4
  <2>3. DraftTypeOK'
    BY <1>1, <1>4, <2>1, <2>2 DEF DraftTypeOK
  <2>4. TextOnce'
    BY <1>4, <2>1 DEF DraftInv, TextOnce
  <2>5. FileOnce'
    BY <1>1, <1>4, <2>1, <2>2 DEF DraftInv, FileOnce
  <2> QED
    BY <2>3, <2>4, <2>5 DEF DraftInv
<1>5. CASE /\ \E gone \in SUBSET draft.staged :
                  draft' = [draft EXCEPT !.staged = draft.staged \ gone] /\ dropped' = dropped \union gone
           /\ UNCHANGED <<typed, picked>>
           /\ canAttach' => canAttach /\ preparing = NoSend
  <2>1. PICK gone \in SUBSET draft.staged :
                  draft' = [draft EXCEPT !.staged = draft.staged \ gone] /\ dropped' = dropped \union gone
    BY <1>5
  <2>2. draft'.input = draft.input /\ draft'.staged = draft.staged \ gone
        /\ draft' \in [input : 0..typed', staged : SUBSET (1..picked')]
    BY <1>1, <1>5, <2>1
  <2>3. DraftTypeOK'
    BY <1>1, <1>5, <2>1, <2>2 DEF DraftTypeOK
  <2>4. TextOnce'
    BY <1>5, <2>2 DEF DraftInv, TextOnce
  <2>5. FileOnce'
    <3>1. canAttach' => preparing.files = {}
      BY <1>5 DEF NoSend
    <3> QED
      BY <1>5, <2>1, <2>2, <3>1 DEF DraftInv, FileOnce
  <2> QED
    BY <2>3, <2>4, <2>5 DEF DraftInv
<1> QED
  BY <1>3, <1>4, <1>5

\* A send whose files are read, or one that is given up.
LEMMA PreparingSet ==
  ASSUME DraftInv, mount \in Nat, UNCHANGED <<canAttach, draft, sent, typed, picked, dropped>>,
         \/ preparing' = NoSend
         \/ preparing' = [text |-> draft.input, files |-> draft.staged, mount |-> mount]
  PROVE  DraftInv'
<1>1. /\ typed \in Nat /\ draft.input \in 0..typed /\ draft.staged \subseteq 1..picked /\ picked \in Nat
  BY DEF DraftInv, DraftTypeOK
<1>2. /\ preparing' \in Message /\ preparing'.text \in {None, draft.input} /\ preparing'.text <= typed
      /\ preparing'.files \subseteq draft.staged
  <2>1. CASE preparing' = NoSend
    BY <1>1, <2>1 DEF NoSend, Message, None
  <2>2. CASE preparing' = [text |-> draft.input, files |-> draft.staged, mount |-> mount]
    BY <1>1, <2>2 DEF Message
  <2> QED
    BY <2>1, <2>2
<1>3. DraftTypeOK'
  BY <1>1, <1>2 DEF DraftInv, DraftTypeOK
<1>4. TextOnce'
  BY <1>2 DEF DraftInv, TextOnce
<1>5. FileOnce'
  BY <1>2 DEF DraftInv, FileOnce
<1> QED
  BY <1>3, <1>4, <1>5 DEF DraftInv

LEMMA DraftStep == DraftInv /\ mount \in Nat /\ [ViewNext]_all => DraftInv'
<1> SUFFICES ASSUME DraftInv, mount \in Nat, [ViewNext]_all PROVE DraftInv'
  OBVIOUS
<1>1. CASE \/ (\E n \in Sends : Accept1(n)) \/ Emit \/ (\E f \in Frames : Take(f)) \/ Yield \/ YieldLate \/ Revive
           \/ PostAnswered \/ PostFails \/ LinkChanges \/ UNCHANGED all
  <2>1. UNCHANGED draftVars
    BY <1>1 DEF Accept1, Emit, Take, Yield, YieldLate, Revive, PostAnswered, PostFails, LinkChanges, all,
       draftVars, compose, edits
  <2> QED
    BY <2>1, DraftKeeps
<1>2. CASE Type
  BY <1>2, DraftEdited DEF Type
<1>3. CASE Pick
  BY <1>3, DraftEdited DEF Pick
<1>4. ASSUME NEW file \in draft.staged, RemoveStaged(file) PROVE DraftInv'
  <2>1. {file} \in SUBSET draft.staged
    OBVIOUS
  <2> QED
    BY <1>4, <2>1, DraftEdited DEF RemoveStaged
<1>5. CASE WithdrawAttachments
  <2>1. draft.staged \in SUBSET draft.staged /\ draft.staged \ draft.staged = {}
    OBVIOUS
  <2> QED
    BY <1>5, <2>1, DraftEdited DEF WithdrawAttachments
<1>6. CASE SendText
  <2> DEFINE was == [text |-> draft.input, files |-> {}, mount |-> 0]
  <2>1. draft.input \in Nat /\ draft.input <= typed
    BY DEF DraftInv, DraftTypeOK
  <2>2. was \in Message /\ was.text = draft.input /\ was.files = {}
    BY <2>1 DEF Message
  <2>3. Commit(was) /\ preparing = NoSend /\ UNCHANGED <<mount, typed, picked, dropped, canAttach, preparing>>
    BY <1>6 DEF SendText, Sendable, edits
  <2>4. \A n \in Sends : sent[n].text # None => sent[n].text # was.text
    BY <2>2 DEF DraftInv, TextOnce
  <2> HIDE DEF was
  <2> QED
    BY <2>1, <2>2, <2>3, <2>4, CommitKeepsDraft
<1>7. CASE SendFiles \/ PrepareFails \/ Leave
  <2>1. /\ UNCHANGED <<canAttach, draft, sent, typed, picked, dropped>>
        /\ \/ preparing' = NoSend
           \/ preparing' = [text |-> draft.input, files |-> draft.staged, mount |-> mount]
    BY <1>7 DEF SendFiles, PrepareFails, Leave, edits
  <2> QED
    BY <2>1, PreparingSet
<1>8. CASE Prepared /\ AllowedNow
  <2> DEFINE was == [preparing EXCEPT !.mount = 0]
  <2>1. preparing \in Message /\ preparing.text <= typed
    BY DEF DraftInv, DraftTypeOK
  <2>2. was \in Message /\ was.text = preparing.text /\ was.files = preparing.files
    BY <2>1 DEF Message
  <2>3. Commit(was) /\ preparing' = NoSend /\ UNCHANGED <<mount, typed, picked, dropped, canAttach>> /\ canAttach
    BY <1>8 DEF Prepared, AllowedNow, edits
  <2>4. was.files \subseteq draft.staged
    BY <2>2, <2>3 DEF DraftInv, FileOnce
  <2>5. \A n \in Sends : sent[n].text # None => sent[n].text # was.text
    BY <2>2 DEF DraftInv, TextOnce
  <2> HIDE DEF was
  <2> QED
    BY <2>1, <2>2, <2>3, <2>4, <2>5, CommitKeepsDraft
<1>9. CASE Prepared /\ ~AllowedNow
  <2>1. UNCHANGED <<canAttach, draft, sent, typed, picked, dropped, mount>> /\ preparing' = NoSend
    BY <1>9 DEF Prepared, edits
  <2> QED
    BY <2>1, PreparingSet
<1>10. CASE Open
  <2>1. UNCHANGED <<canAttach, draft, sent, preparing, typed, picked, dropped>> /\ mount' = returns + 1
    BY <1>10 DEF Open, compose, edits
  <2> QED
    BY <2>1 DEF DraftInv, DraftTypeOK, TextOnce, FileOnce
<1> QED
  BY <1>1, <1>2, <1>3, <1>4, <1>5, <1>6, <1>7, <1>8, <1>9, <1>10 DEF ViewNext

-----------------------------------------------------------------------------
(* Lists of rows                                                           *)

OrderedTo(list, k) ==
    /\ k \in 0..Len(list)
    /\ \A i \in 1..k : list[i].seq = FirstSeq + i - 1
    /\ \A i \in (k + 1)..Len(list) : Provisional(list[i])
HasOf(list, n) == \E i \in DOMAIN list : list[i].of = n

\* What the selection of a row returns: the first index, or 0.
LEMMA LeastIs ==
  ASSUME NEW I \in SUBSET Nat, I # {}
  PROVE  Min(I) \in I /\ \A j \in I : Min(I) <= j
<1>1. \E n \in I : \A m \in I : n <= m
  BY LeastNatural
<1> QED
  BY <1>1, Zenon DEF Min

LEMMA FindIs ==
  ASSUME NEW list \in Seq(Rows), NEW id
  PROVE  /\ Find(list, id) = 0 \/ Find(list, id) \in DOMAIN list
         /\ Find(list, id) = 0 => \A j \in DOMAIN list : list[j].id # id
         /\ Find(list, id) # 0 => list[Find(list, id)].id = id
<1> DEFINE I == {i \in 1..Len(list) : list[i].id = id}
<1>1. Find(list, id) = IF I # {} THEN Min(I) ELSE 0
  BY Zenon DEF Find, SelectInSeq
<1>2. I \in SUBSET Nat /\ DOMAIN list = 1..Len(list) /\ 0 \notin I
  OBVIOUS
<1>3. I # {} => Min(I) \in I
  BY <1>2, LeastIs
<1> QED
  BY <1>1, <1>2, <1>3

LEMMA FirstProvisional ==
  ASSUME NEW list \in Seq(Rows), NEW before, before = SelectInSeq(list, Provisional)
  PROVE  /\ before = 0 \/ before \in DOMAIN list
         /\ before = 0 => \A j \in DOMAIN list : ~Provisional(list[j])
         /\ before # 0 => Provisional(list[before]) /\ \A j \in 1..(before - 1) : ~Provisional(list[j])
<1> DEFINE I == {i \in 1..Len(list) : Provisional(list[i])}
<1>1. before = IF I # {} THEN Min(I) ELSE 0
  BY Zenon DEF SelectInSeq
<1>2. I \in SUBSET Nat /\ DOMAIN list = 1..Len(list) /\ 0 \notin I /\ Len(list) \in Nat
  OBVIOUS
<1>3. I # {} => Min(I) \in I /\ \A j \in I : Min(I) <= j
  BY <1>2, LeastIs
<1>4. CASE I = {}
  BY <1>1, <1>2, <1>4
<1>5. CASE I # {}
  <2>1. before \in I /\ \A j \in I : before <= j
    BY <1>1, <1>3, <1>5
  <2>2. ASSUME NEW j \in 1..(before - 1), Provisional(list[j]) PROVE FALSE
    <3>0. before \in Nat /\ before <= Len(list)
      BY <1>2, <2>1
    <3>1. j \in 1..Len(list) /\ j < before
      BY <1>2, <2>2, <3>0
    <3>2. j \in I
      BY <2>2, <3>1
    <3> HIDE DEF I
    <3>3. before <= j /\ j \in Nat
      BY <2>1, <3>1, <3>2
    <3> QED
      BY <3>0, <3>1, <3>3
  <2>3. before \in DOMAIN list /\ Provisional(list[before]) /\ before # 0
    BY <1>2, <2>1
  <2> HIDE DEF I
  <2> QED
    BY <2>2, <2>3
<1> QED
  BY <1>4, <1>5

\* Two lists in one.
LEMMA JoinIs ==
  ASSUME NEW a \in Seq(Rows), NEW b \in Seq(Rows)
  PROVE  /\ (a \o b) \in Seq(Rows) /\ Len(a \o b) = Len(a) + Len(b)
         /\ \A j \in 1..Len(a) : (a \o b)[j] = a[j]
         /\ \A j \in 1..Len(b) : (a \o b)[Len(a) + j] = b[j]
  OBVIOUS

\* A list without one row, and with one more.
IsRemoved(list, i, new) ==
    /\ new \in Seq(Rows) /\ Len(new) = Len(list) - 1
    /\ \A j \in 1..Len(new) : new[j] = IF j < i THEN list[j] ELSE list[j + 1]

LEMMA RemoveIs ==
  ASSUME NEW list \in Seq(Rows), NEW i \in DOMAIN list
  PROVE  IsRemoved(list, i, RemoveAt(list, i))
<1> DEFINE front == SubSeq(list, 1, i - 1)
           back == SubSeq(list, i + 1, Len(list))
           n == Len(list)
           f == i - 1
           b == n - i
           new == front \o back
<1>1. i \in Nat /\ n \in Nat /\ i <= n /\ 1 <= i /\ f \in Nat /\ b \in Nat /\ f + b = n - 1
  OBVIOUS
<1>2. /\ front \in Seq(Rows) /\ Len(front) = f /\ \A j \in 1..f : front[j] = list[j]
  OBVIOUS
<1>3. /\ back \in Seq(Rows) /\ Len(back) = b /\ \A j \in 1..b : back[j] = list[j + i]
  OBVIOUS
<1>4. RemoveAt(list, i) = new
  BY DEF RemoveAt
<1> HIDE DEF front, back, f, b
<1>5. /\ new \in Seq(Rows) /\ Len(new) = Len(front) + Len(back)
      /\ \A j \in 1..Len(front) : new[j] = front[j]
      /\ \A j \in 1..Len(back) : new[Len(front) + j] = back[j]
  BY <1>2, <1>3, JoinIs
<1> HIDE DEF new, n
<1>6. /\ new \in Seq(Rows) /\ Len(new) = f + b
      /\ \A j \in 1..f : new[j] = front[j]
      /\ \A j \in 1..b : new[f + j] = back[j]
  BY <1>2, <1>3, <1>5
<1>7. ASSUME NEW j \in 1..(n - 1) PROVE new[j] = IF j < i THEN list[j] ELSE list[j + 1]
  <2>1. CASE j < i
    <3>2. j \in 1..f
      BY <1>1, <2>1 DEF f
    <3> QED
      BY <1>2, <1>6, <2>1, <3>2
  <2>2. CASE ~(j < i)
    <3> DEFINE m == j - f
    <3>1. j \in Nat /\ i <= j /\ j <= n - 1 /\ i \in Nat /\ n \in Nat
      BY <1>1, <2>2
    <3>2. m \in 1..b /\ f + m = j /\ m + i = j + 1
      BY <3>1 DEF f, b
    <3> HIDE DEF m
    <3>3. new[f + m] = list[m + i]
      BY <1>3, <1>6, <3>2
    <3> QED
      BY <2>2, <3>2, <3>3
  <2> QED
    BY <2>1, <2>2
<1>8. Len(new) = n - 1
  BY <1>1, <1>6
<1>9. IsRemoved(list, i, new)
  BY <1>6, <1>7, <1>8 DEF IsRemoved, n
<1> QED
  BY <1>4, <1>9

LEMMA InsertAtIs ==
  ASSUME NEW list \in Seq(Rows), NEW row \in Rows, NEW k \in DOMAIN list
  PROVE  /\ InsertAt(list, k, row) \in Seq(Rows) /\ Len(InsertAt(list, k, row)) = Len(list) + 1
         /\ \A j \in 1..(Len(list) + 1) :
              InsertAt(list, k, row)[j] = IF j < k THEN list[j] ELSE IF j = k THEN row ELSE list[j - 1]
<1> DEFINE front == SubSeq(list, 1, k - 1)
           back == SubSeq(list, k, Len(list))
           one == <<row>>
           head == front \o one
           n == Len(list)
           f == k - 1
           b == n - k + 1
           new == head \o back
<1>1. k \in Nat /\ n \in Nat /\ k <= n /\ 1 <= k /\ f \in Nat /\ b \in Nat /\ f + 1 = k /\ k + b = n + 1
  OBVIOUS
<1>2. /\ front \in Seq(Rows) /\ Len(front) = f /\ \A j \in 1..f : front[j] = list[j]
  OBVIOUS
<1>3. /\ back \in Seq(Rows) /\ Len(back) = b /\ \A j \in 1..b : back[j] = list[j + f]
  OBVIOUS
<1>4. one \in Seq(Rows) /\ Len(one) = 1 /\ one[1] = row
  OBVIOUS
<1>5. InsertAt(list, k, row) = new
  BY DEF InsertAt
<1> HIDE DEF front, back, one, f, b
<1>6. /\ head \in Seq(Rows) /\ Len(head) = Len(front) + Len(one)
      /\ \A j \in 1..Len(front) : head[j] = front[j]
      /\ \A j \in 1..Len(one) : head[Len(front) + j] = one[j]
  BY <1>2, <1>4, JoinIs
<1> HIDE DEF head, n
<1>7. head \in Seq(Rows) /\ Len(head) = k /\ head[k] = row /\ \A j \in 1..f : head[j] = front[j]
  <2>1. 1 \in 1..1
    OBVIOUS
  <2> QED
    BY <1>1, <1>2, <1>4, <1>6, <2>1
<1>8. /\ new \in Seq(Rows) /\ Len(new) = Len(head) + Len(back)
      /\ \A j \in 1..Len(head) : new[j] = head[j]
      /\ \A j \in 1..Len(back) : new[Len(head) + j] = back[j]
  BY <1>3, <1>7, JoinIs
<1> HIDE DEF new
<1>9. /\ new \in Seq(Rows) /\ Len(new) = k + b
      /\ \A j \in 1..k : new[j] = head[j]
      /\ \A j \in 1..b : new[k + j] = back[j]
  BY <1>3, <1>7, <1>8
<1>10. ASSUME NEW j \in 1..(n + 1) PROVE new[j] = IF j < k THEN list[j] ELSE IF j = k THEN row ELSE list[j - 1]
  <2>1. CASE j < k
    <3>1. j \in 1..f /\ j \in 1..k
      BY <1>1, <2>1 DEF f
    <3> QED
      BY <1>2, <1>7, <1>9, <2>1, <3>1
  <2>2. CASE j = k
    BY <1>1, <1>7, <1>9, <2>2
  <2>3. CASE ~(j < k) /\ j # k
    <3> DEFINE m == j - k
    <3>0. j \in Nat /\ k < j /\ j <= n + 1 /\ k \in Nat /\ n \in Nat
      BY <1>1, <2>3
    <3>1. m \in 1..b /\ k + m = j /\ m + f = j - 1
      BY <3>0 DEF f, b
    <3> HIDE DEF m
    <3>2. new[k + m] = list[m + f]
      BY <1>3, <1>9, <3>1
    <3> QED
      BY <2>3, <3>1, <3>2
  <2> QED
    BY <2>1, <2>2, <2>3
<1>11. Len(new) = n + 1
  BY <1>1, <1>9
<1> QED
  BY <1>5, <1>9, <1>10, <1>11 DEF n

\* Where a row is inserted, and what is before and behind it.
IsInserted(list, row, new, k) ==
    /\ new \in Seq(Rows) /\ Len(new) = Len(list) + 1 /\ k \in 1..(Len(list) + 1)
    /\ \A j \in 1..(Len(list) + 1) : new[j] = IF j < k THEN list[j] ELSE IF j = k THEN row ELSE list[j - 1]
    /\ row.seq = NoSeq => k = Len(list) + 1
    /\ row.seq # NoSeq => /\ \A j \in 1..(k - 1) : ~Provisional(list[j])
                          /\ k <= Len(list) => Provisional(list[k])

LEMMA InsertIs ==
  ASSUME NEW list \in Seq(Rows), NEW row \in Rows
  PROVE  \E k : IsInserted(list, row, Insert(list, row), k)
<1> DEFINE before == SelectInSeq(list, Provisional)
<1>0. /\ before = 0 \/ before \in DOMAIN list
      /\ before = 0 => \A j \in DOMAIN list : ~Provisional(list[j])
      /\ before # 0 => Provisional(list[before]) /\ \A j \in 1..(before - 1) : ~Provisional(list[j])
  BY FirstProvisional
<1>1. Insert(list, row) = IF row.seq = NoSeq \/ before = 0 THEN Append(list, row) ELSE InsertAt(list, before, row)
  BY DEF Insert
<1> HIDE DEF before
<1>2. CASE row.seq = NoSeq \/ before = 0
  <2>1. Insert(list, row) = Append(list, row)
    BY <1>1, <1>2
  <2>2. /\ Append(list, row) \in Seq(Rows) /\ Len(Append(list, row)) = Len(list) + 1 /\ Len(list) + 1 \in 1..(Len(list) + 1)
        /\ \A j \in 1..(Len(list) + 1) :
             Append(list, row)[j] = IF j < Len(list) + 1 THEN list[j] ELSE IF j = Len(list) + 1 THEN row ELSE list[j - 1]
    OBVIOUS
  <2>3. row.seq # NoSeq => \A j \in 1..((Len(list) + 1) - 1) : ~Provisional(list[j])
    BY <1>0, <1>2
  <2>4. ~(Len(list) + 1 <= Len(list))
    OBVIOUS
  <2>5. IsInserted(list, row, Insert(list, row), Len(list) + 1)
    BY <2>1, <2>2, <2>3, <2>4 DEF IsInserted
  <2> QED
    BY <2>5
<1>3. CASE ~(row.seq = NoSeq \/ before = 0)
  <2>1. Insert(list, row) = InsertAt(list, before, row) /\ before \in DOMAIN list
    BY <1>0, <1>1, <1>3
  <2>2. IsInserted(list, row, Insert(list, row), before)
    <3>1. before \in 1..(Len(list) + 1)
      BY <2>1
    <3> DEFINE new == InsertAt(list, before, row)
    <3>2. /\ new \in Seq(Rows) /\ Len(new) = Len(list) + 1
          /\ \A j \in 1..(Len(list) + 1) :
               new[j] = IF j < before THEN list[j] ELSE IF j = before THEN row ELSE list[j - 1]
      BY <2>1, InsertAtIs
    <3> HIDE DEF new
    <3> QED
      BY <1>0, <1>3, <2>1, <3>1, <3>2 DEF IsInserted, new
  <2> QED
    BY <2>2
<1> QED
  BY <1>2, <1>3

LEMMA HasIs ==
  ASSUME NEW list \in Seq(Rows), NEW k, OrderedTo(list, k)
  PROVE  /\ k \in Nat
         /\ \A q \in Nat : Has(list, q) <=> q \in FirstSeq..(FirstSeq + k - 1)
         /\ \A i \in DOMAIN list : list[i].seq = NoSeq => i > k
<1>1. k \in Nat /\ k <= Len(list) /\ Len(list) \in Nat /\ DOMAIN list = 1..Len(list)
  BY DEF OrderedTo
<1>2. ASSUME NEW i \in DOMAIN list, i <= k PROVE list[i].seq = FirstSeq + i - 1 /\ list[i].seq # NoSeq
  BY <1>1, <1>2, OrderAssumption DEF OrderedTo
<1>3. ASSUME NEW i \in DOMAIN list, ~(i <= k) PROVE list[i].seq = NoSeq
  BY <1>1, <1>3 DEF OrderedTo, Provisional
<1>4. ASSUME NEW q \in Nat, Has(list, q) PROVE q \in FirstSeq..(FirstSeq + k - 1)
  <2>1. PICK i \in DOMAIN list : list[i].seq = q
    BY <1>4 DEF Has
  <2>2. i <= k
    BY <1>3, <2>1, OrderAssumption
  <2> QED
    BY <1>1, <1>2, <2>1, <2>2, OrderAssumption
<1>5. ASSUME NEW q \in FirstSeq..(FirstSeq + k - 1) PROVE Has(list, q)
  <2> DEFINE i == q - FirstSeq + 1
  <2>1. i \in DOMAIN list /\ i <= k /\ FirstSeq + i - 1 = q
    BY <1>1, OrderAssumption
  <2> HIDE DEF i
  <2> QED
    BY <1>2, <2>1 DEF Has
<1>6. \A q \in Nat : Has(list, q) <=> q \in FirstSeq..(FirstSeq + k - 1)
  BY <1>4, <1>5
<1>7. \A i \in DOMAIN list : list[i].seq = NoSeq => i > k
  BY <1>1, <1>2
<1> QED
  BY <1>1, <1>6, <1>7

\* The order under a removal of what has no place in it, an insertion of what comes next, an
\* addition of what is provisional, and under changes that leave each row its place.
LEMMA OrderedRemove ==
  ASSUME NEW list \in Seq(Rows), NEW k, OrderedTo(list, k), NEW i \in DOMAIN list, list[i].seq = NoSeq,
         NEW new, IsRemoved(list, i, new)
  PROVE  OrderedTo(new, k)
<1>1. k \in Nat /\ i > k /\ i \in 1..Len(list) /\ Len(list) \in Nat /\ Len(new) = Len(list) - 1 /\ k <= Len(new)
  BY HasIs DEF IsRemoved
<1>2. \A j \in 1..Len(new) : new[j] = IF j < i THEN list[j] ELSE list[j + 1]
  BY DEF IsRemoved
<1>3. ASSUME NEW j \in 1..k PROVE new[j].seq = FirstSeq + j - 1
  <2>1. j \in 1..Len(new) /\ j < i
    BY <1>1
  <2> QED
    BY <1>2, <2>1 DEF OrderedTo
<1>4. ASSUME NEW j \in (k + 1)..Len(new) PROVE Provisional(new[j])
  <2>1. j \in 1..Len(new) /\ j \in (k + 1)..Len(list) /\ j + 1 \in (k + 1)..Len(list)
    BY <1>1
  <2> QED
    BY <1>2, <2>1 DEF OrderedTo
<1> QED
  BY <1>1, <1>3, <1>4 DEF OrderedTo

LEMMA OrderedInsert ==
  ASSUME NEW list \in Seq(Rows), NEW k, OrderedTo(list, k), NEW row, NEW new, NEW p, IsInserted(list, row, new, p)
  PROVE  /\ row.seq = FirstSeq + k => OrderedTo(new, k + 1)
         /\ Provisional(row) => OrderedTo(new, k)
<1>1. k \in Nat /\ k <= Len(list) /\ Len(list) \in Nat /\ Len(new) = Len(list) + 1 /\ p \in 1..(Len(list) + 1)
  BY DEF IsInserted, OrderedTo
<1>2. \A j \in 1..(Len(list) + 1) : new[j] = IF j < p THEN list[j] ELSE IF j = p THEN row ELSE list[j - 1]
  BY DEF IsInserted
<1>3. ASSUME row.seq = FirstSeq + k PROVE OrderedTo(new, k + 1)
  <2>1. row.seq # NoSeq
    BY <1>1, <1>3, OrderAssumption
  <2>2. p <= k + 1
    <3> SUFFICES ASSUME p > k + 1 PROVE FALSE
      BY <1>1
    <3>1. k + 1 \in 1..(p - 1) /\ k + 1 \in (k + 1)..Len(list)
      BY <1>1
    <3> QED
      BY <2>1, <3>1 DEF IsInserted, OrderedTo
  <2>3. p >= k + 1
    <3> SUFFICES ASSUME p < k + 1 PROVE FALSE
      BY <1>1
    <3>1. p <= Len(list) /\ p \in 1..k
      BY <1>1
    <3>2. Provisional(list[p]) /\ list[p].seq = FirstSeq + p - 1
      BY <2>1, <3>1 DEF IsInserted, OrderedTo
    <3> QED
      BY <3>1, <3>2, OrderAssumption DEF Provisional
  <2>4. p = k + 1
    BY <1>1, <2>2, <2>3
  <2>5. ASSUME NEW j \in 1..(k + 1) PROVE new[j].seq = FirstSeq + j - 1
    <3>1. j \in 1..(Len(list) + 1) /\ (j < p => j \in 1..k) /\ (~(j < p) => j = p)
      BY <1>1, <2>4
    <3>2. CASE j < p
      BY <1>2, <3>1, <3>2 DEF OrderedTo
    <3>3. CASE ~(j < p)
      <4>1. new[j] = row /\ FirstSeq + k = FirstSeq + j - 1
        BY <1>1, <1>2, <2>4, <3>1, <3>3, OrderAssumption
      <4> QED
        BY <1>3, <4>1
    <3> QED
      BY <3>2, <3>3
  <2>6. ASSUME NEW j \in ((k + 1) + 1)..Len(new) PROVE Provisional(new[j])
    <3>1. j \in 1..(Len(list) + 1) /\ ~(j < p) /\ j # p /\ j - 1 \in (k + 1)..Len(list)
      BY <1>1, <2>4
    <3> QED
      BY <1>2, <3>1 DEF OrderedTo
  <2> QED
    BY <1>1, <2>5, <2>6 DEF OrderedTo
<1>4. ASSUME Provisional(row) PROVE OrderedTo(new, k)
  <2>1. p = Len(list) + 1
    BY <1>4 DEF IsInserted, Provisional
  <2>2. ASSUME NEW j \in 1..k PROVE new[j].seq = FirstSeq + j - 1
    <3>1. j \in 1..(Len(list) + 1) /\ j < p
      BY <1>1, <2>1
    <3> QED
      BY <1>2, <3>1 DEF OrderedTo
  <2>3. ASSUME NEW j \in (k + 1)..Len(new) PROVE Provisional(new[j])
    <3>1. j \in 1..(Len(list) + 1) /\ (j < p => j \in (k + 1)..Len(list)) /\ (~(j < p) => j = p)
      BY <1>1, <2>1
    <3> QED
      BY <1>2, <1>4, <3>1 DEF OrderedTo
  <2> QED
    BY <1>1, <2>2, <2>3 DEF OrderedTo
<1> QED
  BY <1>3, <1>4

LEMMA OrderedChange ==
  ASSUME NEW list \in Seq(Rows), NEW k, OrderedTo(list, k), NEW new \in Seq(Rows), Len(new) = Len(list),
         \A i \in DOMAIN list : new[i].seq = list[i].seq /\ (Provisional(list[i]) => Provisional(new[i]))
  PROVE  OrderedTo(new, k)
<1>1. \A i \in 1..k : i \in DOMAIN list
  BY DEF OrderedTo
<1>2. \A i \in (k + 1)..Len(list) : i \in DOMAIN list
  BY DEF OrderedTo
<1> QED
  BY <1>1, <1>2 DEF OrderedTo

-----------------------------------------------------------------------------
(* Rows that are well formed                                               *)

\* Rows are apart in both directions.
BothApart(a, b) == Apart(a, b) /\ Apart(b, a)
ListApart(list) == list \in Seq(Rows) /\ \A i, j \in DOMAIN list : i # j => Apart(list[i], list[j])

LEMMA ListRemove ==
  ASSUME NEW list, ListOK(list), NEW i \in DOMAIN list, NEW new, IsRemoved(list, i, new)
  PROVE  /\ ListOK(new)
         /\ \A j \in DOMAIN new : \E h \in DOMAIN list : h # i /\ new[j] = list[h]
         /\ \A h \in DOMAIN list : h # i => \E j \in DOMAIN new : new[j] = list[h]
<1> DEFINE At(j) == IF j < i THEN j ELSE j + 1
<1>1. /\ new \in Seq(Rows) /\ Len(new) = Len(list) - 1 /\ DOMAIN new = 1..Len(new)
      /\ list \in Seq(Rows) /\ DOMAIN list = 1..Len(list) /\ Len(list) \in Nat /\ Len(new) \in Nat /\ i \in 1..Len(list)
  BY DEF IsRemoved, ListOK
<1>2. \A j \in DOMAIN new : At(j) \in DOMAIN list /\ At(j) # i
  BY <1>1
<1>3. \A j \in DOMAIN new : new[j] = list[At(j)]
  BY <1>1 DEF IsRemoved
<1>4. \A j, h \in DOMAIN new : j # h => At(j) # At(h)
  BY <1>1
<1>5. ASSUME NEW h \in DOMAIN list, h # i PROVE \E j \in DOMAIN new : At(j) = h
  <2> DEFINE j == IF h < i THEN h ELSE h - 1
  <2>1. j \in DOMAIN new /\ At(j) = h
    BY <1>1, <1>5
  <2> HIDE DEF j, At
  <2> QED
    BY <2>1
<1> HIDE DEF At
<1>6. \A j \in DOMAIN new : RowOK(new[j])
  BY <1>2, <1>3 DEF ListOK
<1>7. \A j, h \in DOMAIN new : j # h => Apart(new[j], new[h])
  BY <1>2, <1>3, <1>4 DEF ListOK
<1>8. ListOK(new)
  BY <1>1, <1>6, <1>7 DEF ListOK
<1>9. \A h \in DOMAIN list : h # i => \E j \in DOMAIN new : new[j] = list[h]
  BY <1>3, <1>5
<1> QED
  BY <1>2, <1>3, <1>8, <1>9

LEMMA ApartInsert ==
  ASSUME NEW list, ListApart(list), NEW row, \A j \in DOMAIN list : BothApart(row, list[j]),
         NEW new, NEW p, IsInserted(list, row, new, p)
  PROVE  /\ ListApart(new)
         /\ \A j \in DOMAIN new : new[j] = row \/ \E h \in DOMAIN list : new[j] = list[h]
         /\ \A h \in DOMAIN list : \E j \in DOMAIN new : new[j] = list[h]
         /\ \E j \in DOMAIN new : new[j] = row
<1> DEFINE At(j) == IF j < p THEN j ELSE j - 1
<1>1. /\ new \in Seq(Rows) /\ Len(new) = Len(list) + 1 /\ DOMAIN new = 1..(Len(list) + 1) /\ p \in DOMAIN new
      /\ list \in Seq(Rows) /\ DOMAIN list = 1..Len(list) /\ Len(list) \in Nat
  BY DEF IsInserted, ListApart
<1>2. \A j \in DOMAIN new : j # p => At(j) \in DOMAIN list
  BY <1>1
<1>3. new[p] = row /\ \A j \in DOMAIN new : j # p => new[j] = list[At(j)]
  BY <1>1 DEF IsInserted
<1>4. \A j, h \in DOMAIN new : j # h /\ j # p /\ h # p => At(j) # At(h)
  BY <1>1
<1>5. ASSUME NEW h \in DOMAIN list PROVE \E j \in DOMAIN new : j # p /\ At(j) = h
  <2> DEFINE j == IF h < p THEN h ELSE h + 1
  <2>1. j \in DOMAIN new /\ j # p /\ At(j) = h
    BY <1>1
  <2> HIDE DEF j, At
  <2> QED
    BY <2>1
<1> HIDE DEF At
<1>6. ASSUME NEW j \in DOMAIN new, NEW h \in DOMAIN new, j # h PROVE Apart(new[j], new[h])
  <2>1. CASE j = p
    BY <1>2, <1>3, <1>6, <2>1 DEF BothApart
  <2>2. CASE h = p
    BY <1>2, <1>3, <1>6, <2>2 DEF BothApart
  <2>3. CASE j # p /\ h # p
    BY <1>2, <1>3, <1>4, <1>6, <2>3 DEF ListApart
  <2> QED
    BY <2>1, <2>2, <2>3
<1>7. ListApart(new)
  BY <1>1, <1>6 DEF ListApart
<1>8. \A h \in DOMAIN list : \E j \in DOMAIN new : new[j] = list[h]
  BY <1>3, <1>5
<1> QED
  BY <1>1, <1>2, <1>3, <1>7, <1>8

LEMMA ListInsert ==
  ASSUME NEW list, ListOK(list), NEW row, RowOK(row), \A j \in DOMAIN list : BothApart(row, list[j]),
         NEW new, NEW p, IsInserted(list, row, new, p)
  PROVE  /\ ListOK(new)
         /\ \A h \in DOMAIN list : \E j \in DOMAIN new : new[j] = list[h]
         /\ \E j \in DOMAIN new : new[j] = row
<1>1. ListApart(list)
  BY DEF ListOK, ListApart
<1>2. /\ ListApart(new)
      /\ \A j \in DOMAIN new : new[j] = row \/ \E h \in DOMAIN list : new[j] = list[h]
      /\ \A h \in DOMAIN list : \E j \in DOMAIN new : new[j] = list[h]
      /\ \E j \in DOMAIN new : new[j] = row
  BY <1>1, ApartInsert
<1>3. \A j \in DOMAIN new : RowOK(new[j])
  BY <1>2 DEF ListOK
<1> QED
  BY <1>2, <1>3 DEF ListOK, ListApart

\* A list in which rows are changed in place.
LEMMA ListChange ==
  ASSUME NEW list, ListOK(list), NEW new, DOMAIN new = DOMAIN list, new \in Seq(Rows),
         \A i \in DOMAIN list : RowOK(new[i]),
         \A i, j \in DOMAIN list : i # j => Apart(new[i], new[j])
  PROVE  ListOK(new)
  BY DEF ListOK

\* Where the rows of a list come from.
LEMMA SameFrame ==
  ASSUME HostOK, NEW f \in channel, NEW g \in channel
  PROVE  /\ f.msg[2] = g.msg[2] => f.of = g.of
         /\ f.of = g.of /\ f.of # None => f.msg[2] = g.msg[2]
  BY DEF HostOK

LEMMA FrameIs ==
  ASSUME HostOK, NEW f \in channel
  PROVE  /\ f.msg[2] \in Nat /\ f.msg[2] >= FirstSeq /\ f.part \in Nat
         /\ IsAccepted(f) \/ IsEcho(f) \/ IsAssistant(f)
         /\ f.of # None => f.of \in accepted /\ f.of \in Sends /\ f.of \in Nat
         /\ f.of = None => IsAssistant(f)
<1>1. /\ f.msg[2] \in FirstSeq..(hostSeq - 1) /\ hostSeq \in Nat /\ f.part \in Nat /\ accepted \subseteq Sends
      /\ IsAccepted(f) \/ IsEcho(f) \/ IsAssistant(f)
  BY DEF HostOK
<1>2. f.msg[2] \in Nat /\ f.msg[2] >= FirstSeq
  BY <1>1, OrderAssumption
<1>3. \A n \in Sends : n \in Nat /\ n # None
  BY ViewAssumption DEF Sends, None
<1>4. f.of # None => f.of \in accepted /\ f.of \in Sends /\ f.of \in Nat
  BY <1>1, <1>3 DEF IsAccepted, IsEcho, IsAssistant
<1>5. f.of = None => IsAssistant(f)
  BY <1>1, <1>3 DEF IsAccepted, IsEcho, IsAssistant
<1> QED
  BY <1>1, <1>2, <1>4, <1>5

LEMMA RowKind ==
  ASSUME HostOK, NEW row \in Rows, RowOK(row)
  PROVE  /\ row.optimistic => PendingRow(row)
         /\ row.id[1] = "pending" => PendingRow(row)
         /\ row.id[1] = "user" => UserRow(row)
         /\ row.id[1] = "assistant" => AssistantRow(row)
         /\ row.seq # NoSeq => \E g \in channel : /\ g.msg[2] = row.seq /\ g.of = row.of
                                                  /\ row.id = <<IF g.of = None THEN "assistant" ELSE "user", g.msg[2]>>
         /\ row.of # None => IsUser(row)
<1>1. CASE PendingRow(row)
  BY <1>1 DEF PendingRow, IsUser, Sends
<1>2. CASE UserRow(row)
  <2>1. row.id[1] = "user"
    BY <1>2 DEF UserRow
  <2> QED
    BY <1>2, <2>1 DEF UserRow, IsUser
<1>3. CASE AssistantRow(row)
  <2>1. row.id[1] = "assistant"
    BY <1>3 DEF AssistantRow
  <2> QED
    BY <1>3, <2>1 DEF AssistantRow, IsUser
<1> QED
  BY <1>1, <1>2, <1>3 DEF RowOK

\* A row that comes next in the transcript goes behind the rows that have a place.
LEMMA PlaceIs ==
  ASSUME NEW list, ListOK(list), NEW k, OrderedTo(list, k), NEW row \in Rows, RowOK(row),
         row.seq \in Nat, row.seq >= FirstSeq, \A q \in FirstSeq..(row.seq - 1) : Has(list, q), ~Has(list, row.seq),
         \A j \in DOMAIN list : BothApart(row, list[j])
  PROVE  /\ ListOK(Insert(list, row)) /\ OrderedTo(Insert(list, row), k + 1)
         /\ Has(Insert(list, row), row.seq)
         /\ \A q \in Nat : Has(list, q) => Has(Insert(list, row), q)
         /\ \A n : HasOf(list, n) => HasOf(Insert(list, row), n)
         /\ HasOf(Insert(list, row), row.of)
<1> DEFINE new == Insert(list, row)
<1>1. list \in Seq(Rows)
  BY DEF ListOK
<1>2. PICK p : IsInserted(list, row, new, p)
  BY <1>1, InsertIs
<1> HIDE DEF new
<1>3. k \in Nat /\ \A q \in Nat : Has(list, q) <=> q \in FirstSeq..(FirstSeq + k - 1)
  BY <1>1, HasIs
<1>4. row.seq = FirstSeq + k
  <2>1. row.seq \notin FirstSeq..(FirstSeq + k - 1)
    BY <1>3
  <2>2. row.seq > FirstSeq => row.seq - 1 \in FirstSeq..(FirstSeq + k - 1)
    <3> SUFFICES ASSUME row.seq > FirstSeq PROVE row.seq - 1 \in FirstSeq..(FirstSeq + k - 1)
      OBVIOUS
    <3>1. row.seq - 1 \in FirstSeq..(row.seq - 1) /\ row.seq - 1 \in Nat
      BY OrderAssumption
    <3> QED
      BY <1>3, <3>1
  <2> QED
    BY <1>3, <2>1, <2>2, OrderAssumption
<1>5. OrderedTo(new, k + 1)
  BY <1>1, <1>2, <1>4, OrderedInsert
<1>6. /\ ListOK(new)
      /\ \A h \in DOMAIN list : \E j \in DOMAIN new : new[j] = list[h]
      /\ \E j \in DOMAIN new : new[j] = row
  BY <1>2, ListInsert
<1>7. ListOK(new) /\ OrderedTo(new, k + 1) /\ Has(new, row.seq) /\ HasOf(new, row.of)
  BY <1>5, <1>6 DEF Has, HasOf
<1>8. ASSUME NEW q, Has(list, q) PROVE Has(new, q)
  BY <1>6, <1>8 DEF Has
<1>9. ASSUME NEW n, HasOf(list, n) PROVE HasOf(new, n)
  BY <1>6, <1>9 DEF HasOf
<1> QED
  BY <1>7, <1>8, <1>9 DEF new

\* What a list keeps while it changes.
Keeps(list, new) ==
    /\ \A q \in Nat : Has(list, q) => Has(new, q)
    /\ \A n \in Sends : HasOf(list, n) => HasOf(new, n)

\* What the page does with content whose predecessors it has.
LEMMA ContentIs ==
  ASSUME HostOK, NEW list, ListOK(list), NEW k, OrderedTo(list, k), NEW f \in channel, IsEcho(f) \/ IsAssistant(f),
         \A q \in FirstSeq..(f.seq - 1) : Has(list, q)
  PROVE  \E new : /\ new = AppendUnique(list, Row(f.msg, f.seq, f.of))
                  /\ ListOK(new) /\ (\E m : OrderedTo(new, m)) /\ Keeps(list, new) /\ Has(new, f.seq)
<1> DEFINE s == f.msg[2]
           kind == IF f.of = None THEN "assistant" ELSE "user"
           row == Row(f.msg, f.seq, f.of)
           i == Find(list, row.id)
<1>1. /\ s \in Nat /\ s >= FirstSeq /\ f.seq = s /\ s # NoSeq /\ f.msg = <<kind, s>> /\ kind \in {"assistant", "user"}
      /\ f.of # None => f.of \in Sends /\ f.of \in Nat
  BY FrameIs, OrderAssumption DEF IsEcho, IsAssistant
<1>2. /\ row \in Rows /\ row.id = <<kind, s>> /\ row.seq = s /\ row.of = f.of /\ row.client = None
      /\ row.optimistic = FALSE /\ row.unknown = FALSE
  BY <1>1 DEF Row, Rows, Ids, None
<1>3. list \in Seq(Rows) /\ \A j \in DOMAIN list : list[j] \in Rows /\ RowOK(list[j])
  BY DEF ListOK
<1> HIDE DEF row
<1>4. RowOK(row)
  BY <1>1, <1>2 DEF RowOK, UserRow, AssistantRow
<1>5. ASSUME NEW j \in DOMAIN list, list[j].seq = s PROVE list[j].id = row.id
  <2>1. PICK g \in channel : /\ g.msg[2] = s /\ g.of = list[j].of
                             /\ list[j].id = <<IF g.of = None THEN "assistant" ELSE "user", g.msg[2]>>
    BY <1>1, <1>3, <1>5, RowKind
  <2>2. g.of = f.of
    BY <2>1, SameFrame
  <2> QED
    BY <1>2, <2>1, <2>2
<1>6. ~Has(list, s) \/ \E j \in DOMAIN list : list[j].id = row.id /\ list[j].seq = s
  BY <1>5 DEF Has
<1>7. /\ i = 0 \/ i \in DOMAIN list
      /\ i = 0 => \A j \in DOMAIN list : list[j].id # row.id
      /\ i # 0 => list[i].id = row.id
  BY <1>3, FindIs
<1>8. AppendUnique(list, row) =
        IF i = 0 THEN Insert(list, row)
        ELSE IF IsUser(row) /\ row.seq # NoSeq /\ list[i].seq = NoSeq /\ list[i].client # None /\ ~list[i].optimistic
        THEN Insert(RemoveAt(list, i), [row EXCEPT !.client = list[i].client])
        ELSE list
  BY DEF AppendUnique
<1> HIDE DEF i, s, kind
<1>9. CASE i = 0
  <2>1. \A j \in DOMAIN list : BothApart(row, list[j])
    BY <1>2, <1>7, <1>9 DEF BothApart, Apart
  <2>2. ~Has(list, s)
    BY <1>6, <1>7, <1>9
  <2>3. /\ ListOK(Insert(list, row)) /\ OrderedTo(Insert(list, row), k + 1)
        /\ Has(Insert(list, row), row.seq)
        /\ \A q \in Nat : Has(list, q) => Has(Insert(list, row), q)
        /\ \A n : HasOf(list, n) => HasOf(Insert(list, row), n)
    BY <1>1, <1>2, <1>4, <2>1, <2>2, PlaceIs
  <2> QED
    BY <1>1, <1>2, <1>8, <1>9, <2>3 DEF Keeps, row
<1>10. CASE i # 0 /\ ~(IsUser(row) /\ list[i].seq = NoSeq /\ list[i].client # None /\ ~list[i].optimistic)
  <2>1. AppendUnique(list, row) = list
    BY <1>8, <1>10
  <2>2. list[i] \in Rows /\ RowOK(list[i]) /\ list[i].id = <<kind, s>> /\ i \in DOMAIN list
    BY <1>2, <1>3, <1>7, <1>10
  <2>3. ASSUME kind = "assistant" PROVE Has(list, s)
    <3>1. AssistantRow(list[i])
      BY <2>2, <2>3, RowKind
    <3>2. list[i].seq = s
      BY <2>2, <3>1 DEF AssistantRow
    <3> QED
      BY <2>2, <3>2 DEF Has
  <2>4. ASSUME kind = "user" PROVE Has(list, s)
    <3>1. UserRow(list[i]) /\ IsUser(row)
      BY <1>2, <2>2, <2>4, RowKind DEF IsUser
    <3>2. list[i].seq = s
      BY <1>10, <2>2, <3>1 DEF UserRow
    <3> QED
      BY <2>2, <3>2 DEF Has
  <2>5. Has(list, s)
    BY <1>1, <2>3, <2>4
  <2> QED
    BY <1>1, <2>1, <2>5 DEF Keeps, row
<1>11. CASE i # 0 /\ IsUser(row) /\ list[i].seq = NoSeq /\ list[i].client # None /\ ~list[i].optimistic
  <2> DEFINE rest == RemoveAt(list, i)
             kept == [row EXCEPT !.client = list[i].client]
             new == Insert(rest, kept)
  <2>1. AppendUnique(list, row) = new
    BY <1>1, <1>2, <1>8, <1>11
  <2>2. i \in DOMAIN list /\ list[i] \in Rows /\ RowOK(list[i]) /\ list[i].id = <<kind, s>> /\ kind = "user"
    BY <1>1, <1>2, <1>3, <1>7, <1>11 DEF IsUser
  <2>3. UserRow(list[i])
    BY <2>2, RowKind
  <2>4. list[i].of = f.of /\ list[i].client = f.of /\ f.of # None
    <3>1. PICK g \in channel : g.of = list[i].of /\ g.of # None /\ list[i].id = <<"user", g.msg[2]>>
      BY <2>3 DEF UserRow
    <3>2. g.msg[2] = f.msg[2]
      BY <2>2, <3>1 DEF s
    <3> QED
      BY <1>11, <2>3, <3>1, <3>2, SameFrame DEF UserRow
  <2>5. /\ kept \in Rows /\ kept.id = row.id /\ kept.seq = s /\ kept.of = f.of /\ kept.client = f.of
        /\ kept.optimistic = FALSE /\ kept.unknown = FALSE
    BY <1>1, <1>2, <2>4 DEF Rows
  <2> HIDE DEF kept
  <2>6. RowOK(kept)
    BY <1>1, <1>2, <2>2, <2>4, <2>5 DEF RowOK, UserRow, s
  <2>7. IsRemoved(list, i, rest)
    BY <1>3, <2>2, RemoveIs
  <2> HIDE DEF rest
  <2>8. /\ ListOK(rest)
        /\ \A j \in DOMAIN rest : \E h \in DOMAIN list : h # i /\ rest[j] = list[h]
        /\ \A h \in DOMAIN list : h # i => \E j \in DOMAIN rest : rest[j] = list[h]
    BY <2>2, <2>7, ListRemove
  <2>9. OrderedTo(rest, k)
    BY <1>3, <1>11, <2>2, <2>7, OrderedRemove
  <2>10. \A q \in Nat : Has(list, q) <=> Has(rest, q)
    BY <1>3, <2>8, <2>9, HasIs DEF ListOK
  <2>11. ASSUME NEW j \in DOMAIN rest PROVE BothApart(kept, rest[j])
    <3>1. PICK h \in DOMAIN list : h # i /\ rest[j] = list[h]
      BY <2>8
    <3>2. Apart(list[h], list[i])
      BY <2>2, <3>1 DEF ListOK
    <3> QED
      BY <1>7, <1>11, <2>4, <2>5, <3>1, <3>2 DEF BothApart, Apart
  <2>12. ~Has(list, s)
    <3> SUFFICES ASSUME NEW j \in DOMAIN list, list[j].seq = s PROVE FALSE
      BY DEF Has
    <3>1. list[j].id = list[i].id
      BY <1>5, <1>7, <1>11
    <3>2. j # i
      BY <1>1, <1>11
    <3> QED
      BY <2>2, <3>1, <3>2 DEF ListOK, Apart
  <2>13. \A q \in FirstSeq..(s - 1) : Has(rest, q)
    <3>1. \A q \in FirstSeq..(s - 1) : q \in Nat
      BY <1>1, OrderAssumption
    <3> QED
      BY <1>1, <2>10, <3>1
  <2>14. /\ ListOK(new) /\ OrderedTo(new, k + 1) /\ Has(new, kept.seq)
         /\ \A q \in Nat : Has(rest, q) => Has(new, q)
         /\ \A n : HasOf(rest, n) => HasOf(new, n)
         /\ HasOf(new, kept.of)
    BY <1>1, <2>5, <2>6, <2>8, <2>9, <2>10, <2>11, <2>12, <2>13, PlaceIs
  <2> HIDE DEF new
  <2>15. ASSUME NEW n \in Sends, HasOf(list, n) PROVE HasOf(new, n)
    <3>1. PICK h \in DOMAIN list : list[h].of = n
      BY <2>15 DEF HasOf
    <3>2. CASE h = i
      BY <2>4, <2>5, <2>14, <3>1, <3>2
    <3>3. CASE h # i
      BY <2>8, <2>14, <3>1, <3>3 DEF HasOf
    <3> QED
      BY <3>2, <3>3
  <2>16. Keeps(list, new)
    BY <2>10, <2>14, <2>15 DEF Keeps
  <2> QED
    BY <1>1, <2>1, <2>5, <2>14, <2>16 DEF row
<1> QED
  BY <1>9, <1>10, <1>11

LEMMA ReceivedIs ==
  ASSUME NEW row \in Rows, NEW n \in Nat
  PROVE  /\ Received(row, n) \in Rows /\ Received(row, n).id = row.id /\ Received(row, n).seq = row.seq
         /\ Received(row, n).of = row.of /\ Received(row, n).client = n
         /\ Received(row, n).optimistic = FALSE /\ Received(row, n).unknown = FALSE
  BY DEF Received, Rows

\* A row of an accepted message is the one its echo names, and its client is the one that sent it.
LEMMA UserRowIs ==
  ASSUME HostOK, NEW f \in channel, f.of # None, NEW row \in Rows, RowOK(row), row.id = <<"user", f.msg[2]>>
  PROVE  UserRow(row) /\ row.of = f.of
<1>1. UserRow(row)
  BY RowKind
<1>2. PICK g \in channel : g.of = row.of /\ g.of # None /\ row.id = <<"user", g.msg[2]>>
  BY <1>1 DEF UserRow
<1> QED
  BY <1>1, <1>2, SameFrame

\* A receipt that finds the echo takes away the pending twin and confirms the echo.
LEMMA ConfirmIs ==
  ASSUME HostOK, NEW list, ListOK(list), NEW k, OrderedTo(list, k), NEW f \in channel, f.of # None,
         \A j \in DOMAIN list : list[j].id # <<"pending", f.of>>
  PROVE  LET new == [i \in DOMAIN list |-> IF list[i].id = <<"user", f.msg[2]>> THEN Received(list[i], f.of)
                                           ELSE list[i]]
         IN ListOK(new) /\ OrderedTo(new, k) /\ Keeps(list, new)
<1> DEFINE It(i) == list[i].id = <<"user", f.msg[2]>>
           new == [i \in DOMAIN list |-> IF It(i) THEN Received(list[i], f.of) ELSE list[i]]
<1>1. /\ f.of \in Nat /\ list \in Seq(Rows) /\ DOMAIN list = 1..Len(list) /\ Len(list) \in Nat
      /\ \A i \in DOMAIN list : list[i] \in Rows /\ RowOK(list[i])
  BY FrameIs DEF ListOK
<1>2. \A i \in DOMAIN list : It(i) => UserRow(list[i]) /\ list[i].of = f.of
  BY <1>1, UserRowIs
<1>3. DOMAIN new = DOMAIN list /\ \A i \in DOMAIN list : new[i] = IF It(i) THEN Received(list[i], f.of) ELSE list[i]
  OBVIOUS
<1> HIDE DEF new, It
<1>4. \A i \in DOMAIN list : /\ new[i] \in Rows /\ new[i].id = list[i].id /\ new[i].seq = list[i].seq /\ new[i].of = list[i].of
                             /\ It(i) => /\ new[i].client = f.of /\ new[i].optimistic = FALSE /\ new[i].unknown = FALSE
                             /\ ~It(i) => new[i] = list[i]
  <2> SUFFICES ASSUME NEW i \in DOMAIN list
               PROVE  /\ new[i] \in Rows /\ new[i].id = list[i].id /\ new[i].seq = list[i].seq /\ new[i].of = list[i].of
                      /\ It(i) => /\ new[i].client = f.of /\ new[i].optimistic = FALSE /\ new[i].unknown = FALSE
                      /\ ~It(i) => new[i] = list[i]
    OBVIOUS
  <2>1. CASE It(i)
    <3>1. list[i] \in Rows /\ f.of \in Nat /\ new[i] = Received(list[i], f.of)
      BY <1>1, <1>3, <2>1
    <3> DEFINE was == list[i]
               now == Received(was, f.of)
    <3>2. was \in Rows /\ f.of \in Nat
      BY <3>1
    <3> HIDE DEF was
    <3>3. /\ now \in Rows /\ now.id = was.id /\ now.seq = was.seq /\ now.of = was.of
          /\ now.client = f.of /\ now.optimistic = FALSE /\ now.unknown = FALSE
      BY <3>2, ReceivedIs
    <3> HIDE DEF now
    <3>4. new[i] = now
      BY <3>1 DEF now, was
    <3> QED
      BY <2>1, <3>3, <3>4 DEF was
  <2>2. CASE ~It(i)
    BY <1>1, <1>3, <2>2
  <2> QED
    BY <2>1, <2>2
<1>5. new \in Seq(Rows) /\ Len(new) = Len(list)
  <2>1. new \in [1..Len(list) -> Rows]
    <3>1. new = [i \in DOMAIN list |-> new[i]]
      BY DEF new
    <3> QED
      BY <1>1, <1>3, <1>4, <3>1
  <2> QED
    BY <1>1, <2>1
<1>6. \A i \in DOMAIN list : RowOK(new[i])
  <2> SUFFICES ASSUME NEW i \in DOMAIN list, It(i) PROVE UserRow(new[i])
    BY <1>1, <1>4 DEF RowOK
  <2>1. UserRow(list[i])
    BY <1>2
  <2> QED
    BY <1>2, <1>4, <2>1 DEF UserRow
<1>7. ASSUME NEW i \in DOMAIN list, NEW j \in DOMAIN list, i # j PROVE Apart(new[i], new[j])
  <2>1. Apart(list[i], list[j])
    BY <1>7 DEF ListOK
  <2>2. ASSUME new[i].optimistic, new[i].of = new[j].of PROVE new[j].client = None
    <3>1. ~It(i) /\ list[i].optimistic
      BY <1>4, <2>2
    <3>2. PendingRow(list[i])
      BY <1>1, <3>1, RowKind
    <3>3. ~It(j)
      BY <1>2, <1>4, <2>2, <3>1, <3>2 DEF PendingRow
    <3> QED
      BY <1>4, <2>1, <2>2, <3>1, <3>3 DEF Apart
  <2> QED
    BY <1>4, <2>1, <2>2 DEF Apart
<1>8. ListOK(new)
  BY <1>3, <1>5, <1>6, <1>7 DEF ListOK
<1>9. OrderedTo(new, k)
  <2>1. ASSUME NEW i \in DOMAIN list, Provisional(list[i]) PROVE Provisional(new[i])
    BY <1>4, <2>1 DEF Provisional, IsUser
  <2> QED
    BY <1>1, <1>4, <1>5, <2>1, OrderedChange
<1>10. Keeps(list, new)
  BY <1>3, <1>4 DEF Keeps, Has, HasOf
<1> QED
  BY <1>8, <1>9, <1>10 DEF new, It

LEMMA ReceiptIs ==
  ASSUME HostOK, NEW list, ListOK(list), NEW k, OrderedTo(list, k), NEW f \in channel, f.of # None
  PROVE  \E new : /\ new = ReconcileAccepted(list, f.of, f.msg[2])
                  /\ ListOK(new) /\ OrderedTo(new, k) /\ Keeps(list, new)
<1> DEFINE n == f.of
           s == f.msg[2]
           twin == Find(list, <<"pending", n>>)
           others == IF twin = 0 THEN list ELSE RemoveAt(list, twin)
           confirmed == [i \in DOMAIN others |-> IF others[i].id = <<"user", s>> THEN Received(others[i], n) ELSE others[i]]
           renamed == [list EXCEPT ![twin] = [Received(list[twin], n) EXCEPT !.id = <<"user", s>>]]
<1>1. /\ s \in Nat /\ n \in Nat /\ n \in Sends
      /\ list \in Seq(Rows) /\ DOMAIN list = 1..Len(list) /\ Len(list) \in Nat
      /\ \A i \in DOMAIN list : list[i] \in Rows /\ RowOK(list[i])
  BY FrameIs DEF ListOK
<1>2. /\ twin = 0 \/ twin \in DOMAIN list
      /\ twin = 0 => \A j \in DOMAIN list : list[j].id # <<"pending", n>>
      /\ twin # 0 => list[twin].id = <<"pending", n>>
  BY <1>1, FindIs
<1>3. twin # 0 => PendingRow(list[twin]) /\ list[twin].of = n /\ list[twin].seq = NoSeq
  <2> SUFFICES ASSUME twin # 0 PROVE PendingRow(list[twin]) /\ list[twin].of = n /\ list[twin].seq = NoSeq
    OBVIOUS
  <2>1. list[twin] \in Rows /\ RowOK(list[twin]) /\ list[twin].id = <<"pending", n>>
    BY <1>1, <1>2
  <2>2. PendingRow(list[twin])
    BY <2>1, RowKind
  <2> QED
    BY <2>1, <2>2 DEF PendingRow
<1>4. /\ Find(list, <<"user", s>>) = 0 \/ Find(list, <<"user", s>>) \in DOMAIN list
      /\ Find(list, <<"user", s>>) = 0 => \A j \in DOMAIN list : list[j].id # <<"user", s>>
      /\ Find(list, <<"user", s>>) # 0 => list[Find(list, <<"user", s>>)].id = <<"user", s>>
  BY <1>1, FindIs
<1>5. ReconcileAccepted(list, n, s) =
        IF Find(list, <<"user", s>>) # 0 THEN confirmed ELSE IF twin = 0 THEN list ELSE renamed
  BY DEF ReconcileAccepted
<1> HIDE DEF twin
<1>6. CASE Find(list, <<"user", s>>) # 0
  <2> DEFINE u == Find(list, <<"user", s>>)
  <2>1. u \in DOMAIN list /\ list[u].id = <<"user", s>>
    BY <1>4, <1>6
  <2>2. list[u].of = n
    BY <1>1, <2>1, UserRowIs
  <2> HIDE DEF u
  <2>3. /\ ListOK(others) /\ OrderedTo(others, k) /\ Keeps(list, others)
        /\ \A j \in DOMAIN others : others[j].id # <<"pending", n>>
    <3>1. CASE twin = 0
      BY <1>2, <3>1 DEF Keeps
    <3>2. CASE twin # 0
      <4> DEFINE rest == RemoveAt(list, twin)
      <4>1. IsRemoved(list, twin, rest) /\ others = rest
        BY <1>1, <1>2, <3>2, RemoveIs
      <4> HIDE DEF rest, others
      <4>2. /\ ListOK(rest)
            /\ \A j \in DOMAIN rest : \E h \in DOMAIN list : h # twin /\ rest[j] = list[h]
            /\ \A h \in DOMAIN list : h # twin => \E j \in DOMAIN rest : rest[j] = list[h]
        BY <1>2, <3>2, <4>1, ListRemove
      <4>3. OrderedTo(rest, k)
        BY <1>1, <1>2, <1>3, <3>2, <4>1, OrderedRemove
      <4>4. ASSUME NEW j \in DOMAIN rest PROVE rest[j].id # <<"pending", n>>
        <5>1. PICK h \in DOMAIN list : h # twin /\ rest[j] = list[h]
          BY <4>2
        <5> QED
          BY <1>2, <3>2, <5>1 DEF ListOK, Apart
      <4>5. ASSUME NEW q \in Nat, Has(list, q) PROVE Has(rest, q)
        <5>1. PICK h \in DOMAIN list : list[h].seq = q
          BY <4>5 DEF Has
        <5>2. h # twin
          BY <1>3, <3>2, <5>1, OrderAssumption
        <5> QED
          BY <4>2, <5>1, <5>2 DEF Has
      <4>6. ASSUME NEW m \in Sends, HasOf(list, m) PROVE HasOf(rest, m)
        <5>1. PICK h \in DOMAIN list : list[h].of = m
          BY <4>6 DEF HasOf
        <5>2. u # twin
          BY <1>2, <2>1, <3>2
        <5>3. \E g \in DOMAIN list : g # twin /\ list[g].of = m
          BY <1>3, <2>1, <2>2, <3>2, <5>1, <5>2
        <5> QED
          BY <4>2, <5>3 DEF HasOf
      <4> QED
        BY <4>1, <4>2, <4>3, <4>4, <4>5, <4>6 DEF Keeps
    <3> QED
      BY <3>1, <3>2
  <2> HIDE DEF others
  <2>4. ListOK(confirmed) /\ OrderedTo(confirmed, k) /\ Keeps(others, confirmed)
    BY <2>3, ConfirmIs
  <2> HIDE DEF confirmed
  <2>5. Keeps(list, confirmed)
    BY <2>3, <2>4 DEF Keeps
  <2> QED
    BY <1>5, <1>6, <2>4, <2>5
<1>7. CASE Find(list, <<"user", s>>) = 0 /\ twin = 0
  <2>1. ReconcileAccepted(list, n, s) = list
    BY <1>5, <1>7
  <2> QED
    BY <2>1 DEF Keeps
<1>8. CASE Find(list, <<"user", s>>) = 0 /\ twin # 0
  <2> DEFINE row == [Received(list[twin], n) EXCEPT !.id = <<"user", s>>]
  <2>1. ReconcileAccepted(list, n, s) = renamed
    BY <1>5, <1>8
  <2>2. twin \in DOMAIN list /\ list[twin] \in Rows
    BY <1>1, <1>2, <1>8
  <2>3. /\ row \in Rows /\ row.id = <<"user", s>> /\ row.seq = NoSeq /\ row.of = n /\ row.client = n
        /\ row.optimistic = FALSE /\ row.unknown = FALSE
    <3> DEFINE was == Received(list[twin], n)
    <3>1. /\ was \in Rows /\ was.seq = NoSeq /\ was.of = n /\ was.client = n
          /\ was.optimistic = FALSE /\ was.unknown = FALSE
      BY <1>1, <1>3, <1>8, <2>2, ReceivedIs
    <3>2. row = [was EXCEPT !.id = <<"user", s>>] /\ <<"user", s>> \in Ids
      BY <1>1 DEF Ids
    <3> HIDE DEF was, row
    <3> QED
      BY <3>1, <3>2 DEF Rows
  <2>4. /\ renamed \in Seq(Rows) /\ Len(renamed) = Len(list) /\ DOMAIN renamed = DOMAIN list
        /\ renamed[twin] = row /\ \A i \in DOMAIN list : i # twin => renamed[i] = list[i]
    BY <1>1, <2>2, <2>3
  <2> HIDE DEF row, renamed
  <2>5. UserRow(row) /\ Provisional(row)
    BY <1>1, <2>3 DEF UserRow, Provisional, IsUser
  <2>6. \A i \in DOMAIN list : RowOK(renamed[i])
    BY <1>1, <2>4, <2>5 DEF RowOK
  <2>7. ASSUME NEW i \in DOMAIN list, NEW j \in DOMAIN list, i # j PROVE Apart(renamed[i], renamed[j])
    <3>1. Apart(list[i], list[j])
      BY <2>7 DEF ListOK
    <3>2. CASE i = twin
      BY <1>4, <1>8, <2>3, <2>4, <2>7, <3>2 DEF Apart
    <3>3. CASE j = twin
      <4>1. list[i].id # row.id
        BY <1>4, <1>8, <2>3
      <4>2. ASSUME list[i].optimistic, list[i].of = n PROVE FALSE
        <5>1. PendingRow(list[i])
          BY <1>1, <4>2, RowKind
        <5> QED
          BY <1>2, <1>8, <2>7, <3>1, <3>3, <4>2, <5>1 DEF PendingRow, Apart
      <4> QED
        BY <2>3, <2>4, <2>7, <3>3, <4>1, <4>2 DEF Apart
    <3>4. CASE i # twin /\ j # twin
      BY <2>4, <3>1, <3>4
    <3> QED
      BY <3>2, <3>3, <3>4
  <2>8. ListOK(renamed)
    BY <2>4, <2>6, <2>7 DEF ListOK
  <2>9. OrderedTo(renamed, k)
    BY <1>1, <1>3, <1>8, <2>3, <2>4, <2>5, OrderedChange
  <2>10. Keeps(list, renamed)
    BY <1>3, <1>8, <2>3, <2>4 DEF Keeps, Has, HasOf
  <2> QED
    BY <2>1, <2>8, <2>9, <2>10
<1> QED
  BY <1>6, <1>7, <1>8

\* What the page is given next.
Due(list, slot) ==
    /\ slot[1] \in channel
    /\ slot[1].seq # NoSeq => \A q \in FirstSeq..(slot[1].seq - 1) : Has(list, q)

LEMMA GivenIs ==
  ASSUME HostOK, NEW list, ListOK(list), NEW k, OrderedTo(list, k), NEW slot, Due(list, slot)
  PROVE  \E new : /\ new = Given(list, slot)
                  /\ ListOK(new) /\ (\E m : OrderedTo(new, m)) /\ Keeps(list, new)
                  /\ slot[1].seq # NoSeq => Has(new, slot[1].seq)
<1> DEFINE f == slot[1]
<1>1. f \in channel
  BY DEF Due
<1>2. Given(list, slot) = IF f.msg[1] = "accepted" THEN ReconcileAccepted(list, f.of, f.msg[2])
                          ELSE AppendUnique(list, Row(f.msg, f.seq, f.of))
  BY DEF Given
<1>3. CASE IsAccepted(f)
  <2>1. f.msg[1] = "accepted" /\ f.of # None /\ f.seq = NoSeq
    <3>1. f.of \in Sends
      BY <1>3 DEF IsAccepted, HostOK
    <3> QED
      BY <1>3, <3>1, ViewAssumption DEF IsAccepted, Sends, None
  <2> QED
    BY <1>1, <1>2, <2>1, ReceiptIs
<1>4. CASE IsEcho(f) \/ IsAssistant(f)
  <2>1. f.msg[1] # "accepted" /\ f.seq # NoSeq
    BY <1>1, <1>4, FrameIs, OrderAssumption DEF IsEcho, IsAssistant
  <2>2. \A q \in FirstSeq..(f.seq - 1) : Has(list, q)
    BY <2>1 DEF Due
  <2> QED
    BY <1>1, <1>2, <1>4, <2>1, <2>2, ContentIs
<1> QED
  BY <1>1, <1>3, <1>4, FrameIs

\* A delivery that has become doubtful changes no row but its mark.
LEMMA DoubtIs ==
  ASSUME HostOK, NEW list, ListOK(list), NEW k, OrderedTo(list, k),
         NEW new, new = [i \in DOMAIN list |-> new[i]], \A i \in DOMAIN list : new[i] = list[i] \/ new[i] = Doubt(list[i])
  PROVE  ListOK(new) /\ OrderedTo(new, k) /\ Keeps(list, new)
<1>1. /\ list \in Seq(Rows) /\ DOMAIN list = 1..Len(list) /\ Len(list) \in Nat /\ DOMAIN new = DOMAIN list
      /\ \A i \in DOMAIN list : list[i] \in Rows /\ RowOK(list[i])
  <2>1. DOMAIN new = DOMAIN list
    OBVIOUS
  <2> QED
    BY <2>1 DEF ListOK
<1>2. ASSUME NEW i \in DOMAIN list
      PROVE  /\ new[i] \in Rows /\ new[i].id = list[i].id /\ new[i].seq = list[i].seq /\ new[i].of = list[i].of
             /\ new[i].client = list[i].client /\ new[i].optimistic = list[i].optimistic
             /\ list[i].optimistic \/ new[i] = list[i]
  <2>1. list[i] \in Rows
    BY <1>1
  <2>2. /\ Doubt(list[i]) \in Rows /\ Doubt(list[i]).id = list[i].id /\ Doubt(list[i]).seq = list[i].seq
        /\ Doubt(list[i]).of = list[i].of /\ Doubt(list[i]).client = list[i].client
        /\ Doubt(list[i]).optimistic = list[i].optimistic /\ (list[i].optimistic \/ Doubt(list[i]) = list[i])
    <3>1. CASE list[i].optimistic
      BY <2>1, <3>1 DEF Doubt, Rows
    <3>2. CASE ~list[i].optimistic
      BY <2>1, <3>2 DEF Doubt
    <3> QED
      BY <3>1, <3>2
  <2>3. list[i].optimistic \in BOOLEAN
    BY <2>1 DEF Rows
  <2>4. CASE new[i] = list[i]
    BY <2>1, <2>4
  <2>5. CASE new[i] = Doubt(list[i])
    BY <2>2, <2>5
  <2> QED
    BY <2>4, <2>5
<1>3. new \in Seq(Rows) /\ Len(new) = Len(list)
  <2>1. new \in [1..Len(list) -> Rows]
    BY <1>1, <1>2
  <2> QED
    BY <1>1, <2>1
<1>4. ASSUME NEW i \in DOMAIN list PROVE RowOK(new[i])
  <2>1. CASE list[i].optimistic
    <3>1. PendingRow(list[i])
      BY <1>1, <2>1, RowKind
    <3>2. PendingRow(new[i])
      BY <1>2, <2>1, <3>1 DEF PendingRow
    <3> QED
      BY <3>2 DEF RowOK
  <2>2. CASE ~list[i].optimistic
    BY <1>1, <1>2, <2>2
  <2> QED
    BY <2>1, <2>2
<1>5. \A i, j \in DOMAIN list : i # j => Apart(new[i], new[j])
  BY <1>2 DEF ListOK, Apart
<1>6. ListOK(new)
  BY <1>1, <1>3, <1>4, <1>5, ListChange
<1>7. OrderedTo(new, k)
  <2>1. \A i \in DOMAIN list : Provisional(list[i]) => Provisional(new[i])
    BY <1>2 DEF Provisional, IsUser
  <2> QED
    BY <1>1, <1>2, <1>3, <2>1, OrderedChange
<1>8. Keeps(list, new)
  BY <1>1, <1>2 DEF Keeps, Has, HasOf
<1> QED
  BY <1>6, <1>7, <1>8

-----------------------------------------------------------------------------
(* The rows of the page                                                    *)

RowsInv == RowsOK /\ RowsOrdered

LEMMA RowsAre ==
  /\ RowsInv <=> /\ ListOK(rows) /\ \E k : OrderedTo(rows, k)
                 /\ \A n \in Sends : SentHere(n) => HasOf(rows, n)
  /\ \A k : OrderedTo(rows, k) => k \in 0..Len(rows)
<1>1. RowsOrdered <=> \E k : OrderedTo(rows, k)
  BY DEF RowsOrdered, OrderedTo
<1>2. \A n \in Sends : RowsOf(n) # {} <=> HasOf(rows, n)
  BY DEF RowsOf, HasOf
<1> QED
  BY <1>1, <1>2 DEF RowsInv, RowsOK, OrderedTo

\* What is known of a list stays true when the channel and the sends grow.
LEMMA RowsGrow ==
  ASSUME NEW new, ListApart(new), \A j \in DOMAIN new : RowOK(new[j]) \/ RowOK(new[j])',
         NEW k, OrderedTo(new, k), rows' = new, channel \subseteq channel',
         \A n \in Sends : sent[n] # NoSend => sent'[n] # NoSend,
         \A n \in Sends : SentHere(n)' => HasOf(new, n)
  PROVE  RowsInv'
<1>1. \A row : RowOK(row) => RowOK(row)'
  BY DEF RowOK, PendingRow, UserRow, AssistantRow
<1>2. ListOK(rows)'
  BY <1>1 DEF ListOK, ListApart
<1>3. OrderedTo(rows', k)
  OBVIOUS
<1>4. RowsOrdered'
  BY <1>3 DEF RowsOrdered, OrderedTo
<1>5. \A n \in Sends : SentHere(n)' => RowsOf(n)' # {}
  BY DEF RowsOf, HasOf
<1> QED
  BY <1>2, <1>4, <1>5 DEF RowsInv, RowsOK

\* A step that hands the page a list that keeps what it had.
LEMMA RowsStep ==
  ASSUME RowsInv, NEW new, rows' = new, ListOK(new), NEW k, OrderedTo(new, k), Keeps(rows, new), channel \subseteq channel',
         sent' = sent, mount' = mount
  PROVE  RowsInv'
<1>1. \A n \in Sends : SentHere(n)' => HasOf(new, n)
  <2>1. \A n \in Sends : SentHere(n)' => SentHere(n)
    BY DEF SentHere
  <2> QED
    BY <2>1, RowsAre DEF Keeps
<1>2. ListApart(new) /\ \A j \in DOMAIN new : RowOK(new[j])
  BY DEF ListOK, ListApart
<1> QED
  BY <1>1, <1>2, RowsGrow

LEMMA SameRows ==
  ASSUME RowsInv, rows' = rows, channel \subseteq channel', sent' = sent, mount' = mount PROVE RowsInv'
<1>1. PICK new : new = rows
  OBVIOUS
<1>2. PICK k : OrderedTo(new, k)
  BY <1>1, RowsAre
<1>3. ListOK(new) /\ Keeps(rows, new)
  BY <1>1, RowsAre DEF Keeps
<1> QED
  BY <1>1, <1>2, <1>3, RowsStep

\* The bubble of a message that leaves the composer.
LEMMA CommitRows ==
  ASSUME HostOK, RowsInv, mount \in Nat, mount # 0, DraftTypeOK, NEW was \in Message, Commit(was), UNCHANGED <<channel, mount>>
  PROVE  RowsInv' /\ \A q \in Nat : Has(rows, q) => Has(rows, q)'
<1>1. PICK n \in Sends : /\ sent[n] = NoSend /\ sent' = [sent EXCEPT ![n] = [was EXCEPT !.mount = mount]]
                         /\ rows' = AppendUnique(rows, Optimistic(n))
  BY CommitIs
<1> DEFINE row == Optimistic(n)
<1>2. n \in Nat /\ n # None
  BY ViewAssumption DEF Sends, None
<1>3. /\ row \in Rows /\ row.id = <<"pending", n>> /\ row.seq = NoSeq /\ row.of = n /\ row.client = n /\ row.optimistic = TRUE
  BY <1>2 DEF Optimistic, Row, Rows, Ids, None
<1>4. PICK k : OrderedTo(rows, k)
  BY RowsAre
<1>5. rows \in Seq(Rows) /\ ListOK(rows) /\ \A j \in DOMAIN rows : rows[j] \in Rows /\ RowOK(rows[j])
  BY RowsAre DEF ListOK
<1>6. ASSUME NEW j \in DOMAIN rows, rows[j].of = n PROVE FALSE
  <2>1. CASE PendingRow(rows[j])
    BY <1>1, <1>6, <2>1 DEF PendingRow
  <2>2. CASE UserRow(rows[j])
    <3>1. n \in accepted
      BY <1>6, <2>2, FrameIs DEF UserRow
    <3> QED
      BY <1>1, <3>1 DEF HostOK
  <2>3. CASE AssistantRow(rows[j])
    BY <1>2, <1>6, <2>3 DEF AssistantRow
  <2> QED
    BY <1>5, <2>1, <2>2, <2>3 DEF RowOK
<1>7. \A j \in DOMAIN rows : rows[j].id # row.id
  <2> SUFFICES ASSUME NEW j \in DOMAIN rows, rows[j].id = row.id PROVE FALSE
    OBVIOUS
  <2>1. PendingRow(rows[j]) /\ rows[j].of = n
    BY <1>3, <1>5, RowKind DEF PendingRow
  <2> QED
    BY <1>6, <2>1
<1>8. rows' = Insert(rows, row)
  <2>1. Find(rows, row.id) = 0
    BY <1>5, <1>7, FindIs
  <2> QED
    BY <1>1, <2>1 DEF AppendUnique
<1> HIDE DEF row
<1>9. PICK new : new = rows'
  OBVIOUS
<1>10. PICK p : IsInserted(rows, row, new, p)
  BY <1>3, <1>5, <1>8, <1>9, InsertIs
<1>11. Provisional(row)
  BY <1>2, <1>3 DEF Provisional, IsUser
<1>12. OrderedTo(new, k)
  BY <1>4, <1>5, <1>10, <1>11, OrderedInsert
<1>13. sent' \in [Sends -> Message] /\ sent'[n] # NoSend /\ \A m \in Sends : m # n => sent'[m] = sent[m]
  BY <1>1 DEF DraftTypeOK, Message, NoSend
<1>14. \A m \in Sends : sent[m] # NoSend => sent'[m] # NoSend
  BY <1>1, <1>13
<1>15. \A j \in DOMAIN rows : BothApart(row, rows[j])
  BY <1>3, <1>6, <1>7 DEF BothApart, Apart
<1>16. /\ ListApart(new)
       /\ \A j \in DOMAIN new : new[j] = row \/ \E h \in DOMAIN rows : new[j] = rows[h]
       /\ \A h \in DOMAIN rows : \E j \in DOMAIN new : new[j] = rows[h]
       /\ \E j \in DOMAIN new : new[j] = row
  <2>1. ListApart(rows)
    BY <1>5 DEF ListOK, ListApart
  <2> QED
    BY <1>10, <1>15, <2>1, ApartInsert
<1>17. ASSUME NEW j \in DOMAIN new PROVE RowOK(new[j]) \/ RowOK(new[j])'
  <2>1. CASE new[j] = row
    <3> DEFINE r == new[j]
    <3>1. r.of \in Sends /\ sent'[r.of] # NoSend
      BY <1>3, <1>13, <2>1
    <3>2. PendingRow(new[j])'
      BY <1>3, <2>1, <3>1 DEF PendingRow
    <3> QED
      BY <3>2 DEF RowOK
  <2>2. CASE new[j] # row
    BY <1>5, <1>16, <2>2
  <2> QED
    BY <2>1, <2>2
<1>18. ASSUME NEW m \in Sends, SentHere(m)' PROVE HasOf(new, m)
  <2>1. CASE m = n
    BY <1>3, <1>16, <2>1 DEF HasOf
  <2>2. CASE m # n
    <3>1. SentHere(m)
      BY <1>13, <1>18, <2>2 DEF SentHere
    <3> QED
      BY <1>16, <3>1, RowsAre DEF HasOf
  <2> QED
    BY <2>1, <2>2
<1>19. RowsInv'
  BY <1>9, <1>12, <1>14, <1>16, <1>17, <1>18, RowsGrow
<1>20. \A q \in Nat : Has(rows, q) => Has(rows, q)'
  BY <1>9, <1>16 DEF Has
<1> QED
  BY <1>19, <1>20

-----------------------------------------------------------------------------
(* What the orderer has released                                           *)

\* Gapless of any slots over any channel and any list.
GaplessIn(ch, list, slots) ==
    /\ slots \in Seq(ToSet(slots))
    /\ \A i \in DOMAIN slots :
         /\ slots[i][1] \in ch
         /\ slots[i][1].seq # NoSeq =>
              \A q \in FirstSeq..(slots[i][1].seq - 1) : Has(list, q) \/ \E j \in 1..(i - 1) : slots[j][1].seq = q

LEMMA GaplessIs == \A slots : Gapless(slots) <=> GaplessIn(channel, rows, slots)
  BY DEF Gapless, GaplessIn

LEMMA SeqOfItself == ASSUME NEW S, NEW slots \in Seq(S) PROVE slots \in Seq(ToSet(slots))
<1>1. slots \in [1..Len(slots) -> ToSet(slots)] /\ Len(slots) \in Nat
  BY DEF ToSet
<1> QED
  BY <1>1

LEMMA GaplessGrows ==
  ASSUME NEW ch, NEW list, NEW slots, GaplessIn(ch, list, slots), NEW more, ch \subseteq more,
         NEW new, \A q \in Nat : Has(list, q) => Has(new, q)
  PROVE  GaplessIn(more, new, slots)
<1>1. \A s : \A q \in FirstSeq..(s - 1) : q \in Nat
  BY OrderAssumption
<1>2. ASSUME NEW i \in DOMAIN slots, slots[i][1].seq # NoSeq, NEW q \in FirstSeq..(slots[i][1].seq - 1)
      PROVE  Has(new, q) \/ \E j \in 1..(i - 1) : slots[j][1].seq = q
  BY <1>1, <1>2 DEF GaplessIn
<1> QED
  BY <1>2 DEF GaplessIn

LEMMA GaplessTail ==
  ASSUME NEW ch, NEW list, NEW slots, GaplessIn(ch, list, slots), slots # <<>>,
         NEW new, \A q \in Nat : Has(list, q) => Has(new, q),
         slots[1][1].seq # NoSeq => Has(new, slots[1][1].seq)
  PROVE  GaplessIn(ch, new, Tail(slots))
<1> DEFINE rest == Tail(slots)
           n == Len(slots)
<1>1. /\ slots \in Seq(ToSet(slots)) /\ n \in Nat /\ n >= 1 /\ DOMAIN slots = 1..n
      /\ rest \in Seq(ToSet(slots)) /\ DOMAIN rest = 1..(n - 1) /\ \A i \in 1..(n - 1) : rest[i] = slots[i + 1]
  BY DEF GaplessIn
<1>2. rest \in Seq(ToSet(rest))
  BY <1>1, SeqOfItself
<1> HIDE DEF rest, n
<1>3. GaplessIn(ch, new, slots)
  BY GaplessGrows
<1>4. ASSUME NEW i \in DOMAIN rest, rest[i][1].seq # NoSeq, NEW q \in FirstSeq..(rest[i][1].seq - 1)
      PROVE  Has(new, q) \/ \E j \in 1..(i - 1) : rest[j][1].seq = q
  <2>1. i + 1 \in DOMAIN slots /\ rest[i] = slots[i + 1] /\ i \in Nat
    BY <1>1
  <2>2. Has(new, q) \/ \E j \in 1..((i + 1) - 1) : slots[j][1].seq = q
    BY <1>3, <1>4, <2>1 DEF GaplessIn
  <2>3. ASSUME NEW j \in 1..((i + 1) - 1), slots[j][1].seq = q
        PROVE  Has(new, q) \/ \E h \in 1..(i - 1) : rest[h][1].seq = q
    <3>1. CASE j = 1
      <4>1. q # NoSeq
        BY OrderAssumption
      <4> QED
        BY <2>3, <3>1, <4>1
    <3>2. CASE j # 1
      <4> DEFINE h == j - 1
      <4>1. h \in 1..(i - 1) /\ h \in 1..(n - 1) /\ h + 1 = j
        BY <1>1, <2>1, <3>2
      <4> HIDE DEF h
      <4>2. rest[h] = slots[j]
        BY <1>1, <4>1
      <4> QED
        BY <2>3, <4>1, <4>2
    <3> QED
      BY <3>1, <3>2
  <2> QED
    BY <2>2, <2>3
<1>5. \A i \in DOMAIN rest : rest[i][1] \in ch
  <2> SUFFICES ASSUME NEW i \in DOMAIN rest PROVE rest[i][1] \in ch
    OBVIOUS
  <2>1. i + 1 \in DOMAIN slots /\ rest[i] = slots[i + 1]
    BY <1>1
  <2> QED
    BY <2>1 DEF GaplessIn
<1>6. GaplessIn(ch, new, rest)
  BY <1>2, <1>4, <1>5 DEF GaplessIn
<1> QED
  BY <1>6 DEF rest

\* The first slot is due.
LEMMA HeadIsDue ==
  ASSUME NEW slots, Gapless(slots), slots # <<>> PROVE Due(rows, slots[1])
<1>1. 1 \in DOMAIN slots /\ 1 - 1 = 0
  BY DEF Gapless
<1>2. ASSUME slots[1][1].seq # NoSeq, NEW q \in FirstSeq..(slots[1][1].seq - 1) PROVE Has(rows, q)
  <2>1. Has(rows, q) \/ \E j \in 1..(1 - 1) : slots[j][1].seq = q
    BY <1>1, <1>2 DEF Gapless
  <2> QED
    BY <2>1
<1> QED
  BY <1>1, <1>2 DEF Gapless, Due

\* What has been released or is on its way reaches up to the cursor.
Covered(list, slots, next) ==
    \A q \in FirstSeq..(next - 1) : Has(list, q) \/ \E j \in DOMAIN slots : slots[j][1].seq = q
OrdererTyped ==
    /\ nextSeq \in Nat /\ nextSeq >= FirstSeq
    /\ buffered \in [Seqs -> Seq(channel)]
    /\ \A q \in Seqs : \A i \in DOMAIN buffered[q] : buffered[q][i].seq = q
    /\ out \in Seq(ToSet(out))

LEMMA OrdererIs ==
  /\ OrdererOK <=> /\ OrdererTyped /\ Covered(rows, ready, nextSeq)
                   /\ GaplessIn(channel, rows, ready) /\ GaplessIn(channel, rows, late)
  /\ OrdererOK' <=> /\ OrdererTyped' /\ Covered(rows', ready', nextSeq')
                    /\ GaplessIn(channel', rows', ready') /\ GaplessIn(channel', rows', late')
<1>2. Gapless(ready)' <=> GaplessIn(channel', rows', ready')
  BY DEF Gapless, GaplessIn, Has
<1>3. Gapless(late)' <=> GaplessIn(channel', rows', late')
  BY DEF Gapless, GaplessIn, Has
<1>4. OrdererOK' <=> /\ OrdererTyped' /\ Covered(rows', ready', nextSeq')
                     /\ GaplessIn(channel', rows', ready') /\ GaplessIn(channel', rows', late')
  BY <1>2, <1>3 DEF OrdererOK, OrdererTyped, Covered, Has
<1>5. OrdererOK <=> /\ OrdererTyped /\ Covered(rows, ready, nextSeq)
                    /\ GaplessIn(channel, rows, ready) /\ GaplessIn(channel, rows, late)
  BY GaplessIs DEF OrdererOK, OrdererTyped, Covered
<1> QED
  BY <1>4, <1>5

LEMMA TypedGrows ==
  ASSUME OrdererTyped, channel \subseteq channel', UNCHANGED <<nextSeq, buffered, out>> PROVE OrdererTyped'
<1>1. Seq(channel) \subseteq Seq(channel')
  OBVIOUS
<1>2. buffered' \in [Seqs -> Seq(channel')]
  BY <1>1 DEF OrdererTyped
<1> QED
  BY <1>2 DEF OrdererTyped

\* The orderer is as it was, the page has no less.
LEMMA OrdererKeeps ==
  ASSUME OrdererOK, channel \subseteq channel', UNCHANGED <<nextSeq, buffered, out, ready, late>>,
         \A q \in Nat : Has(rows, q) => Has(rows, q)'
  PROVE  OrdererOK'
<1>1. PICK new : new = rows'
  OBVIOUS
<1>2. PICK more : more = channel'
  OBVIOUS
<1>3. \A q \in Nat : Has(rows, q) => Has(new, q)
  BY <1>1 DEF Has
<1>4. GaplessIn(more, new, ready) /\ GaplessIn(more, new, late)
  BY <1>2, <1>3, OrdererIs, GaplessGrows
<1>5. Covered(new, ready, nextSeq)
  <2>1. \A q \in FirstSeq..(nextSeq - 1) : q \in Nat
    BY OrderAssumption
  <2> QED
    BY <1>3, <2>1, OrdererIs DEF Covered
<1>6. OrdererTyped'
  BY OrdererIs, TypedGrows
<1>7. Covered(rows', ready', nextSeq') /\ GaplessIn(channel', rows', ready') /\ GaplessIn(channel', rows', late')
  BY <1>1, <1>2, <1>4, <1>5
<1> QED
  BY <1>6, <1>7, OrdererIs

\* The page is given one slot.
LEMMA OrdererYields ==
  ASSUME OrdererOK, UNCHANGED <<channel, nextSeq, buffered, out>>, NEW slots,
         \/ slots = ready /\ ready' = Tail(slots) /\ late' = late
         \/ slots = late /\ late' = Tail(slots) /\ ready' = ready,
         slots # <<>>, NEW new, rows' = new, \A q \in Nat : Has(rows, q) => Has(new, q),
         slots[1][1].seq # NoSeq => Has(new, slots[1][1].seq)
  PROVE  OrdererOK'
<1>1. OrdererTyped'
  BY OrdererIs, TypedGrows
<1>2. GaplessIn(channel, rows, slots)
  BY OrdererIs
<1>3. GaplessIn(channel, new, Tail(slots))
  BY <1>2, GaplessTail
<1>4. GaplessIn(channel, new, ready) /\ GaplessIn(channel, new, late)
  BY OrdererIs, GaplessGrows
<1>5. \A q \in FirstSeq..(nextSeq - 1) : q \in Nat /\ q # NoSeq
  BY OrderAssumption
<1>6. Covered(new, ready', nextSeq)
  <2>1. CASE slots = ready /\ ready' = Tail(slots)
    <3> SUFFICES ASSUME NEW q \in FirstSeq..(nextSeq - 1), ~Has(new, q)
                 PROVE  \E j \in DOMAIN ready' : ready'[j][1].seq = q
      BY DEF Covered
    <3>1. PICK j \in DOMAIN slots : slots[j][1].seq = q
      BY <1>5, <2>1, OrdererIs DEF Covered
    <3>2. j # 1
      BY <1>5, <3>1
    <3>3. /\ slots \in Seq(ToSet(slots)) /\ DOMAIN slots = 1..Len(slots) /\ Len(slots) \in Nat
          /\ DOMAIN Tail(slots) = 1..(Len(slots) - 1)
          /\ \A i \in 1..(Len(slots) - 1) : Tail(slots)[i] = slots[i + 1]
      BY <1>2 DEF GaplessIn
    <3> DEFINE h == j - 1
    <3>4. h \in 1..(Len(slots) - 1) /\ h + 1 = j
      BY <3>1, <3>2, <3>3
    <3> HIDE DEF h
    <3>5. h \in DOMAIN ready' /\ ready'[h] = slots[j]
      BY <2>1, <3>3, <3>4
    <3> QED
      BY <3>1, <3>5
  <2>2. CASE ready' = ready
    BY <1>5, <2>2, OrdererIs DEF Covered
  <2> QED
    BY <2>1, <2>2
<1> QED
  BY <1>1, <1>3, <1>4, <1>6, OrdererIs

\* A new orderer, whose predecessor's slots may still come.
LEMMA OrdererRenewed ==
  ASSUME OrdererOK, NewOrderer, channel' = channel, ready' = <<>>, NEW new, rows' = new,
         \/ late' = ready /\ new = rows
         \/ late' = <<>>
  PROVE  OrdererOK'
<1>1. OrdererTyped'
  <2>1. nextSeq' \in Nat /\ nextSeq' >= FirstSeq
    BY OrderAssumption DEF NewOrderer
  <2>2. <<>> \in Seq(channel) /\ <<>> \in Seq(ToSet(<<>>))
    OBVIOUS
  <2>3. \A q \in Seqs : buffered'[q] = <<>>
    BY DEF NewOrderer
  <2> QED
    BY <2>1, <2>2, <2>3 DEF NewOrderer, OrdererTyped
<1>2. \A list : GaplessIn(channel, list, <<>>)
  <2>1. <<>> \in Seq(ToSet(<<>>)) /\ DOMAIN <<>> = {}
    OBVIOUS
  <2> QED
    BY <2>1 DEF GaplessIn
<1>3. Covered(new, <<>>, nextSeq')
  <2>1. FirstSeq..(FirstSeq - 1) = {}
    BY OrderAssumption
  <2> QED
    BY <2>1 DEF NewOrderer, Covered
<1> QED
  BY <1>1, <1>2, <1>3, OrdererIs

\* The first of a slot's parts comes first.
LEMMA FirstPart ==
  ASSUME NEW slot \in Seq(channel), slot # <<>>, HostOK
  PROVE  /\ InPartOrder(slot)[1] \in {slot[i] : i \in DOMAIN slot}
         /\ InPartOrder(slot)[1] \in channel
<1> DEFINE frames == {slot[i] : i \in DOMAIN slot}
           Before(f) == {g \in frames : g.part < f.part}
           parts == {f.part : f \in frames}
<1>1. frames \subseteq channel /\ frames # {} /\ 1 \in DOMAIN slot
  OBVIOUS
<1>2. \A f \in frames : f.part \in Nat
  BY <1>1, FrameIs
<1> HIDE DEF frames
<1>3. parts \in SUBSET Nat /\ parts # {}
  BY <1>1, <1>2
<1>4. PICK least \in parts : \A p \in parts : least <= p
  BY <1>3, LeastNatural
<1>5. PICK f \in frames : f.part = least
  BY <1>4
<1>6. Before(f) = {}
  <2> SUFFICES ASSUME NEW g \in frames, g.part < f.part PROVE FALSE
    OBVIOUS
  <2>1. g.part \in parts /\ g.part \in Nat /\ f.part \in Nat
    BY <1>2, <1>5
  <2>2. f.part <= g.part
    BY <1>4, <1>5, <2>1
  <2> QED
    BY <2>1, <2>2
<1>7. Cardinality(Before(f)) = 1 - 1
  <2>1. Cardinality({}) = 0
    BY FS_EmptySet
  <2>2. 0 = 1 - 1
    OBVIOUS
  <2> QED
    BY <1>6, <2>1, <2>2
<1> HIDE DEF Before
<1>8. (CHOOSE g \in frames : Cardinality(Before(g)) = 1 - 1) \in frames
  BY <1>5, <1>7, Zenon
<1>9. InPartOrder(slot)[1] = CHOOSE g \in frames : Cardinality(Before(g)) = 1 - 1
  BY <1>1 DEF InPartOrder, frames, Before
<1>10. InPartOrder(slot)[1] \in frames
  BY <1>8, <1>9
<1> QED
  BY <1>1, <1>10 DEF frames

\* Slots released from the cursor on: one for each seq, each of frames of that seq.
LEMMA ReleasedIs ==
  ASSUME HostOK, NEW list, NEW n \in Nat, nextSeq \in Nat, nextSeq >= FirstSeq, n >= nextSeq,
         NEW slots, NEW b, slots = [k \in 1..(n - nextSeq) |-> InPartOrder(b[nextSeq + k - 1])],
         \A q \in nextSeq..(n - 1) : b[q] \in Seq(channel) /\ b[q] # <<>> /\ \A i \in DOMAIN b[q] : b[q][i].seq = q,
         Covered(list, <<>>, nextSeq)
  PROVE  slots \in Seq(ToSet(slots)) /\ GaplessIn(channel, list, slots) /\ Covered(list, slots, n)
<1> DEFINE m == n - nextSeq
<1>1. m \in Nat /\ DOMAIN slots = 1..m /\ \A k \in 1..m : slots[k] = InPartOrder(b[nextSeq + k - 1])
  OBVIOUS
<1>2. ASSUME NEW k \in 1..m PROVE slots[k][1] \in channel /\ slots[k][1].seq = nextSeq + k - 1
  <2> DEFINE q == nextSeq + k - 1
             slot == b[q]
  <2>1. q \in nextSeq..(n - 1) /\ slots[k] = InPartOrder(slot)
    BY <1>1
  <2>2. slot \in Seq(channel) /\ slot # <<>> /\ \A i \in DOMAIN slot : slot[i].seq = q
    BY <2>1
  <2> HIDE DEF slot, q
  <2>3. InPartOrder(slot)[1] \in {slot[i] : i \in DOMAIN slot} /\ InPartOrder(slot)[1] \in channel
    BY <2>2, FirstPart
  <2>4. InPartOrder(slot)[1].seq = q
    BY <2>2, <2>3
  <2> QED
    BY <2>1, <2>3, <2>4 DEF q
<1>3. slots \in Seq(ToSet(slots))
  <2>1. slots = [k \in 1..m |-> slots[k]] /\ \A k \in 1..m : slots[k] \in ToSet(slots)
    BY <1>1 DEF ToSet
  <2>2. slots \in [1..m -> ToSet(slots)]
    BY <2>1
  <2> QED
    BY <1>1, <2>2
<1> HIDE DEF m
<1>4. \A q \in FirstSeq..(nextSeq - 1) : Has(list, q)
  BY DEF Covered
<1>5. ASSUME NEW q \in nextSeq..(n - 1) PROVE \E k \in 1..m : slots[k][1].seq = q /\ k = q - nextSeq + 1
  <2> DEFINE k == q - nextSeq + 1
  <2>1. k \in 1..m /\ nextSeq + k - 1 = q
    BY DEF m
  <2> HIDE DEF k
  <2>2. slots[k][1].seq = q /\ k = q - nextSeq + 1
    BY <1>2, <2>1 DEF k
  <2> QED
    BY <2>1, <2>2
<1>6. GaplessIn(channel, list, slots)
  <2>1. ASSUME NEW i \in DOMAIN slots, NEW q \in FirstSeq..(slots[i][1].seq - 1)
        PROVE  Has(list, q) \/ \E j \in 1..(i - 1) : slots[j][1].seq = q
    <3>1. i \in 1..m /\ slots[i][1].seq = nextSeq + i - 1
      BY <1>1, <1>2
    <3>2. CASE q < nextSeq
      BY <1>4, <3>2, OrderAssumption
    <3>3. CASE ~(q < nextSeq)
      <4>1. q \in nextSeq..(n - 1)
        BY <1>1, <3>1, <3>3, OrderAssumption DEF m
      <4>2. PICK k \in 1..m : slots[k][1].seq = q /\ k = q - nextSeq + 1
        BY <1>5, <4>1
      <4>3. k \in 1..(i - 1)
        BY <1>1, <3>1, <4>1, <4>2
      <4> QED
        BY <4>2, <4>3
    <3> QED
      BY <3>2, <3>3
  <2> QED
    BY <1>1, <1>2, <1>3, <2>1 DEF GaplessIn
<1>7. Covered(list, slots, n)
  <2> SUFFICES ASSUME NEW q \in FirstSeq..(n - 1) PROVE Has(list, q) \/ \E j \in DOMAIN slots : slots[j][1].seq = q
    BY DEF Covered
  <2>1. CASE q < nextSeq
    BY <1>4, <2>1, OrderAssumption
  <2>2. CASE ~(q < nextSeq)
    <3>1. q \in nextSeq..(n - 1)
      BY <2>2, OrderAssumption
    <3> QED
      BY <1>1, <1>5, <3>1
  <2> QED
    BY <2>1, <2>2
<1> QED
  BY <1>3, <1>6, <1>7

\* What is added to a list is what lies behind it.
LEMMA Added ==
  ASSUME NEW A, NEW B, NEW a \in Seq(A), NEW b \in Seq(B)
  PROVE  /\ (a \o b) \in Seq(ToSet(a \o b))
         /\ SubSeq(a \o b, Len(a) + 1, Len(a \o b)) = b
<1> DEFINE S == A \union B
           c == a \o b
           n == Len(a)
           m == Len(b)
           t == SubSeq(c, n + 1, n + m)
<1>1. a \in Seq(S) /\ b \in Seq(S)
  OBVIOUS
<1> HIDE DEF S
<1>2. c \in Seq(S) /\ Len(c) = n + m /\ n \in Nat /\ m \in Nat /\ \A j \in 1..m : c[n + j] = b[j]
  BY <1>1
<1>3. c \in Seq(ToSet(c))
  BY <1>2, SeqOfItself
<1> HIDE DEF c
<1>4. t \in Seq(S) /\ Len(t) = m /\ \A j \in 1..m : t[j] = b[j]
  <2>1. t \in Seq(S)
    BY <1>2
  <2>2. Len(t) = m
    BY <1>2
  <2>3. ASSUME NEW j \in 1..m PROVE t[j] = b[j]
    <3>1. n + 1 + j - 1 = n + j
      BY <1>2
    <3>2. t[j] = c[n + j]
      BY <1>2, <3>1
    <3> QED
      BY <1>2, <3>2
  <2> QED
    BY <2>1, <2>2, <2>3
<1> HIDE DEF t
<1>5. t = b
  BY <1>1, <1>4
<1> QED
  BY <1>2, <1>3, <1>5 DEF c, t

LEMMA OrdererTakes ==
  ASSUME HostOK, OrdererOK, NEW f \in Frames, Take(f)
  PROVE  OrdererOK'
<1>1. /\ ready = <<>> /\ f \in channel /\ channel' = channel /\ rows' = rows /\ late' = late
      /\ ready' = IF f.seq = NoSeq /\ ~InWindow(f) THEN <<<<f>>>> ELSE SubSeq(out', Len(out) + 1, Len(out'))
      /\ Duplicate(f) \/ PassOrDrop(f) \/ Accept(f)
  BY DEF Take, Receive, Duplicate, PassOrDrop, Accept, vars
<1>2. /\ nextSeq \in Nat /\ nextSeq >= FirstSeq /\ buffered \in [Seqs -> Seq(channel)]
      /\ \A q \in Seqs : \A i \in DOMAIN buffered[q] : buffered[q][i].seq = q
      /\ out \in Seq(ToSet(out)) /\ Covered(rows, <<>>, nextSeq)
      /\ GaplessIn(channel, rows, late)
  BY <1>1, OrdererIs DEF OrdererTyped
<1>3. CASE Duplicate(f) \/ PassOrDrop(f)
  <2>1. UNCHANGED <<channel, nextSeq, buffered, out>>
    BY <1>3 DEF Duplicate, PassOrDrop, vars
  <2>2. OrdererTyped'
    BY <2>1, OrdererIs, TypedGrows
  <2>3. CASE f.seq = NoSeq /\ ~InWindow(f)
    <3>1. ready' = <<<<f>>>>
      BY <1>1, <2>3
    <3>2. /\ <<<<f>>>> \in Seq(ToSet(<<<<f>>>>)) /\ DOMAIN <<<<f>>>> = {1} /\ <<<<f>>>>[1][1] = f
      BY SeqOfItself DEF ToSet
    <3>3. GaplessIn(channel, rows, <<<<f>>>>)
      BY <1>1, <2>3, <3>2 DEF GaplessIn
    <3>4. Covered(rows, <<<<f>>>>, nextSeq)
      BY <1>2 DEF Covered
    <3> QED
      BY <1>1, <1>2, <2>1, <2>2, <3>1, <3>3, <3>4, OrdererIs
  <2>4. CASE ~(f.seq = NoSeq /\ ~InWindow(f))
    <3>1. ready' = <<>>
      BY <1>1, <1>2, <2>1, <2>4
    <3> QED
      BY <1>1, <1>2, <2>1, <2>2, <3>1, OrdererIs
  <2> QED
    BY <2>3, <2>4
<1>4. CASE Accept(f)
  <2> DEFINE b == [buffered EXCEPT ![f.seq] = Append(@, f)]
             full == {q \in Seqs : Complete(b[q])}
  <2>1. PICK n \in nextSeq..(nextSeq + Cardinality(Seqs)) :
             /\ n \notin full /\ nextSeq..(n - 1) \subseteq full
             /\ nextSeq' = n
             /\ buffered' = [q \in Seqs |-> IF q >= nextSeq /\ q < n THEN <<>> ELSE b[q]]
             /\ out' = out \o [k \in 1..(n - nextSeq) |-> InPartOrder(b[nextSeq + k - 1])]
    BY <1>4 DEF Accept
  <2> DEFINE slots == [k \in 1..(n - nextSeq) |-> InPartOrder(b[nextSeq + k - 1])]
  <2>2. f.seq \in Seqs
    BY <1>4 DEF Accept, Placeable, Late, Seqs
  <2>3. \A q \in Seqs : b[q] \in Seq(channel) /\ \A i \in DOMAIN b[q] : b[q][i].seq = q
    <3> SUFFICES ASSUME NEW q \in Seqs PROVE b[q] \in Seq(channel) /\ \A i \in DOMAIN b[q] : b[q][i].seq = q
      OBVIOUS
    <3>1. CASE q = f.seq
      <4>1. b[q] = Append(buffered[q], f)
        BY <1>2, <3>1
      <4> QED
        BY <1>1, <1>2, <3>1, <4>1
    <3>2. CASE q # f.seq
      BY <1>2, <3>2
    <3> QED
      BY <3>1, <3>2
  <2> HIDE DEF b
  <2>4. n \in Nat /\ n >= nextSeq
    BY <1>2, <2>1
  <2>5. \A q \in nextSeq..(n - 1) : q \in Seqs /\ b[q] # <<>>
    BY <2>1 DEF Complete
  <2>6. slots \in Seq(ToSet(slots)) /\ GaplessIn(channel, rows, slots) /\ Covered(rows, slots, n)
    BY <1>2, <2>3, <2>4, <2>5, ReleasedIs
  <2> HIDE DEF slots
  <2>7. out' = out \o slots
    BY <2>1 DEF slots
  <2>8. out' \in Seq(ToSet(out')) /\ SubSeq(out', Len(out) + 1, Len(out')) = slots
    BY <1>2, <2>6, <2>7, Added
  <2>9. ready' = slots
    <3>1. f.seq # NoSeq
      BY <2>2 DEF Seqs
    <3> QED
      BY <1>1, <2>8, <3>1
  <2>10. OrdererTyped'
    <3>1. \A q \in Seqs : buffered'[q] \in Seq(channel) /\ \A i \in DOMAIN buffered'[q] : buffered'[q][i].seq = q
      BY <2>1, <2>3
    <3>2. buffered' \in [Seqs -> Seq(channel)]
      BY <2>1, <3>1
    <3>3. n >= FirstSeq
      BY <1>2, <2>4, OrderAssumption
    <3> QED
      BY <1>1, <2>1, <2>4, <2>8, <3>1, <3>2, <3>3 DEF OrdererTyped
  <2> QED
    BY <1>1, <1>2, <2>1, <2>6, <2>9, <2>10, OrdererIs
<1> QED
  BY <1>1, <1>3, <1>4

-----------------------------------------------------------------------------
(* The host and the mounts                                                 *)

LEMMA CommitSends ==
  ASSUME DraftTypeOK, mount \in Nat, mount # 0, NEW was \in Message, Commit(was)
  PROVE  \E n \in Sends : /\ sent[n] = NoSend /\ wire' = wire \union {n}
                          /\ sent' \in [Sends -> Message] /\ sent'[n] # NoSend /\ sent'[n].mount = mount
                          /\ \A m \in Sends : m # n => sent'[m] = sent[m]
<1>1. PICK n \in Sends : /\ sent[n] = NoSend /\ sent' = [sent EXCEPT ![n] = [was EXCEPT !.mount = mount]]
                         /\ wire' = wire \union {n}
  BY CommitIs
<1> DEFINE mine == [was EXCEPT !.mount = mount]
<1>2. mine \in Message /\ mine.mount = mount /\ NoSend.mount = 0
  BY DEF Message, NoSend
<1> HIDE DEF mine
<1>3. sent' = [sent EXCEPT ![n] = mine] /\ sent \in [Sends -> Message]
  BY <1>1 DEF mine, DraftTypeOK
<1> QED
  BY <1>1, <1>2, <1>3

LEMMA HostKeeps ==
  ASSUME HostOK, UNCHANGED <<channel, hostSeq, accepted, sent>>, wire' \subseteq wire PROVE HostOK'
<1>1. wire' \intersect accepted = {} /\ wire' \union accepted \subseteq wire \union accepted
  BY DEF HostOK
<1> QED
  BY <1>1 DEF HostOK, IsAccepted, IsEcho, IsAssistant

LEMMA HostCommits ==
  ASSUME HostOK, UNCHANGED <<channel, hostSeq, accepted>>, NEW n \in Sends, sent[n] = NoSend, wire' = wire \union {n},
         sent'[n] # NoSend, \A m \in Sends : m # n => sent'[m] = sent[m]
  PROVE  HostOK'
<1>1. n \notin accepted
  BY DEF HostOK
<1>2. wire' \subseteq Sends /\ wire' \intersect accepted' = {} /\ \A m \in wire' \union accepted' : sent'[m] # NoSend
  BY <1>1 DEF HostOK
<1> QED
  BY <1>2 DEF HostOK, IsAccepted, IsEcho, IsAssistant

\* New frames under a fresh seq, of a message that has none yet or of the agent.
LEMMA HostGrows ==
  ASSUME HostOK, UNCHANGED sent, hostSeq' = hostSeq + 1, accepted \subseteq accepted', wire' \subseteq wire,
         accepted' \subseteq wire \union accepted, wire' \intersect accepted' = {},
         NEW new, channel' = channel \union new, NEW n,
         \A f \in new : f.msg[2] = hostSeq /\ f.part \in Nat /\ f.of = n,
         \A f \in new : (IsAccepted(f) \/ IsEcho(f) \/ IsAssistant(f))',
         n = None \/ (n \notin accepted /\ n \in Sends)
  PROVE  HostOK'
<1>1. /\ hostSeq \in Nat /\ hostSeq >= FirstSeq /\ FirstSeq \in Nat
      /\ \A f \in channel : /\ f.msg[2] \in FirstSeq..(hostSeq - 1) /\ f.part \in Nat
                            /\ IsAccepted(f) \/ IsEcho(f) \/ IsAssistant(f)
      /\ \A f, g \in channel : IF f.msg[2] = g.msg[2] THEN f.of = g.of ELSE f.of # g.of \/ f.of = None
  BY OrderAssumption DEF HostOK
<1>2. hostSeq' \in Nat /\ hostSeq' >= FirstSeq /\ hostSeq \in FirstSeq..(hostSeq' - 1)
      /\ \A q \in FirstSeq..(hostSeq - 1) : q \in FirstSeq..(hostSeq' - 1) /\ q # hostSeq
  BY <1>1
<1>3. \A f \in channel' : f.msg[2] \in FirstSeq..(hostSeq' - 1) /\ f.part \in Nat
  BY <1>1, <1>2
<1>4. \A f \in channel : (IsAccepted(f) \/ IsEcho(f) \/ IsAssistant(f))'
  BY <1>1 DEF IsAccepted, IsEcho, IsAssistant
<1>5. \A f \in channel : f.of = None \/ f.of # n
  BY FrameIs
<1>6. \A f, g \in channel' : IF f.msg[2] = g.msg[2] THEN f.of = g.of ELSE f.of # g.of \/ f.of = None
  <2> SUFFICES ASSUME NEW f \in channel', NEW g \in channel'
               PROVE  IF f.msg[2] = g.msg[2] THEN f.of = g.of ELSE f.of # g.of \/ f.of = None
    OBVIOUS
  <2>1. CASE f \in channel /\ g \in channel
    BY <1>1, <2>1
  <2>2. CASE f \in new /\ g \in new
    BY <2>2
  <2>3. CASE f \in channel /\ g \in new
    <3>1. f.msg[2] # g.msg[2]
      BY <1>1, <1>2, <2>3
    <3> QED
      BY <1>5, <2>3, <3>1
  <2>4. CASE f \in new /\ g \in channel
    <3>1. f.msg[2] # g.msg[2]
      BY <1>1, <1>2, <2>4
    <3> QED
      BY <1>5, <2>4, <3>1
  <2> QED
    BY <2>1, <2>2, <2>3, <2>4
<1>7. /\ wire' \subseteq Sends /\ accepted' \subseteq Sends
      /\ \A m \in wire' \union accepted' : sent'[m] # NoSend
  BY DEF HostOK
<1>8. \A f \in channel' : (IsAccepted(f) \/ IsEcho(f) \/ IsAssistant(f))'
  BY <1>4
<1> QED
  BY <1>2, <1>3, <1>6, <1>7, <1>8 DEF HostOK

LEMMA HostStep == DraftTypeOK /\ MountOK /\ HostOK /\ [ViewNext]_all => HostOK' /\ channel \subseteq channel'
<1> SUFFICES ASSUME DraftTypeOK, MountOK, HostOK, [ViewNext]_all PROVE HostOK' /\ channel \subseteq channel'
  OBVIOUS
<1>1. ASSUME NEW n \in Sends, Accept1(n) PROVE HostOK' /\ channel \subseteq channel'
  <2> DEFINE a == Accepted(hostSeq, n)
             e == Echo(hostSeq, n)
  <2>1. /\ n \in wire /\ wire' = wire \ {n} /\ accepted' = accepted \union {n} /\ channel' = channel \union {a, e}
        /\ hostSeq' = hostSeq + 1 /\ sent' = sent
    BY <1>1 DEF Accept1, compose
  <2>2. /\ a.msg = <<"accepted", hostSeq>> /\ a.msg[2] = hostSeq /\ a.seq = NoSeq /\ a.part = 0 /\ a.of = n
        /\ e.msg = <<"user", hostSeq>> /\ e.msg[2] = hostSeq /\ e.seq = hostSeq /\ e.part = 0 /\ e.of = n
    BY DEF Accepted, Echo
  <2> HIDE DEF a, e
  <2>3. \A f \in {a, e} : f.msg[2] = hostSeq /\ f.part \in Nat /\ f.of = n
    BY <2>2
  <2>4. \A f \in {a, e} : (IsAccepted(f) \/ IsEcho(f) \/ IsAssistant(f))'
    BY <2>1, <2>2 DEF IsAccepted, IsEcho
  <2>5. n \notin accepted /\ wire' \intersect accepted' = {}
    BY <2>1 DEF HostOK
  <2>6. HostOK'
    <3> DEFINE new == {a, e}
    <3>1. /\ channel' = channel \union new /\ \A f \in new : f.msg[2] = hostSeq /\ f.part \in Nat /\ f.of = n
          /\ \A f \in new : (IsAccepted(f) \/ IsEcho(f) \/ IsAssistant(f))'
      BY <2>1, <2>3, <2>4
    <3> HIDE DEF new
    <3> QED
      BY <2>1, <2>5, <3>1, HostGrows
  <2> QED
    BY <2>1, <2>6
<1>2. CASE Emit
  <2> DEFINE a == Chunk(hostSeq, 0)
             e == Chunk(hostSeq, 1)
  <2>1. /\ wire' = wire /\ accepted' = accepted /\ channel' = channel \union {a, e}
        /\ hostSeq' = hostSeq + 1 /\ sent' = sent
    BY <1>2 DEF Emit, compose
  <2>2. /\ a.msg = <<"assistant", hostSeq>> /\ a.msg[2] = hostSeq /\ a.seq = hostSeq /\ a.part = 0 /\ a.of = None
        /\ e.msg = <<"assistant", hostSeq>> /\ e.msg[2] = hostSeq /\ e.seq = hostSeq /\ e.part = 1 /\ e.of = None
    BY DEF Chunk
  <2> HIDE DEF a, e
  <2>3. \A f \in {a, e} : f.msg[2] = hostSeq /\ f.part \in Nat /\ f.of = None
    BY <2>2
  <2>4. \A f \in {a, e} : (IsAccepted(f) \/ IsEcho(f) \/ IsAssistant(f))'
    BY <2>2 DEF IsAssistant
  <2>5. wire' \intersect accepted' = {}
    BY <2>1 DEF HostOK
  <2>6. HostOK'
    <3> DEFINE new == {a, e}
    <3>1. PICK n : n = None
      OBVIOUS
    <3>2. /\ channel' = channel \union new /\ \A f \in new : f.msg[2] = hostSeq /\ f.part \in Nat /\ f.of = n
          /\ \A f \in new : (IsAccepted(f) \/ IsEcho(f) \/ IsAssistant(f))'
      BY <2>1, <2>3, <2>4, <3>1
    <3> HIDE DEF new
    <3>3. /\ sent' = sent /\ hostSeq' = hostSeq + 1 /\ accepted \subseteq accepted' /\ wire' \subseteq wire
          /\ wire' \intersect accepted' = {}
      BY <2>1, <2>5
    <3>4. accepted' \subseteq wire \union accepted
      BY <2>1
    <3>5. n = None \/ (n \notin accepted /\ n \in Sends)
      BY <3>1
    <3> QED
      BY <3>2, <3>3, <3>4, <3>5, HostGrows
  <2> QED
    BY <2>1, <2>6
<1>3. CASE SendText \/ (Prepared /\ AllowedNow)
  <2>1. \E was \in Message : Commit(was) /\ mount \in Nat /\ mount # 0 /\ UNCHANGED <<channel, hostSeq, accepted>>
    <3>1. CASE SendText
      <4> DEFINE was == [text |-> draft.input, files |-> {}, mount |-> 0]
      <4>1. Commit(was) /\ mount # 0 /\ UNCHANGED <<channel, hostSeq, accepted>>
        BY <3>1 DEF SendText, Sendable, orderer
      <4>2. was \in Message
        BY DEF DraftTypeOK, Message
      <4> QED
        BY <4>1, <4>2 DEF MountOK
    <3>2. CASE Prepared /\ AllowedNow
      <4> DEFINE was == [preparing EXCEPT !.mount = 0]
      <4>1. Commit(was) /\ mount # 0 /\ UNCHANGED <<channel, hostSeq, accepted>>
        BY <3>2 DEF Prepared, MountOK, orderer
      <4>2. was \in Message
        BY DEF DraftTypeOK, Message
      <4> QED
        BY <4>1, <4>2 DEF MountOK
    <3> QED
      BY <1>3, <3>1, <3>2
  <2>2. \E n \in Sends : /\ sent[n] = NoSend /\ wire' = wire \union {n} /\ sent'[n] # NoSend
                         /\ \A m \in Sends : m # n => sent'[m] = sent[m]
    BY <2>1, CommitSends
  <2> QED
    BY <2>1, <2>2, HostCommits
<1>4. CASE \/ (\E f \in Frames : Take(f)) \/ Yield \/ YieldLate \/ Revive \/ Type \/ Pick
           \/ (\E file \in draft.staged : RemoveStaged(file)) \/ SendFiles \/ PrepareFails \/ (Prepared /\ ~AllowedNow)
           \/ PostAnswered \/ PostFails \/ LinkChanges \/ WithdrawAttachments \/ Leave \/ Open \/ UNCHANGED all
  <2>1. UNCHANGED <<channel, hostSeq, accepted, sent>> /\ wire' \subseteq wire
    BY <1>4 DEF Take, Receive, Duplicate, PassOrDrop, Accept, vars, Yield, YieldLate, Revive, Type, Pick, RemoveStaged,
       SendFiles, PrepareFails, Prepared, PostAnswered, PostFails, LinkChanges, WithdrawAttachments, Leave, Open,
       all, orderer, host, compose
  <2> QED
    BY <2>1, HostKeeps
<1> QED
  BY <1>1, <1>2, <1>3, <1>4 DEF ViewNext

LEMMA MountStep == DraftTypeOK /\ MountOK /\ [ViewNext]_all => MountOK'
<1> SUFFICES ASSUME DraftTypeOK, MountOK, [ViewNext]_all PROVE MountOK'
  OBVIOUS
<1>1. /\ returns \in Nat /\ mount \in 0..(returns + 1) /\ mount \in Nat /\ (preparing # NoSend => mount # 0)
      /\ \A n \in Sends : /\ sent[n].mount \in Nat /\ sent[n].mount <= returns + 1
                          /\ IF mount = 0 THEN sent[n].mount <= returns ELSE sent[n].mount <= mount
  BY DEF MountOK, DraftTypeOK, Message
<1>2. CASE SendText \/ (Prepared /\ AllowedNow)
  <2>1. /\ \E was \in Message : Commit(was)
        /\ mount # 0 /\ UNCHANGED <<mount, returns>> /\ (preparing' = NoSend \/ preparing' = preparing)
    <3>1. CASE SendText
      <4> DEFINE was == [text |-> draft.input, files |-> {}, mount |-> 0]
      <4>1. Commit(was) /\ mount # 0 /\ UNCHANGED <<mount, returns, preparing>>
        BY <3>1 DEF SendText, Sendable
      <4>2. was \in Message
        BY DEF DraftTypeOK, Message
      <4> QED
        BY <4>1, <4>2
    <3>2. CASE Prepared /\ AllowedNow
      <4> DEFINE was == [preparing EXCEPT !.mount = 0]
      <4>1. Commit(was) /\ mount # 0 /\ UNCHANGED <<mount, returns>> /\ preparing' = NoSend
        BY <1>1, <3>2 DEF Prepared
      <4>2. was \in Message
        BY DEF DraftTypeOK, Message
      <4> QED
        BY <4>1, <4>2
    <3> QED
      BY <1>2, <3>1, <3>2
  <2>2. PICK n \in Sends : sent'[n].mount = mount /\ \A m \in Sends : m # n => sent'[m] = sent[m]
    BY <1>1, <2>1, CommitSends
  <2>3. \A m \in Sends : sent'[m].mount <= mount
    BY <1>1, <2>1, <2>2
  <2> QED
    BY <1>1, <2>1, <2>3 DEF MountOK
<1>3. CASE Leave
  <2>1. mount' = 0 /\ preparing' = NoSend /\ sent' = sent /\ returns' = returns + 1
    BY <1>3 DEF Leave, Return
  <2> QED
    BY <1>1, <2>1 DEF MountOK
<1>4. CASE Open
  <2>1. mount = 0 /\ mount' = returns + 1 /\ sent' = sent /\ returns' = returns /\ preparing' = preparing
    BY <1>4 DEF Open, compose
  <2> QED
    BY <1>1, <2>1 DEF MountOK
<1>5. CASE Revive
  <2>1. mount' = mount /\ sent' = sent /\ returns' = returns + 1 /\ preparing' = preparing /\ mount # 0
    BY <1>5 DEF Revive, Return, compose
  <2> QED
    BY <1>1, <2>1 DEF MountOK
<1>6. CASE \/ (\E n \in Sends : Accept1(n)) \/ Emit \/ (\E f \in Frames : Take(f)) \/ Yield \/ YieldLate \/ Type \/ Pick
           \/ (\E file \in draft.staged : RemoveStaged(file)) \/ SendFiles \/ PrepareFails \/ (Prepared /\ ~AllowedNow)
           \/ PostAnswered \/ PostFails \/ LinkChanges \/ WithdrawAttachments \/ UNCHANGED all
  <2>1. /\ UNCHANGED <<mount, returns, sent>>
        /\ preparing' = preparing \/ preparing' = NoSend \/ mount # 0
    BY <1>6 DEF Accept1, Emit, Take, Yield, YieldLate, Type, Pick, RemoveStaged, SendFiles, Sendable, PrepareFails,
       Prepared, PostAnswered, PostFails, LinkChanges, WithdrawAttachments, Fault, all, compose
  <2> QED
    BY <1>1, <2>1 DEF MountOK
<1> QED
  BY <1>2, <1>3, <1>4, <1>5, <1>6 DEF ViewNext

-----------------------------------------------------------------------------
(* The transcript                                                          *)

TransInv == DraftTypeOK /\ MountOK /\ HostOK /\ RowsInv /\ OrdererOK

\* A page that is given a slot that is due.
LEMMA Yields ==
  ASSUME TransInv, NEW slots, slots # <<>>, Gapless(slots), rows' = Given(rows, Head(slots)),
         UNCHANGED <<channel, nextSeq, buffered, out, sent, mount>>,
         \/ slots = ready /\ ready' = Tail(slots) /\ late' = late
         \/ slots = late /\ late' = Tail(slots) /\ ready' = ready
  PROVE  RowsInv' /\ OrdererOK'
<1>1. Head(slots) = slots[1] /\ Due(rows, slots[1])
  <2>1. slots \in Seq(ToSet(slots))
    BY DEF Gapless
  <2> QED
    BY <2>1, HeadIsDue
<1>2. PICK k : OrderedTo(rows, k)
  BY RowsAre DEF TransInv
<1>3. PICK list : list = rows
  OBVIOUS
<1>4. PICK slot : slot = slots[1]
  OBVIOUS
<1>5. PICK new : /\ new = Given(list, slot)
                 /\ ListOK(new) /\ (\E m : OrderedTo(new, m)) /\ Keeps(list, new)
                 /\ slot[1].seq # NoSeq => Has(new, slot[1].seq)
  BY <1>1, <1>2, <1>3, <1>4, RowsAre, GivenIs DEF TransInv
<1>6. rows' = new /\ Keeps(rows, new)
  BY <1>1, <1>3, <1>4, <1>5
<1>7. RowsInv'
  BY <1>5, <1>6, RowsStep DEF TransInv
<1>8. OrdererOK'
  BY <1>4, <1>5, <1>6, OrdererYields DEF TransInv, Keeps
<1> QED
  BY <1>7, <1>8

\* A list that is doubted keeps the transcript's invariant.
LEMMA Doubted ==
  ASSUME TransInv, UNCHANGED <<channel, nextSeq, buffered, out, ready, late, sent, mount>>,
         rows' = [i \in DOMAIN rows |-> rows'[i]], \A i \in DOMAIN rows : rows'[i] = rows[i] \/ rows'[i] = Doubt(rows[i])
  PROVE  RowsInv' /\ OrdererOK'
<1>1. PICK k : OrderedTo(rows, k)
  BY RowsAre DEF TransInv
<1>2. PICK list : list = rows
  OBVIOUS
<1>3. PICK new : new = rows'
  OBVIOUS
<1>4. ListOK(new) /\ OrderedTo(new, k) /\ Keeps(list, new)
  <2>1. new = [i \in DOMAIN list |-> new[i]] /\ \A i \in DOMAIN list : new[i] = list[i] \/ new[i] = Doubt(list[i])
    BY <1>2, <1>3
  <2> QED
    BY <1>1, <1>2, <2>1, RowsAre, DoubtIs DEF TransInv
<1>5. RowsInv'
  BY <1>2, <1>3, <1>4, RowsStep DEF TransInv
<1>6. \A q \in Nat : Has(rows, q) => Has(rows, q)'
  BY <1>2, <1>3, <1>4 DEF Keeps, Has
<1>7. OrdererOK'
  BY <1>6, OrdererKeeps DEF TransInv
<1> QED
  BY <1>5, <1>7

\* Neither the rows nor the mount change.
LEMMA Elsewhere ==
  ASSUME TransInv, channel \subseteq channel', UNCHANGED <<rows, sent, mount>>,
         OrdererOK' \/ UNCHANGED <<nextSeq, buffered, out, ready, late>>
  PROVE  RowsInv' /\ OrdererOK'
<1>1. RowsInv'
  BY SameRows DEF TransInv
<1>2. \A q \in Nat : Has(rows, q) => Has(rows, q)'
  BY DEF Has
<1>3. OrdererOK'
  BY <1>2, OrdererKeeps DEF TransInv
<1> QED
  BY <1>1, <1>3

LEMMA TransStep == TransInv /\ [ViewNext]_all => RowsInv' /\ OrdererOK'
<1> SUFFICES ASSUME TransInv, [ViewNext]_all PROVE RowsInv' /\ OrdererOK'
  OBVIOUS
<1>0. channel \subseteq channel'
  BY HostStep DEF TransInv
<1>1. CASE \/ (\E n \in Sends : Accept1(n)) \/ Emit \/ Type \/ Pick \/ (\E file \in draft.staged : RemoveStaged(file))
           \/ SendFiles \/ PrepareFails \/ (Prepared /\ ~AllowedNow) \/ PostAnswered \/ WithdrawAttachments \/ UNCHANGED all
  <2>1. UNCHANGED <<rows, sent, mount, nextSeq, buffered, out, ready, late>>
    BY <1>1 DEF Accept1, Emit, Type, Pick, RemoveStaged, SendFiles, PrepareFails, Prepared, PostAnswered,
       WithdrawAttachments, all, orderer, compose
  <2> QED
    BY <1>0, <2>1, Elsewhere
<1>2. ASSUME NEW f \in Frames, Take(f) PROVE RowsInv' /\ OrdererOK'
  <2>1. UNCHANGED <<rows, sent, mount>>
    BY <1>2 DEF Take, compose
  <2>2. OrdererOK'
    BY <1>2, OrdererTakes DEF TransInv
  <2> QED
    BY <1>0, <2>1, <2>2, Elsewhere
<1>3. CASE Yield
  <2>1. PICK slots : slots = ready
    OBVIOUS
  <2>2. /\ slots # <<>> /\ rows' = Given(rows, Head(slots)) /\ ready' = Tail(slots) /\ late' = late
        /\ UNCHANGED <<channel, nextSeq, buffered, out, sent, mount>>
    BY <1>3, <2>1 DEF Yield, orderer, compose
  <2>3. Gapless(slots)
    BY <2>1 DEF TransInv, OrdererOK
  <2> QED
    BY <2>1, <2>2, <2>3, Yields
<1>4. CASE YieldLate
  <2>1. PICK slots : slots = late
    OBVIOUS
  <2>2. /\ slots # <<>> /\ rows' = Given(rows, Head(slots)) /\ late' = Tail(slots) /\ ready' = ready
        /\ UNCHANGED <<channel, nextSeq, buffered, out, sent, mount>>
    BY <1>4, <2>1 DEF YieldLate, orderer, compose
  <2>3. Gapless(slots)
    BY <2>1 DEF TransInv, OrdererOK
  <2> QED
    BY <2>1, <2>2, <2>3, Yields
<1>5. CASE Revive
  <2>1. /\ UNCHANGED <<channel, rows, sent, mount>> /\ NewOrderer /\ late' = ready /\ ready' = <<>>
    BY <1>5 DEF Revive, compose
  <2>2. PICK new : new = rows
    OBVIOUS
  <2>3. OrdererOK'
    BY <2>1, <2>2, OrdererRenewed DEF TransInv
  <2> QED
    BY <1>0, <2>1, <2>3, Elsewhere
<1>6. CASE SendText \/ (Prepared /\ AllowedNow)
  <2>1. \E was \in Message : Commit(was) /\ mount \in Nat /\ mount # 0
    <3>1. CASE SendText
      <4> DEFINE was == [text |-> draft.input, files |-> {}, mount |-> 0]
      <4>1. Commit(was) /\ mount # 0
        BY <3>1 DEF SendText, Sendable
      <4>2. was \in Message
        BY DEF TransInv, DraftTypeOK, Message
      <4> QED
        BY <4>1, <4>2 DEF TransInv, MountOK
    <3>2. CASE Prepared /\ AllowedNow
      <4> DEFINE was == [preparing EXCEPT !.mount = 0]
      <4>1. Commit(was) /\ mount # 0
        BY <3>2 DEF TransInv, Prepared, MountOK
      <4>2. was \in Message
        BY DEF TransInv, DraftTypeOK, Message
      <4> QED
        BY <4>1, <4>2 DEF TransInv, MountOK
    <3> QED
      BY <1>6, <3>1, <3>2
  <2>2. UNCHANGED <<channel, mount, nextSeq, buffered, out, ready, late>>
    BY <1>6 DEF SendText, Prepared, orderer
  <2>3. RowsInv' /\ \A q \in Nat : Has(rows, q) => Has(rows, q)'
    BY <2>1, <2>2, CommitRows DEF TransInv
  <2> QED
    BY <1>0, <2>2, <2>3, OrdererKeeps DEF TransInv
<1>7. CASE PostFails \/ LinkChanges
  <2>1. UNCHANGED <<channel, nextSeq, buffered, out, ready, late, sent, mount>>
    BY <1>7 DEF PostFails, LinkChanges, orderer, compose
  <2>2. /\ rows' = [i \in DOMAIN rows |-> rows'[i]]
        /\ \A i \in DOMAIN rows : rows'[i] = rows[i] \/ rows'[i] = Doubt(rows[i])
    <3>1. \/ rows' = MarkDeliveryUnknown(rows, posting) \/ rows' = MarkPendingDeliveryUnknown(rows) \/ rows' = rows
      BY <1>7 DEF PostFails, LinkChanges
    <3>2. rows = [i \in DOMAIN rows |-> rows[i]]
      BY RowsAre DEF TransInv, ListOK
    <3> QED
      BY <3>1, <3>2 DEF MarkDeliveryUnknown, MarkPendingDeliveryUnknown
  <2> QED
    BY <2>1, <2>2, Doubted
<1>8. CASE Leave
  <2>1. /\ mount' = 0 /\ rows' = <<>> /\ ready' = <<>> /\ late' = <<>> /\ NewOrderer /\ channel' = channel /\ sent' = sent
    BY <1>8 DEF Leave
  <2>2. PICK new : new = <<>>
    OBVIOUS
  <2>3. OrdererOK'
    BY <2>1, <2>2, OrdererRenewed DEF TransInv
  <2>4. /\ new \in Seq(Rows) /\ Len(new) = 0 /\ DOMAIN new = {}
    BY <2>2
  <2>5. ListApart(new) /\ OrderedTo(new, 0) /\ \A j \in DOMAIN new : RowOK(new[j])
    BY <2>4 DEF ListApart, OrderedTo
  <2>6. \A n \in Sends : ~SentHere(n)'
    BY <2>1 DEF SentHere
  <2>7. RowsInv'
    BY <1>0, <2>1, <2>2, <2>5, <2>6, RowsGrow
  <2> QED
    BY <2>3, <2>7
<1>9. CASE Open
  <2>1. /\ mount = 0 /\ mount' = returns + 1
        /\ UNCHANGED <<channel, rows, sent, nextSeq, buffered, out, ready, late>>
    BY <1>9 DEF Open, orderer, compose
  <2>2. PICK new : new = rows
    OBVIOUS
  <2>3. PICK k : OrderedTo(new, k)
    BY <2>2, RowsAre DEF TransInv
  <2>4. ListApart(new) /\ \A j \in DOMAIN new : RowOK(new[j])
    BY <2>2, RowsAre DEF TransInv, ListOK, ListApart
  <2>5. ASSUME NEW n \in Sends, SentHere(n)' PROVE FALSE
    <3>1. sent[n].mount \in Nat /\ sent[n].mount <= returns /\ returns \in Nat
      BY <2>1 DEF TransInv, MountOK, DraftTypeOK, Message
    <3>2. sent[n].mount = returns + 1
      BY <2>1, <2>5 DEF SentHere
    <3> QED
      BY <3>1, <3>2
  <2>6. RowsInv'
    BY <1>0, <2>1, <2>2, <2>3, <2>4, <2>5, RowsGrow
  <2>7. \A q \in Nat : Has(rows, q) => Has(rows, q)'
    BY <2>1 DEF Has
  <2>8. OrdererOK'
    BY <1>0, <2>1, <2>7, OrdererKeeps DEF TransInv
  <2> QED
    BY <2>6, <2>8
<1> QED
  BY <1>1, <1>2, <1>3, <1>4, <1>5, <1>6, <1>7, <1>8, <1>9 DEF ViewNext

LEMMA ViewInvInit == ViewInit => ViewInv
<1> SUFFICES ASSUME ViewInit PROVE ViewInv
  OBVIOUS
<1>1. /\ channel = {} /\ nextSeq = FirstSeq /\ buffered = [q \in Seqs |-> <<>>] /\ out = <<>>
      /\ wire = {} /\ hostSeq = FirstSeq /\ accepted = {} /\ mount = 1 /\ rows = <<>> /\ canAttach = TRUE
      /\ draft = [input |-> None, staged |-> {}] /\ sent = [n \in Sends |-> NoSend] /\ preparing = NoSend
      /\ ready = <<>> /\ late = <<>> /\ typed = 0 /\ picked = 0 /\ dropped = {} /\ returns = 0
  BY DEF ViewInit
<1>2. NoSend \in Message /\ NoSend.text = 0 /\ NoSend.files = {} /\ NoSend.mount = 0
  BY DEF NoSend, Message, None
<1>3. \A n \in Sends : sent[n] = NoSend
  BY <1>1
<1>4. DraftInv
  BY <1>1, <1>2, <1>3 DEF DraftInv, DraftTypeOK, TextOnce, FileOnce, None
<1>5. MountOK
  BY <1>1, <1>2, <1>3 DEF MountOK
<1>6. HostOK
  BY <1>1, OrderAssumption DEF HostOK
<1>7. rows \in Seq(Rows) /\ DOMAIN rows = {} /\ Len(rows) = 0
  BY <1>1
<1>8. \A n \in Sends : ~SentHere(n)
  BY <1>1, <1>2, <1>3 DEF SentHere
<1>9. RowsOK
  BY <1>7, <1>8 DEF RowsOK, ListOK
<1>10. RowsOrdered
  BY <1>7 DEF RowsOrdered
<1>11. OrdererOK
  <2>1. Gapless(ready) /\ Gapless(late)
    <3>1. <<>> \in Seq(ToSet(<<>>)) /\ DOMAIN <<>> = {}
      OBVIOUS
    <3> QED
      BY <1>1, <3>1 DEF Gapless
  <2>2. FirstSeq..(FirstSeq - 1) = {}
    BY OrderAssumption
  <2>3. buffered \in [Seqs -> Seq(channel)] /\ \A q \in Seqs : DOMAIN buffered[q] = {}
    BY <1>1
  <2>4. out \in Seq(ToSet(out))
    BY <1>1
  <2> QED
    BY <1>1, <2>1, <2>2, <2>3, <2>4, OrderAssumption DEF OrdererOK
<1> QED
  BY <1>4, <1>5, <1>6, <1>9, <1>10, <1>11 DEF ViewInv

LEMMA ViewInvStep == ViewInv /\ [ViewNext]_all => ViewInv'
<1> SUFFICES ASSUME ViewInv, [ViewNext]_all PROVE ViewInv'
  OBVIOUS
<1>1. TransInv
  BY DEF ViewInv, TransInv, RowsInv, DraftInv
<1>2. DraftInv'
  BY DraftStep DEF ViewInv, MountOK
<1>3. MountOK' /\ HostOK'
  BY <1>1, MountStep, HostStep DEF TransInv
<1>4. RowsInv' /\ OrdererOK'
  BY <1>1, TransStep
<1> QED
  BY <1>2, <1>3, <1>4 DEF ViewInv, RowsInv

\* The inductive invariant of a session's page: the draft and the sends, the host's frames,
\* the orderer with what it released, and the rows.
THEOREM ViewInvariant == ViewSpec => []ViewInv
  BY ViewInvInit, ViewInvStep, PTL DEF ViewSpec

\* The page shows the transcript in its order and without a hole, for every number of
\* messages, edits, returns and faults, every dedup window and every way the stream repeats
\* and reorders its frames (appendUniqueMessage, reconcileAccepted, FrameOrderer).
THEOREM RowsInOrder == ViewSpec => []RowsOrdered
<1>1. ViewInv => RowsOrdered
  BY DEF ViewInv
<1> QED
  BY <1>1, ViewInvariant, PTL

\* A file is in the draft or in exactly one message.
LEMMA FileIsOnce ==
  ASSUME DraftInv, NEW file \in (1..picked) \ dropped
  PROVE  (IF file \in draft.staged THEN 1 ELSE 0) + Cardinality({n \in Sends : file \in sent[n].files}) = 1
<1> DEFINE carriers == {n \in Sends : file \in sent[n].files}
           kept == IF file \in draft.staged THEN 1 ELSE 0
<1>1. CASE file \in draft.staged
  <2>1. carriers = {}
    BY <1>1 DEF DraftInv, FileOnce
  <2>2. Cardinality(carriers) = 0
    BY <2>1, FS_EmptySet
  <2>3. kept = 1
    BY <1>1
  <2>4. kept + Cardinality(carriers) = 1
    <3> HIDE DEF kept, carriers
    <3> QED
      BY <2>2, <2>3
  <2> QED
    BY <2>4, Zenon
<1>2. CASE file \notin draft.staged
  <2>1. PICK n \in Sends : file \in sent[n].files
    BY <1>2 DEF DraftInv, FileOnce
  <2>2. carriers = {n}
    BY <2>1 DEF DraftInv, FileOnce
  <2>3. Cardinality(carriers) = 1
    BY <2>2, FS_Singleton
  <2>4. kept = 0
    BY <1>2
  <2>5. kept + Cardinality(carriers) = 1
    <3> HIDE DEF kept, carriers
    <3> QED
      BY <2>3, <2>4
  <2> QED
    BY <2>5, Zenon
<1> QED
  BY <1>1, <1>2

\* Nothing the user wrote or picked is lost or sent twice, although files are read and a
\* POST is under way while the draft is edited, attachments are withdrawn and the page is
\* left (send, prepareComposerAttachment, the draft of Console).
THEOREM DraftIsKept == ViewSpec => []DraftKept
<1>1. ViewInv => DraftKept
  <2> SUFFICES ASSUME ViewInv PROVE DraftKept
    OBVIOUS
  <2>1. typed # 0 => typed \in {draft.input} \union {sent[n].text : n \in Sends}
    BY DEF ViewInv, DraftInv, TextOnce
  <2>2. \A n, m \in Sends : n # m /\ sent[n].text # None => sent[n].text # sent[m].text
    BY DEF ViewInv, DraftInv, TextOnce
  <2>3. \A file \in (1..picked) \ dropped :
          (IF file \in draft.staged THEN 1 ELSE 0) + Cardinality({n \in Sends : file \in sent[n].files}) = 1
    BY FileIsOnce DEF ViewInv
  <2> QED
    BY <2>1, <2>2, <2>3 DEF DraftKept
<1> QED
  BY <1>1, ViewInvariant, PTL

\* Two rows of one message: one that is pending, one that its echo brought.
LEMMA TwoRows ==
  ASSUME HostOK, ListOK(rows), NEW n \in Sends, NEW i \in RowsOf(n), NEW j \in RowsOf(n), i # j
  PROVE  /\ rows[i].optimistic # rows[j].optimistic
         /\ rows[i].optimistic => rows[j].client = None
<1>1. /\ rows[i] \in Rows /\ RowOK(rows[i]) /\ rows[j] \in Rows /\ RowOK(rows[j]) /\ rows[i].of = n /\ rows[j].of = n
      /\ i \in DOMAIN rows /\ j \in DOMAIN rows /\ Apart(rows[i], rows[j]) /\ n # None
  BY ViewAssumption DEF ListOK, RowsOf, Sends, None
<1>2. \A row \in Rows : RowOK(row) /\ row.of = n => PendingRow(row) \/ UserRow(row)
  BY <1>1 DEF RowOK, AssistantRow
<1>3. ~(PendingRow(rows[i]) /\ PendingRow(rows[j]))
  BY <1>1 DEF PendingRow, Apart
<1>4. ~(UserRow(rows[i]) /\ UserRow(rows[j]))
  <2> SUFFICES ASSUME UserRow(rows[i]), UserRow(rows[j]) PROVE FALSE
    OBVIOUS
  <2>1. PICK f \in channel : f.of = n /\ rows[i].id = <<"user", f.msg[2]>>
    BY <1>1 DEF UserRow
  <2>2. PICK g \in channel : g.of = n /\ rows[j].id = <<"user", g.msg[2]>>
    BY <1>1 DEF UserRow
  <2>3. f.msg[2] = g.msg[2]
    BY <1>1, <2>1, <2>2, SameFrame
  <2> QED
    BY <1>1, <2>1, <2>2, <2>3 DEF Apart
<1>5. \A row \in Rows : (PendingRow(row) => row.optimistic) /\ (UserRow(row) => ~row.optimistic)
  BY DEF PendingRow, UserRow
<1>6. rows[i].optimistic \in BOOLEAN /\ rows[j].optimistic \in BOOLEAN
  BY <1>1 DEF Rows
<1>7. rows[i].optimistic # rows[j].optimistic
  BY <1>1, <1>2, <1>3, <1>4, <1>5, <1>6
<1> QED
  BY <1>1, <1>7 DEF Apart

\* A message sent from this page keeps a row, has two only until its receipt comes, and is
\* shown as received only when the host has accepted it (reconcileAccepted, Transcript).
THEOREM BubbleOnce == ViewSpec => []OneBubble
<1>1. ViewInv => OneBubble
  <2> SUFFICES ASSUME ViewInv, NEW n \in Sends, SentHere(n)
               PROVE  /\ RowsOf(n) # {}
                      /\ \A i, j \in RowsOf(n) : i # j => \/ rows[i].optimistic # rows[j].optimistic
                                                          \/ rows[i].client # rows[j].client
                      /\ (\E i \in RowsOf(n) : Receipted(rows[i])) => n \in accepted /\ Cardinality(RowsOf(n)) = 1
    BY DEF OneBubble
  <2>1. HostOK /\ ListOK(rows) /\ RowsOf(n) # {}
    BY DEF ViewInv, RowsOK
  <2>2. \A i, j \in RowsOf(n) : i # j => rows[i].optimistic # rows[j].optimistic
    BY <2>1, TwoRows
  <2>3. ASSUME NEW i \in RowsOf(n), Receipted(rows[i]) PROVE n \in accepted /\ Cardinality(RowsOf(n)) = 1
    <3>1. /\ rows[i] \in Rows /\ RowOK(rows[i]) /\ rows[i].of = n /\ n # None
      BY <2>1, ViewAssumption DEF ListOK, RowsOf, Sends, None
    <3>2. UserRow(rows[i])
      BY <2>3, <3>1 DEF Receipted, RowOK, PendingRow, AssistantRow
    <3>3. n \in accepted
      BY <2>1, <3>1, <3>2, FrameIs DEF UserRow
    <3>4. ASSUME NEW j \in RowsOf(n), i # j PROVE FALSE
      <4>1. rows[j].optimistic # rows[i].optimistic /\ (rows[j].optimistic => rows[i].client = None)
        BY <2>1, <3>4, TwoRows
      <4>2. rows[j].optimistic \in BOOLEAN /\ rows[i].optimistic \in BOOLEAN
        <5>1. i \in DOMAIN rows /\ j \in DOMAIN rows
          BY DEF RowsOf
        <5>2. rows[i] \in Rows /\ rows[j] \in Rows
          BY <2>1, <5>1 DEF ListOK
        <5> QED
          BY <5>2 DEF Rows
      <4> QED
        BY <2>3, <4>1, <4>2 DEF Receipted
    <3>5. RowsOf(n) = {i}
      BY <3>4
    <3>6. Cardinality(RowsOf(n)) = 1
      BY <3>5, FS_Singleton
    <3> QED
      BY <3>3, <3>6
  <2> QED
    BY <2>1, <2>2, <2>3
<1> QED
  BY <1>1, ViewInvariant, PTL

-----------------------------------------------------------------------------
(* The companion of an OpenCode session: loops and sequences               *)

\* Induction up to N over a set.
LEMMA UpTo ==
  ASSUME NEW N \in Nat, NEW T, 0 \in T, \A n \in 1..N : n - 1 \in T => n \in T
  PROVE  \A n \in 0..N : n \in T
<1> DEFINE S == {n \in 0..N : n \notin T}
<1> SUFFICES ASSUME S # {} PROVE FALSE
  OBVIOUS
<1>1. S \in SUBSET Nat
  OBVIOUS
<1>2. PICK n \in S : \A m \in S : n <= m
  BY <1>1, LeastNatural
<1>3. n \in 1..N /\ n - 1 \in 0..N /\ n - 1 < n
  BY <1>2
<1> QED
  BY <1>2, <1>3

LEMMA SeqIs ==
  ASSUME NEW S, NEW s \in Seq(S)
  PROVE  Len(s) \in Nat /\ DOMAIN s = 1..Len(s) /\ \A k \in DOMAIN s : s[k] \in S
OBVIOUS

LEMMA ConcatIs ==
  ASSUME NEW S, NEW s \in Seq(S), NEW t \in Seq(S)
  PROVE  /\ s \o t \in Seq(S) /\ Len(s) \in Nat /\ Len(t) \in Nat /\ Len(s \o t) = Len(s) + Len(t)
         /\ DOMAIN s = 1..Len(s) /\ DOMAIN t = 1..Len(t) /\ DOMAIN (s \o t) = 1..(Len(s) + Len(t))
         /\ \A k \in 1..Len(s) : (s \o t)[k] = s[k]
         /\ \A k \in 1..Len(t) : (s \o t)[Len(s) + k] = t[k]
         /\ \A k \in (Len(s) + 1)..(Len(s) + Len(t)) : k - Len(s) \in 1..Len(t) /\ (s \o t)[k] = t[k - Len(s)]
OBVIOUS

LEMMA AppendIs ==
  ASSUME NEW S, NEW s \in Seq(S), NEW x \in S
  PROVE  /\ Append(s, x) \in Seq(S) /\ Len(s) \in Nat /\ Len(Append(s, x)) = Len(s) + 1
         /\ DOMAIN s = 1..Len(s) /\ DOMAIN Append(s, x) = 1..(Len(s) + 1)
         /\ \A k \in 1..Len(s) : Append(s, x)[k] = s[k]
         /\ Append(s, x)[Len(s) + 1] = x
OBVIOUS

LEMMA TailIs ==
  ASSUME NEW S, NEW s \in Seq(S), s # <<>>
  PROVE  /\ Tail(s) \in Seq(S) /\ Head(s) \in S /\ Head(s) = s[1]
         /\ Len(s) \in Nat \ {0} /\ DOMAIN s = 1..Len(s) /\ DOMAIN Tail(s) = 1..(Len(s) - 1)
         /\ \A k \in 1..(Len(s) - 1) : Tail(s)[k] = s[k + 1]
         /\ \A k \in 1..Len(s) : k = 1 \/ (k - 1 \in 1..(Len(s) - 1) /\ Tail(s)[k - 1] = s[k])
<1>1. /\ Tail(s) \in Seq(S) /\ Head(s) \in S /\ Head(s) = s[1]
      /\ Len(s) \in Nat \ {0} /\ DOMAIN s = 1..Len(s) /\ DOMAIN Tail(s) = 1..(Len(s) - 1)
      /\ \A k \in 1..(Len(s) - 1) : Tail(s)[k] = s[k + 1]
  OBVIOUS
<1>2. \A k \in 1..Len(s) : k = 1 \/ (k - 1 \in 1..(Len(s) - 1) /\ Tail(s)[k - 1] = s[k])
  BY <1>1
<1> QED
  BY <1>1, <1>2

-----------------------------------------------------------------------------
(* The history                                                             *)

\* The users are told apart by their texts, the replies by their users.
HistoryOK ==
    /\ \A u \in Users : history[u].done /\ history[u].ver = 1 /\ history[u].parent = 0
                        /\ history[u].of \in Prompts \union Locals
    /\ \A i \in Replies : history[i].parent \in Users /\ history[i].parent < i
    /\ \A u, v \in Users : history[u].of = history[v].of => u = v
    /\ \A i, j \in Replies : history[i].parent = history[j].parent => i = j

LEMMA HistoryIs ==
  ASSUME history \in Seq(NativeMessages)
  PROVE  /\ Len(history) \in Nat /\ DOMAIN history = 1..Len(history) /\ IsFiniteSet(DOMAIN history)
         /\ Cardinality(DOMAIN history) = Len(history)
         /\ Users \subseteq DOMAIN history /\ Replies \subseteq DOMAIN history /\ Users \subseteq Nat /\ Replies \subseteq Nat
         /\ \A i \in DOMAIN history : /\ history[i] \in NativeMessages /\ history[i].parent \in Nat
                                      /\ history[i].ver \in {1, 2} /\ history[i].done \in BOOLEAN
                                      /\ (i \in Users <=> history[i].role = "user")
                                      /\ (i \in Replies <=> i \notin Users)
<1>1. Len(history) \in Nat /\ DOMAIN history = 1..Len(history) /\ \A i \in DOMAIN history : history[i] \in NativeMessages
  OBVIOUS
<1>2. \A m \in NativeMessages : m.parent \in Nat /\ m.ver \in {1, 2} /\ m.done \in BOOLEAN
  BY DEF NativeMessages
<1>3. IsFiniteSet(1..Len(history)) /\ Cardinality(1..Len(history)) = Len(history)
  BY <1>1, FS_Interval
<1> QED
  BY <1>1, <1>2, <1>3 DEF Users, Replies

\* So every message has an id.
LEMMA HistoryFits ==
  ASSUME history \in Seq(NativeMessages), HistoryOK
  PROVE  DOMAIN history \subseteq MessageIds
<1> DEFINE N == Len(history)
           T == Prompts \union Locals
<1>1. /\ N \in Nat /\ DOMAIN history = 1..N /\ IsFiniteSet(1..N) /\ Cardinality(1..N) = N
      /\ Users \subseteq 1..N /\ Replies \subseteq 1..N /\ Users \union Replies = 1..N /\ Users \intersect Replies = {}
  BY HistoryIs DEF Replies
<1>2. IsFiniteSet(Users) /\ IsFiniteSet(Replies)
  BY <1>1, FS_Subset
<1>3. IsFiniteSet(T)
  BY NamesAssumption, FS_Union
<1>4. Cardinality(Users) <= Cardinality(T)
  <2> DEFINE f == [u \in Users |-> history[u].of]
  <2>1. f \in [Users -> T] /\ \A u, v \in Users : f[u] = f[v] => u = v
    BY DEF HistoryOK
  <2>2. f \in Injection(Users, T)
    BY <2>1 DEF Injection, IsInjective
  <2> QED
    BY <1>3, <2>2, FS_Injection
<1>5. Cardinality(Replies) <= Cardinality(Users)
  <2> DEFINE f == [i \in Replies |-> history[i].parent]
  <2>1. f \in [Replies -> Users] /\ \A i, j \in Replies : f[i] = f[j] => i = j
    BY DEF HistoryOK
  <2>2. f \in Injection(Replies, Users)
    BY <2>1 DEF Injection, IsInjective
  <2> QED
    BY <1>2, <2>2, FS_Injection
<1>6. Cardinality(Users) \in Nat /\ Cardinality(Replies) \in Nat /\ Cardinality(T) \in Nat
  BY <1>2, <1>3, FS_CardinalityType
<1>7. N = Cardinality(Users) + Cardinality(Replies)
  <2>1. Cardinality(Users \union Replies) = Cardinality(Users) + Cardinality(Replies) - Cardinality(Users \intersect Replies)
    BY <1>2, FS_Union
  <2>2. Cardinality(Users \intersect Replies) = 0 /\ Cardinality(Users \union Replies) = N
    BY <1>1, FS_EmptySet
  <2> HIDE DEF N
  <2> QED
    BY <1>6, <2>1, <2>2
<1> HIDE DEF N, T
<1>8. N <= 2 * Cardinality(T)
  BY <1>1, <1>4, <1>5, <1>6, <1>7
<1> QED
  BY <1>1, <1>6, <1>8 DEF MessageIds, T

\* The latest of some messages.
LEMMA LatestIs ==
  ASSUME history \in Seq(NativeMessages), NEW S \in SUBSET DOMAIN history
  PROVE  LatestOf(S) \in Nat /\ LatestOf(S) \in S \union {0} /\ \A i \in S : i <= LatestOf(S)
<1> DEFINE N == Len(history)
           U == {m \in Nat : \A i \in S : i <= m}
<1>1. N \in Nat /\ S \subseteq 1..N
  BY HistoryIs
<1>2. N \in U /\ U \in SUBSET Nat
  BY <1>1
<1>3. PICK m \in U : \A n \in U : m <= n
  BY <1>2, LeastNatural
<1>4. m \in S \union {0}
  <2> SUFFICES ASSUME m \notin S, m # 0 PROVE FALSE
    OBVIOUS
  <2>1. m - 1 \in Nat /\ \A i \in S : i <= m - 1
    BY <1>1, <1>3
  <2>2. m - 1 \in U
    BY <2>1
  <2> QED
    BY <1>3, <2>1, <2>2
<1>5. \A j \in S \union {0} : j <= m
  BY <1>1, <1>3
<1>6. LatestOf(S) \in S \union {0} /\ \A j \in S \union {0} : j <= LatestOf(S)
  BY <1>4, <1>5 DEF LatestOf
<1> QED
  BY <1>1, <1>6

-----------------------------------------------------------------------------
(* The projection                                                          *)

LEMMA ProjectionIs ==
  ASSUME NEW p \in Projections
  PROVE  /\ p.order \in Seq(Nat) /\ p.latest \in Nat /\ p.roles \subseteq Nat /\ p.parents \subseteq Nat
         /\ p.buf \in [MessageIds -> 0..2] /\ p.emitted \in [MessageIds -> 0..2]
         /\ p.up \in Seq([id : MessageIds, ver : {1, 2}]) /\ p.bound \in Nat /\ p.bad \in BOOLEAN
         /\ Len(p.up) \in Nat /\ DOMAIN p.up = 1..Len(p.up)
         /\ \A k \in DOMAIN p.up : p.up[k].id \in MessageIds /\ p.up[k].ver \in {1, 2}
         /\ \A i \in MessageIds : p.buf[i] \in 0..2 /\ p.emitted[i] \in 0..2
<1>1. /\ p.order \in Seq(Nat) /\ p.latest \in Nat /\ p.roles \subseteq Nat /\ p.parents \subseteq Nat
      /\ p.buf \in [MessageIds -> 0..2] /\ p.emitted \in [MessageIds -> 0..2]
      /\ p.up \in Seq([id : MessageIds, ver : {1, 2}]) /\ p.bound \in Nat /\ p.bad \in BOOLEAN
  BY DEF Projections
<1>2. Len(p.up) \in Nat /\ DOMAIN p.up = 1..Len(p.up) /\ \A k \in DOMAIN p.up : p.up[k] \in [id : MessageIds, ver : {1, 2}]
  BY <1>1, SeqIs
<1> QED
  BY <1>1, <1>2

\* What no message is shown or buffered by.
Same(p, q) == q.buf = p.buf /\ q.emitted = p.emitted /\ q.up = p.up /\ p.roles \subseteq q.roles

LEMMA SameLedger ==
  ASSUME NEW p, NEW q, LedgerOK(p), Same(p, q)
  PROVE  LedgerOK(q)
  BY DEF LedgerOK, Same, Met

LEMMA ThrowIs ==
  ASSUME NEW p \in Projections
  PROVE  Throw(p) \in Projections /\ Same(p, Throw(p)) /\ Throw(p).bad
  BY DEF Throw, Projections, Same

LEMMA BindIs ==
  ASSUME NEW p \in Projections, NEW id \in MessageIds
  PROVE  Bind(p, id) \in Projections /\ Same(p, Bind(p, id)) /\ Bind(p, id).roles = p.roles
<1>1. id \in Nat
  BY DEF MessageIds
<1> QED
  BY <1>1 DEF Bind, Projections, Same

LEMMA RecordIs ==
  ASSUME NEW p \in Projections, NEW id \in Nat
  PROVE  Record(p, id) \in Projections /\ Same(p, Record(p, id))
<1>1. Throw(p) \in Projections /\ Same(p, Throw(p))
  BY ThrowIs
<1>2. Append(p.order, id) \in Seq(Nat)
  BY ProjectionIs, AppendIs
<1>3. [p EXCEPT !.order = Append(@, id)] \in Projections /\ Same(p, [p EXCEPT !.order = Append(@, id)])
  BY <1>2 DEF Projections, Same
<1> QED
  BY <1>1, <1>3 DEF Record, Same

LEMMA KnowRoleIs ==
  ASSUME NEW p \in Projections, NEW id \in Nat
  PROVE  KnowRole(p, id) \in Projections /\ Same(p, KnowRole(p, id)) /\ id \in KnowRole(p, id).roles
  BY DEF KnowRole, Projections, Same

LEMMA RecordParentIs ==
  ASSUME NEW p \in Projections, NEW id \in Nat
  PROVE  RecordParent(p, id) \in Projections /\ Same(p, RecordParent(p, id))
<1>1. Throw(p) \in Projections /\ Same(p, Throw(p))
  BY ThrowIs
<1>3. [p EXCEPT !.parents = @ \union {id}] \in Projections /\ Same(p, [p EXCEPT !.parents = @ \union {id}])
  BY DEF Projections, Same
<1> QED
  BY <1>1, <1>3 DEF RecordParent, Same

\* The buffer takes one message, the parent of which is met.
LEMMA BufferIs ==
  ASSUME NEW p \in Projections, NEW id \in MessageIds, NEW ver \in {1, 2}
  PROVE  LET q == Buffer(p, id, ver) IN
         /\ q \in Projections /\ q.emitted = p.emitted /\ q.up = p.up /\ q.roles = p.roles /\ q.order = p.order
         /\ q.buf[id] = ver /\ \A i \in MessageIds : i # id => q.buf[i] = p.buf[i]
<1> DEFINE q == Buffer(p, id, ver)
<1>1. p.buf \in [MessageIds -> 0..2] /\ [p.buf EXCEPT ![id] = ver] \in [MessageIds -> 0..2]
  BY ProjectionIs
<1>2. q = [p EXCEPT !.buf = [p.buf EXCEPT ![id] = ver]]
  BY DEF Buffer
<1>3. /\ q \in Projections /\ q.emitted = p.emitted /\ q.up = p.up /\ q.roles = p.roles /\ q.order = p.order
      /\ q.buf = [p.buf EXCEPT ![id] = ver]
  BY <1>1, <1>2 DEF Projections
<1> QED
  BY <1>1, <1>3

LEMMA BufferKept ==
  ASSUME history \in Seq(NativeMessages), HistoryOK,
         NEW p \in Projections, NEW id \in DOMAIN history, NEW ver \in {1, 2}, LedgerOK(p),
         id \in Users => ver = 1 /\ id \in p.roles,
         id \in Replies => Met(p, history[id].parent)
  PROVE  LET q == Buffer(p, id, ver) IN
         /\ q \in Projections /\ LedgerOK(q)
         /\ \A i \in MessageIds : Met(p, i) => Met(q, i)
         /\ Met(q, id)
<1> DEFINE q == Buffer(p, id, ver)
<1>0. id \in MessageIds /\ DOMAIN history \subseteq MessageIds
  BY HistoryFits
<1>1. /\ q \in Projections /\ q.emitted = p.emitted /\ q.up = p.up /\ q.roles = p.roles
      /\ q.buf[id] = ver /\ \A i \in MessageIds : i # id => q.buf[i] = p.buf[i]
  BY <1>0, BufferIs
<1> HIDE DEF q
<1>2. /\ \A i \in MessageIds : Met(p, i) => Met(q, i)
      /\ \A i \in MessageIds : i # id => (Met(q, i) <=> Met(p, i))
      /\ Met(q, id)
  BY <1>0, <1>1 DEF Met
<1>3. /\ Users \subseteq DOMAIN history /\ Replies \subseteq DOMAIN history
      /\ \A i \in Replies : history[i].parent \in Users
  BY HistoryIs DEF HistoryOK
<1>4. \A i \in MessageIds : Met(q, i) => i \in DOMAIN history
  BY <1>2 DEF LedgerOK
<1>5. \A u \in Users : q.buf[u] # 0 => q.buf[u] = 1 /\ u \in q.roles
  BY <1>0, <1>1, <1>3 DEF LedgerOK
<1>6. \A i \in Replies : Met(q, i) => Met(q, history[i].parent)
  BY <1>0, <1>2, <1>3 DEF LedgerOK
<1>7. LedgerOK(q)
  BY <1>1, <1>4, <1>5, <1>6 DEF LedgerOK
<1> QED
  BY <1>1, <1>2, <1>7 DEF q

\* What may be shown: a user, and a reply that is final and the user of which was shown.
Showable(p, id) ==
    p.buf[id] # 0 /\ p.emitted[id] = 0 =>
        /\ errors = 0 => history[id].done /\ p.buf[id] = history[id].ver
        /\ id \in Replies => p.emitted[history[id].parent] # 0

\* What goes on with the messages from p to q: all that is met stays so, and what is
\* buffered stays so until it is shown.
Onward(p, q) ==
    \A i \in MessageIds : /\ Met(q, i) <=> Met(p, i)
                          /\ p.emitted[i] # 0 => q.emitted[i] = p.emitted[i]
                          /\ q.emitted[i] # 0 \/ q.buf[i] = p.buf[i]

LEMMA OnwardOn == ASSUME NEW p, NEW q, NEW r, Onward(p, q), Onward(q, r) PROVE Onward(p, r)
  BY DEF Onward

LEMMA OnwardSame == ASSUME NEW p, NEW q, Same(p, q) PROVE Onward(p, q)
  BY DEF Onward, Same, Met

LEMMA FlushIs ==
  ASSUME NEW p \in Projections, NEW id \in MessageIds
  PROVE  LET q == Flush(p, id) IN
         /\ q \in Projections /\ q.roles = p.roles
         /\ Onward(p, q)
         /\ Met(p, id) => q.emitted[id] # 0
         /\ \A i \in MessageIds : i # id => q.buf[i] = p.buf[i] /\ q.emitted[i] = p.emitted[i]
         /\ \/ Same(p, q)
            \/ /\ p.buf[id] # 0 /\ p.emitted[id] = 0 /\ q.buf[id] = 0 /\ q.emitted[id] = p.buf[id]
               /\ q.up = Append(p.up, [id |-> id, ver |-> p.buf[id]])
            \/ q.buf[id] = 0 /\ p.buf[id] = p.emitted[id] /\ q.emitted = p.emitted /\ q.up = p.up
<1> DEFINE b == Bind(p, id)
           q == Flush(p, id)
<1>1. b \in Projections /\ Same(p, b) /\ b.roles = p.roles
  BY BindIs
<1>2. /\ b.buf = p.buf /\ b.emitted = p.emitted /\ b.up = p.up
      /\ p.buf \in [MessageIds -> 0..2] /\ p.emitted \in [MessageIds -> 0..2]
      /\ p.up \in Seq([id : MessageIds, ver : {1, 2}])
  BY <1>1, ProjectionIs DEF Same
<1>3. \/ q = b /\ b.buf[id] = 0 /\ b.emitted[id] # 0
      \/ /\ b.buf[id] # 0 /\ b.emitted[id] = 0
         /\ q = [b EXCEPT !.buf[id] = 0, !.emitted[id] = b.buf[id], !.up = Append(@, [id |-> id, ver |-> b.buf[id]])]
      \/ b.buf[id] = b.emitted[id] /\ q = [b EXCEPT !.buf[id] = 0]
      \/ q = Throw(b) /\ b.buf[id] # 0 /\ b.emitted[id] # 0
  BY DEF Flush
<1> HIDE DEF b, q
<1>4. CASE q = b /\ b.buf[id] = 0 /\ b.emitted[id] # 0
  BY <1>1, <1>2, <1>4, OnwardSame DEF Same, q
<1>5. CASE q = Throw(b) /\ b.buf[id] # 0 /\ b.emitted[id] # 0
  <2>1. q \in Projections /\ Same(b, q) /\ q.roles = b.roles
    BY <1>1, <1>5, ThrowIs DEF Throw, Projections
  <2>2. Same(p, q)
    BY <1>1, <2>1 DEF Same
  <2> QED
    BY <1>1, <1>2, <1>5, <2>1, <2>2, OnwardSame DEF Same, q
<1>6. CASE b.buf[id] = b.emitted[id] /\ q = [b EXCEPT !.buf[id] = 0]
  <2>1. q \in Projections /\ q.emitted = p.emitted /\ q.up = p.up /\ q.roles = p.roles /\ q.buf = [p.buf EXCEPT ![id] = 0]
    <3>1. [p.buf EXCEPT ![id] = 0] \in [MessageIds -> 0..2]
      BY <1>2
    <3>2. q = [b EXCEPT !.buf = [p.buf EXCEPT ![id] = 0]]
      BY <1>2, <1>6
    <3> QED
      BY <1>1, <1>2, <3>1, <3>2 DEF Projections
  <2>2. q.buf[id] = 0 /\ \A i \in MessageIds : i # id => q.buf[i] = p.buf[i]
    BY <1>2, <2>1
  <2>3. p.buf[id] = p.emitted[id]
    BY <1>2, <1>6
  <2> QED
    BY <2>1, <2>2, <2>3 DEF Onward, Met, q
<1>7. CASE /\ b.buf[id] # 0 /\ b.emitted[id] = 0
           /\ q = [b EXCEPT !.buf[id] = 0, !.emitted[id] = b.buf[id], !.up = Append(@, [id |-> id, ver |-> b.buf[id]])]
  <2> DEFINE row == [id |-> id, ver |-> p.buf[id]]
  <2>1. row \in [id : MessageIds, ver : {1, 2}]
    BY <1>2, <1>7
  <2>2. Append(p.up, row) \in Seq([id : MessageIds, ver : {1, 2}])
    BY <1>2, <2>1
  <2>3. /\ q \in Projections /\ q.up = Append(p.up, row) /\ q.roles = p.roles
        /\ q.buf = [p.buf EXCEPT ![id] = 0] /\ q.emitted = [p.emitted EXCEPT ![id] = p.buf[id]]
    BY <1>1, <1>2, <1>7, <2>2 DEF Projections
  <2>4. q.buf[id] = 0 /\ q.emitted[id] = p.buf[id]
        /\ \A i \in MessageIds : i # id => q.buf[i] = p.buf[i] /\ q.emitted[i] = p.emitted[i]
    BY <1>2, <2>3
  <2>5. p.buf[id] # 0 /\ p.emitted[id] = 0
    BY <1>2, <1>7
  <2> QED
    BY <2>3, <2>4, <2>5 DEF Onward, Met, q
<1> QED
  BY <1>3, <1>4, <1>5, <1>6, <1>7

LEMMA FlushKept ==
  ASSUME history \in Seq(NativeMessages), HistoryOK,
         NEW p \in Projections, NEW id \in MessageIds, LedgerOK(p), Showable(p, id)
  PROVE  LedgerOK(Flush(p, id))
<1> DEFINE q == Flush(p, id)
<1>0. /\ p.buf \in [MessageIds -> 0..2] /\ p.emitted \in [MessageIds -> 0..2]
      /\ p.up \in Seq([id : MessageIds, ver : {1, 2}])
      /\ Len(p.up) \in Nat /\ DOMAIN p.up = 1..Len(p.up)
      /\ \A k \in DOMAIN p.up : p.up[k].id \in MessageIds /\ p.up[k].ver \in {1, 2}
  BY ProjectionIs
<1>1. /\ q \in Projections /\ q.roles = p.roles /\ Onward(p, q)
      /\ \A i \in MessageIds : i # id => q.buf[i] = p.buf[i] /\ q.emitted[i] = p.emitted[i]
      /\ \/ Same(p, q)
         \/ /\ p.buf[id] # 0 /\ p.emitted[id] = 0 /\ q.buf[id] = 0 /\ q.emitted[id] = p.buf[id]
            /\ q.up = Append(p.up, [id |-> id, ver |-> p.buf[id]])
         \/ q.buf[id] = 0 /\ p.buf[id] = p.emitted[id] /\ q.emitted = p.emitted /\ q.up = p.up
  BY FlushIs
<1> HIDE DEF q
<1>2. /\ Users \subseteq DOMAIN history /\ Replies \subseteq DOMAIN history
      /\ DOMAIN history \subseteq MessageIds
      /\ \A i \in Replies : history[i].parent \in Users
  BY HistoryIs, HistoryFits DEF HistoryOK
<1>3. \A i \in MessageIds : Met(q, i) <=> Met(p, i)
  BY <1>1 DEF Onward
<1>4. \A i \in MessageIds : Met(q, i) => i \in DOMAIN history
  BY <1>3 DEF LedgerOK
<1>6. \A i \in Replies : Met(q, i) => Met(q, history[i].parent)
  BY <1>2, <1>3 DEF LedgerOK
<1>7. CASE Same(p, q)
  BY <1>7, SameLedger DEF q
<1>5. ASSUME q.buf[id] = 0
      PROVE  \A u \in Users : q.buf[u] # 0 => q.buf[u] = 1 /\ u \in q.roles
  <2> SUFFICES ASSUME NEW u \in Users, q.buf[u] # 0 PROVE q.buf[u] = 1 /\ u \in q.roles
    OBVIOUS
  <2>1. u # id /\ u \in MessageIds
    BY <1>2, <1>5
  <2>2. q.buf[u] = p.buf[u]
    BY <1>1, <2>1
  <2> QED
    BY <1>1, <2>2 DEF LedgerOK
<1>8. CASE q.buf[id] = 0 /\ p.buf[id] = p.emitted[id] /\ q.emitted = p.emitted /\ q.up = p.up
  <2> HIDE DEF Met
  <2> QED
    BY <1>4, <1>5, <1>6, <1>8 DEF LedgerOK, q
<1>9. CASE /\ p.buf[id] # 0 /\ p.emitted[id] = 0 /\ q.buf[id] = 0 /\ q.emitted[id] = p.buf[id]
           /\ q.up = Append(p.up, [id |-> id, ver |-> p.buf[id]])
  <2> DEFINE n == Len(p.up)
             row == [id |-> id, ver |-> p.buf[id]]
  <2>1. row \in [id : MessageIds, ver : {1, 2}] /\ row.id = id /\ row.ver = p.buf[id]
    BY <1>0, <1>9
  <2>2. n \in Nat /\ DOMAIN q.up = 1..(n + 1) /\ q.up[n + 1] = row /\ \A k \in 1..n : q.up[k] = p.up[k]
    BY <1>0, <1>9, <2>1, AppendIs
  <2> HIDE DEF row, n
  <2>3. \A k \in 1..n : p.up[k].id # id
    <3> SUFFICES ASSUME NEW k \in DOMAIN p.up, p.up[k].id = id PROVE FALSE
      BY <1>0 DEF n
    <3>1. p.emitted[p.up[k].id] = p.up[k].ver
      BY DEF LedgerOK
    <3> QED
      BY <1>0, <1>9, <3>1
  <2>4. \A i \in MessageIds : q.emitted[i] # 0 => \E k \in DOMAIN q.up : q.up[k].id = i
    <3> SUFFICES ASSUME NEW i \in MessageIds, q.emitted[i] # 0 PROVE \E k \in 1..(n + 1) : q.up[k].id = i
      BY <2>2
    <3>1. CASE i = id
      BY <2>1, <2>2, <3>1
    <3>2. CASE i # id
      <4>1. PICK k \in 1..n : p.up[k].id = i
        BY <1>0, <1>1, <3>2 DEF LedgerOK, n
      <4> QED
        BY <2>2, <4>1
    <3> QED
      BY <3>1, <3>2
  <2>5. ASSUME NEW k \in DOMAIN q.up
        PROVE  LET m == q.up[k] IN
               /\ q.emitted[m.id] = m.ver
               /\ \A l \in DOMAIN q.up : q.up[l].id = m.id => l = k
               /\ errors = 0 => history[m.id].done /\ history[m.id].ver = m.ver
               /\ history[m.id].parent # 0 => \E j \in 1..(k - 1) : q.up[j].id = history[m.id].parent
    <3>1. k \in 1..n \/ k = n + 1
      BY <2>2
    <3>2. CASE k \in 1..n
      <4>1. q.up[k] = p.up[k] /\ p.up[k].id # id /\ p.up[k].id \in MessageIds
        BY <1>0, <2>2, <2>3, <3>2 DEF n
      <4>2. q.emitted[p.up[k].id] = p.up[k].ver
        BY <1>0, <1>1, <3>2, <4>1 DEF LedgerOK, n
      <4>3. \A l \in 1..(n + 1) : q.up[l].id = p.up[k].id => l = k
        <5> SUFFICES ASSUME NEW l \in 1..(n + 1), q.up[l].id = p.up[k].id PROVE l = k
          OBVIOUS
        <5>1. l \in 1..n
          BY <2>1, <2>2, <4>1
        <5> QED
          BY <1>0, <2>2, <3>2, <5>1 DEF LedgerOK, n
      <4>4. errors = 0 => history[p.up[k].id].done /\ history[p.up[k].id].ver = p.up[k].ver
        BY <1>0, <3>2 DEF LedgerOK, n
      <4>5. history[p.up[k].id].parent # 0 => \E j \in 1..(k - 1) : q.up[j].id = history[p.up[k].id].parent
        <5> SUFFICES ASSUME history[p.up[k].id].parent # 0
                     PROVE  \E j \in 1..(k - 1) : q.up[j].id = history[p.up[k].id].parent
          OBVIOUS
        <5>1. PICK j \in 1..(k - 1) : p.up[j].id = history[p.up[k].id].parent
          BY <1>0, <3>2 DEF LedgerOK, n
        <5>2. j \in 1..n
          BY <2>2, <3>2, <5>1
        <5> QED
          BY <2>2, <5>1, <5>2
      <4> QED
        BY <2>2, <4>1, <4>2, <4>3, <4>4, <4>5
    <3>3. CASE k = n + 1
      <4>1. q.up[k] = row
        BY <2>2, <3>3
      <4>2. \A l \in 1..(n + 1) : q.up[l].id = id => l = k
        BY <2>2, <2>3, <3>3
      <4>3. errors = 0 => history[id].done /\ history[id].ver = p.buf[id]
        BY <1>9 DEF Showable
      <4>4. id \in DOMAIN history
        BY <1>9 DEF LedgerOK, Met
      <4>5. history[id].parent # 0 => \E j \in 1..(k - 1) : q.up[j].id = history[id].parent
        <5> SUFFICES ASSUME history[id].parent # 0 PROVE \E j \in 1..n : q.up[j].id = history[id].parent
          BY <2>2, <3>3
        <5>1. id \in Replies
          BY <4>4 DEF HistoryOK, Replies
        <5>2. p.emitted[history[id].parent] # 0 /\ history[id].parent \in MessageIds
          BY <1>2, <1>9, <5>1 DEF Showable
        <5>3. PICK j \in 1..n : p.up[j].id = history[id].parent
          BY <1>0, <5>2 DEF LedgerOK, n
        <5> QED
          BY <2>2, <5>3
      <4> QED
        BY <1>9, <2>1, <2>2, <4>1, <4>2, <4>3, <4>5
    <3> QED
      BY <3>1, <3>2, <3>3
  <2>6. LedgerOK(q)
    BY <1>4, <1>5, <1>6, <1>9, <2>4, <2>5 DEF LedgerOK
  <2> QED
    BY <2>6 DEF q
<1> QED
  BY <1>1, <1>7, <1>8, <1>9

FlushIf(ids, p, n) == IF n \in ids THEN Flush(p, n) ELSE p

\* What is flushed is flushed in the order of the history.
LEMMA FlushAllSteps ==
  ASSUME history \in Seq(NativeMessages), NEW p, NEW ids
  PROVE  \E g : /\ g[0] = p /\ \A n \in 1..Len(history) : g[n] = FlushIf(ids, g[n - 1], n)
                /\ FlushAll(p, ids) = g[Len(history)]
<1> DEFINE N == Len(history)
           first == p
           Is(g, k) == g = [n \in 0..k |-> IF n = 0 THEN first ELSE FlushIf(ids, g[n - 1], n)]
           T == {k \in 0..N : \E g : Is(g, k)}
<1> HIDE DEF first
<1>1. 0 \in T
  <2> DEFINE g == [n \in 0..0 |-> first]
  <2>1. Is(g, 0)
    OBVIOUS
  <2>2. N \in Nat
    BY HistoryIs
  <2> HIDE DEF g, Is
  <2> QED
    BY <2>1, <2>2
<1>2. ASSUME NEW k \in 1..N, k - 1 \in T PROVE k \in T
  <2>1. PICK f : Is(f, k - 1)
    BY <1>2
  <2> DEFINE g == [n \in 0..k |-> IF n = k THEN FlushIf(ids, f[k - 1], k) ELSE f[n]]
  <2>2. g[k] = FlushIf(ids, f[k - 1], k) /\ \A n \in 0..(k - 1) : g[n] = f[n]
    OBVIOUS
  <2>3. \A n \in 0..(k - 1) : f[n] = IF n = 0 THEN first ELSE FlushIf(ids, f[n - 1], n)
    BY <2>1
  <2>4. DOMAIN g = 0..k /\ g = [n \in 0..k |-> g[n]]
    OBVIOUS
  <2> HIDE DEF g
  <2>5. \A n \in 0..k : g[n] = IF n = 0 THEN first ELSE FlushIf(ids, g[n - 1], n)
    <3> SUFFICES ASSUME NEW n \in 0..k PROVE g[n] = IF n = 0 THEN first ELSE FlushIf(ids, g[n - 1], n)
      OBVIOUS
    <3>1. CASE n = k
      <4>1. n # 0 /\ n - 1 \in 0..(k - 1)
        BY <3>1
      <4> QED
        BY <2>2, <3>1, <4>1
    <3>2. CASE n # k
      <4>1. n \in 0..(k - 1) /\ (n = 0 \/ n - 1 \in 0..(k - 1))
        BY <3>2
      <4> QED
        BY <2>2, <2>3, <4>1
    <3> QED
      BY <3>1, <3>2
  <2>6. Is(g, k)
    BY <2>4, <2>5
  <2> HIDE DEF Is
  <2> QED
    BY <2>6
<1>3. N \in T
  <2> HIDE DEF T
  <2>1. N \in Nat
    BY HistoryIs
  <2> HIDE DEF N
  <2>2. \A n \in 0..N : n \in T
    BY <1>1, <1>2, <2>1, UpTo
  <2> QED
    BY <2>1, <2>2
<1>4. PICK f : Is(f, N)
  BY <1>3
<1>5. Is(CHOOSE g : Is(g, N), N)
  BY <1>4, Zenon
<1> DEFINE after == CHOOSE g : Is(g, N)
<1>6. FlushAll(p, ids) = after[N]
  BY Zenon DEF FlushAll, FlushIf, first
<1> HIDE DEF after
<1>7. after = [n \in 0..N |-> IF n = 0 THEN first ELSE FlushIf(ids, after[n - 1], n)]
  BY <1>5 DEF after
<1>8. N \in Nat
  BY HistoryIs
<1> HIDE DEF N
<1>9. after[0] = first /\ \A n \in 1..N : after[n] = FlushIf(ids, after[n - 1], n)
  BY <1>7, <1>8
<1> QED
  BY <1>6, <1>9 DEF N, first

\* What a reconciliation starts from.
Adopted(p) ==
    LET ids == [i \in DOMAIN history |-> i] IN
    IF ~IsPrefix(p.order, ids) THEN Throw(p)
    ELSE [p EXCEPT !.order = ids, !.latest = LatestOf(Users), !.parents = @ \union (DOMAIN history \ Users)]

\* It reads the rows one after the other.
LEMMA ReconciledSteps ==
  ASSUME history \in Seq(NativeMessages), NEW p
  PROVE  \E g : /\ g[0] = Adopted(p) /\ \A n \in 1..Len(history) : g[n] = Backfill(g[n - 1], n)
                /\ Reconciled(p) = g[Len(history)]
<1> DEFINE N == Len(history)
           first == Adopted(p)
           Is(g, k) == g = [n \in 0..k |-> IF n = 0 THEN first ELSE Backfill(g[n - 1], n)]
           T == {k \in 0..N : \E g : Is(g, k)}
<1> HIDE DEF first
<1>1. 0 \in T
  <2> DEFINE g == [n \in 0..0 |-> first]
  <2>1. Is(g, 0)
    OBVIOUS
  <2>2. N \in Nat
    BY HistoryIs
  <2> HIDE DEF g, Is
  <2> QED
    BY <2>1, <2>2
<1>2. ASSUME NEW k \in 1..N, k - 1 \in T PROVE k \in T
  <2>1. PICK f : Is(f, k - 1)
    BY <1>2
  <2> DEFINE g == [n \in 0..k |-> IF n = k THEN Backfill(f[k - 1], k) ELSE f[n]]
  <2>2. g[k] = Backfill(f[k - 1], k) /\ \A n \in 0..(k - 1) : g[n] = f[n]
    OBVIOUS
  <2>3. \A n \in 0..(k - 1) : f[n] = IF n = 0 THEN first ELSE Backfill(f[n - 1], n)
    BY <2>1
  <2>4. DOMAIN g = 0..k /\ g = [n \in 0..k |-> g[n]]
    OBVIOUS
  <2> HIDE DEF g
  <2>5. \A n \in 0..k : g[n] = IF n = 0 THEN first ELSE Backfill(g[n - 1], n)
    <3> SUFFICES ASSUME NEW n \in 0..k PROVE g[n] = IF n = 0 THEN first ELSE Backfill(g[n - 1], n)
      OBVIOUS
    <3>1. CASE n = k
      <4>1. n # 0 /\ n - 1 \in 0..(k - 1)
        BY <3>1
      <4> QED
        BY <2>2, <3>1, <4>1
    <3>2. CASE n # k
      <4>1. n \in 0..(k - 1) /\ (n = 0 \/ n - 1 \in 0..(k - 1))
        BY <3>2
      <4> QED
        BY <2>2, <2>3, <4>1
    <3> QED
      BY <3>1, <3>2
  <2>6. Is(g, k)
    BY <2>4, <2>5
  <2> HIDE DEF Is
  <2> QED
    BY <2>6
<1>3. N \in T
  <2> HIDE DEF T
  <2>1. N \in Nat
    BY HistoryIs
  <2> HIDE DEF N
  <2>2. \A n \in 0..N : n \in T
    BY <1>1, <1>2, <2>1, UpTo
  <2> QED
    BY <2>1, <2>2
<1>4. PICK f : Is(f, N)
  BY <1>3
<1>5. Is(CHOOSE g : Is(g, N), N)
  BY <1>4, Zenon
<1> DEFINE after == CHOOSE g : Is(g, N)
<1>6. Reconciled(p) = after[N]
  BY Zenon DEF Reconciled, Adopted, first
<1> HIDE DEF after
<1>7. after = [n \in 0..N |-> IF n = 0 THEN first ELSE Backfill(after[n - 1], n)]
  BY <1>5 DEF after
<1>8. N \in Nat
  BY HistoryIs
<1> HIDE DEF N
<1>9. after[0] = first /\ \A n \in 1..N : after[n] = Backfill(after[n - 1], n)
  BY <1>7, <1>8
<1> QED
  BY <1>6, <1>9 DEF N, first


\* Everything that waits, or every user that waits, is shown.
LEMMA FlushAllKept ==
  ASSUME history \in Seq(NativeMessages), HistoryOK,
         NEW p \in Projections, LedgerOK(p), NEW ids \in SUBSET MessageIds,
         \A id \in ids : /\ p.buf[id] # 0
                         /\ errors = 0 => id \in Users
                         /\ id \in Replies => p.emitted[history[id].parent] # 0 \/ history[id].parent \in ids
  PROVE  LET q == FlushAll(p, ids) IN
         /\ q \in Projections /\ LedgerOK(q) /\ Onward(p, q) /\ q.roles = p.roles
         /\ \A id \in ids : q.emitted[id] # 0
         /\ \A i \in MessageIds \ ids : q.buf[i] = p.buf[i] /\ q.emitted[i] = p.emitted[i]
<1> DEFINE N == Len(history)
           Goal(q) == /\ q \in Projections /\ LedgerOK(q) /\ Onward(p, q) /\ q.roles = p.roles
                      /\ \A i \in MessageIds \ ids : q.buf[i] = p.buf[i] /\ q.emitted[i] = p.emitted[i]
<1>0. /\ N \in Nat /\ DOMAIN history = 1..N /\ DOMAIN history \subseteq MessageIds
      /\ Users \subseteq 1..N /\ Replies \subseteq 1..N
      /\ \A i \in 1..N : i \in Users \/ i \in Replies
      /\ \A u \in Users : history[u].done /\ history[u].ver = 1
      /\ \A i \in Replies : history[i].parent \in Users /\ history[i].parent < i
  BY HistoryIs, HistoryFits DEF HistoryOK
<1>1. PICK g : /\ g[0] = p /\ \A n \in 1..N : g[n] = FlushIf(ids, g[n - 1], n)
               /\ FlushAll(p, ids) = g[N]
  BY FlushAllSteps
<1> DEFINE T == {n \in 0..N : Goal(g[n]) /\ \A i \in ids : i <= n => g[n].emitted[i] # 0}
<1> HIDE DEF N
<1>2. 0 \in T
  <2>1. Onward(p, p)
    BY DEF Onward
  <2>2. \A i \in ids : ~(i <= 0)
    BY DEF MessageIds
  <2> QED
    BY <1>0, <1>1, <2>1, <2>2
<1>3. ASSUME NEW n \in 1..N, n - 1 \in T PROVE n \in T
  <2> DEFINE f == g[n - 1]
             q == g[n]
  <2>1. /\ Goal(f) /\ \A i \in ids : i <= n - 1 => f.emitted[i] # 0
        /\ q = FlushIf(ids, f, n)
    BY <1>1, <1>3
  <2>2. n \in MessageIds /\ n \in 0..N
    BY <1>0
  <2> HIDE DEF f, q
  <2>3. CASE n \notin ids
    <3>1. q = f
      BY <2>1, <2>3 DEF FlushIf
    <3>2. \A i \in ids : i <= n => i <= n - 1
      BY <2>3 DEF MessageIds
    <3> QED
      BY <2>1, <2>2, <3>1, <3>2 DEF q
  <2>4. CASE n \in ids
    <3>1. q = Flush(f, n)
      BY <2>1, <2>4 DEF FlushIf
    <3>2. /\ q \in Projections /\ q.roles = f.roles /\ Onward(f, q)
          /\ Met(f, n) => q.emitted[n] # 0
          /\ \A i \in MessageIds : i # n => q.buf[i] = f.buf[i] /\ q.emitted[i] = f.emitted[i]
      <4>1. f \in Projections /\ n \in MessageIds
        BY <2>1, <2>2
      <4> QED
        BY <3>1, <4>1, FlushIs, Zenon
    <3>3. Onward(p, q)
      BY <2>1, <3>2, OnwardOn
    <3>4. Met(f, n)
      BY <2>1, <2>2, <2>4 DEF Onward, Met
    <3>5. \A i \in MessageIds \ ids : q.buf[i] = p.buf[i] /\ q.emitted[i] = p.emitted[i]
      BY <2>1, <2>4, <3>2
    <3>6. \A i \in ids : i <= n => q.emitted[i] # 0
      <4> SUFFICES ASSUME NEW i \in ids, i <= n PROVE q.emitted[i] # 0
        OBVIOUS
      <4>1. i = n \/ i <= n - 1
        BY DEF MessageIds
      <4> QED
        BY <2>1, <3>2, <3>4, <4>1
    <3>7. Showable(f, n)
      <4> SUFFICES ASSUME f.buf[n] # 0, f.emitted[n] = 0
                   PROVE  /\ errors = 0 => history[n].done /\ f.buf[n] = history[n].ver
                          /\ n \in Replies => f.emitted[history[n].parent] # 0
        BY DEF Showable
      <4>1. n \in Users => f.buf[n] = 1 /\ history[n].done /\ history[n].ver = 1
        BY <1>0, <2>1 DEF LedgerOK
      <4>2. ASSUME n \in Replies PROVE f.emitted[history[n].parent] # 0
        <5> DEFINE u == history[n].parent
        <5>1. u \in Users /\ u < n /\ u \in MessageIds /\ u \in Nat
          <6>1. u \in Users /\ u < n
            BY <1>0, <4>2
          <6>2. u \in 1..N
            BY <1>0, <6>1
          <6> QED
            BY <1>0, <6>1, <6>2
        <5>2. p.emitted[u] # 0 \/ u \in ids
          BY <2>4, <4>2
        <5>3. CASE p.emitted[u] # 0
          BY <2>1, <5>1, <5>3 DEF Onward
        <5>4. CASE u \in ids
          <6>1. u <= n - 1
            BY <5>1
          <6> QED
            BY <2>1, <5>4, <6>1
        <5> QED
          BY <5>2, <5>3, <5>4
      <4> QED
        BY <2>4, <4>1, <4>2
    <3>8. LedgerOK(q)
      BY <2>1, <2>2, <3>1, <3>7, FlushKept
    <3> QED
      BY <2>1, <2>2, <3>2, <3>3, <3>5, <3>6, <3>8 DEF q
  <2> QED
    BY <2>3, <2>4
<1>4. N \in T
  <2> HIDE DEF T
  <2>1. \A n \in 0..N : n \in T
    BY <1>0, <1>2, <1>3, UpTo
  <2> QED
    BY <1>0, <2>1
<1>5. \A id \in ids : id <= N
  <2> SUFFICES ASSUME NEW id \in ids PROVE id <= N
    OBVIOUS
  <2>1. Met(p, id) /\ id \in MessageIds
    BY DEF Met
  <2>2. id \in 1..N
    BY <1>0, <2>1 DEF LedgerOK
  <2> QED
    BY <1>0, <2>2
<1> QED
  BY <1>1, <1>4, <1>5

\* What the reconciliation has read after n rows.
ReadUpTo(p, n) ==
    /\ p \in Projections /\ LedgerOK(p)
    /\ \A u \in Users : u <= n => p.emitted[u] # 0
    /\ \A i \in Replies : i <= n => p.emitted[i] # 0 \/ p.buf[i] = history[i].ver

LEMMA BackfillKept ==
  ASSUME history \in Seq(NativeMessages), HistoryOK,
         NEW p, NEW n \in DOMAIN history, ReadUpTo(p, n - 1)
  PROVE  ReadUpTo(Backfill(p, n), n)
<1> DEFINE r == KnowRole(p, n)
           b == Buffer(r, n, history[n].ver)
           q == Bind(b, n)
           z == Backfill(p, n)
<1>0. /\ DOMAIN history \subseteq MessageIds /\ n \in MessageIds /\ n \in Nat
      /\ Users \subseteq DOMAIN history /\ Replies \subseteq DOMAIN history /\ DOMAIN history \subseteq Nat
      /\ history[n].ver \in {1, 2} /\ (n \in Users \/ n \in Replies) /\ Users \intersect Replies = {}
      /\ \A u \in Users : history[u].done /\ history[u].ver = 1
      /\ \A i \in Replies : history[i].parent \in Users /\ history[i].parent < i
  BY HistoryIs, HistoryFits DEF HistoryOK, Replies
<1>1. p \in Projections /\ LedgerOK(p)
  BY DEF ReadUpTo
<1>2. r \in Projections /\ Same(p, r) /\ n \in r.roles
  BY <1>0, <1>1, KnowRoleIs
<1>3. LedgerOK(r)
  BY <1>1, <1>2, SameLedger
<1>4. ASSUME n \in Replies PROVE r.emitted[history[n].parent] # 0
  <2>1. history[n].parent \in Users /\ history[n].parent <= n - 1
    BY <1>0, <1>4
  <2>2. p.emitted[history[n].parent] # 0
    BY <2>1 DEF ReadUpTo
  <2> QED
    BY <1>2, <2>2 DEF Same
<1> HIDE DEF r
<1>5. /\ b \in Projections /\ b.emitted = r.emitted /\ b.up = r.up /\ b.roles = r.roles
      /\ b.buf[n] = history[n].ver /\ \A i \in MessageIds : i # n => b.buf[i] = r.buf[i]
  <2>1. n \in MessageIds /\ history[n].ver \in {1, 2} /\ r \in Projections
    BY <1>0, <1>2
  <2> QED
    BY <2>1, BufferIs, Zenon DEF b
<1>6. LedgerOK(b)
  BY <1>0, <1>2, <1>3, <1>4, BufferKept DEF Met
<1> HIDE DEF b
<1>7. q \in Projections /\ Same(b, q)
  BY <1>0, <1>5, BindIs
<1>8. LedgerOK(q)
  BY <1>6, <1>7, SameLedger
<1> HIDE DEF q
<1>9. /\ q.buf[n] = history[n].ver /\ q.emitted = p.emitted
      /\ \A i \in MessageIds : i # n => q.buf[i] = p.buf[i]
  BY <1>0, <1>2, <1>5, <1>7 DEF Same
<1>10. z = IF history[n].done THEN Flush(q, n) ELSE IF p.emitted[n] # 0 THEN Throw(q) ELSE q
  BY DEF Backfill, q, b, r
<1>11. ASSUME ~history[n].done PROVE /\ z \in Projections /\ LedgerOK(z) /\ z.buf = q.buf /\ z.emitted = q.emitted
  <2>1. Throw(q) \in Projections /\ Same(q, Throw(q))
    BY <1>7, ThrowIs
  <2>2. LedgerOK(Throw(q))
    BY <1>8, <2>1, SameLedger
  <2> QED
    BY <1>7, <1>8, <1>10, <1>11, <2>1, <2>2 DEF Same
<1>12. ASSUME history[n].done
       PROVE  /\ z \in Projections /\ LedgerOK(z) /\ z.emitted[n] # 0
              /\ \A i \in MessageIds : i # n => z.buf[i] = q.buf[i] /\ z.emitted[i] = q.emitted[i]
  <2>1. z = Flush(q, n)
    BY <1>10, <1>12
  <2>2. Met(q, n)
    BY <1>0, <1>9 DEF Met
  <2>3. Showable(q, n)
    BY <1>2, <1>4, <1>9, <1>12 DEF Showable, Same
  <2>4. LedgerOK(z)
    BY <1>0, <1>7, <1>8, <2>1, <2>3, FlushKept
  <2> QED
    <3>1. n \in MessageIds /\ q \in Projections
      BY <1>0, <1>7
    <3>2. /\ z \in Projections /\ (Met(q, n) => z.emitted[n] # 0)
          /\ \A i \in MessageIds : i # n => z.buf[i] = q.buf[i] /\ z.emitted[i] = q.emitted[i]
      <4> HIDE DEF z
      <4> QED
        BY <2>1, <3>1, FlushIs, Zenon
    <3> QED
      BY <2>2, <2>4, <3>2
<1> HIDE DEF z
<1>13. ASSUME NEW u \in Users, u <= n PROVE z.emitted[u] # 0
  <2>1. u \in MessageIds /\ (u = n \/ u <= n - 1)
    BY <1>0, <1>13
  <2>2. CASE u = n
    BY <1>0, <1>12, <2>2
  <2>3. CASE u # n
    <3>1. p.emitted[u] # 0
      BY <2>1, <2>3 DEF ReadUpTo
    <3> QED
      BY <1>9, <1>11, <1>12, <2>1, <2>3, <3>1
  <2> QED
    BY <2>2, <2>3
<1>14. ASSUME NEW i \in Replies, i <= n PROVE z.emitted[i] # 0 \/ z.buf[i] = history[i].ver
  <2>1. i \in MessageIds /\ (i = n \/ i <= n - 1)
    BY <1>0, <1>14
  <2>2. CASE i = n
    BY <1>9, <1>11, <1>12, <2>2
  <2>3. CASE i # n
    <3>1. p.emitted[i] # 0 \/ p.buf[i] = history[i].ver
      BY <2>1, <2>3 DEF ReadUpTo
    <3> QED
      BY <1>9, <1>11, <1>12, <2>1, <2>3, <3>1
  <2> QED
    BY <2>2, <2>3
<1>15. z \in Projections /\ LedgerOK(z)
  BY <1>11, <1>12
<1> QED
  BY <1>13, <1>14, <1>15 DEF ReadUpTo, z

LEMMA ReconciledKept ==
  ASSUME history \in Seq(NativeMessages), HistoryOK, NEW p \in Projections, LedgerOK(p)
  PROVE  ReadUpTo(Reconciled(p), Len(history))
<1> DEFINE N == Len(history)
           a == Adopted(p)
<1>1. N \in Nat /\ DOMAIN history = 1..N
  BY HistoryIs
<1>2. a \in Projections /\ Same(p, a)
  <2> DEFINE ids == [i \in DOMAIN history |-> i]
             r == [p EXCEPT !.order = ids, !.latest = LatestOf(Users), !.parents = @ \union (DOMAIN history \ Users)]
  <2>1. ids \in Seq(Nat) /\ DOMAIN history \subseteq Nat
    BY <1>1
  <2>2. LatestOf(Users) \in Nat
    BY LatestIs, HistoryIs
  <2> HIDE DEF ids
  <2>3. r \in Projections /\ Same(p, r)
    BY <2>1, <2>2 DEF Projections, Same
  <2>4. Throw(p) \in Projections /\ Same(p, Throw(p))
    BY ThrowIs
  <2>5. a = Throw(p) \/ a = r
    BY DEF Adopted, ids
  <2> HIDE DEF a, r
  <2> QED
    BY <2>3, <2>4, <2>5
<1>3. LedgerOK(a)
  BY <1>2, SameLedger
<1> HIDE DEF a
<1>4. PICK g : /\ g[0] = a /\ \A n \in 1..N : g[n] = Backfill(g[n - 1], n)
               /\ Reconciled(p) = g[N]
  BY ReconciledSteps DEF a
<1> DEFINE T == {n \in 0..N : ReadUpTo(g[n], n)}
<1> HIDE DEF N
<1>5. 0 \in T
  <2>1. \A i \in DOMAIN history : ~(i <= 0)
    BY <1>1
  <2>2. \A i \in Users \union Replies : ~(i <= 0)
    BY <2>1 DEF Users, Replies
  <2> QED
    BY <1>1, <1>2, <1>3, <1>4, <2>2 DEF ReadUpTo
<1>6. ASSUME NEW n \in 1..N, n - 1 \in T PROVE n \in T
  BY <1>1, <1>4, <1>6, BackfillKept
<1>7. N \in T
  <2> HIDE DEF T
  <2>1. \A n \in 0..N : n \in T
    BY <1>1, <1>5, <1>6, UpTo
  <2> QED
    BY <1>1, <2>1
<1> QED
  BY <1>4, <1>7 DEF N

\* Everything that waits.
LEMMA FlushBuffered ==
  ASSUME history \in Seq(NativeMessages), HistoryOK, NEW p \in Projections, LedgerOK(p), errors # 0
  PROVE  LET q == FlushAll(p, Buffered(p)) IN q \in Projections /\ LedgerOK(q) /\ Onward(p, q)
<1> DEFINE ids == Buffered(p)
<1>1. /\ DOMAIN history \subseteq MessageIds
      /\ Users \subseteq DOMAIN history /\ Replies \subseteq DOMAIN history
      /\ \A i \in Replies : history[i].parent \in Users
  BY HistoryIs, HistoryFits DEF HistoryOK
<1>2. ids \in SUBSET MessageIds
  BY DEF Buffered
<1>3. ASSUME NEW id \in ids
      PROVE  /\ p.buf[id] # 0
             /\ errors = 0 => id \in Users
             /\ id \in Replies => p.emitted[history[id].parent] # 0 \/ history[id].parent \in ids
  <2>1. p.buf[id] # 0 /\ id \in MessageIds
    BY DEF Buffered
  <2>2. ASSUME id \in Replies PROVE p.emitted[history[id].parent] # 0 \/ history[id].parent \in ids
    <3>1. Met(p, history[id].parent) /\ history[id].parent \in MessageIds
      BY <1>1, <2>1, <2>2 DEF LedgerOK, Met
    <3> QED
      BY <3>1 DEF Met, Buffered
  <2> QED
    BY <2>1, <2>2
<1> HIDE DEF ids
<1>4. LET q == FlushAll(p, ids) IN q \in Projections /\ LedgerOK(q) /\ Onward(p, q)
  BY <1>2, <1>3, FlushAllKept
<1> QED
  BY <1>4 DEF ids

\* message.updated of a user.
LEMMA OnUserKept ==
  ASSUME history \in Seq(NativeMessages), HistoryOK, NEW p \in Projections, LedgerOK(p), NEW u \in Users
  PROVE  LET q == OnUser(p, u) IN
         /\ q \in Projections /\ LedgerOK(q)
         /\ \A i \in MessageIds : Met(p, i) => Met(q, i)
         /\ Met(q, u)
         /\ \A i \in Replies : q.buf[i] = p.buf[i] /\ q.emitted[i] = p.emitted[i]
<1> DEFINE r == KnowRole(Record(p, u), u)
           b == Buffer(r, u, 1)
           c == [b EXCEPT !.latest = IF u > @ THEN u ELSE @]
           q == OnUser(p, u)
<1>1. /\ u \in Nat /\ u \in DOMAIN history /\ u \in MessageIds /\ Replies \subseteq MessageIds /\ u \notin Replies
  BY HistoryIs, HistoryFits
<1>2. Record(p, u) \in Projections /\ Same(p, Record(p, u))
  BY <1>1, RecordIs
<1>3. r \in Projections /\ Same(Record(p, u), r) /\ u \in r.roles
  BY <1>1, <1>2, KnowRoleIs
<1>4. Same(p, r)
  BY <1>2, <1>3 DEF Same
<1>5. LedgerOK(r)
  BY <1>4, SameLedger
<1>6. q = IF p.emitted[u] # 0 THEN r ELSE c
  BY DEF OnUser
<1> HIDE DEF r
<1>7. /\ b \in Projections /\ LedgerOK(b) /\ Met(b, u)
      /\ \A i \in MessageIds : Met(r, i) => Met(b, i)
  BY <1>1, <1>3, <1>5, BufferKept
<1>8. b.emitted = r.emitted /\ b.roles = r.roles /\ \A i \in MessageIds : i # u => b.buf[i] = r.buf[i]
  <2>1. 1 \in {1, 2}
    OBVIOUS
  <2> QED
    BY <1>1, <1>3, <2>1, BufferIs, Zenon
<1> HIDE DEF b
<1>9. c \in Projections /\ Same(b, c)
  BY <1>1, <1>7 DEF Projections, Same
<1>10. LedgerOK(c)
  BY <1>7, <1>9, SameLedger
<1> HIDE DEF c, q
<1>11. CASE p.emitted[u] # 0
  BY <1>3, <1>4, <1>5, <1>6, <1>11 DEF Same, Met, q
<1>12. CASE p.emitted[u] = 0
  BY <1>1, <1>4, <1>6, <1>7, <1>8, <1>9, <1>10, <1>12 DEF Same, Met, q
<1> QED
  BY <1>11, <1>12

\* message.part.updated of a reply.
LEMMA OnPartKept ==
  ASSUME history \in Seq(NativeMessages), HistoryOK, NEW p \in Projections, LedgerOK(p),
         NEW id \in Replies, NEW ver \in {1, 2}, Met(p, history[id].parent)
  PROVE  LET q == OnPart(p, id, ver) IN
         /\ q \in Projections /\ LedgerOK(q)
         /\ \A i \in MessageIds : Met(p, i) => Met(q, i)
         /\ q.emitted = p.emitted
         /\ \A i \in MessageIds : i # id \/ p.emitted[i] # 0 => q.buf[i] = p.buf[i]
         /\ p.emitted[id] = 0 => q.buf[id] = ver
<1> DEFINE r == Record(p, id)
           b == Buffer(r, id, ver)
           q == OnPart(p, id, ver)
<1>1. /\ id \in Nat /\ id \in DOMAIN history /\ id \in MessageIds /\ id \notin Users
  BY HistoryIs, HistoryFits
<1>2. r \in Projections /\ Same(p, r)
  BY <1>1, RecordIs
<1>3. LedgerOK(r) /\ Met(r, history[id].parent)
  BY <1>2, SameLedger DEF Same, Met
<1>4. Throw(p) \in Projections /\ Same(p, Throw(p))
  BY ThrowIs
<1>5. LedgerOK(Throw(p))
  BY <1>4, SameLedger
<1>6. q = IF p.emitted[id] = 0 THEN b ELSE IF p.emitted[id] = ver THEN p ELSE Throw(p)
  BY DEF OnPart
<1> HIDE DEF r
<1>7. /\ b \in Projections /\ LedgerOK(b) /\ \A i \in MessageIds : Met(r, i) => Met(b, i)
  BY <1>1, <1>2, <1>3, BufferKept
<1>8. b.emitted = r.emitted /\ b.buf[id] = ver /\ \A i \in MessageIds : i # id => b.buf[i] = r.buf[i]
  BY <1>1, <1>2, BufferIs, Zenon
<1> HIDE DEF b, q
<1>9. CASE p.emitted[id] = 0
  BY <1>1, <1>2, <1>6, <1>7, <1>8, <1>9 DEF Same, Met, q
<1>10. CASE p.emitted[id] # 0
  BY <1>1, <1>4, <1>5, <1>6, <1>10 DEF Same, Met, q
<1> QED
  BY <1>9, <1>10

\* message.updated of a reply: its user is shown.
LEMMA OnAssistantKept ==
  ASSUME history \in Seq(NativeMessages), HistoryOK, NEW p \in Projections, LedgerOK(p),
         NEW id \in Replies, Met(p, history[id].parent)
  PROVE  LET q == OnAssistant(p, id) IN
         /\ q \in Projections /\ LedgerOK(q) /\ Onward(p, q)
         /\ q.emitted[history[id].parent] # 0
         /\ \A i \in Replies : q.buf[i] = p.buf[i] /\ q.emitted[i] = p.emitted[i]
<1> DEFINE r1 == Record(p, id)
           r2 == KnowRole(r1, id)
           r == RecordParent(r2, id)
           ids == Buffered(r) \intersect r.roles \intersect Users
           q == OnAssistant(p, id)
           u == history[id].parent
<1>1. /\ id \in Nat /\ u \in Users /\ DOMAIN history \subseteq MessageIds
      /\ Users \subseteq MessageIds /\ Replies \subseteq MessageIds /\ Users \intersect Replies = {}
  BY HistoryIs, HistoryFits DEF HistoryOK, Replies
<1>2. r1 \in Projections /\ Same(p, r1)
  BY <1>1, RecordIs
<1>3. r2 \in Projections /\ Same(r1, r2)
  BY <1>1, <1>2, KnowRoleIs
<1>4. r \in Projections /\ Same(r2, r)
  BY <1>1, <1>3, RecordParentIs
<1>5. Same(p, r)
  BY <1>2, <1>3, <1>4 DEF Same
<1>6. LedgerOK(r)
  BY <1>5, SameLedger
<1>7. q = FlushAll(r, ids)
  BY DEF OnAssistant, FlushUsers
<1> HIDE DEF q, r
<1>8. ids \in SUBSET MessageIds /\ \A i \in ids : r.buf[i] # 0 /\ i \in Users /\ i \notin Replies
  BY <1>1 DEF Buffered
<1>9. Met(r, u) => r.emitted[u] # 0 \/ u \in ids
  BY <1>1, <1>6 DEF Met, Buffered, LedgerOK
<1> HIDE DEF ids
<1>10. /\ q \in Projections /\ LedgerOK(q) /\ Onward(r, q)
       /\ \A i \in ids : q.emitted[i] # 0
       /\ \A i \in MessageIds \ ids : q.buf[i] = r.buf[i] /\ q.emitted[i] = r.emitted[i]
  BY <1>4, <1>6, <1>7, <1>8, FlushAllKept
<1>11. Onward(p, q)
  BY <1>5, <1>10, OnwardSame, OnwardOn
<1>12. q.emitted[u] # 0
  BY <1>1, <1>5, <1>9, <1>10 DEF Same, Met, Onward
<1>13. \A i \in Replies : q.buf[i] = p.buf[i] /\ q.emitted[i] = p.emitted[i]
  BY <1>1, <1>5, <1>8, <1>10 DEF Same
<1> QED
  BY <1>10, <1>11, <1>12, <1>13 DEF q

\* Its completion shows it.
LEMMA OnDoneKept ==
  ASSUME history \in Seq(NativeMessages), HistoryOK, NEW p \in Projections, LedgerOK(p),
         NEW id \in Replies, Met(p, history[id].parent),
         errors = 0 => history[id].done /\ (p.emitted[id] # 0 \/ p.buf[id] = history[id].ver)
  PROVE  LET q == Flush(OnAssistant(p, id), id) IN q \in Projections /\ LedgerOK(q) /\ Onward(p, q)
<1> DEFINE r == OnAssistant(p, id)
           q == Flush(r, id)
<1>1. /\ r \in Projections /\ LedgerOK(r) /\ Onward(p, r) /\ r.emitted[history[id].parent] # 0
      /\ r.buf[id] = p.buf[id] /\ r.emitted[id] = p.emitted[id]
  BY OnAssistantKept
<1> HIDE DEF r
<1>2. id \in MessageIds
  BY HistoryIs, HistoryFits
<1>3. Showable(r, id)
  BY <1>1 DEF Showable
<1>4. q \in Projections /\ Onward(r, q)
  BY <1>1, <1>2, FlushIs, Zenon
<1>5. LedgerOK(q)
  BY <1>1, <1>2, <1>3, FlushKept
<1> QED
  BY <1>1, <1>4, <1>5, OnwardOn DEF q, r

-----------------------------------------------------------------------------
(* The event stream as the capture pump reads it                           *)

LEMMA SaidIs == ASSUME NEW u PROVE Said(u).t = "user" /\ Said(u).id = u
BY DEF Said

LEMMA LatestPart == ASSUME NEW i PROVE Latest(i).t = "part" /\ Latest(i).id = i /\ Latest(i).ver = history[i].ver
BY DEF Latest

\* What was read is met.
LEMMA StreamTail ==
  ASSUME history \in Seq(NativeMessages), HistoryOK, NEW p, NEW q, NEW s \in Seq(Events), s # <<>>, StreamOK(p, s),
         \A i \in MessageIds : Met(p, i) => Met(q, i),
         \A u \in Users : Head(s) = Said(u) => Met(q, u)
  PROVE  StreamOK(q, Tail(s))
<1> DEFINE r == Tail(s)
           n == Len(s)
<1>1. /\ n \in Nat \ {0} /\ DOMAIN s = 1..n /\ DOMAIN r = 1..(n - 1) /\ Head(s) = s[1]
      /\ \A k \in 1..(n - 1) : r[k] = s[k + 1] /\ k + 1 \in 1..n
      /\ \A k \in 1..n : k = 1 \/ (k - 1 \in 1..(n - 1) /\ r[k - 1] = s[k])
  BY TailIs
<1>2. /\ Users \subseteq MessageIds
      /\ \A i \in Replies : history[i].parent \in Users
  BY HistoryIs, HistoryFits DEF HistoryOK
<1> HIDE DEF r, n
<1>3. ASSUME NEW k \in 1..(n - 1)
      PROVE  /\ r[k].t = "user" => r[k].id \in Users
             /\ r[k].t = "error" => errors > 0
             /\ r[k].t \in {"assistant", "part", "done"} =>
                   /\ r[k].id \in Replies
                   /\ LET u == history[r[k].id].parent IN Unread \/ Met(q, u) \/ \E j \in 1..(k - 1) : r[j] = Said(u)
  <2>1. r[k] = s[k + 1] /\ k + 1 \in DOMAIN s
    BY <1>1
  <2>2. r[k].t = "user" => r[k].id \in Users
    BY <2>1 DEF StreamOK
  <2>3. r[k].t = "error" => errors > 0
    BY <2>1 DEF StreamOK
  <2>4. ASSUME r[k].t \in {"assistant", "part", "done"}
        PROVE  /\ r[k].id \in Replies
               /\ LET u == history[r[k].id].parent IN Unread \/ Met(q, u) \/ \E j \in 1..(k - 1) : r[j] = Said(u)
    <3> DEFINE u == history[r[k].id].parent
    <3>1. r[k].id \in Replies /\ (Unread \/ Met(p, u) \/ \E j \in 1..(k + 1 - 1) : s[j] = Said(u))
      BY <2>1, <2>4 DEF StreamOK
    <3>2. u \in Users /\ u \in MessageIds
      BY <1>2, <3>1
    <3>3. ASSUME NEW j \in 1..(k + 1 - 1), s[j] = Said(u) PROVE Met(q, u) \/ \E l \in 1..(k - 1) : r[l] = Said(u)
      <4>1. CASE j = 1
        BY <1>1, <3>2, <3>3, <4>1
      <4>2. CASE j # 1
        <5>1. j - 1 \in 1..(k - 1) /\ j \in 1..n /\ r[j - 1] = Said(u)
          BY <1>1, <3>3, <4>2
        <5> QED
          BY <5>1
      <4> QED
        BY <4>1, <4>2
    <3> QED
      BY <3>1, <3>2, <3>3
  <2> QED
    BY <2>2, <2>3, <2>4
<1>4. ASSUME conn = "up", NEW u \in Users PROVE Unread \/ Met(q, u) \/ \E k \in 1..(n - 1) : r[k] = Said(u)
  <2>1. Unread \/ Met(p, u) \/ \E k \in 1..n : s[k] = Said(u)
    BY <1>1, <1>4 DEF StreamOK
  <2>2. ASSUME NEW k \in 1..n, s[k] = Said(u) PROVE Met(q, u) \/ \E l \in 1..(n - 1) : r[l] = Said(u)
    BY <1>1, <2>2
  <2> QED
    BY <1>2, <2>1, <2>2
<1> QED
  BY <1>1, <1>3, <1>4 DEF StreamOK, r

\* What was read is up to date, or something newer follows.
LEMMA FreshTail ==
  ASSUME history \in Seq(NativeMessages), HistoryOK, NEW p, NEW q, NEW s \in Seq(Events), s # <<>>,
         StreamOK(p, s), FreshOK(p, s),
         \A i \in Replies : Fresh(p, i) => Fresh(q, i) \/ (Head(s).t = "part" /\ Head(s).id = i /\ Head(s) # Latest(i)),
         \A i \in Replies : Head(s) = Latest(i) => Fresh(q, i)
  PROVE  FreshOK(q, Tail(s))
<1> DEFINE r == Tail(s)
           n == Len(s)
<1>1. /\ n \in Nat \ {0} /\ DOMAIN s = 1..n /\ DOMAIN r = 1..(n - 1) /\ Head(s) = s[1]
      /\ \A k \in 1..(n - 1) : r[k] = s[k + 1] /\ k + 1 \in 1..n
      /\ \A k \in 1..n : k = 1 \/ (k - 1 \in 1..(n - 1) /\ r[k - 1] = s[k])
  BY TailIs
<1> HIDE DEF r, n
<1>2. ASSUME NEW k \in 1..(n - 1), r[k].t = "done"
      PROVE  history[r[k].id].done /\ (Fresh(q, r[k].id) \/ \E j \in 1..(k - 1) : r[j] = Latest(r[k].id))
  <2> DEFINE i == r[k].id
  <2>1. r[k] = s[k + 1] /\ k + 1 \in DOMAIN s
    BY <1>1
  <2>2. history[i].done /\ (Fresh(p, i) \/ \E j \in 1..(k + 1 - 1) : s[j] = Latest(i))
    BY <1>2, <2>1 DEF FreshOK
  <2>3. i \in Replies
    BY <1>2, <2>1 DEF StreamOK
  <2>4. ASSUME NEW j \in 1..(k + 1 - 1), s[j] = Latest(i) PROVE Fresh(q, i) \/ \E l \in 1..(k - 1) : r[l] = Latest(i)
    <3>1. CASE j = 1
      BY <1>1, <2>3, <2>4, <3>1
    <3>2. CASE j # 1
      <4>1. j - 1 \in 1..(k - 1) /\ j \in 1..n /\ r[j - 1] = Latest(i)
        BY <1>1, <2>4, <3>2
      <4> QED
        BY <4>1
    <3> QED
      BY <3>1, <3>2
  <2>5. ASSUME Head(s).t = "part", Head(s).id = i, Head(s) # Latest(i) PROVE \E l \in 1..(k - 1) : r[l] = Latest(i)
    <3>1. \E l \in (1 + 1)..(k + 1 - 1) : s[l] = Latest(i)
      <4>1. 1 \in DOMAIN s /\ s[1].t = "part" /\ s[1].id = i /\ s[1] # Latest(s[1].id)
        BY <1>1, <2>5
      <4>2. k + 1 \in DOMAIN s /\ k + 1 > 1 /\ s[k + 1].t = "done" /\ s[k + 1].id = s[1].id
        BY <1>2, <2>1, <4>1
      <4>3. \E l \in (1 + 1)..(k + 1 - 1) : s[l] = Latest(s[1].id)
        BY <4>1, <4>2 DEF FreshOK
      <4> QED
        BY <4>1, <4>3
    <3>2. PICK l \in 2..k : s[l] = Latest(i)
      BY <3>1
    <3>3. l - 1 \in 1..(k - 1) /\ l \in 1..n /\ r[l - 1] = Latest(i)
      BY <1>1, <3>2
    <3> QED
      BY <3>3
  <2> QED
    BY <2>2, <2>3, <2>4, <2>5
<1>3. ASSUME conn = "up", NEW i \in Replies PROVE Fresh(q, i) \/ \E k \in 1..(n - 1) : r[k] = Latest(i)
  <2>1. Fresh(p, i) \/ \E k \in 1..n : s[k] = Latest(i)
    BY <1>1, <1>3 DEF FreshOK
  <2>2. ASSUME NEW k \in 1..n, s[k] = Latest(i) PROVE Fresh(q, i) \/ \E l \in 1..(n - 1) : r[l] = Latest(i)
    BY <1>1, <2>2
  <2>3. ASSUME Head(s).t = "part", Head(s).id = i, Head(s) # Latest(i) PROVE \E l \in 1..(n - 1) : r[l] = Latest(i)
    <3>1. 1 \in DOMAIN s /\ s[1].t = "part" /\ s[1].id = i /\ s[1] # Latest(s[1].id)
      BY <1>1, <2>3
    <3>2. PICK l \in DOMAIN s : l > 1 /\ s[l] = Latest(s[1].id)
      BY <1>3, <3>1 DEF FreshOK
    <3> QED
      BY <1>1, <3>1, <3>2
  <2> QED
    BY <2>1, <2>2, <2>3
<1>4. ASSUME NEW k \in 1..(n - 1), r[k].t = "part", r[k] # Latest(r[k].id)
      PROVE  /\ conn = "up" => \E l \in 1..(n - 1) : l > k /\ r[l] = Latest(r[k].id)
             /\ \A d \in 1..(n - 1) : d > k /\ r[d].t = "done" /\ r[d].id = r[k].id
                   => \E l \in (k + 1)..(d - 1) : r[l] = Latest(r[k].id)
  <2> DEFINE L == Latest(r[k].id)
  <2>1. r[k] = s[k + 1] /\ k + 1 \in DOMAIN s
    BY <1>1
  <2>2. ASSUME conn = "up" PROVE \E l \in 1..(n - 1) : l > k /\ r[l] = L
    <3>1. PICK l \in DOMAIN s : l > k + 1 /\ s[l] = L
      BY <1>4, <2>1, <2>2 DEF FreshOK
    <3>2. l - 1 \in 1..(n - 1) /\ l - 1 > k /\ r[l - 1] = L
      BY <1>1, <3>1
    <3> QED
      BY <3>2
  <2>3. ASSUME NEW d \in 1..(n - 1), d > k, r[d].t = "done", r[d].id = r[k].id
        PROVE  \E l \in (k + 1)..(d - 1) : r[l] = L
    <3>1. d + 1 \in DOMAIN s /\ d + 1 > k + 1 /\ s[d + 1].t = "done" /\ s[d + 1].id = s[k + 1].id
      BY <1>1, <2>1, <2>3
    <3>4. s[k + 1].t = "part" /\ s[k + 1] # Latest(s[k + 1].id) /\ L = Latest(s[k + 1].id)
      BY <1>4, <2>1
    <3>5. \E l \in (k + 1 + 1)..(d + 1 - 1) : s[l] = Latest(s[k + 1].id)
      <4>1. \A a \in DOMAIN s : s[a].t = "part" /\ s[a] # Latest(s[a].id) =>
               \A e \in DOMAIN s : e > a /\ s[e].t = "done" /\ s[e].id = s[a].id
                  => \E l \in (a + 1)..(e - 1) : s[l] = Latest(s[a].id)
        BY DEF FreshOK
      <4> QED
        BY <2>1, <3>1, <3>4, <4>1
    <3>2. PICK l \in (k + 1 + 1)..(d + 1 - 1) : s[l] = L
      BY <3>4, <3>5
    <3>3. l - 1 \in (k + 1)..(d - 1) /\ l \in 1..n /\ r[l - 1] = L
      BY <1>1, <3>2
    <3> QED
      BY <3>3
  <2> QED
    BY <2>2, <2>3
<1> QED
  BY <1>1, <1>2, <1>3, <1>4 DEF FreshOK, r


\* What leaves the native session alone.
LEMMA HistorySame ==
  ASSUME history' = history
  PROVE  Users' = Users /\ Replies' = Replies /\ (HistoryOK => HistoryOK')
<1>1. Users' = Users /\ Replies' = Replies
  BY DEF Users, Replies
<1>2. HistoryOK => HistoryOK'
  BY <1>1 DEF HistoryOK
<1> QED
  BY <1>1, <1>2

LEMMA LedgerSame ==
  ASSUME UNCHANGED <<history, errors>>, LedgerOK(proj')
  PROVE  LedgerOK(proj)'
BY HistorySame DEF LedgerOK, Met

LEMMA StreamSame ==
  ASSUME UNCHANGED <<history, errors>>, conn' = "up" => conn = "up", Unread => Unread', StreamOK(proj', sse')
  PROVE  StreamOK(proj, sse)'
BY HistorySame DEF StreamOK, Met, Said

LEMMA FreshSame ==
  ASSUME UNCHANGED <<history, errors>>, conn' = "up" => conn = "up", Unread => Unread', FreshOK(proj', sse')
  PROVE  FreshOK(proj, sse)'
BY HistorySame DEF FreshOK, Fresh, Latest

-----------------------------------------------------------------------------
(* A step of the native server                                             *)

\* Messages are added and completed, and what is complete stays.
Grown ==
    /\ history' \in Seq(NativeMessages) /\ HistoryOK' /\ DOMAIN history \subseteq DOMAIN history'
    /\ \A i \in DOMAIN history :
          /\ history'[i].role = history[i].role /\ history'[i].of = history[i].of
          /\ history'[i].parent = history[i].parent
          /\ history[i].done => history'[i] = history[i]
    /\ errors \in Nat /\ errors' \in Nat /\ errors <= errors'

LatestNext(i) == [t |-> "part", id |-> i, ver |-> history'[i].ver]

\* The events that tell of it.
Told(events) ==
    /\ events \in Seq(Events)
    /\ \A m \in DOMAIN events :
          /\ events[m].t = "user" => events[m].id \in Users'
          /\ events[m].t = "error" => errors' > 0
          /\ events[m].t \in {"assistant", "part", "done"} =>
                events[m].id \in Replies' /\ history'[events[m].id].parent \in Users
    /\ \A u \in Users' : u \in Users \/ \E m \in DOMAIN events : events[m] = Said(u)

SaysAsBefore(i) == i \in Replies /\ history'[i].ver = history[i].ver
ToldFresh(events) ==
    /\ \A m \in DOMAIN events :
          /\ events[m].t = "part" => events[m] = LatestNext(events[m].id)
          /\ events[m].t = "done" =>
                /\ history'[events[m].id].done
                /\ \/ SaysAsBefore(events[m].id)
                   \/ \E j \in 1..(m - 1) : events[j] = LatestNext(events[m].id)
    /\ \A i \in Replies' : SaysAsBefore(i) \/ \E m \in DOMAIN events : events[m] = LatestNext(i)

LEMMA HistoryFitsNext == history' \in Seq(NativeMessages) /\ HistoryOK' => DOMAIN history' \subseteq MessageIds
<1>1. history \in Seq(NativeMessages) /\ HistoryOK => DOMAIN history \subseteq MessageIds
  BY HistoryFits
<1>2. (history \in Seq(NativeMessages) /\ HistoryOK => DOMAIN history \subseteq MessageIds)'
  BY <1>1, PTL
<1> QED
  BY <1>2 DEF MessageIds, NativeMessages

LEMMA GrownFacts ==
  ASSUME history \in Seq(NativeMessages), HistoryOK, Grown
  PROVE  /\ Users \subseteq Users' /\ Replies \subseteq Replies'
         /\ Users' \subseteq MessageIds /\ Replies' \subseteq MessageIds /\ Users \intersect Replies = {}
         /\ \A i \in DOMAIN history : (i \in Users' <=> i \in Users) /\ (i \in Replies' <=> i \in Replies)
         /\ \A i \in Users' \union Replies' : i \in DOMAIN history'
         /\ \A u \in Users : history'[u] = history[u]
         /\ \A i \in Replies : history'[i].parent = history[i].parent /\ history[i].parent \in Users
<1>1. /\ DOMAIN history' = 1..Len(history')
      /\ Users' \subseteq DOMAIN history' /\ Replies' \subseteq DOMAIN history' /\ DOMAIN history' \subseteq MessageIds
  <2>1. history' \in Seq(NativeMessages) /\ DOMAIN history' \subseteq MessageIds
    BY HistoryFitsNext DEF Grown
  <2>2. DOMAIN history' = 1..Len(history')
    BY <2>1, SeqIs
  <2> QED
    BY <2>1, <2>2 DEF Users, Replies
<1>2. \A i \in DOMAIN history : (i \in Users' <=> i \in Users) /\ (i \in Replies' <=> i \in Replies)
  BY DEF Grown, Users, Replies
<1>3. Users \subseteq DOMAIN history /\ Replies \subseteq DOMAIN history /\ Users \intersect Replies = {}
  BY DEF Users, Replies
<1>4. \A u \in Users : history'[u] = history[u]
  BY <1>3 DEF Grown, HistoryOK
<1>5. \A i \in Replies : history'[i].parent = history[i].parent /\ history[i].parent \in Users
  BY <1>3 DEF Grown, HistoryOK
<1> QED
  BY <1>1, <1>2, <1>3, <1>4, <1>5

LEMMA LedgerGrown ==
  ASSUME history \in Seq(NativeMessages), HistoryOK, Grown, proj' = proj, proj \in Projections, LedgerOK(proj)
  PROVE  LedgerOK(proj)'
<1>1. /\ Users \subseteq Users' /\ Replies \subseteq Replies' /\ Users' \subseteq MessageIds /\ Replies' \subseteq MessageIds
      /\ \A i \in DOMAIN history : (i \in Users' <=> i \in Users) /\ (i \in Replies' <=> i \in Replies)
      /\ DOMAIN history \subseteq DOMAIN history'
      /\ \A i \in DOMAIN history : history'[i].parent = history[i].parent
      /\ \A i \in DOMAIN history : history[i].done => history'[i] = history[i]
      /\ errors' = 0 => errors = 0
  BY GrownFacts DEF Grown
<1>2. \A i \in MessageIds : Met(proj, i) => i \in DOMAIN history
  BY DEF LedgerOK
<1>3. \A u \in Users' : proj.buf[u] # 0 => proj.buf[u] = 1 /\ u \in proj.roles
  BY <1>1, <1>2 DEF LedgerOK, Met
<1>4. \A i \in Replies' : Met(proj, i) => Met(proj, history'[i].parent)
  BY <1>1, <1>2 DEF LedgerOK
<1>5. \A i \in MessageIds : proj.emitted[i] # 0 => \E k \in DOMAIN proj.up : proj.up[k].id = i
  BY DEF LedgerOK
<1>6. ASSUME NEW k \in DOMAIN proj.up
      PROVE  LET m == proj.up[k] IN
             /\ proj.emitted[m.id] = m.ver
             /\ \A l \in DOMAIN proj.up : proj.up[l].id = m.id => l = k
             /\ errors' = 0 => history'[m.id].done /\ history'[m.id].ver = m.ver
             /\ history'[m.id].parent # 0 => \E j \in 1..(k - 1) : proj.up[j].id = history'[m.id].parent
  <2> DEFINE m == proj.up[k]
  <2>1. /\ proj.emitted[m.id] = m.ver
        /\ \A l \in DOMAIN proj.up : proj.up[l].id = m.id => l = k
        /\ errors = 0 => history[m.id].done /\ history[m.id].ver = m.ver
        /\ history[m.id].parent # 0 => \E j \in 1..(k - 1) : proj.up[j].id = history[m.id].parent
    BY DEF LedgerOK
  <2>2. m.id \in DOMAIN history
    <3>1. m.id \in MessageIds /\ m.ver \in {1, 2}
      BY ProjectionIs
    <3> QED
      BY <1>2, <2>1, <3>1 DEF Met
  <2> HIDE DEF m
  <2> QED
    BY <1>1, <2>1, <2>2 DEF m
<1>7. \A i \in MessageIds : Met(proj, i) => i \in DOMAIN history'
  BY <1>1, <1>2
<1> QED
  BY <1>3, <1>4, <1>5, <1>6, <1>7 DEF LedgerOK, Met

\* Where the events are, if the connection is there.
LEMMA ArriveIs ==
  ASSUME sse \in Seq(Events), NEW events \in Seq(Events), Arrive(events)
  PROVE  /\ sse' \in Seq(Events)
         /\ Len(sse) \in Nat /\ DOMAIN sse = 1..Len(sse)
         /\ Len(events) \in Nat /\ DOMAIN events = 1..Len(events)
         /\ \A k \in 1..Len(sse) : k \in DOMAIN sse' /\ sse'[k] = sse[k]
         /\ conn # "up" => DOMAIN sse' = 1..Len(sse)
         /\ conn = "up" => /\ DOMAIN sse' = 1..(Len(sse) + Len(events))
                           /\ \A k \in 1..Len(events) : sse'[Len(sse) + k] = events[k]
         /\ \A k \in DOMAIN sse' : \/ k \in 1..Len(sse)
                                   \/ k > Len(sse) /\ k - Len(sse) \in 1..Len(events) /\ conn = "up" /\ sse'[k] = events[k - Len(sse)]
<1>1. Len(sse) \in Nat /\ DOMAIN sse = 1..Len(sse)
  BY SeqIs
<1>2. CASE conn # "up"
  BY <1>1, <1>2, SeqIs DEF Arrive
<1>3. CASE conn = "up"
  <2> DEFINE n == Len(sse)
             b == Len(events)
             st == sse \o events
  <2>1. /\ st \in Seq(Events) /\ n \in Nat /\ b \in Nat /\ DOMAIN events = 1..b /\ DOMAIN st = 1..(n + b)
        /\ \A k \in 1..n : st[k] = sse[k]
        /\ \A k \in 1..b : st[n + k] = events[k]
        /\ \A k \in (n + 1)..(n + b) : k - n \in 1..b /\ st[k] = events[k - n]
    BY ConcatIs
  <2>2. sse' = st
    BY <1>3 DEF Arrive
  <2> HIDE DEF st, n, b
  <2>3. \A k \in 1..(n + b) : k \in 1..n \/ (k > n /\ k \in (n + 1)..(n + b))
    BY <2>1
  <2>4. \A k \in 1..n : k \in 1..(n + b)
    BY <2>1
  <2>5. \A k \in DOMAIN st : k \in 1..n \/ (k > n /\ k - n \in 1..b /\ st[k] = events[k - n])
    BY <2>1, <2>3
  <2>6. \A k \in 1..n : k \in DOMAIN st /\ st[k] = sse[k]
    BY <2>1, <2>4
  <2> QED
    BY <1>1, <1>3, <2>1, <2>2, <2>5, <2>6 DEF n, b
<1> QED
  BY <1>2, <1>3

LEMMA StreamGrown ==
  ASSUME history \in Seq(NativeMessages), HistoryOK, Grown, UNCHANGED <<proj, conn, capture, mode>>,
         sse \in Seq(Events), NEW events, Told(events), Arrive(events), StreamOK(proj, sse)
  PROVE  StreamOK(proj, sse)'
<1> DEFINE n == Len(sse)
           b == Len(events)
<1>1. /\ Users \subseteq Users' /\ Replies \subseteq Replies'
      /\ \A i \in Replies : history'[i].parent = history[i].parent /\ history[i].parent \in Users
      /\ errors \in Nat /\ errors' \in Nat /\ errors <= errors'
  BY GrownFacts DEF Grown
<1>2. /\ n \in Nat /\ DOMAIN sse = 1..n /\ b \in Nat /\ DOMAIN events = 1..b
      /\ \A k \in 1..n : k \in DOMAIN sse' /\ sse'[k] = sse[k]
      /\ conn = "up" => /\ DOMAIN sse' = 1..(n + b)
                        /\ \A k \in 1..b : sse'[n + k] = events[k]
      /\ \A k \in DOMAIN sse' : \/ k \in 1..n
                                \/ k > n /\ k - n \in 1..b /\ conn = "up" /\ sse'[k] = events[k - n]
  BY ArriveIs DEF Told
<1>3. Unread' <=> Unread
  BY DEF Unread
<1> HIDE DEF n, b
<1>4. ASSUME NEW k \in DOMAIN sse'
      PROVE  /\ sse'[k].t = "user" => sse'[k].id \in Users'
             /\ sse'[k].t = "error" => errors' > 0
             /\ sse'[k].t \in {"assistant", "part", "done"} =>
                   /\ sse'[k].id \in Replies'
                   /\ LET u == history'[sse'[k].id].parent IN
                      Unread \/ Met(proj, u) \/ \E j \in 1..(k - 1) : sse'[j] = Said(u)
  <2>1. CASE k \in 1..n
    <3>1. sse'[k] = sse[k] /\ k \in DOMAIN sse
      BY <1>2, <2>1
    <3>2. sse[k].t = "user" => sse[k].id \in Users'
      BY <1>1, <3>1 DEF StreamOK
    <3>3. sse[k].t = "error" => errors' > 0
      BY <1>1, <3>1 DEF StreamOK
    <3>4. ASSUME sse[k].t \in {"assistant", "part", "done"}
          PROVE  /\ sse[k].id \in Replies'
                 /\ LET u == history'[sse[k].id].parent IN
                    Unread \/ Met(proj, u) \/ \E j \in 1..(k - 1) : sse'[j] = Said(u)
      <4> DEFINE i == sse[k].id
                 u == history[i].parent
      <4>1. i \in Replies /\ (Unread \/ Met(proj, u) \/ \E j \in 1..(k - 1) : sse[j] = Said(u))
        BY <3>1, <3>4 DEF StreamOK
      <4>2. i \in Replies' /\ history'[i].parent = u
        BY <1>1, <4>1
      <4>3. \A j \in 1..(k - 1) : sse'[j] = sse[j]
        BY <1>2, <2>1
      <4> QED
        BY <4>1, <4>2, <4>3
    <3> QED
      BY <3>1, <3>2, <3>3, <3>4
  <2>2. CASE k > n /\ k - n \in 1..b /\ conn = "up" /\ sse'[k] = events[k - n]
    <3>1. k - n \in DOMAIN events
      BY <1>2, <2>2
    <3>2. /\ sse'[k].t = "user" => sse'[k].id \in Users'
          /\ sse'[k].t = "error" => errors' > 0
      BY <2>2, <3>1 DEF Told
    <3>3. ASSUME sse'[k].t \in {"assistant", "part", "done"}
          PROVE  /\ sse'[k].id \in Replies'
                 /\ LET u == history'[sse'[k].id].parent IN
                    Unread \/ Met(proj, u) \/ \E j \in 1..(k - 1) : sse'[j] = Said(u)
      <4> DEFINE u == history'[sse'[k].id].parent
      <4>1. sse'[k].id \in Replies' /\ u \in Users
        BY <2>2, <3>1, <3>3 DEF Told
      <4>2. Unread \/ Met(proj, u) \/ \E j \in DOMAIN sse : sse[j] = Said(u)
        BY <2>2, <4>1 DEF StreamOK
      <4>3. ASSUME NEW j \in 1..n, sse[j] = Said(u) PROVE j \in 1..(k - 1) /\ sse'[j] = Said(u)
        BY <1>2, <2>2, <4>3
      <4> QED
        BY <1>2, <4>1, <4>2, <4>3
    <3> QED
      BY <3>2, <3>3
  <2> QED
    BY <1>2, <2>1, <2>2
<1>5. ASSUME conn = "up", NEW u \in Users' PROVE Unread \/ Met(proj, u) \/ \E k \in DOMAIN sse' : sse'[k] = Said(u)
  <2>1. CASE u \in Users
    <3>1. Unread \/ Met(proj, u) \/ \E k \in 1..n : sse[k] = Said(u)
      BY <1>2, <1>5, <2>1 DEF StreamOK
    <3> QED
      BY <1>2, <3>1
  <2>2. CASE u \notin Users
    <3>1. PICK m \in 1..b : events[m] = Said(u)
      BY <1>2, <2>2 DEF Told
    <3>2. n + m \in DOMAIN sse' /\ sse'[n + m] = Said(u)
      BY <1>2, <1>5, <3>1
    <3> QED
      BY <3>2
  <2> QED
    BY <2>1, <2>2
<1> QED
  BY <1>3, <1>4, <1>5 DEF StreamOK, Met, Said

LEMMA FreshGrown ==
  ASSUME history \in Seq(NativeMessages), HistoryOK, Grown, UNCHANGED <<proj, conn, capture, mode>>,
         sse \in Seq(Events), NEW events, Told(events), ToldFresh(events), Arrive(events),
         StreamOK(proj, sse), FreshOK(proj, sse)
  PROVE  FreshOK(proj, sse)'
<1> DEFINE n == Len(sse)
           b == Len(events)
           FreshNext(i) == Unread \/ proj.emitted[i] # 0 \/ proj.buf[i] = history'[i].ver
<1>1. /\ Replies \subseteq Replies'
      /\ \A i \in Replies : i \in DOMAIN history
      /\ \A i \in DOMAIN history : history[i].done => history'[i] = history[i]
  BY GrownFacts DEF Grown, Replies
<1>2. /\ n \in Nat /\ DOMAIN sse = 1..n /\ b \in Nat /\ DOMAIN events = 1..b
      /\ \A k \in 1..n : k \in DOMAIN sse' /\ sse'[k] = sse[k]
      /\ conn = "up" => /\ DOMAIN sse' = 1..(n + b)
                        /\ \A k \in 1..b : sse'[n + k] = events[k]
      /\ \A k \in DOMAIN sse' : \/ k \in 1..n
                                \/ k > n /\ k - n \in 1..b /\ conn = "up" /\ sse'[k] = events[k - n]
  BY ArriveIs DEF Told
<1>3. \A i : SaysAsBefore(i) => LatestNext(i) = Latest(i) /\ (FreshNext(i) <=> Fresh(proj, i))
  BY DEF SaysAsBefore, LatestNext, Latest, Fresh
<1>4. \A i \in Replies : history[i].done => SaysAsBefore(i) /\ history'[i].done
  BY <1>1 DEF SaysAsBefore
<1> HIDE DEF n, b, FreshNext
<1>5. ASSUME NEW k \in 1..n, sse[k].t = "done"
      PROVE  SaysAsBefore(sse[k].id) /\ history'[sse[k].id].done
  BY <1>2, <1>4, <1>5 DEF StreamOK, FreshOK
<1>6. ASSUME NEW i, SaysAsBefore(i), conn = "up" PROVE FreshNext(i) \/ \E j \in 1..n : sse'[j] = LatestNext(i)
  <2>1. Fresh(proj, i) \/ \E j \in 1..n : sse[j] = Latest(i)
    BY <1>2, <1>6 DEF SaysAsBefore, FreshOK
  <2> QED
    BY <1>2, <1>3, <1>6, <2>1
<1>7. ASSUME NEW k \in DOMAIN sse', sse'[k].t = "done"
      PROVE  /\ history'[sse'[k].id].done
             /\ FreshNext(sse'[k].id) \/ \E j \in 1..(k - 1) : sse'[j] = LatestNext(sse'[k].id)
  <2> DEFINE i == sse'[k].id
  <2>1. CASE k \in 1..n
    <3>1. sse'[k] = sse[k] /\ SaysAsBefore(i) /\ history'[i].done
      BY <1>2, <1>5, <1>7, <2>1
    <3>2. Fresh(proj, i) \/ \E j \in 1..(k - 1) : sse[j] = Latest(i)
      BY <1>2, <1>7, <2>1, <3>1 DEF FreshOK
    <3>3. \A j \in 1..(k - 1) : sse'[j] = sse[j]
      BY <1>2, <2>1
    <3> QED
      BY <1>3, <3>1, <3>2, <3>3
  <2>2. CASE k > n /\ k - n \in 1..b /\ conn = "up" /\ sse'[k] = events[k - n]
    <3>1. /\ history'[i].done
          /\ SaysAsBefore(i) \/ \E j \in 1..(k - n - 1) : events[j] = LatestNext(i)
      BY <1>2, <1>7, <2>2 DEF ToldFresh
    <3>2. ASSUME NEW j \in 1..(k - n - 1), events[j] = LatestNext(i) PROVE \E l \in 1..(k - 1) : sse'[l] = LatestNext(i)
      <4>1. j \in 1..b /\ n + j \in 1..(k - 1)
        BY <1>2, <2>2
      <4>2. sse'[n + j] = LatestNext(i)
        BY <1>2, <2>2, <3>2, <4>1
      <4> QED
        BY <4>1, <4>2
    <3>3. ASSUME NEW j \in 1..n PROVE j \in 1..(k - 1)
      BY <1>2, <2>2
    <3>4. CASE SaysAsBefore(i)
      BY <1>6, <2>2, <3>1, <3>3, <3>4
    <3> QED
      BY <3>1, <3>2, <3>4
  <2> QED
    BY <1>2, <2>1, <2>2
<1>8. ASSUME conn = "up", NEW i \in Replies' PROVE FreshNext(i) \/ \E k \in DOMAIN sse' : sse'[k] = LatestNext(i)
  <2>1. SaysAsBefore(i) \/ \E m \in 1..b : events[m] = LatestNext(i)
    BY <1>2 DEF ToldFresh
  <2>2. ASSUME NEW m \in 1..b, events[m] = LatestNext(i) PROVE n + m \in DOMAIN sse' /\ sse'[n + m] = LatestNext(i)
    BY <1>2, <1>8, <2>2
  <2> QED
    BY <1>2, <1>6, <1>8, <2>1, <2>2
<1>9. ASSUME NEW k \in DOMAIN sse', sse'[k].t = "part", sse'[k] # LatestNext(sse'[k].id)
      PROVE  /\ conn = "up" => \E l \in DOMAIN sse' : l > k /\ sse'[l] = LatestNext(sse'[k].id)
             /\ \A d \in DOMAIN sse' : d > k /\ sse'[d].t = "done" /\ sse'[d].id = sse'[k].id
                   => \E l \in (k + 1)..(d - 1) : sse'[l] = LatestNext(sse'[k].id)
  <2> DEFINE i == sse'[k].id
  <2>1. k \in 1..n
    <3> SUFFICES ASSUME k > n, k - n \in 1..b, sse'[k] = events[k - n] PROVE FALSE
      BY <1>2
    <3> QED
      BY <1>2, <1>9 DEF ToldFresh
  <2>2. sse'[k] = sse[k] /\ k \in DOMAIN sse /\ k \in Nat
    BY <1>2, <2>1
  <2>3. i \in Replies
    BY <1>9, <2>2 DEF StreamOK
  <2>4. ASSUME SaysAsBefore(i)
        PROVE  /\ conn = "up" => \E l \in 1..n : l > k /\ sse[l] = LatestNext(i)
               /\ \A d \in 1..n : d > k /\ sse[d].t = "done" /\ sse[d].id = i
                     => \E l \in (k + 1)..(d - 1) : sse[l] = LatestNext(i)
    <3>1. sse[k].t = "part" /\ sse[k] # Latest(sse[k].id) /\ Latest(i) = LatestNext(i) /\ sse[k].id = i
      BY <1>3, <1>9, <2>2, <2>4
    <3>2. /\ conn = "up" => \E l \in DOMAIN sse : l > k /\ sse[l] = Latest(sse[k].id)
          /\ \A d \in DOMAIN sse : d > k /\ sse[d].t = "done" /\ sse[d].id = sse[k].id
                => \E l \in (k + 1)..(d - 1) : sse[l] = Latest(sse[k].id)
      BY <2>2, <3>1 DEF FreshOK
    <3> HIDE DEF i
    <3> QED
      BY <1>2, <3>1, <3>2
  <2>5. \A l \in 1..n : l \in DOMAIN sse' /\ sse'[l] = sse[l]
    BY <1>2
  <2>6. ASSUME conn = "up" PROVE \E l \in DOMAIN sse' : l > k /\ sse'[l] = LatestNext(i)
    <3>1. CASE SaysAsBefore(i)
      BY <2>4, <2>5, <2>6, <3>1
    <3>2. CASE ~SaysAsBefore(i)
      <4>1. PICK m \in 1..b : events[m] = LatestNext(i)
        BY <1>1, <1>2, <2>3, <3>2 DEF ToldFresh
      <4>2. n + m \in DOMAIN sse' /\ n + m > k /\ sse'[n + m] = LatestNext(i)
        BY <1>2, <2>1, <2>6, <4>1
      <4> QED
        BY <4>2
    <3> QED
      BY <3>1, <3>2
  <2>7. ASSUME NEW d \in DOMAIN sse', d > k, sse'[d].t = "done", sse'[d].id = i
        PROVE  \E l \in (k + 1)..(d - 1) : sse'[l] = LatestNext(i)
    <3>1. CASE d \in 1..n
      <4>1. sse[d] = sse'[d] /\ SaysAsBefore(i)
        BY <1>5, <2>5, <2>7, <3>1
      <4>2. PICK l \in (k + 1)..(d - 1) : sse[l] = LatestNext(i)
        BY <2>4, <2>7, <3>1, <4>1
      <4>3. l \in 1..n
        BY <1>2, <2>1, <3>1, <4>2
      <4> QED
        BY <2>5, <4>2, <4>3
    <3>2. CASE d > n /\ d - n \in 1..b /\ conn = "up" /\ sse'[d] = events[d - n]
      <4>1. SaysAsBefore(i) \/ \E j \in 1..(d - n - 1) : events[j] = LatestNext(i)
        BY <1>2, <2>7, <3>2 DEF ToldFresh
      <4>2. CASE SaysAsBefore(i)
        <5>1. PICK l \in 1..n : l > k /\ sse[l] = LatestNext(i)
          BY <2>4, <3>2, <4>2
        <5>2. l \in (k + 1)..(d - 1)
          BY <1>2, <2>2, <3>2, <5>1
        <5> QED
          BY <2>5, <5>1, <5>2
      <4>3. ASSUME NEW j \in 1..(d - n - 1), events[j] = LatestNext(i)
            PROVE  \E l \in (k + 1)..(d - 1) : sse'[l] = LatestNext(i)
        <5>1. j \in 1..b /\ n + j \in (k + 1)..(d - 1)
          BY <1>2, <2>1, <3>2
        <5>2. sse'[n + j] = LatestNext(i)
          BY <1>2, <3>2, <4>3, <5>1
        <5> QED
          BY <5>1, <5>2
      <4> QED
        BY <4>1, <4>2, <4>3
    <3> QED
      BY <1>2, <2>7, <3>1, <3>2
  <2> QED
    BY <2>6, <2>7
<1>10. Unread' <=> Unread
  BY DEF Unread
<1>11. \A i : (FreshNext(i) <=> Fresh(proj, i)') /\ LatestNext(i) = Latest(i)'
  BY <1>10 DEF FreshNext, Fresh, LatestNext, Latest
<1> QED
  BY <1>7, <1>8, <1>9, <1>10 DEF FreshOK, Fresh, Latest, LatestNext, FreshNext

-----------------------------------------------------------------------------
(* The idle events, and the browser alone                                  *)

LEMMA OneIs == ASSUME NEW b \in BOOLEAN PROVE One(b) \in {0, 1} /\ (b => One(b) = 1) /\ (~b => One(b) = 0)
BY DEF One

LEMMA OneMore == ASSUME NEW b \in BOOLEAN, NEW c \in BOOLEAN, b => c PROVE One(b) <= One(c)
BY DEF One

LEMMA IdlesIs ==
  ASSUME NEW s \in Seq(Events)
  PROVE  /\ IsFiniteSet(Idles(s)) /\ Cardinality(Idles(s)) \in Nat /\ Idles(s) \subseteq 1..Len(s)
         /\ Cardinality(Idles(s)) <= 0 => Idles(s) = {}
         /\ Cardinality(Idles(s)) <= 1 => \A k, l \in Idles(s) : k = l
<1>1. Len(s) \in Nat /\ Idles(s) \subseteq 1..Len(s) /\ IsFiniteSet(1..Len(s))
  <2>1. Len(s) \in Nat /\ DOMAIN s = 1..Len(s)
    BY SeqIs
  <2>2. IsFiniteSet(1..Len(s))
    BY <2>1, FS_Interval
  <2> QED
    BY <2>1, <2>2 DEF Idles
<1>2. IsFiniteSet(Idles(s))
  BY <1>1, FS_Subset
<1>3. Cardinality(Idles(s)) \in Nat
  BY <1>2, FS_CardinalityType
<1>4. Cardinality(Idles(s)) = 0 => Idles(s) = {}
  BY <1>2, FS_EmptySet
<1>5. Cardinality(Idles(s)) = 1 => \E k : Idles(s) = {k}
  BY <1>2, FS_Singleton
<1>6. Cardinality(Idles(s)) <= 1 => Cardinality(Idles(s)) = 0 \/ Cardinality(Idles(s)) = 1
  BY <1>3
<1>7. Cardinality(Idles(s)) <= 0 => Cardinality(Idles(s)) = 0
  BY <1>3
<1> QED
  BY <1>1, <1>2, <1>3, <1>4, <1>5, <1>6, <1>7

LEMMA IdlesTail ==
  ASSUME NEW s \in Seq(Events), s # <<>>
  PROVE  /\ Cardinality(Idles(Tail(s))) <= Cardinality(Idles(s))
         /\ Head(s).t = "idle" => Cardinality(Idles(Tail(s))) + 1 <= Cardinality(Idles(s))
<1> DEFINE r == Tail(s)
           A == Idles(r)
           B == Idles(s) \ {1}
           f == [k \in A |-> k + 1]
<1>1. /\ r \in Seq(Events) /\ Len(s) \in Nat \ {0} /\ DOMAIN s = 1..Len(s) /\ DOMAIN r = 1..(Len(s) - 1) /\ Head(s) = s[1]
      /\ \A k \in 1..(Len(s) - 1) : r[k] = s[k + 1]
  BY TailIs
<1>2. IsFiniteSet(A) /\ IsFiniteSet(Idles(s)) /\ Cardinality(A) \in Nat /\ Cardinality(Idles(s)) \in Nat
  BY <1>1, IdlesIs
<1>3. IsFiniteSet(B) /\ Cardinality(B) = IF 1 \in Idles(s) THEN Cardinality(Idles(s)) - 1 ELSE Cardinality(Idles(s))
  BY <1>2, FS_RemoveElement
<1>4. \A k \in A : k \in Nat /\ k + 1 \in B
  <2> SUFFICES ASSUME NEW k \in A PROVE k \in Nat /\ k + 1 \in B
    OBVIOUS
  <2>1. k \in 1..(Len(s) - 1) /\ r[k].t = "idle"
    BY <1>1 DEF Idles
  <2>2. k + 1 \in 1..Len(s) /\ k + 1 # 1 /\ s[k + 1].t = "idle"
    BY <1>1, <2>1
  <2> QED
    BY <1>1, <2>1, <2>2 DEF Idles
<1>5. f \in Injection(A, B)
  <2>1. f \in [A -> B] /\ \A k, l \in A : f[k] = f[l] => k = l
    BY <1>4
  <2> HIDE DEF A, B, f
  <2> QED
    BY <2>1 DEF Injection, IsInjective
<1>6. Cardinality(A) <= Cardinality(B)
  BY <1>3, <1>5, FS_Injection
<1>7. Head(s).t = "idle" => 1 \in Idles(s)
  BY <1>1 DEF Idles
<1> HIDE DEF B, A
<1>8. Cardinality(A) <= Cardinality(Idles(s)) /\ (Head(s).t = "idle" => Cardinality(A) + 1 <= Cardinality(Idles(s)))
  BY <1>2, <1>3, <1>6, <1>7
<1> QED
  BY <1>8 DEF A

LEMMA IdlesArrive ==
  ASSUME sse \in Seq(Events), NEW events \in Seq(Events), Arrive(events),
         \A m \in DOMAIN events : events[m].t = "idle" => m = Len(events)
  PROVE  /\ \A k \in Idles(sse') : k \in Idles(sse) \/ k > Len(sse)
         /\ Idles(sse) \subseteq Idles(sse')
         /\ Cardinality(Idles(sse')) <= Cardinality(Idles(sse)) + One(\E m \in DOMAIN events : events[m].t = "idle")
<1> DEFINE n == Len(sse)
           b == Len(events)
           last == \E m \in DOMAIN events : events[m].t = "idle"
<1>1. /\ n \in Nat /\ DOMAIN sse = 1..n /\ b \in Nat /\ DOMAIN events = 1..b /\ sse' \in Seq(Events)
      /\ \A k \in 1..n : k \in DOMAIN sse' /\ sse'[k] = sse[k]
      /\ \A k \in DOMAIN sse' : \/ k \in 1..n
                                \/ k > n /\ k - n \in 1..b /\ conn = "up" /\ sse'[k] = events[k - n]
  BY ArriveIs
<1> HIDE DEF n, b
<1>2. Idles(sse) \subseteq Idles(sse')
  BY <1>1 DEF Idles
<1>3. ASSUME NEW k \in Idles(sse') PROVE k \in Idles(sse) \/ (k > n /\ k = n + b /\ last)
  <2>1. k \in DOMAIN sse' /\ sse'[k].t = "idle"
    BY DEF Idles
  <2>2. CASE k \in 1..n
    BY <1>1, <2>1, <2>2 DEF Idles
  <2>3. CASE k > n /\ k - n \in 1..b /\ sse'[k] = events[k - n]
    <3>1. k - n = b /\ last
      BY <1>1, <2>1, <2>3 DEF b
    <3>2. k \in Nat
      BY <1>1, <2>1, IdlesIs, SeqIs
    <3> QED
      BY <1>1, <2>3, <3>1, <3>2
  <2> QED
    BY <1>1, <2>1, <2>2, <2>3
<1>4. IsFiniteSet(Idles(sse)) /\ Cardinality(Idles(sse)) \in Nat /\ IsFiniteSet(Idles(sse')) /\ Cardinality(Idles(sse')) \in Nat
  BY <1>1, IdlesIs
<1>5. CASE last
  <2> DEFINE S == Idles(sse) \union {n + b}
  <2>1. IsFiniteSet(S) /\ Cardinality(S) <= Cardinality(Idles(sse)) + 1
    <3>1. IsFiniteSet(S)
      BY <1>4, FS_AddElement
    <3>2. Cardinality(S) = IF n + b \in Idles(sse) THEN Cardinality(Idles(sse)) ELSE Cardinality(Idles(sse)) + 1
      BY <1>4, FS_AddElement
    <3> QED
      BY <1>4, <3>1, <3>2
  <2>2. Idles(sse') \subseteq S
    BY <1>3
  <2>3. Cardinality(Idles(sse')) <= Cardinality(S) /\ Cardinality(S) \in Nat
    BY <2>1, <2>2, FS_Subset, FS_CardinalityType
  <2>4. One(last) = 1
    BY <1>5 DEF One
  <2> HIDE DEF S, last
  <2>5. Cardinality(Idles(sse')) <= Cardinality(Idles(sse)) + One(last)
    BY <1>4, <2>1, <2>3, <2>4
  <2> QED
    BY <1>2, <1>3, <2>5 DEF last, n
<1>6. CASE ~last
  <2>1. Idles(sse') = Idles(sse)
    BY <1>2, <1>3, <1>6
  <2>2. One(last) = 0
    BY <1>6 DEF One
  <2> HIDE DEF last
  <2>3. Cardinality(Idles(sse')) <= Cardinality(Idles(sse)) + One(last)
    BY <1>4, <2>1, <2>2
  <2> QED
    BY <1>2, <1>3, <2>3 DEF last, n
<1> QED
  BY <1>5, <1>6

\* What the steps never take back.
Moved ==
    /\ \A u \in Users : u \in Users' /\ history'[u].of = history[u].of
    /\ Users' \subseteq Nat /\ handled \in Nat /\ handled' \in Nat /\ handled <= handled'
    /\ status = "busy" => status' = "busy" \/ \A u \in Users : u <= handled'

LEMMA MovedKeeps ==
  ASSUME Moved, NEW p, Users \subseteq Nat
  PROVE  /\ Finished(p) => (\E u \in Users' : history'[u].of = p /\ u <= handled')
         /\ Ran(p) => (\E u \in Users' : history'[u].of = p /\ (status' = "busy" \/ u <= handled'))
<1>1. \A u \in Users : u <= handled => u <= handled'
  BY DEF Moved
<1> QED
  BY <1>1 DEF Moved, Finished, Ran

LEMMA AloneBack ==
  ASSUME drops' = 0 => drops = 0, \A u \in Users : u \in Users' /\ history'[u].of = history[u].of,
         Asked \intersect Interrupts \subseteq Asked'
  PROVE  Alone' => Alone
<1>1. OnlyBrowser' => OnlyBrowser
  BY DEF OnlyBrowser
<1>2. OneInterrupt' => OneInterrupt
  BY DEF OneInterrupt
<1> QED
  BY <1>1, <1>2 DEF Alone

\* A user that waits for its run is that of the active turn.
LEMMA WaitingIs ==
  ASSUME OpencodeTypeOK, HistoryOK, TextsOK, SerialOK, Alone, NEW u \in Users, u > handled
  PROVE  turn # NULL /\ history[u].of = turn.of /\ ~Finished(turn.of)
<1>1. history[u].of \in Prompts /\ history[u].of \in posted
  BY DEF Alone, OnlyBrowser, TextsOK
<1>2. u \in Nat /\ handled \in Nat
  BY HistoryIs DEF OpencodeTypeOK
<1>3. ~Finished(history[u].of)
  <2> SUFFICES ASSUME NEW v \in Users, history[v].of = history[u].of, v <= handled PROVE FALSE
    BY DEF Finished
  <2>1. v = u
    BY DEF HistoryOK
  <2> QED
    BY <1>2, <2>1
<1> QED
  BY <1>1, <1>3 DEF SerialOK

\* A step of the server by which no run starts.
LEMMA SerialArrives ==
  ASSUME OpencodeTypeOK, HistoryOK, SerialOK, Moved, UNCHANGED <<conn, capture, mode, turn, posted, transport>>,
         NEW events \in Seq(Events), Arrive(events),
         \A m \in DOMAIN events : events[m].t # "busy" /\ (events[m].t = "idle" => m = Len(events)),
         One(\E m \in DOMAIN events : events[m].t = "idle") + One(Spent) + One(Ended) <= One(Spent') + One(Ended')
  PROVE  SerialOK'
<1> DEFINE n == Len(sse)
           last == \E m \in DOMAIN events : events[m].t = "idle"
<1>1. /\ sse \in Seq(Events) /\ Users \subseteq Nat
  BY HistoryIs DEF OpencodeTypeOK
<1>2. /\ sse' \in Seq(Events) /\ n \in Nat /\ DOMAIN sse = 1..n
      /\ \A k \in 1..n : k \in DOMAIN sse' /\ sse'[k] = sse[k]
      /\ \A k \in DOMAIN sse' : \/ k \in 1..n
                                \/ k > n /\ k - n \in DOMAIN events /\ sse'[k] = events[k - n]
  BY <1>1, ArriveIs
<1>3. /\ \A k \in Idles(sse') : k \in Idles(sse) \/ k > n
      /\ Idles(sse) \subseteq Idles(sse')
      /\ Cardinality(Idles(sse')) <= Cardinality(Idles(sse)) + One(last)
  BY <1>1, IdlesArrive
<1>4. Cardinality(Idles(sse)) \in Nat /\ Cardinality(Idles(sse')) \in Nat
  BY <1>1, <1>2, IdlesIs
<1> HIDE DEF n, last
<1>5. \A p \in posted' : turn' = NULL \/ p # turn'.of => (\E u \in Users' : history'[u].of = p /\ u <= handled')
  BY <1>1, MovedKeeps DEF SerialOK
<1>6. ASSUME turn # NULL, Ran(turn.of)
      PROVE  \E u \in Users' : history'[u].of = turn'.of /\ (status' = "busy" \/ u <= handled')
  BY <1>1, <1>6, MovedKeeps
<1>7. ASSUME NEW k \in DOMAIN sse', sse'[k].t = "busy" PROVE k \in 1..n /\ sse[k].t = "busy"
  BY <1>2, <1>7
<1>8. Deciding' <=> Deciding
  BY DEF Deciding
<1>9. ASSUME NEW k \in DOMAIN sse', sse'[k].t = "busy"
      PROVE  /\ turn # NULL /\ Ran(turn.of)
             /\ \A l \in DOMAIN sse' : sse'[l].t = "busy" => l = k
             /\ Deciding \/ turn.sawBusy => \A l \in Idles(sse') : l > k
             /\ ~(Deciding /\ turn.sawBusy)
             /\ \A l, m \in Idles(sse') : l < k /\ m < k => l = m
  <2>1. k \in DOMAIN sse /\ sse[k].t = "busy" /\ k \in 1..n
    BY <1>2, <1>7, <1>9
  <2>2. /\ turn # NULL /\ Ran(turn.of)
        /\ \A l \in DOMAIN sse : sse[l].t = "busy" => l = k
        /\ Deciding \/ turn.sawBusy => \A l \in Idles(sse) : l > k
        /\ ~(Deciding /\ turn.sawBusy)
        /\ \A l, m \in Idles(sse) : l < k /\ m < k => l = m
    BY <2>1 DEF SerialOK
  <2>3. \A l \in Idles(sse') : l \in Nat
    BY <1>2, IdlesIs, SeqIs
  <2>4. \A l \in Idles(sse') : l \in Idles(sse) \/ l > k
    BY <1>2, <1>3, <2>1, <2>3
  <2>5. \A l \in DOMAIN sse' : sse'[l].t = "busy" => l = k
    BY <1>2, <1>7, <2>2
  <2>6. \A l \in Idles(sse') : l < k => l \in Idles(sse)
    BY <1>2, <2>1, <2>3, <2>4
  <2> QED
    BY <2>2, <2>4, <2>5, <2>6
<1>10. Cardinality(Idles(sse')) + One(Deciding) <= One(Spent') + One(Ended')
  <2>1. /\ One(last) \in {0, 1} /\ One(Spent) \in {0, 1} /\ One(Ended) \in {0, 1} /\ One(Deciding) \in {0, 1}
        /\ One(Spent') \in {0, 1} /\ One(Ended') \in {0, 1}
    BY DEF One
  <2>2. Cardinality(Idles(sse)) + One(Deciding) <= One(Spent) + One(Ended)
    BY DEF SerialOK
  <2>3. One(last) + One(Spent) + One(Ended) <= One(Spent') + One(Ended')
    BY DEF last
  <2> QED
    BY <1>3, <1>4, <2>1, <2>2, <2>3
<1>11. /\ turn # NULL /\ turn.sawBusy => Ran(turn.of)
       /\ mode = "strict" /\ capture \in {"connect", "history", "status"} => turn = NULL /\ ~transport
       /\ IF capture = "connect" THEN mode = "strict" ELSE conn = "up"
  BY DEF SerialOK
<1> QED
  BY <1>5, <1>6, <1>8, <1>9, <1>10, <1>11 DEF SerialOK, Finished, Ran, Idles, One

\* A run starts, for the active turn.
LEMMA SerialStart ==
  ASSUME OpencodeTypeOK, HistoryOK, TextsOK, SerialOK, Alone, StartRun
  PROVE  SerialOK'
<1> DEFINE n == Len(sse)
           e == [t |-> "busy", id |-> 0]
           events == <<e>>
<1>1. /\ sse \in Seq(Events) /\ Users \subseteq Nat /\ handled \in Nat /\ history \in Seq(NativeMessages)
      /\ status = "idle" /\ status' = "busy" /\ LatestOf(Users) > handled /\ Arrive(events)
      /\ UNCHANGED <<history, handled, conn, inbound, latch, turn, posted, proj, shown, reader>>
  BY HistoryIs DEF OpencodeTypeOK, StartRun, Quiet
<1>2. Users' = Users
  BY <1>1, HistorySame
<1>3. LatestOf(Users) \in Users
  <2>1. Users \in SUBSET DOMAIN history
    BY DEF Users
  <2>2. LatestOf(Users) \in Nat /\ LatestOf(Users) \in Users \union {0}
    BY <1>1, <2>1, LatestIs
  <2>3. LatestOf(Users) # 0
    BY <1>1, <2>2
  <2> QED
    BY <2>2, <2>3
<1>4. turn # NULL /\ history[LatestOf(Users)].of = turn.of /\ ~Finished(turn.of)
  BY <1>1, <1>3, WaitingIs
<1>5. ~Ran(turn.of)
  BY <1>1, <1>4 DEF Ran, Finished
<1>6. events \in Seq(Events) /\ Len(events) = 1 /\ DOMAIN events = {1} /\ events[1] = e
  BY DEF Events
<1>7. \A k \in DOMAIN sse : sse[k].t # "busy"
  BY <1>5 DEF SerialOK
<1>8. ~turn.sawBusy
  BY <1>4, <1>5 DEF SerialOK
<1>9. ~Ended
  BY <1>4 DEF Ended
<1> HIDE DEF events
<1>10. /\ sse' \in Seq(Events) /\ n \in Nat /\ DOMAIN sse = 1..n
       /\ \A k \in 1..n : k \in DOMAIN sse' /\ sse'[k] = sse[k]
       /\ \A k \in DOMAIN sse' : \/ k \in 1..n
                                 \/ k > n /\ k - n \in 1..Len(events) /\ sse'[k] = events[k - n]
  BY <1>1, <1>6, ArriveIs
<1>11. /\ Idles(sse) \subseteq Idles(sse') /\ \A k \in Idles(sse') : k \in Idles(sse) \/ k > n
       /\ Cardinality(Idles(sse')) <= Cardinality(Idles(sse)) + One(\E m \in DOMAIN events : events[m].t = "idle")
  <2>1. \A m \in DOMAIN events : events[m].t = "idle" => m = Len(events)
    BY <1>6
  <2> QED
    BY <1>1, <1>6, <2>1, IdlesArrive
<1>12. One(\E m \in DOMAIN events : events[m].t = "idle") = 0
  BY <1>6 DEF One
<1>13. Cardinality(Idles(sse)) \in Nat /\ Cardinality(Idles(sse')) \in Nat
  BY <1>1, <1>10, IdlesIs
<1> HIDE DEF n
<1>14. ASSUME NEW k \in DOMAIN sse' PROVE k \in Nat /\ k <= n + 1 /\ (k \in 1..n \/ (k = n + 1 /\ sse'[k] = e))
  <2>1. k \in 1..n \/ (k > n /\ k - n \in 1..1 /\ sse'[k] = events[k - n])
    BY <1>6, <1>10
  <2>2. k \in Nat
    BY <1>10, SeqIs
  <2>3. CASE k > n /\ k - n \in 1..1 /\ sse'[k] = events[k - n]
    <3>1. k - n = 1 /\ k = n + 1
      BY <1>10, <2>2, <2>3
    <3> QED
      BY <1>6, <2>2, <2>3, <3>1
  <2> QED
    BY <1>10, <2>1, <2>2, <2>3
<1>15. ASSUME NEW k \in DOMAIN sse', sse'[k].t = "busy" PROVE k = n + 1
  BY <1>7, <1>10, <1>14, <1>15
<1>16. ASSUME NEW l \in Idles(sse') PROVE l \in Idles(sse) /\ l < n + 1
  <2>1. l \in DOMAIN sse' /\ sse'[l].t = "idle" /\ e.t # "idle"
    BY DEF Idles
  <2>2. l \in 1..n
    BY <1>14, <2>1
  <2> QED
    BY <1>10, <2>1, <2>2 DEF Idles
<1>17. Cardinality(Idles(sse)) + One(Deciding) <= 1
  <2>1. One(Ended) = 0 /\ One(Spent) \in {0, 1} /\ One(Deciding) \in {0, 1}
    BY <1>9 DEF One
  <2> QED
    BY <1>13, <2>1 DEF SerialOK
<1>18. \A l, m \in Idles(sse) : l = m
  <2>1. One(Deciding) \in {0, 1}
    BY DEF One
  <2>2. Cardinality(Idles(sse)) <= 1
    BY <1>13, <1>17, <2>1
  <2> QED
    BY <1>1, <2>2, IdlesIs
<1>19. Deciding => Idles(sse) = {}
  <2> SUFFICES ASSUME Deciding PROVE Idles(sse) = {}
    OBVIOUS
  <2>1. One(Deciding) = 1
    BY DEF One
  <2>2. Cardinality(Idles(sse)) <= 0
    <3> DEFINE d == One(Deciding)
               c == Cardinality(Idles(sse))
    <3>1. d = 1 /\ c \in Nat /\ c + d <= 1
      BY <1>13, <1>17, <2>1
    <3> HIDE DEF c, d
    <3>2. c <= 0
      BY <3>1
    <3> QED
      BY <3>2 DEF c
  <2> QED
    BY <1>1, <2>2, IdlesIs
<1>20. ASSUME NEW k \in DOMAIN sse', sse'[k].t = "busy"
       PROVE  /\ \A l \in DOMAIN sse' : sse'[l].t = "busy" => l = k
              /\ Deciding \/ turn.sawBusy => \A l \in Idles(sse') : l > k
              /\ \A l, m \in Idles(sse') : l < k /\ m < k => l = m
  BY <1>8, <1>15, <1>16, <1>18, <1>19, <1>20
<1>21. Cardinality(Idles(sse')) + One(Deciding) <= One(Spent) + One(Ended)
  <2>1. One(Deciding) \in {0, 1} /\ One(Spent) \in {0, 1} /\ One(Ended) \in {0, 1}
    BY DEF One
  <2>2. Cardinality(Idles(sse)) + One(Deciding) <= One(Spent) + One(Ended)
    BY DEF SerialOK
  <2> QED
    <3> DEFINE d == One(Deciding)
               x == One(Spent)
               y == One(Ended)
               c == Cardinality(Idles(sse))
               z == Cardinality(Idles(sse'))
               o == One(\E m \in DOMAIN events : events[m].t = "idle")
    <3>1. d \in {0, 1} /\ x \in {0, 1} /\ y \in {0, 1} /\ c \in Nat /\ z \in Nat /\ o = 0 /\ c + d <= x + y /\ z <= c + o
      BY <1>11, <1>12, <1>13, <2>1, <2>2
    <3> HIDE DEF c, d, x, y, z, o
    <3>2. z + d <= x + y
      BY <3>1
    <3> QED
      BY <3>2 DEF d, x, y, z
<1>22. \E u \in Users' : history'[u].of = turn.of /\ status' = "busy"
  BY <1>1, <1>2, <1>3, <1>4
<1>23. /\ \A p : Finished(p)' <=> Finished(p)
       /\ Deciding' = Deciding /\ Spent' = Spent /\ Ended' = Ended
  BY <1>1, <1>2 DEF Finished, Deciding, Spent, Ended, reader, inbound
<1>24. /\ \A p \in posted : turn = NULL \/ p # turn.of => Finished(p)
       /\ mode = "strict" /\ capture \in {"connect", "history", "status"} => turn = NULL /\ ~transport
       /\ IF capture = "connect" THEN mode = "strict" ELSE conn = "up"
  BY DEF SerialOK
<1>25. \A p \in posted' : turn' = NULL \/ p # turn'.of => Finished(p)'
  BY <1>1, <1>23, <1>24
<1>26. turn'.sawBusy = turn.sawBusy /\ UNCHANGED <<mode, capture, conn, transport, turn>>
  BY <1>1 DEF reader, latch
<1>27. /\ \A k \in DOMAIN sse' : sse'[k].t = "busy" =>
             /\ turn' # NULL /\ Ran(turn.of)'
             /\ \A l \in DOMAIN sse' : sse'[l].t = "busy" => l = k
             /\ Deciding' \/ turn'.sawBusy => \A l \in Idles(sse') : l > k
             /\ ~(Deciding' /\ turn'.sawBusy)
             /\ \A l, m \in Idles(sse') : l < k /\ m < k => l = m
  BY <1>4, <1>8, <1>20, <1>22, <1>23, <1>26 DEF Ran
<1>28. turn' # NULL /\ turn'.sawBusy => Ran(turn.of)'
  BY <1>8, <1>26
<1>29. Cardinality(Idles(sse)') + One(Deciding)' <= One(Spent)' + One(Ended)'
  BY <1>21, <1>23 DEF One, Idles
<1> QED
  BY <1>24, <1>25, <1>26, <1>27, <1>28, <1>29 DEF SerialOK, Idles

\* What the steps of the companion read of the server.
Calmly == UNCHANGED <<history, status, handled, conn, posted, mode, transport>>

LEMMA CalmlyIs ==
  ASSUME Calmly
  PROVE  /\ \A p : (Finished(p)' <=> Finished(p)) /\ (Ran(p)' <=> Ran(p))
         /\ turn' = turn => (Ended' <=> Ended)
<1>1. Users' = Users
  BY HistorySame DEF Calmly
<1> QED
  BY <1>1 DEF Calmly, Finished, Ran, Ended

LEMMA SpentOn ==
  ASSUME Spent => Spent', Ended => Ended'
  PROVE  One(Spent) + One(Ended) <= One(Spent)' + One(Ended)'
<1>1. One(Spent)' = One(Spent') /\ One(Ended)' = One(Ended')
  BY DEF One
<1>2. One(Spent) \in {0, 1} /\ One(Ended) \in {0, 1} /\ One(Spent') \in {0, 1} /\ One(Ended') \in {0, 1}
  BY DEF One
<1>3. One(Spent) <= One(Spent') /\ One(Ended) <= One(Ended')
  BY DEF One
<1> QED
  BY <1>1, <1>2, <1>3

\* A step that reads no event and leaves the turn.
LEMMA SerialStill ==
  ASSUME OpencodeTypeOK, SerialOK, Calmly, UNCHANGED <<sse, turn>>, Spent => Spent',
         \/ capture' = capture
         \/ capture = "history" /\ capture' = "status"
         \/ capture = "errorstatus" /\ capture' = "consume"
  PROVE  SerialOK'
<1>1. /\ \A p : (Finished(p)' <=> Finished(p)) /\ (Ran(p)' <=> Ran(p))
      /\ Ended' <=> Ended
  BY CalmlyIs
<1>2. Deciding' <=> Deciding
  BY DEF Deciding, Calmly
<1>3. Cardinality(Idles(sse))' + One(Deciding)' <= One(Spent)' + One(Ended)'
  <2>1. One(Spent) + One(Ended) <= One(Spent)' + One(Ended)'
    BY <1>1, SpentOn
  <2>2. Cardinality(Idles(sse)) + One(Deciding) <= One(Spent) + One(Ended)
    BY DEF SerialOK
  <2>3. Cardinality(Idles(sse))' = Cardinality(Idles(sse)) /\ One(Deciding)' = One(Deciding)
    BY <1>2 DEF Idles, One
  <2>4. Cardinality(Idles(sse)) \in Nat
    BY IdlesIs DEF OpencodeTypeOK
  <2>5. One(Spent) \in {0, 1} /\ One(Ended) \in {0, 1} /\ One(Deciding) \in {0, 1}
        /\ One(Spent)' \in {0, 1} /\ One(Ended)' \in {0, 1}
    BY DEF One
  <2> DEFINE c == Cardinality(Idles(sse))
             d == One(Deciding)
             x == One(Spent)
             y == One(Ended)
             v == One(Spent)'
             w == One(Ended)'
  <2>6. c \in Nat /\ d \in {0, 1} /\ x \in {0, 1} /\ y \in {0, 1} /\ v \in {0, 1} /\ w \in {0, 1}
        /\ x + y <= v + w /\ c + d <= x + y
    BY <2>1, <2>2, <2>4, <2>5
  <2> HIDE DEF c, d, x, y, v, w
  <2>7. c + d <= v + w
    BY <2>6
  <2> QED
    BY <2>3, <2>7 DEF c, d, v, w
<1>4. /\ \A p \in posted : turn = NULL \/ p # turn.of => Finished(p)
      /\ turn # NULL /\ turn.sawBusy => Ran(turn.of)
      /\ mode = "strict" /\ capture \in {"connect", "history", "status"} => turn = NULL /\ ~transport
      /\ IF capture = "connect" THEN mode = "strict" ELSE conn = "up"
  BY DEF SerialOK
<1>5. \A p \in posted' : turn' = NULL \/ p # turn'.of => Finished(p)'
  BY <1>1, <1>4 DEF Calmly
<1>6. turn' # NULL /\ turn'.sawBusy => Ran(turn.of)'
  BY <1>1, <1>4
<1>7. /\ mode' = "strict" /\ capture' \in {"connect", "history", "status"} => turn' = NULL /\ ~transport'
      /\ IF capture' = "connect" THEN mode' = "strict" ELSE conn' = "up"
  BY <1>4 DEF Calmly
<1>8. \A k \in DOMAIN sse' : sse'[k].t = "busy" =>
          /\ turn' # NULL /\ Ran(turn.of)'
          /\ \A l \in DOMAIN sse' : sse'[l].t = "busy" => l = k
          /\ Deciding' \/ turn'.sawBusy => \A l \in Idles(sse) : l > k
          /\ ~(Deciding' /\ turn'.sawBusy)
          /\ \A l, m \in Idles(sse) : l < k /\ m < k => l = m
  BY <1>1, <1>2 DEF SerialOK
<1>9. Idles(sse)' = Idles(sse) /\ turn' = turn
  BY DEF Idles
<1> QED
  BY <1>3, <1>5, <1>6, <1>7, <1>8, <1>9 DEF SerialOK

\* What is left of the stream when its head is read.
LEMMA BusyTail ==
  ASSUME OpencodeTypeOK, SerialOK, sse # <<>>, NEW k \in DOMAIN Tail(sse), Tail(sse)[k].t = "busy"
  PROVE  /\ turn # NULL /\ Ran(turn.of)
         /\ Head(sse).t # "busy"
         /\ \A l \in DOMAIN Tail(sse) : Tail(sse)[l].t = "busy" => l = k
         /\ Deciding \/ turn.sawBusy => Head(sse).t # "idle" /\ \A l \in Idles(Tail(sse)) : l > k
         /\ ~(Deciding /\ turn.sawBusy)
         /\ \A l, m \in Idles(Tail(sse)) : l < k /\ m < k => l = m
         /\ Head(sse).t = "idle" => \A l \in Idles(Tail(sse)) : l > k
<1> DEFINE n == Len(sse)
           r == Tail(sse)
<1>1. /\ n \in Nat \ {0} /\ DOMAIN sse = 1..n /\ DOMAIN r = 1..(n - 1) /\ Head(sse) = sse[1]
      /\ \A j \in 1..(n - 1) : r[j] = sse[j + 1]
  BY TailIs DEF OpencodeTypeOK
<1> HIDE DEF n, r
<1>2. k \in 1..(n - 1) /\ k + 1 \in DOMAIN sse /\ sse[k + 1].t = "busy"
  BY <1>1 DEF r
<1>3. /\ turn # NULL /\ Ran(turn.of)
      /\ \A l \in DOMAIN sse : sse[l].t = "busy" => l = k + 1
      /\ Deciding \/ turn.sawBusy => \A l \in Idles(sse) : l > k + 1
      /\ ~(Deciding /\ turn.sawBusy)
      /\ \A l, m \in Idles(sse) : l < k + 1 /\ m < k + 1 => l = m
  BY <1>2 DEF SerialOK
<1>4. \A l \in Idles(r) : l \in 1..(n - 1) /\ l + 1 \in Idles(sse)
  <2> SUFFICES ASSUME NEW l \in Idles(r) PROVE l \in 1..(n - 1) /\ l + 1 \in Idles(sse)
    OBVIOUS
  <2>1. l \in 1..(n - 1) /\ r[l].t = "idle"
    BY <1>1 DEF Idles
  <2>2. l + 1 \in 1..n
    BY <1>1, <2>1
  <2> QED
    BY <1>1, <2>1, <2>2 DEF Idles
<1>5. 1 \in DOMAIN sse /\ k + 1 # 1
  BY <1>1, <1>2
<1>6. Head(sse).t # "busy"
  BY <1>1, <1>3, <1>5
<1>7. Head(sse).t = "idle" => 1 \in Idles(sse)
  BY <1>1, <1>5 DEF Idles
<1>8. ASSUME NEW l \in DOMAIN r, r[l].t = "busy" PROVE l = k
  <2>1. l + 1 \in DOMAIN sse /\ sse[l + 1].t = "busy" /\ l \in Nat
    BY <1>1, <1>8
  <2>2. l + 1 = k + 1
    BY <1>3, <2>1
  <2> QED
    BY <1>2, <2>1, <2>2
<1>9. Deciding \/ turn.sawBusy => Head(sse).t # "idle" /\ \A l \in Idles(r) : l > k
  <2> SUFFICES ASSUME Deciding \/ turn.sawBusy PROVE Head(sse).t # "idle" /\ \A l \in Idles(r) : l > k
    OBVIOUS
  <2>1. \A l \in Idles(sse) : l > k + 1
    BY <1>3
  <2>2. \A l \in Idles(r) : l > k
    BY <1>2, <1>4, <2>1
  <2>3. ~(1 > k + 1)
    BY <1>2
  <2> QED
    BY <1>7, <2>1, <2>2, <2>3
<1>10. \A l, m \in Idles(r) : l < k /\ m < k => l = m
  <2> SUFFICES ASSUME NEW l \in Idles(r), NEW m \in Idles(r), l < k, m < k PROVE l = m
    OBVIOUS
  <2>1. l + 1 = m + 1
    BY <1>2, <1>3, <1>4
  <2> QED
    BY <1>4, <2>1
<1>11. Head(sse).t = "idle" => \A l \in Idles(r) : l > k
  <2> SUFFICES ASSUME Head(sse).t = "idle", NEW l \in Idles(r), ~(l > k) PROVE FALSE
    OBVIOUS
  <2>1. l \in Nat /\ l + 1 \in Idles(sse) /\ l # k
    <3>1. l # k
      BY DEF Idles, r
    <3> QED
      BY <1>4, <3>1
  <2>2. l + 1 < k + 1 /\ 1 < k + 1
    BY <1>2, <2>1
  <2>3. l + 1 = 1
    BY <1>3, <1>7, <2>1, <2>2
  <2>4. l \in 1..(n - 1)
    BY <1>4
  <2> QED
    BY <2>3, <2>4
<1> QED
  BY <1>3, <1>6, <1>8, <1>9, <1>10, <1>11 DEF r

LEMMA Bounded ==
  ASSUME NEW c \in Nat, NEW b \in Nat, NEW d \in {0, 1}, NEW e \in {0, 1}, NEW x \in {0, 1}, NEW y \in {0, 1}, NEW z \in {0, 1},
         c + d <= x + y, b + e + y <= c + d + z
  PROVE  b + e <= x + z
OBVIOUS

\* An event other than the idle is read.
LEMMA SerialReads ==
  ASSUME OpencodeTypeOK, SerialOK, Calmly, UNCHANGED inbound, sse # <<>>, sse' = Tail(sse),
         capture = "consume", capture' \in {"consume", "errorstatus"},
         \/ turn' = turn /\ Head(sse).t # "busy"
         \/ turn' = (IF turn = NULL THEN NULL ELSE [turn EXCEPT !.sawBusy = TRUE]) /\ Head(sse).t = "busy"
  PROVE  SerialOK'
<1>1. /\ \A p : (Finished(p)' <=> Finished(p)) /\ (Ran(p)' <=> Ran(p))
  BY CalmlyIs
<1>2. ~Deciding /\ ~Deciding' /\ (Spent' <=> Spent)
  BY DEF Deciding, Spent, inbound
<1>3. /\ \A p \in posted : turn = NULL \/ p # turn.of => Finished(p)
      /\ turn # NULL /\ turn.sawBusy => Ran(turn.of)
      /\ conn = "up"
  BY DEF SerialOK
<1>4. Head(sse).t = "busy" => turn # NULL /\ Ran(turn.of)
  <2>1. Head(sse) = sse[1] /\ 1 \in DOMAIN sse
    BY TailIs DEF OpencodeTypeOK
  <2> QED
    BY <2>1 DEF SerialOK
<1>5. /\ (turn' # NULL) <=> (turn # NULL)
      /\ turn # NULL => turn'.of = turn.of /\ (turn'.sawBusy <=> turn.sawBusy \/ Head(sse).t = "busy")
  <2>1. turn # NULL => /\ [turn EXCEPT !.sawBusy = TRUE] \in [of : Prompts, sawBusy : BOOLEAN]
                       /\ [turn EXCEPT !.sawBusy = TRUE].of = turn.of /\ [turn EXCEPT !.sawBusy = TRUE].sawBusy
    BY DEF OpencodeTypeOK
  <2> QED
    BY <2>1, NamesAssumption
<1>6. Ended' <=> Ended
  <2>1. \A p : Finished(p)' <=> Finished(p)
    BY <1>1
  <2>2. Users' = Users /\ history' = history /\ handled' = handled
    BY HistorySame DEF Calmly
  <2> QED
    BY <1>5, <2>2 DEF Ended, Finished
<1>7. \A p \in posted' : turn' = NULL \/ p # turn'.of => Finished(p)'
  BY <1>1, <1>3, <1>5 DEF Calmly
<1>8. turn' # NULL /\ turn'.sawBusy => Ran(turn.of)' /\ turn'.of = turn.of
  BY <1>1, <1>3, <1>4, <1>5
<1>9. ASSUME NEW k \in DOMAIN sse', sse'[k].t = "busy"
      PROVE  /\ turn' # NULL /\ Ran(turn.of)' /\ turn'.of = turn.of
             /\ \A l \in DOMAIN sse' : sse'[l].t = "busy" => l = k
             /\ Deciding' \/ turn'.sawBusy => \A l \in Idles(sse') : l > k
             /\ ~(Deciding' /\ turn'.sawBusy)
             /\ \A l, m \in Idles(sse') : l < k /\ m < k => l = m
  <2>1. k \in DOMAIN Tail(sse) /\ Tail(sse)[k].t = "busy"
    BY <1>9
  <2>2. /\ turn # NULL /\ Ran(turn.of) /\ Head(sse).t # "busy"
        /\ \A l \in DOMAIN Tail(sse) : Tail(sse)[l].t = "busy" => l = k
        /\ turn.sawBusy => \A l \in Idles(Tail(sse)) : l > k
        /\ \A l, m \in Idles(Tail(sse)) : l < k /\ m < k => l = m
    BY <2>1, BusyTail
  <2> QED
    BY <1>1, <1>2, <1>5, <2>2
<1>10. Cardinality(Idles(sse')) + One(Deciding') <= One(Spent') + One(Ended')
  <2>1. Cardinality(Idles(sse')) <= Cardinality(Idles(sse))
    BY IdlesTail DEF OpencodeTypeOK
  <2>2. Cardinality(Idles(sse)) \in Nat /\ Cardinality(Idles(sse')) \in Nat
    BY IdlesIs, TailIs DEF OpencodeTypeOK
  <2>3. One(Deciding) = 0 /\ One(Deciding') = 0 /\ One(Spent') = One(Spent) /\ One(Ended') = One(Ended)
        /\ One(Spent) \in {0, 1} /\ One(Ended) \in {0, 1}
    BY <1>2, <1>6 DEF One
  <2>4. Cardinality(Idles(sse)) + One(Deciding) <= One(Spent) + One(Ended)
    BY DEF SerialOK
  <2> DEFINE b == Cardinality(Idles(sse'))
             c == Cardinality(Idles(sse))
             x == One(Spent)
             y == One(Ended)
  <2>5. b \in Nat /\ c \in Nat /\ b <= c /\ x \in {0, 1} /\ y \in {0, 1} /\ c + 0 <= x + y
    BY <2>1, <2>2, <2>3, <2>4
  <2> HIDE DEF b, c, x, y
  <2>6. b + 0 <= x + y
    BY <2>5
  <2> QED
    BY <2>3, <2>6 DEF b, x, y
<1>11. capture' # "connect" /\ conn' = "up" /\ capture' \notin {"connect", "history", "status"}
  BY <1>3 DEF Calmly
<1>12. /\ \A k \in DOMAIN sse' : sse'[k].t = "busy" =>
             /\ turn' # NULL /\ Ran(turn.of)' /\ turn'.of = turn.of
             /\ \A l \in DOMAIN sse' : sse'[l].t = "busy" => l = k
             /\ Deciding' \/ turn'.sawBusy => \A l \in Idles(sse') : l > k
             /\ ~(Deciding' /\ turn'.sawBusy)
             /\ \A l, m \in Idles(sse') : l < k /\ m < k => l = m
  BY <1>9
<1> QED
  BY <1>7, <1>8, <1>10, <1>11, <1>12 DEF SerialOK, Idles, One, Ran

\* An idle is read: the reconciliation it triggers may release the turn.
LEMMA SerialIdle ==
  ASSUME OpencodeTypeOK, SerialOK, Calm, UNCHANGED <<conn, transport, turn>>, sse # <<>>, sse' = Tail(sse), Head(sse).t = "idle",
         capture = "consume", capture' = "history", mode' = "live"
  PROVE  SerialOK'
<1>1. /\ UNCHANGED <<history, status, handled, aborting, acked, posted, turn, conn, transport>>
  BY DEF Calm, native, inbound
<1>2. Users' = Users
  BY <1>1, HistorySame
<1>3. /\ \A p : (Finished(p)' <=> Finished(p)) /\ (Ran(p)' <=> Ran(p))
      /\ (Ended' <=> Ended) /\ (Spent' <=> Spent) /\ ~Deciding /\ Deciding'
  BY <1>1, <1>2 DEF Finished, Ran, Ended, Spent, Deciding
<1>4. /\ \A p \in posted : turn = NULL \/ p # turn.of => Finished(p)
      /\ turn # NULL /\ turn.sawBusy => Ran(turn.of)
      /\ conn = "up"
  BY DEF SerialOK
<1>5. ASSUME NEW k \in DOMAIN sse', sse'[k].t = "busy"
      PROVE  /\ turn' # NULL /\ Ran(turn.of)'
             /\ \A l \in DOMAIN sse' : sse'[l].t = "busy" => l = k
             /\ \A l \in Idles(sse') : l > k
             /\ ~turn'.sawBusy
  <2>1. k \in DOMAIN Tail(sse) /\ Tail(sse)[k].t = "busy"
    BY <1>5
  <2>2. /\ turn # NULL /\ Ran(turn.of)
        /\ \A l \in DOMAIN Tail(sse) : Tail(sse)[l].t = "busy" => l = k
        /\ turn.sawBusy => Head(sse).t # "idle"
        /\ \A l \in Idles(Tail(sse)) : l > k
    BY <2>1, BusyTail
  <2> QED
    BY <1>3, <2>2
<1>6. ASSUME NEW k \in DOMAIN sse', sse'[k].t = "busy" PROVE \A l \in Idles(sse') : ~(l < k)
  <2>1. k \in Nat
    BY <1>6, TailIs DEF OpencodeTypeOK
  <2>2. \A l \in Idles(sse') : l > k /\ l \in Nat
    <3>1. Idles(sse') \subseteq Nat
      <4>1. sse' \in Seq(Events)
        BY TailIs DEF OpencodeTypeOK
      <4>2. Idles(sse') \subseteq 1..Len(sse')
        BY <4>1, IdlesIs
      <4> QED
        BY <4>1, <4>2, SeqIs
    <3> QED
      BY <1>5, <1>6, <3>1
  <2> QED
    BY <2>1, <2>2
<1>7. Cardinality(Idles(sse')) + One(Deciding') <= One(Spent') + One(Ended')
  <2>1. Cardinality(Idles(sse')) + 1 <= Cardinality(Idles(sse))
    BY IdlesTail DEF OpencodeTypeOK
  <2>2. Cardinality(Idles(sse)) \in Nat /\ Cardinality(Idles(sse')) \in Nat
    BY IdlesIs, TailIs DEF OpencodeTypeOK
  <2>3. One(Deciding) = 0 /\ One(Deciding') = 1 /\ One(Spent') = One(Spent) /\ One(Ended') = One(Ended)
        /\ One(Spent) \in {0, 1} /\ One(Ended) \in {0, 1}
    BY <1>3 DEF One
  <2>4. Cardinality(Idles(sse)) + One(Deciding) <= One(Spent) + One(Ended)
    BY DEF SerialOK
  <2> DEFINE b == Cardinality(Idles(sse'))
             c == Cardinality(Idles(sse))
             x == One(Spent)
             y == One(Ended)
  <2>5. b \in Nat /\ c \in Nat /\ b + 1 <= c /\ x \in {0, 1} /\ y \in {0, 1} /\ c + 0 <= x + y
    BY <2>1, <2>2, <2>3, <2>4
  <2> HIDE DEF b, c, x, y
  <2>6. b + 1 <= x + y
    BY <2>5
  <2> QED
    BY <2>3, <2>6 DEF b, x, y
<1>8. \A p \in posted' : turn' = NULL \/ p # turn'.of => Finished(p)'
  BY <1>1, <1>3, <1>4
<1>9. turn' # NULL /\ turn'.sawBusy => Ran(turn.of)'
  BY <1>1, <1>3, <1>4
<1>10. capture' # "connect" /\ conn' = "up" /\ mode' # "strict" /\ turn' = turn
  BY <1>1, <1>4
<1>11. \A k \in DOMAIN sse' : sse'[k].t = "busy" =>
             /\ turn' # NULL /\ Ran(turn.of)'
             /\ \A l \in DOMAIN sse' : sse'[l].t = "busy" => l = k
             /\ Deciding' \/ turn'.sawBusy => \A l \in Idles(sse') : l > k
             /\ ~(Deciding' /\ turn'.sawBusy)
             /\ \A l, m \in Idles(sse') : l < k /\ m < k => l = m
  BY <1>5, <1>6
<1> QED
  BY <1>7, <1>8, <1>9, <1>10, <1>11 DEF SerialOK, Idles, One, Ran

\* The status is read: the turn has run if it is busy, and is over if it is released.
LEMMA SerialStatus ==
  ASSUME OpencodeTypeOK, HistoryOK, TextsOK, SerialOK, Alone, status = "busy" => \E u \in Users : u > handled, ReadStatus
  PROVE  SerialOK'
<1>1. /\ UNCHANGED <<history, status, handled, aborting, acked, posted, conn, sse>> /\ capture = "status" /\ ~over
  BY DEF ReadStatus, Calm, native, inbound, stream
<1>2. Users' = Users
  BY <1>1, HistorySame
<1>3. /\ \A p : (Finished(p)' <=> Finished(p)) /\ (Ran(p)' <=> Ran(p))
      /\ (Spent' <=> Spent) /\ (Deciding <=> mode = "live") /\ Idles(sse') = Idles(sse)
  BY <1>1, <1>2 DEF Finished, Ran, Spent, Deciding, Idles
<1>4. /\ \A p \in posted : turn = NULL \/ p # turn.of => Finished(p)
      /\ turn # NULL /\ turn.sawBusy => Ran(turn.of)
      /\ mode = "strict" => turn = NULL /\ ~transport
      /\ conn = "up"
  BY <1>1 DEF SerialOK
<1>5. ASSUME NEW k \in DOMAIN sse, sse[k].t = "busy"
      PROVE  /\ turn # NULL /\ Ran(turn.of) /\ Deciding
             /\ \A l \in DOMAIN sse : sse[l].t = "busy" => l = k
             /\ \A l \in Idles(sse) : l > k
             /\ ~turn.sawBusy
             /\ \A l, m \in Idles(sse) : l < k /\ m < k => l = m
  <2>1. turn # NULL
    BY <1>5 DEF SerialOK
  <2>2. Deciding
    BY <1>3, <1>4, <2>1 DEF OpencodeTypeOK
  <2> QED
    BY <1>5, <2>1, <2>2 DEF SerialOK
<1>6. Cardinality(Idles(sse)) \in Nat
  BY IdlesIs DEF OpencodeTypeOK
<1>7. Cardinality(Idles(sse)) + One(Deciding) <= One(Spent) + One(Ended)
  BY DEF SerialOK
<1>8. ASSUME capture' = "consume", mode' = mode, turn' = turn
      PROVE  SerialOK'
  <2>1. ~Deciding' /\ (Ended' <=> Ended)
    BY <1>1, <1>2, <1>3, <1>8 DEF Deciding, Ended
  <2>2. Cardinality(Idles(sse')) + One(Deciding') <= One(Spent') + One(Ended')
    <3>1. One(Deciding') = 0 /\ One(Spent') = One(Spent) /\ One(Ended') = One(Ended) /\ One(Deciding) \in {0, 1}
          /\ One(Spent) \in {0, 1} /\ One(Ended) \in {0, 1}
      BY <1>3, <2>1 DEF One
    <3> DEFINE c == Cardinality(Idles(sse))
               d == One(Deciding)
               x == One(Spent)
               y == One(Ended)
    <3>2. c \in Nat /\ d \in {0, 1} /\ x \in {0, 1} /\ y \in {0, 1} /\ c + d <= x + y
      BY <1>6, <1>7, <3>1
    <3> HIDE DEF c, d, x, y
    <3>3. c + 0 <= x + y
      BY <3>2
    <3> QED
      BY <1>3, <3>1, <3>3 DEF c, x, y
  <2>3. \A p \in posted' : turn' = NULL \/ p # turn'.of => Finished(p)'
    BY <1>1, <1>3, <1>4, <1>8
  <2>4. turn' # NULL /\ turn'.sawBusy => Ran(turn.of)'
    BY <1>3, <1>4, <1>8
  <2>5. \A k \in DOMAIN sse' : sse'[k].t = "busy" =>
               /\ turn' # NULL /\ Ran(turn.of)'
               /\ \A l \in DOMAIN sse' : sse'[l].t = "busy" => l = k
               /\ Deciding' \/ turn'.sawBusy => \A l \in Idles(sse') : l > k
               /\ ~(Deciding' /\ turn'.sawBusy)
               /\ \A l, m \in Idles(sse') : l < k /\ m < k => l = m
    BY <1>1, <1>3, <1>5, <1>8, <2>1
  <2> QED
    BY <1>1, <1>4, <1>8, <2>2, <2>3, <2>4, <2>5 DEF SerialOK, Idles, One, Ran
<1>9. CASE Fence
  <2>1. UNCHANGED <<turn, capture, mode, transport>>
    BY <1>9 DEF Fence, latch
  <2> QED
    BY <1>1, <1>3, <2>1, SerialStill DEF Calmly
<1>10. CASE status = "busy" /\ StayBusy /\ Resume
  <2>1. CASE turn = NULL
    BY <1>8, <1>10, <2>1 DEF StayBusy, Resume
  <2>2. CASE turn # NULL
    <3>1. PICK u \in Users : u > handled
      BY <1>10
    <3>2. history[u].of = turn.of
      BY <3>1, WaitingIs
    <3>3. Ran(turn.of)
      BY <1>10, <3>2 DEF Ran
    <3>4. turn' = [turn EXCEPT !.sawBusy = TRUE] /\ capture' = "consume" /\ mode' = mode
      BY <1>10, <2>2 DEF StayBusy, Resume
    <3>5. turn' # NULL /\ turn'.of = turn.of /\ turn'.sawBusy
      <4>1. /\ [turn EXCEPT !.sawBusy = TRUE] \in [of : Prompts, sawBusy : BOOLEAN]
            /\ [turn EXCEPT !.sawBusy = TRUE].of = turn.of /\ [turn EXCEPT !.sawBusy = TRUE].sawBusy
        BY <2>2 DEF OpencodeTypeOK
      <4> QED
        BY <3>4, <4>1, NamesAssumption
    <3>6. ~Deciding' /\ (Ended' <=> Ended)
      BY <1>1, <1>2, <1>3, <2>2, <3>4, <3>5 DEF Deciding, Ended, Finished
    <3>7. Cardinality(Idles(sse')) + One(Deciding') <= One(Spent') + One(Ended')
      <4>1. One(Deciding') = 0 /\ One(Spent') = One(Spent) /\ One(Ended') = One(Ended) /\ One(Deciding) \in {0, 1}
            /\ One(Spent) \in {0, 1} /\ One(Ended) \in {0, 1}
        BY <1>3, <3>6 DEF One
      <4> DEFINE c == Cardinality(Idles(sse))
                 d == One(Deciding)
                 x == One(Spent)
                 y == One(Ended)
      <4>2. c \in Nat /\ d \in {0, 1} /\ x \in {0, 1} /\ y \in {0, 1} /\ c + d <= x + y
        BY <1>6, <1>7, <4>1
      <4> HIDE DEF c, d, x, y
      <4>3. c + 0 <= x + y
        BY <4>2
      <4> QED
        BY <1>3, <4>1, <4>3 DEF c, x, y
    <3>8. \A p \in posted' : turn' = NULL \/ p # turn'.of => Finished(p)'
      BY <1>1, <1>3, <1>4, <2>2, <3>5
    <3>9. Ran(turn.of)'
      BY <1>3, <3>3, <3>5
    <3>10. \A k \in DOMAIN sse' : sse'[k].t = "busy" =>
                 /\ \A l \in DOMAIN sse' : sse'[l].t = "busy" => l = k
                 /\ \A l \in Idles(sse') : l > k
                 /\ \A l, m \in Idles(sse') : l < k /\ m < k => l = m
      BY <1>1, <1>3, <1>5
    <3> QED
      BY <1>1, <1>4, <3>4, <3>5, <3>6, <3>7, <3>8, <3>9, <3>10 DEF SerialOK, Idles, One, Ran
  <2> QED
    BY <2>1, <2>2
<1>11. CASE status = "idle" /\ Release /\ Resume /\ (turn = NULL \/ ~Unproved)
  <2>1. turn' = NULL /\ capture' = "consume" /\ mode' = mode
    BY <1>11 DEF Release, Resume
  <2>2. turn # NULL => Deciding /\ turn.sawBusy /\ Finished(turn.of)
    <3> SUFFICES ASSUME turn # NULL PROVE Deciding /\ turn.sawBusy /\ Finished(turn.of)
      OBVIOUS
    <3>1. mode = "live" /\ Deciding
      BY <1>3, <1>4 DEF OpencodeTypeOK
    <3>2. turn.sawBusy
      BY <1>11, <3>1 DEF Unproved
    <3> QED
      BY <1>4, <1>11, <3>1, <3>2 DEF Ran, Finished
  <2>3. \A p \in posted' : Finished(p)'
    BY <1>1, <1>3, <1>4, <2>2
  <2>4. \A k \in DOMAIN sse' : sse'[k].t # "busy"
    BY <1>1, <1>5, <2>2
  <2>5. ~Deciding' /\ ~Ended' /\ (Ended => turn # NULL /\ Deciding)
    BY <2>1, <2>2 DEF Deciding, Ended
  <2>6. Cardinality(Idles(sse')) + One(Deciding') <= One(Spent') + One(Ended')
    <3>1. One(Deciding') = 0 /\ One(Ended') = 0 /\ One(Spent') = One(Spent) /\ One(Spent) \in {0, 1}
          /\ One(Deciding) \in {0, 1} /\ One(Ended) \in {0, 1} /\ One(Ended) <= One(Deciding)
      BY <1>3, <2>5 DEF One
    <3> DEFINE c == Cardinality(Idles(sse))
               d == One(Deciding)
               x == One(Spent)
               y == One(Ended)
    <3>2. c \in Nat /\ d \in {0, 1} /\ x \in {0, 1} /\ y \in {0, 1} /\ y <= d /\ c + d <= x + y
      BY <1>6, <1>7, <3>1
    <3> HIDE DEF c, d, x, y
    <3>3. c + 0 <= x + 0
      BY <3>2
    <3> QED
      BY <1>3, <3>1, <3>3 DEF c, x
  <2> QED
    BY <1>1, <1>4, <2>1, <2>3, <2>4, <2>6 DEF SerialOK, Idles, One
<1>12. CASE Hold /\ Resume
  BY <1>8, <1>12 DEF Hold, Resume
<1>13. \/ Fence
       \/ status = "busy" /\ StayBusy /\ Resume
       \/ status = "idle" /\ Release /\ Resume /\ (turn = NULL \/ ~Unproved)
       \/ Hold /\ Resume
  BY DEF ReadStatus
<1> QED
  BY <1>9, <1>10, <1>11, <1>12, <1>13

\* A new stream.
LEMMA SerialConnect ==
  ASSUME OpencodeTypeOK, SerialOK, Connect
  PROVE  SerialOK'
<1>1. /\ UNCHANGED <<history, status, handled, aborting, acked, posted, turn, transport>>
      /\ capture = "connect" /\ conn' = "up" /\ sse' = <<>> /\ capture' = "history" /\ mode' = "strict"
  BY DEF Connect, Calm, native, inbound, latch
<1>2. Users' = Users
  BY <1>1, HistorySame
<1>3. turn = NULL /\ ~transport
  BY <1>1 DEF SerialOK
<1>4. \A p \in posted' : turn' = NULL \/ p # turn'.of => Finished(p)'
  BY <1>1, <1>2, <1>3 DEF SerialOK, Finished
<1>5. DOMAIN sse' = {} /\ Idles(sse') = {}
  BY <1>1 DEF Idles
<1>6. Cardinality(Idles(sse')) = 0
  BY <1>5, FS_EmptySet
<1>7. One(Deciding') = 0 /\ One(Spent') \in {0, 1} /\ One(Ended') \in {0, 1}
  BY <1>1 DEF One, Deciding
<1>8. Cardinality(Idles(sse')) + One(Deciding') <= One(Spent') + One(Ended')
  BY <1>6, <1>7
<1>9. \A k \in DOMAIN sse' : FALSE
  BY <1>5
<1> QED
  BY <1>1, <1>3, <1>4, <1>8, <1>9 DEF SerialOK, Idles, One

\* The next text is posted.
LEMMA SerialClaim ==
  ASSUME OpencodeTypeOK, SerialOK, ClaimTurn
  PROVE  SerialOK'
<1>1. /\ UNCHANGED <<history, status, handled, aborting, acked, transport, conn, sse, capture, mode>>
      /\ transport /\ turns # <<>> /\ Head(turns) \in Prompts
  BY TailIs DEF OpencodeTypeOK, ClaimTurn, Still, native, stream, reader
<1>2. Users' = Users
  BY <1>1, HistorySame
<1>3. CASE turn # NULL
  <2>1. UNCHANGED <<turn, posted>>
    BY <1>3 DEF ClaimTurn, writer
  <2>2. Spent => Spent'
    BY <1>1 DEF Spent
  <2> QED
    BY <1>1, <2>1, <2>2, SerialStill DEF Calmly
<1>4. CASE turn = NULL
  <2>1. turn' = [of |-> Head(turns), sawBusy |-> FALSE] /\ posted' = posted \union {Head(turns)}
    BY <1>4 DEF ClaimTurn
  <2>2. turn' # NULL /\ turn'.of = Head(turns) /\ ~turn'.sawBusy
    <3>1. turn' \in [of : Prompts, sawBusy : BOOLEAN]
      BY <1>1, <2>1
    <3>2. turn' # NULL
      BY <3>1, NamesAssumption
    <3> QED
      BY <2>1, <3>2
  <2>3. \A p \in posted' : turn' = NULL \/ p # turn'.of => Finished(p)'
    BY <1>1, <1>2, <1>4, <2>1, <2>2 DEF SerialOK, Finished
  <2>4. \A k \in DOMAIN sse : sse[k].t # "busy"
    BY <1>4 DEF SerialOK
  <2>5. (Deciding' <=> Deciding) /\ (Spent' <=> Spent) /\ ~Ended /\ Idles(sse') = Idles(sse)
    BY <1>1, <1>4 DEF Deciding, Spent, Ended, Idles
  <2>6. Cardinality(Idles(sse')) + One(Deciding') <= One(Spent') + One(Ended')
    <3>1. One(Deciding') = One(Deciding) /\ One(Spent') = One(Spent) /\ One(Ended) = 0 /\ One(Ended') \in {0, 1}
          /\ One(Deciding) \in {0, 1} /\ One(Spent) \in {0, 1}
      BY <2>5 DEF One
    <3>2. Cardinality(Idles(sse)) \in Nat
      BY IdlesIs DEF OpencodeTypeOK
    <3>3. Cardinality(Idles(sse)) + One(Deciding) <= One(Spent) + One(Ended)
      BY DEF SerialOK
    <3> DEFINE c == Cardinality(Idles(sse))
               d == One(Deciding)
               x == One(Spent)
               y == One(Ended')
    <3>4. c \in Nat /\ d \in {0, 1} /\ x \in {0, 1} /\ y \in {0, 1} /\ c + d <= x + 0
      BY <3>1, <3>2, <3>3
    <3> HIDE DEF c, d, x, y
    <3>5. c + d <= x + y
      BY <3>4
    <3> QED
      BY <2>5, <3>1, <3>5 DEF c, d, x, y
  <2>7. IF capture = "connect" THEN mode = "strict" ELSE conn = "up"
    BY DEF SerialOK
  <2>8. ~(mode' = "strict" /\ capture' \in {"connect", "history", "status"})
    BY <1>1 DEF SerialOK
  <2> QED
    BY <1>1, <2>2, <2>3, <2>4, <2>6, <2>7, <2>8 DEF SerialOK, Idles, One
<1> QED
  BY <1>3, <1>4

-----------------------------------------------------------------------------
(* What each step of the server does                                       *)

LEMMA ServerIs == ServerOK <=> HistoryOK /\ (status = "busy" => \E u \in Users : u > handled)
BY DEF ServerOK, HistoryOK

LEMMA MessageTyped ==
  ASSUME NEW of \in Prompts \union Locals
  PROVE  [role |-> "user", of |-> of, parent |-> 0, ver |-> 1, done |-> TRUE] \in NativeMessages
BY DEF NativeMessages

\* A text reaches the server.
LEMMA UserAdded ==
  ASSUME OpencodeTypeOK, HistoryOK, NEW of \in Prompts \union Locals, \A u \in Users : history[u].of # of,
         AppendUser(of), UNCHANGED <<status, handled, errors>>
  PROVE  \E events : /\ Told(events) /\ ToldFresh(events) /\ Arrive(events) /\ Grown /\ Moved
                     /\ Users' = Users \union {Len(history) + 1} /\ history'[Len(history) + 1].of = of
                     /\ \A m \in DOMAIN events : events[m].t \notin {"busy", "idle"}
<1> DEFINE n == Len(history)
           m == [role |-> "user", of |-> of, parent |-> 0, ver |-> 1, done |-> TRUE]
           e == [t |-> "user", id |-> n + 1]
           events == <<e>>
<1>1. history \in Seq(NativeMessages) /\ errors \in Nat /\ handled \in Nat /\ n \in Nat /\ DOMAIN history = 1..n
  BY HistoryIs DEF OpencodeTypeOK
<1>2. m \in NativeMessages /\ m.role = "user" /\ m.of = of /\ m.parent = 0 /\ m.ver = 1 /\ m.done
  BY MessageTyped
<1>3. history' = Append(history, m) /\ Arrive(events)
  BY DEF AppendUser
<1> HIDE DEF m
<1>4. /\ history' \in Seq(NativeMessages) /\ DOMAIN history' = 1..(n + 1) /\ history'[n + 1] = m
      /\ \A i \in 1..n : history'[i] = history[i]
  BY <1>1, <1>2, <1>3, AppendIs
<1> HIDE DEF n
<1>5. \A i \in 1..(n + 1) : i \in 1..n \/ i = n + 1
  BY <1>1
<1>6. Users' = Users \union {n + 1} /\ Replies' = Replies /\ Users \subseteq 1..n /\ Replies \subseteq 1..n
  <2>1. n + 1 \in 1..(n + 1) /\ n + 1 \notin 1..n /\ 1..n \subseteq 1..(n + 1)
    BY <1>1
  <2>2. Users' = Users \union {n + 1} /\ Users \subseteq 1..n /\ n + 1 \in Users'
    BY <1>1, <1>2, <1>4, <1>5, <2>1 DEF Users
  <2>3. Replies' = Replies
    BY <1>1, <1>4, <1>5, <2>1, <2>2 DEF Replies
  <2> QED
    BY <1>1, <2>2, <2>3 DEF Replies
<1>7. HistoryOK'
  <2>1. \A u \in Users' : history'[u].done /\ history'[u].ver = 1 /\ history'[u].parent = 0
                          /\ history'[u].of \in Prompts \union Locals
    BY <1>2, <1>4, <1>6 DEF HistoryOK
  <2>2. \A i \in Replies' : history'[i].parent \in Users' /\ history'[i].parent < i
    BY <1>4, <1>6 DEF HistoryOK
  <2>3. \A u, v \in Users' : history'[u].of = history'[v].of => u = v
    BY <1>2, <1>4, <1>6 DEF HistoryOK
  <2>4. \A i, j \in Replies' : history'[i].parent = history'[j].parent => i = j
    BY <1>4, <1>6 DEF HistoryOK
  <2> QED
    BY <2>1, <2>2, <2>3, <2>4 DEF HistoryOK
<1>8. Grown
  BY <1>1, <1>4, <1>5, <1>7 DEF Grown
<1>9. events \in Seq(Events) /\ DOMAIN events = {1} /\ events[1] = e /\ e = Said(n + 1) /\ e.t = "user" /\ e.id = n + 1
  <2>1. e \in Events
    BY <1>1 DEF Events
  <2> QED
    BY <2>1 DEF Said
<1> HIDE DEF events, e
<1>10. Told(events)
  BY <1>6, <1>9 DEF Told
<1>11. ToldFresh(events)
  BY <1>4, <1>6, <1>9 DEF ToldFresh, SaysAsBefore
<1>12. Moved
  <2>1. Users' \subseteq Nat
    BY <1>1, <1>6
  <2> QED
    BY <1>1, <1>4, <1>6, <2>1 DEF Moved
<1> QED
  BY <1>2, <1>3, <1>4, <1>6, <1>8, <1>9, <1>10, <1>11, <1>12 DEF n

LEMMA OpenIs ==
  ASSUME OpencodeTypeOK, HistoryOK, NEW i \in OpenReply
  PROVE  i \in Replies /\ i \in Nat /\ history[i].parent \in Users
BY HistoryIs DEF HistoryOK, OpenReply, OpencodeTypeOK

\* A reply begins.
LEMMA ReplyBegun ==
  ASSUME OpencodeTypeOK, HistoryOK, BeginReply
  PROVE  \E events : /\ Told(events) /\ ToldFresh(events) /\ Arrive(events) /\ Grown /\ Moved /\ Users' = Users
                     /\ \A m \in DOMAIN events : events[m].t \notin {"busy", "idle"}
<1> DEFINE n == Len(history)
           u == LatestOf(Users)
           m == [role |-> "assistant", of |-> NULL, parent |-> u, ver |-> 1, done |-> FALSE]
           e1 == [t |-> "assistant", id |-> n + 1]
           e2 == [t |-> "part", id |-> n + 1, ver |-> 1]
           events == <<e1, e2>>
<1>1. history \in Seq(NativeMessages) /\ errors \in Nat /\ handled \in Nat /\ n \in Nat /\ DOMAIN history = 1..n
  BY HistoryIs DEF OpencodeTypeOK
<1>2. u \in Users /\ u \in Nat /\ ~Answered(u)
  <2>1. Users \in SUBSET DOMAIN history
    BY DEF Users
  <2>2. u \in Nat /\ u \in Users \union {0} /\ u > handled /\ ~Answered(u)
    BY <1>1, <2>1, LatestIs DEF BeginReply
  <2> QED
    BY <1>1, <2>2
<1>3. m \in NativeMessages /\ m.role = "assistant" /\ m.parent = u /\ m.ver = 1
  BY <1>2 DEF NativeMessages
<1>4. history' = Append(history, m) /\ Arrive(events) /\ UNCHANGED <<status, handled, errors>>
  BY DEF BeginReply, bounds
<1> HIDE DEF m, u
<1>5. /\ history' \in Seq(NativeMessages) /\ DOMAIN history' = 1..(n + 1) /\ history'[n + 1] = m
      /\ \A i \in 1..n : history'[i] = history[i]
  BY <1>1, <1>3, <1>4, AppendIs
<1> HIDE DEF n
<1>6. \A i \in 1..(n + 1) : i \in 1..n \/ i = n + 1
  BY <1>1
<1>7. Users' = Users /\ Replies' = Replies \union {n + 1} /\ Users \subseteq 1..n /\ Replies \subseteq 1..n /\ n + 1 \notin 1..n
  <2>1. n + 1 \in 1..(n + 1) /\ n + 1 \notin 1..n /\ 1..n \subseteq 1..(n + 1)
    BY <1>1
  <2>2. Users' = Users /\ Users \subseteq 1..n
    BY <1>1, <1>3, <1>5, <1>6, <2>1 DEF Users
  <2>3. Replies' = Replies \union {n + 1}
    BY <1>1, <1>5, <1>6, <2>1, <2>2 DEF Replies
  <2> QED
    BY <1>1, <2>1, <2>2, <2>3 DEF Replies
<1>8. \A i \in Replies : history[i].parent # u
  BY <1>1, <1>2, <1>7 DEF Answered
<1>9. HistoryOK'
  <2>1. \A v \in Users' : history'[v].done /\ history'[v].ver = 1 /\ history'[v].parent = 0
                          /\ history'[v].of \in Prompts \union Locals
    BY <1>5, <1>7 DEF HistoryOK
  <2>2. \A i \in Replies' : history'[i].parent \in Users' /\ history'[i].parent < i
    <3>1. u < n + 1
      BY <1>1, <1>2, <1>7
    <3> QED
      BY <1>2, <1>3, <1>5, <1>7, <3>1 DEF HistoryOK
  <2>3. \A v, w \in Users' : history'[v].of = history'[w].of => v = w
    <3>1. \A v \in Users' : v \in Users /\ history'[v] = history[v]
      BY <1>5, <1>7
    <3>2. \A v, w \in Users : history[v].of = history[w].of => v = w
      BY DEF HistoryOK
    <3> QED
      BY <3>1, <3>2
  <2>4. \A i, j \in Replies' : history'[i].parent = history'[j].parent => i = j
    <3>1. \A i \in Replies' : \/ i = n + 1 /\ history'[i].parent = u
                              \/ i \in Replies /\ history'[i] = history[i]
      BY <1>3, <1>5, <1>7
    <3>2. \A i, j \in Replies : history[i].parent = history[j].parent => i = j
      BY DEF HistoryOK
    <3> QED
      BY <1>8, <3>1, <3>2
  <2> QED
    BY <2>1, <2>2, <2>3, <2>4 DEF HistoryOK
<1>10. Grown
  BY <1>1, <1>4, <1>5, <1>6, <1>9 DEF Grown
<1>11. /\ events \in Seq(Events) /\ DOMAIN events = {1, 2} /\ events[1] = e1 /\ events[2] = e2
       /\ e1.t = "assistant" /\ e1.id = n + 1 /\ e2.t = "part" /\ e2.id = n + 1
  <2>1. e1 \in Events /\ e2 \in Events
    BY <1>1 DEF Events
  <2> QED
    BY <2>1
<1>12. e2 = LatestNext(n + 1)
  BY <1>3, <1>5 DEF LatestNext
<1> HIDE DEF events, e1, e2
<1>13. Told(events)
  BY <1>2, <1>3, <1>5, <1>7, <1>11 DEF Told
<1>14. ToldFresh(events)
  BY <1>5, <1>7, <1>11, <1>12 DEF ToldFresh, SaysAsBefore
<1>15. Moved
  <2>1. Users' \subseteq Nat
    BY <1>1, <1>7
  <2> QED
    BY <1>1, <1>4, <1>5, <1>7, <2>1 DEF Moved
<1> QED
  BY <1>4, <1>7, <1>10, <1>11, <1>13, <1>14, <1>15

\* A history of the same length, in which only replies that are open change.
LEMMA Rewritten ==
  ASSUME OpencodeTypeOK, HistoryOK, history' \in Seq(NativeMessages), DOMAIN history' = DOMAIN history,
         \A i \in DOMAIN history : /\ history'[i].role = history[i].role /\ history'[i].of = history[i].of
                                   /\ history'[i].parent = history[i].parent
                                   /\ history[i].done => history'[i] = history[i],
         errors' \in Nat, errors <= errors'
  PROVE  Grown /\ Users' = Users /\ Replies' = Replies
<1>1. Users' = Users
  BY DEF Users
<1>2. Replies' = Replies
  BY <1>1 DEF Replies
<1>3. /\ Users \subseteq DOMAIN history /\ Replies \subseteq DOMAIN history
      /\ \A u \in Users : history'[u] = history[u]
  BY DEF Users, Replies, HistoryOK
<1>4. HistoryOK'
  BY <1>1, <1>2, <1>3 DEF HistoryOK
<1> QED
  BY <1>1, <1>2, <1>4 DEF Grown, OpencodeTypeOK

\* A reply is complete.
LEMMA ReplyCompleted ==
  ASSUME OpencodeTypeOK, HistoryOK, CompleteReply
  PROVE  \E events : /\ Told(events) /\ ToldFresh(events) /\ Arrive(events) /\ Grown /\ Moved /\ Users' = Users
                     /\ \A m \in DOMAIN events : events[m].t \notin {"busy", "idle"}
<1>1. PICK i \in OpenReply : /\ history' = [history EXCEPT ![i].ver = 2, ![i].done = TRUE]
                             /\ Arrive(<<[t |-> "part", id |-> i, ver |-> 2], [t |-> "done", id |-> i]>>)
  BY DEF CompleteReply
<1> DEFINE e1 == [t |-> "part", id |-> i, ver |-> 2]
           e2 == [t |-> "done", id |-> i]
           events == <<e1, e2>>
           m == [history[i] EXCEPT !.ver = 2, !.done = TRUE]
<1>2. /\ i \in Replies /\ i \in Nat /\ i \in DOMAIN history /\ history[i].parent \in Users /\ ~history[i].done
      /\ history \in Seq(NativeMessages) /\ Len(history) \in Nat /\ DOMAIN history = 1..Len(history)
      /\ history[i] \in NativeMessages /\ errors \in Nat /\ handled \in Nat /\ UNCHANGED <<status, handled, errors>>
      /\ Users \subseteq Nat
  BY OpenIs, HistoryIs DEF OpencodeTypeOK, OpenReply, CompleteReply, bounds
<1>3. m \in NativeMessages /\ m.role = history[i].role /\ m.of = history[i].of /\ m.parent = history[i].parent
      /\ m.ver = 2 /\ m.done
  BY <1>2 DEF NativeMessages
<1>4. /\ history' = [history EXCEPT ![i] = m]
  BY <1>1, <1>2
<1> HIDE DEF m
<1>5. /\ history' \in Seq(NativeMessages) /\ DOMAIN history' = DOMAIN history /\ history'[i] = m
      /\ \A j \in DOMAIN history : j # i => history'[j] = history[j]
  BY <1>2, <1>3, <1>4
<1>6. Grown /\ Users' = Users /\ Replies' = Replies
  <2>1. \A j \in DOMAIN history : /\ history'[j].role = history[j].role /\ history'[j].of = history[j].of
                                  /\ history'[j].parent = history[j].parent
                                  /\ history[j].done => history'[j] = history[j]
    BY <1>2, <1>3, <1>5
  <2> QED
    BY <1>2, <1>5, <2>1, Rewritten
<1>7. /\ events \in Seq(Events) /\ DOMAIN events = {1, 2} /\ events[1] = e1 /\ events[2] = e2
      /\ e1.t = "part" /\ e1.id = i /\ e2.t = "done" /\ e2.id = i
  <2>1. e1 \in Events /\ e2 \in Events
    BY <1>2 DEF Events
  <2> QED
    BY <2>1
<1>8. e1 = LatestNext(i)
  BY <1>3, <1>5 DEF LatestNext
<1>9. Arrive(events)
  BY <1>1
<1> HIDE DEF events, e1, e2
<1>10. Told(events)
  BY <1>2, <1>3, <1>5, <1>6, <1>7 DEF Told
<1>11. ToldFresh(events)
  <2>1. ASSUME NEW k \in DOMAIN events
        PROVE  /\ events[k].t = "part" => events[k] = LatestNext(events[k].id)
               /\ events[k].t = "done" =>
                     /\ history'[events[k].id].done
                     /\ \/ SaysAsBefore(events[k].id)
                        \/ \E j \in 1..(k - 1) : events[j] = LatestNext(events[k].id)
    <3>1. CASE k = 1
      BY <1>7, <1>8, <3>1
    <3>2. CASE k = 2
      <4>1. 1 \in 1..(k - 1) /\ events[1] = LatestNext(events[k].id)
        BY <1>7, <1>8, <3>2
      <4> QED
        BY <1>3, <1>5, <1>7, <3>2, <4>1
    <3> QED
      BY <1>7, <3>1, <3>2
  <2>2. \A j \in Replies' : SaysAsBefore(j) \/ \E k \in DOMAIN events : events[k] = LatestNext(j)
    BY <1>5, <1>6, <1>7, <1>8 DEF SaysAsBefore, Replies
  <2> QED
    BY <2>1, <2>2 DEF ToldFresh
<1>12. Moved
  <2>1. \A u \in Users : u \in Users' /\ history'[u].of = history[u].of
    BY <1>6, GrownFacts, <1>2
  <2> QED
    BY <1>2, <1>6, <2>1 DEF Moved
<1> QED
  BY <1>6, <1>7, <1>9, <1>10, <1>11, <1>12

\* A run ends by itself.
LEMMA RunEnded ==
  ASSUME OpencodeTypeOK, ServerOK, EndRun
  PROVE  \E events : /\ Told(events) /\ ToldFresh(events) /\ Arrive(events) /\ Grown /\ Moved /\ Users' = Users
                     /\ \A m \in DOMAIN events : events[m].t # "busy" /\ (events[m].t = "idle" => m = Len(events))
                     /\ status = "busy" /\ handled' = LatestOf(Users)
<1> DEFINE e == [t |-> "idle", id |-> 0]
           events == <<e>>
<1>1. /\ history \in Seq(NativeMessages) /\ errors \in Nat /\ handled \in Nat /\ history' = history /\ errors' = errors
      /\ status = "busy" /\ status' = "idle" /\ handled' = LatestOf(Users) /\ Arrive(events) /\ Users \subseteq Nat
  BY HistoryIs DEF EndRun, OpencodeTypeOK, bounds
<1>2. HistoryOK
  BY ServerIs
<1>3. Grown /\ Users' = Users /\ Replies' = Replies
  BY <1>1, <1>2, Rewritten
<1>4. events \in Seq(Events) /\ DOMAIN events = {1} /\ Len(events) = 1 /\ events[1] = e /\ e.t = "idle"
  <2>1. e \in Events
    BY DEF Events
  <2> QED
    BY <2>1
<1> HIDE DEF events, e
<1>5. Told(events)
  BY <1>3, <1>4 DEF Told
<1>6. ToldFresh(events)
  BY <1>1, <1>3, <1>4 DEF ToldFresh, SaysAsBefore
<1>7. Users \in SUBSET DOMAIN history
  BY DEF Users
<1>8. LatestOf(Users) \in Nat /\ \A u \in Users : u <= LatestOf(Users)
  BY <1>1, <1>7, LatestIs
<1>9. \E u \in Users : u > handled
  BY <1>1 DEF ServerOK
<1>10. handled <= LatestOf(Users)
  BY <1>1, <1>8, <1>9
<1>11. Moved
  BY <1>1, <1>3, <1>8, <1>10 DEF Moved
<1> QED
  BY <1>1, <1>3, <1>4, <1>5, <1>6, <1>11

\* A run is stopped.
LEMMA RunStopped ==
  ASSUME OpencodeTypeOK, ServerOK, status = "busy",
         NEW first \in Seq(Events), \A m \in DOMAIN first : first[m].t = "error", first # <<>> => errors' > 0,
         StopRun(first), errors' \in Nat, errors <= errors'
  PROVE  \E events : /\ Told(events) /\ ToldFresh(events) /\ Arrive(events) /\ Grown /\ Moved /\ Users' = Users
                     /\ \A m \in DOMAIN events : events[m].t # "busy" /\ (events[m].t = "idle" => m = Len(events))
                     /\ handled' = LatestOf(Users)
<1> DEFINE i == CHOOSE j \in OpenReply : TRUE
           d == [t |-> "done", id |-> i]
           e == [t |-> "idle", id |-> 0]
           open == IF OpenReply = {} THEN <<>> ELSE <<d>>
           fo == first \o open
           events == fo \o <<e>>
<1>1. /\ history \in Seq(NativeMessages) /\ errors \in Nat /\ handled \in Nat
      /\ history' = [j \in DOMAIN history |-> Settle(j)]
      /\ status' = "idle" /\ handled' = LatestOf(Users) /\ Arrive(events) /\ Users \subseteq Nat
  BY HistoryIs DEF StopRun, OpencodeTypeOK
<1>2. HistoryOK /\ \E u \in Users : u > handled
  BY ServerIs
<1>3. OpenReply # {} => i \in Replies /\ i \in Nat /\ history[i].parent \in Users /\ i \in DOMAIN history
  BY <1>2, OpenIs DEF OpenReply
<1> HIDE DEF i
<1>4. /\ history' \in Seq(NativeMessages) /\ DOMAIN history' = DOMAIN history
      /\ \A j \in DOMAIN history : /\ history'[j].role = history[j].role /\ history'[j].of = history[j].of
                                   /\ history'[j].parent = history[j].parent /\ history'[j].ver = history[j].ver
                                   /\ history'[j].done
                                   /\ history[j].done => history'[j] = history[j]
  <2>1. \A m \in NativeMessages : /\ [m EXCEPT !.done = TRUE] \in NativeMessages
                                  /\ [m EXCEPT !.done = TRUE].role = m.role /\ [m EXCEPT !.done = TRUE].of = m.of
                                  /\ [m EXCEPT !.done = TRUE].parent = m.parent /\ [m EXCEPT !.done = TRUE].ver = m.ver
                                  /\ [m EXCEPT !.done = TRUE].done
                                  /\ m.done => [m EXCEPT !.done = TRUE] = m
    BY DEF NativeMessages
  <2>2. \A j \in DOMAIN history : history'[j] = [history[j] EXCEPT !.done = TRUE] /\ history[j] \in NativeMessages
    BY <1>1, HistoryIs DEF Settle
  <2>3. DOMAIN history' = 1..Len(history) /\ DOMAIN history = 1..Len(history) /\ Len(history) \in Nat
    BY <1>1, HistoryIs
  <2>4. history' \in Seq(NativeMessages)
    BY <1>1, <2>1, <2>2, <2>3
  <2>5. ASSUME NEW j \in DOMAIN history
        PROVE  /\ history'[j].role = history[j].role /\ history'[j].of = history[j].of
               /\ history'[j].parent = history[j].parent /\ history'[j].ver = history[j].ver
               /\ history'[j].done /\ (history[j].done => history'[j] = history[j])
    <3> DEFINE m == history[j]
               n == history'[j]
    <3>1. m \in NativeMessages /\ n = [m EXCEPT !.done = TRUE]
      BY <2>2
    <3> HIDE DEF m, n
    <3>2. n.role = m.role /\ n.of = m.of /\ n.parent = m.parent /\ n.ver = m.ver /\ n.done /\ (m.done => n = m)
      BY <2>1, <3>1, Zenon
    <3> QED
      BY <3>2, Zenon DEF m, n
  <2> QED
    BY <2>3, <2>4, <2>5, Zenon
<1>5. Grown /\ Users' = Users /\ Replies' = Replies
  BY <1>2, <1>4, Rewritten
<1>6. /\ open \in Seq(Events) /\ Len(open) \in {0, 1}
      /\ \A m \in DOMAIN open : open[m] = d /\ d.t = "done" /\ d.id = i /\ OpenReply # {}
  <2>1. OpenReply # {} => d \in Events
    BY <1>3 DEF Events
  <2> QED
    BY <2>1
<1>7. e \in Events /\ <<e>> \in Seq(Events) /\ Len(<<e>>) = 1 /\ <<e>>[1] = e /\ e.t = "idle"
  BY DEF Events
<1> HIDE DEF open, d, e
<1>8. /\ fo \in Seq(Events) /\ Len(fo) \in Nat /\ DOMAIN fo = 1..Len(fo)
      /\ \A m \in DOMAIN fo : (fo[m].t = "error" /\ first # <<>>) \/ (fo[m] = d /\ d.t = "done" /\ d.id = i /\ OpenReply # {})
  <2> DEFINE a == Len(first)
             b == Len(open)
  <2>1. /\ fo \in Seq(Events) /\ a \in Nat /\ b \in Nat /\ DOMAIN first = 1..a /\ DOMAIN open = 1..b
        /\ DOMAIN fo = 1..(a + b) /\ Len(fo) = a + b
        /\ \A k \in 1..a : fo[k] = first[k]
        /\ \A k \in (a + 1)..(a + b) : k - a \in 1..b /\ fo[k] = open[k - a]
    BY <1>6, ConcatIs
  <2>2. \A k \in 1..a : first # <<>>
    BY <2>1
  <2> HIDE DEF a, b, fo
  <2>3. \A k \in 1..(a + b) : k \in 1..a \/ k \in (a + 1)..(a + b)
    BY <2>1
  <2>4. \A k \in 1..a : fo[k].t = "error" /\ first # <<>>
    BY <2>1, <2>2
  <2>5. \A k \in (a + 1)..(a + b) : fo[k] = d /\ d.t = "done" /\ d.id = i /\ OpenReply # {}
    BY <1>6, <2>1
  <2> QED
    BY <2>1, <2>3, <2>4, <2>5
<1> HIDE DEF fo
<1>9. /\ events \in Seq(Events) /\ DOMAIN events = 1..(Len(fo) + 1) /\ Len(events) = Len(fo) + 1 /\ events[Len(fo) + 1] = e
      /\ \A k \in 1..Len(fo) : events[k] = fo[k]
  BY <1>7, <1>8, ConcatIs
<1> HIDE DEF events
<1>10. \A k \in DOMAIN events : \/ events[k].t = "error" /\ first # <<>>
                                \/ events[k] = d /\ d.t = "done" /\ d.id = i /\ OpenReply # {}
                                \/ k = Len(events) /\ events[k] = e
  BY <1>8, <1>9
<1>11. Told(events)
  BY <1>3, <1>4, <1>5, <1>7, <1>9, <1>10 DEF Told
<1>12. \A j \in Replies : SaysAsBefore(j)
  BY <1>4 DEF SaysAsBefore, Replies
<1>13. ToldFresh(events)
  BY <1>3, <1>4, <1>5, <1>7, <1>10, <1>12 DEF ToldFresh
<1>14. Users \in SUBSET DOMAIN history
  BY DEF Users
<1>15. LatestOf(Users) \in Nat /\ \A u \in Users : u <= LatestOf(Users)
  BY <1>1, <1>14, LatestIs
<1>16. handled <= LatestOf(Users)
  BY <1>1, <1>2, <1>15
<1>17. Moved
  BY <1>1, <1>4, <1>5, <1>14, <1>15, <1>16 DEF Moved
<1>18. \A k \in DOMAIN events : events[k].t # "busy" /\ (events[k].t = "idle" => k = Len(events))
  BY <1>7, <1>10
<1> QED
  BY <1>1, <1>5, <1>11, <1>13, <1>17, <1>18

\* A step of the native server keeps the invariant, if what it says of itself holds.
LEMMA NativeKept ==
  ASSUME OpencodeInv, Grown, NEW events, Told(events), ToldFresh(events), Arrive(events),
         UNCHANGED <<proj, conn, capture, mode>>, OpencodeTypeOK', ServerOK', TextsOK', Alone' => SerialOK'
  PROVE  OpencodeInv'
<1>1. /\ history \in Seq(NativeMessages) /\ HistoryOK /\ proj \in Projections /\ sse \in Seq(Events)
      /\ LedgerOK(proj) /\ StreamOK(proj, sse) /\ proj' = proj
  BY ServerIs DEF OpencodeInv, OpencodeTypeOK
<1>2. LedgerOK(proj)'
  BY <1>1, LedgerGrown
<1>3. StreamOK(proj, sse)'
  BY <1>1, StreamGrown
<1>4. ASSUME errors' = 0
      PROVE  FreshOK(proj, sse)'
  <2>1. FreshOK(proj, sse)
    BY <1>4 DEF OpencodeInv, Grown
  <2> QED
    BY <1>1, <2>1, FreshGrown
<1> QED
  BY <1>2, <1>3, <1>4 DEF OpencodeInv

\* What it leaves of the types.
LEMMA NativeTyped ==
  ASSUME OpencodeTypeOK, history' \in Seq(NativeMessages), status' \in {"idle", "busy"}, handled' \in Nat,
         NEW events \in Seq(Events), Arrive(events), errors' \in Nat, aborting' \in {"none", "posted", "applied"},
         post' # NULL => post' \in [of : Prompts, at : {"sent", "applied", "answered"}],
         UNCHANGED <<conn, inbox, turns, acked, latch, turn, posted, proj, shown, reader, over, drops>>
  PROVE  OpencodeTypeOK'
<1>1. sse' \in Seq(Events)
  <2>1. sse \in Seq(Events)
    BY DEF OpencodeTypeOK
  <2>2. sse \o events \in Seq(Events)
    BY <2>1
  <2> QED
    BY <2>1, <2>2 DEF Arrive
<1> QED
  BY <1>1 DEF OpencodeTypeOK, latch, reader

\* Where the texts are does not change.
LEMMA NativeTexts ==
  ASSUME TextsOK, Users' = Users, \A u \in Users : history'[u].of = history[u].of,
         UNCHANGED <<inbox, turns, acked, posted, post>>, aborting' # "none" => aborting # "none"
  PROVE  TextsOK'
  BY DEF TextsOK

LEMMA ServerIsNext ==
  ASSUME HistoryOK', status' = "busy" => \E u \in Users' : u > handled'
  PROVE  ServerOK'
  BY DEF ServerOK, HistoryOK

\* A step that starts no run and ends one at most.
LEMMA NativeCalm ==
  ASSUME OpencodeInv, Grown, Moved, NEW events, Told(events), ToldFresh(events), Arrive(events),
         status' \in {"idle", "busy"}, status' = "busy" => \E u \in Users' : u > handled',
         UNCHANGED <<conn, inbox, turns, acked, latch, turn, posted, proj, shown, reader, over, drops>>,
         aborting' \in {"none", "posted", "applied"},
         post' # NULL => post' \in [of : Prompts, at : {"sent", "applied", "answered"}], TextsOK',
         \A m \in DOMAIN events : events[m].t # "busy" /\ (events[m].t = "idle" => m = Len(events)),
         Alone => One(\E m \in DOMAIN events : events[m].t = "idle") + One(Spent) + One(Ended) <= One(Spent') + One(Ended')
  PROVE  OpencodeInv'
<1>1. events \in Seq(Events) /\ handled' \in Nat /\ HistoryOK'
  BY DEF Told, Moved, Grown
<1>2. OpencodeTypeOK /\ HistoryOK
  BY ServerIs DEF OpencodeInv
<1>3. OpencodeTypeOK'
  BY <1>1, <1>2, NativeTyped DEF Grown
<1>4. ServerOK'
  BY <1>1, ServerIsNext
<1>5. ASSUME Alone'
      PROVE  SerialOK'
  <2>1. Alone
    <3>1. Asked' = Asked
      BY DEF Asked
    <3> QED
      BY <1>5, <3>1, AloneBack DEF Moved
  <2>2. SerialOK
    BY <2>1 DEF OpencodeInv
  <2> QED
    BY <1>1, <1>2, <2>1, <2>2, SerialArrives DEF reader, latch
<1> QED
  BY <1>3, <1>4, <1>5, NativeKept DEF reader

\* Nothing that ends a run is in the events.
LEMMA NoIdle ==
  ASSUME OpencodeTypeOK, Moved, turn' = turn, NEW events, \A m \in DOMAIN events : events[m].t \notin {"busy", "idle"},
         Spent => Spent'
  PROVE  One(\E m \in DOMAIN events : events[m].t = "idle") + One(Spent) + One(Ended) <= One(Spent') + One(Ended')
<1>1. One(\E m \in DOMAIN events : events[m].t = "idle") = 0
  BY DEF One
<1>2. Ended => Ended'
  <2>1. Users \subseteq Nat
    BY HistoryIs DEF OpencodeTypeOK
  <2> QED
    BY <2>1, MovedKeeps DEF Ended, Finished
<1>3. One(Spent) + One(Ended) <= One(Spent)' + One(Ended)'
  BY <1>2, SpentOn
<1>4. Spent \in BOOLEAN /\ Ended \in BOOLEAN /\ Spent' \in BOOLEAN /\ Ended' \in BOOLEAN
  BY DEF Spent, Ended, Finished
<1>5. One(Spent) \in Nat /\ One(Ended) \in Nat
  BY DEF One
<1>6. One(Spent') = One(Spent)' /\ One(Ended') = One(Ended)'
  BY DEF One
<1> DEFINE a == One(Spent)
           b == One(Ended)
           c == One(Spent')
           d == One(Ended')
           z == One(\E m \in DOMAIN events : events[m].t = "idle")
<1>7. a \in Nat /\ b \in Nat /\ z = 0 /\ a + b <= c + d
  BY <1>1, <1>3, <1>5, <1>6
<1> HIDE DEF a, b, c, d, z
<1>8. z + a + b <= c + d
  BY <1>7
<1> QED
  BY <1>8 DEF a, b, c, d, z

\* The end of the run is the turn's.
LEMMA OwnIdle ==
  ASSUME OpencodeInv, Alone, Moved, turn' = turn, NEW events, status = "busy", handled' = LatestOf(Users), Spent => Spent'
  PROVE  One(\E m \in DOMAIN events : events[m].t = "idle") + One(Spent) + One(Ended) <= One(Spent') + One(Ended')
<1>1. OpencodeTypeOK /\ HistoryOK /\ TextsOK /\ SerialOK
  BY ServerIs DEF OpencodeInv
<1>2. PICK u \in Users : u > handled
  BY DEF OpencodeInv, ServerOK
<1>3. turn # NULL /\ history[u].of = turn.of /\ ~Finished(turn.of)
  BY <1>1, <1>2, WaitingIs
<1>4. u <= LatestOf(Users)
  <2>1. history \in Seq(NativeMessages)
    BY <1>1 DEF OpencodeTypeOK
  <2>2. Users \in SUBSET DOMAIN history
    BY DEF Users
  <2> QED
    BY <2>1, <2>2, LatestIs
<1>5. ~Ended /\ Ended'
  BY <1>3, <1>4 DEF Ended, Moved, Finished
<1>6. /\ One(Ended) = 0 /\ One(Ended') = 1
      /\ One(Spent) \in Nat /\ One(Spent') \in Nat /\ One(Spent) <= One(Spent')
      /\ One(\E m \in DOMAIN events : events[m].t = "idle") \in {0, 1}
  BY <1>5 DEF One
<1> DEFINE a == One(Spent)
           b == One(Ended)
           c == One(Spent')
           d == One(Ended')
           z == One(\E m \in DOMAIN events : events[m].t = "idle")
<1>7. a \in Nat /\ c \in Nat /\ b = 0 /\ d = 1 /\ z \in {0, 1} /\ a <= c
  BY <1>6
<1> HIDE DEF a, b, c, d, z
<1>8. z + a + b <= c + d
  BY <1>7
<1> QED
  BY <1>8 DEF a, b, c, d, z

LEMMA LocalPromptKept ==
  ASSUME OpencodeInv, NEW l \in Locals, LocalPrompt(l)
  PROVE  OpencodeInv'
<1>1. /\ OpencodeTypeOK /\ HistoryOK /\ AppendUser(l) /\ \A u \in Users : history[u].of # l
      /\ UNCHANGED <<status, handled, post, drops, errors, conn, inbox, turns, aborting, acked, latch, turn, posted, proj, shown,
                     reader, over>>
  BY ServerIs DEF OpencodeInv, LocalPrompt, Quiet, bounds, inbound
<1>2. PICK events : /\ Told(events) /\ ToldFresh(events) /\ Arrive(events) /\ Grown /\ Moved
                    /\ Users' = Users \union {Len(history) + 1} /\ history'[Len(history) + 1].of = l
                    /\ \A m \in DOMAIN events : events[m].t \notin {"busy", "idle"}
  BY <1>1, UserAdded
<1>3. \A u \in Users' : (u \in Users /\ history'[u].of = history[u].of) \/ history'[u].of = l
  BY <1>2 DEF Moved
<1>4. l \notin Prompts
  BY NamesAssumption
<1>5. TextsOK'
  <2>1. \A u \in Users' : history'[u].of \in Prompts => history'[u].of \in posted
    BY <1>3, <1>4 DEF OpencodeInv, TextsOK
  <2>2. post # NULL => post.of \in posted /\ (post.at = "sent" => \A u \in Users' : history'[u].of # post.of)
    BY <1>1, <1>3, <1>4 DEF OpencodeInv, TextsOK, OpencodeTypeOK
  <2> QED
    BY <1>1, <2>1, <2>2 DEF OpencodeInv, TextsOK
<1>6. status' \in {"idle", "busy"} /\ (status' = "busy" => \E u \in Users' : u > handled')
  BY <1>1, <1>2 DEF OpencodeInv, ServerOK, OpencodeTypeOK
<1>7. One(\E m \in DOMAIN events : events[m].t = "idle") + One(Spent) + One(Ended) <= One(Spent') + One(Ended')
  BY <1>1, <1>2, NoIdle DEF Spent
<1> QED
  BY <1>1, <1>2, <1>5, <1>6, <1>7, NativeCalm DEF OpencodeTypeOK

LEMMA ApplyPromptKept ==
  ASSUME OpencodeInv, ApplyPrompt
  PROVE  OpencodeInv'
<1>1. /\ OpencodeTypeOK /\ HistoryOK /\ post # NULL /\ post.at = "sent" /\ AppendUser(post.of) /\ post' = [post EXCEPT !.at = "applied"]
      /\ UNCHANGED <<status, handled, drops, errors, conn, inbox, turns, aborting, acked, latch, turn, posted, proj, shown,
                     reader, over>>
  BY ServerIs DEF OpencodeInv, ApplyPrompt, Quiet, bounds, inbound
<1>2. /\ post \in [of : Prompts, at : {"sent", "applied", "answered"}] /\ post.of \in Prompts /\ post.of \in posted
      /\ \A u \in Users : history[u].of # post.of
  BY <1>1 DEF OpencodeInv, TextsOK, OpencodeTypeOK
<1>3. PICK events : /\ Told(events) /\ ToldFresh(events) /\ Arrive(events) /\ Grown /\ Moved
                    /\ Users' = Users \union {Len(history) + 1} /\ history'[Len(history) + 1].of = post.of
                    /\ \A m \in DOMAIN events : events[m].t \notin {"busy", "idle"}
  BY <1>1, <1>2, UserAdded
<1>4. \A u \in Users' : (u \in Users /\ history'[u].of = history[u].of) \/ history'[u].of = post.of
  BY <1>3 DEF Moved
<1>5. post' \in [of : Prompts, at : {"sent", "applied", "answered"}] /\ post'.of = post.of /\ post'.at = "applied"
  BY <1>1, <1>2
<1>6. TextsOK'
  <2>1. \A u \in Users' : history'[u].of \in Prompts => history'[u].of \in posted
    BY <1>2, <1>4 DEF OpencodeInv, TextsOK
  <2> QED
    BY <1>1, <1>2, <1>5, <2>1 DEF OpencodeInv, TextsOK
<1>7. status' \in {"idle", "busy"} /\ (status' = "busy" => \E u \in Users' : u > handled')
  BY <1>1, <1>3 DEF OpencodeInv, ServerOK, OpencodeTypeOK
<1>8. One(\E m \in DOMAIN events : events[m].t = "idle") + One(Spent) + One(Ended) <= One(Spent') + One(Ended')
  BY <1>1, <1>3, NoIdle DEF Spent
<1> QED
  BY <1>1, <1>3, <1>5, <1>6, <1>7, <1>8, NativeCalm DEF OpencodeTypeOK

LEMMA StartRunKept ==
  ASSUME OpencodeInv, StartRun
  PROVE  OpencodeInv'
<1> DEFINE e == [t |-> "busy", id |-> 0]
           events == <<e>>
<1>1. /\ OpencodeTypeOK /\ HistoryOK /\ TextsOK /\ status' = "busy" /\ LatestOf(Users) > handled /\ Arrive(events)
      /\ UNCHANGED <<history, handled, post, drops, errors, conn, inbox, turns, aborting, acked, latch, turn, posted, proj, shown,
                     reader, over>>
      /\ history \in Seq(NativeMessages) /\ handled \in Nat /\ errors \in Nat
  BY ServerIs DEF OpencodeInv, StartRun, Quiet, bounds, inbound, OpencodeTypeOK
<1>2. Grown /\ Users' = Users /\ Replies' = Replies
  BY <1>1, Rewritten
<1>3. events \in Seq(Events) /\ DOMAIN events = {1} /\ events[1] = e /\ e.t = "busy"
  <2>1. e \in Events
    BY DEF Events
  <2> QED
    BY <2>1
<1> HIDE DEF events, e
<1>4. Told(events)
  BY <1>2, <1>3 DEF Told
<1>5. ToldFresh(events)
  BY <1>1, <1>2, <1>3 DEF ToldFresh, SaysAsBefore
<1>6. LatestOf(Users) \in Users
  <2>1. Users \in SUBSET DOMAIN history
    BY DEF Users
  <2> QED
    BY <1>1, <2>1, LatestIs
<1>7. ServerOK'
  BY <1>1, <1>2, <1>6, ServerIsNext DEF Grown
<1>8. OpencodeTypeOK'
  BY <1>1, <1>3, NativeTyped DEF OpencodeTypeOK
<1>9. TextsOK'
  BY <1>1, <1>2, NativeTexts
<1>10. ASSUME Alone' PROVE SerialOK'
  <2>1. Asked' = Asked
    BY <1>1 DEF Asked
  <2>2. Alone
    BY <1>1, <1>2, <1>10, <2>1, AloneBack
  <2> QED
    BY <1>1, <2>2, SerialStart DEF OpencodeInv
<1> QED
  BY <1>1, <1>2, <1>4, <1>5, <1>7, <1>8, <1>9, <1>10, NativeKept DEF reader

\* A step that adds no text and ends no run.
LEMMA ReplyKept ==
  ASSUME OpencodeInv, UNCHANGED <<status, handled, post, bounds>>, Quiet, NEW events,
         Told(events), ToldFresh(events), Arrive(events), Grown, Moved, Users' = Users,
         \A m \in DOMAIN events : events[m].t \notin {"busy", "idle"}
  PROVE  OpencodeInv'
<1>1. /\ OpencodeTypeOK /\ HistoryOK /\ TextsOK
      /\ UNCHANGED <<status, handled, post, drops, errors, conn, inbox, turns, aborting, acked, latch, turn, posted, proj, shown,
                     reader, over>>
  BY ServerIs DEF OpencodeInv, Quiet, bounds, inbound
<1>2. TextsOK'
  BY <1>1, NativeTexts DEF Moved
<1>3. status' \in {"idle", "busy"} /\ (status' = "busy" => \E u \in Users' : u > handled')
  BY <1>1 DEF OpencodeInv, ServerOK, OpencodeTypeOK
<1>4. One(\E m \in DOMAIN events : events[m].t = "idle") + One(Spent) + One(Ended) <= One(Spent') + One(Ended')
  BY <1>1, NoIdle DEF Spent
<1> QED
  BY <1>1, <1>2, <1>3, <1>4, NativeCalm DEF OpencodeTypeOK

LEMMA BeginReplyKept ==
  ASSUME OpencodeInv, BeginReply
  PROVE  OpencodeInv'
<1>1. OpencodeTypeOK /\ HistoryOK
  BY ServerIs DEF OpencodeInv
<1>2. PICK events : /\ Told(events) /\ ToldFresh(events) /\ Arrive(events) /\ Grown /\ Moved /\ Users' = Users
                    /\ \A m \in DOMAIN events : events[m].t \notin {"busy", "idle"}
  BY <1>1, ReplyBegun
<1> QED
  BY <1>2, ReplyKept DEF BeginReply

LEMMA CompleteReplyKept ==
  ASSUME OpencodeInv, CompleteReply
  PROVE  OpencodeInv'
<1>1. OpencodeTypeOK /\ HistoryOK
  BY ServerIs DEF OpencodeInv
<1>2. PICK events : /\ Told(events) /\ ToldFresh(events) /\ Arrive(events) /\ Grown /\ Moved /\ Users' = Users
                    /\ \A m \in DOMAIN events : events[m].t \notin {"busy", "idle"}
  BY <1>1, ReplyCompleted
<1> QED
  BY <1>2, ReplyKept DEF CompleteReply

\* A step that ends the run.
LEMMA EndKept ==
  ASSUME OpencodeInv, NEW events, Told(events), ToldFresh(events), Arrive(events), Grown, Moved, Users' = Users,
         \A m \in DOMAIN events : events[m].t # "busy" /\ (events[m].t = "idle" => m = Len(events)),
         status = "busy", status' = "idle", handled' = LatestOf(Users),
         UNCHANGED <<conn, inbox, turns, acked, latch, turn, post, posted, proj, shown, reader, over, drops>>,
         aborting' \in {"none", "posted", "applied"}, aborting' # "none" => aborting # "none", Spent => Spent'
  PROVE  OpencodeInv'
<1>1. TextsOK'
  BY NativeTexts DEF Moved, OpencodeInv
<1>2. Alone => One(\E m \in DOMAIN events : events[m].t = "idle") + One(Spent) + One(Ended) <= One(Spent') + One(Ended')
  BY OwnIdle
<1>3. post' # NULL => post' \in [of : Prompts, at : {"sent", "applied", "answered"}]
  BY DEF OpencodeInv, OpencodeTypeOK
<1> QED
  BY <1>1, <1>2, <1>3, NativeCalm

LEMMA EndRunKept ==
  ASSUME OpencodeInv, EndRun
  PROVE  OpencodeInv'
<1>1. OpencodeTypeOK /\ ServerOK /\ aborting \in {"none", "posted", "applied"}
      /\ status' = "idle"
      /\ UNCHANGED <<conn, inbox, turns, acked, aborting, latch, turn, post, posted, proj, shown, reader, over, drops>>
  BY DEF OpencodeInv, OpencodeTypeOK, EndRun, Quiet, bounds, inbound
<1>2. PICK events : /\ Told(events) /\ ToldFresh(events) /\ Arrive(events) /\ Grown /\ Moved /\ Users' = Users
                    /\ \A m \in DOMAIN events : events[m].t # "busy" /\ (events[m].t = "idle" => m = Len(events))
                    /\ status = "busy" /\ handled' = LatestOf(Users)
  BY <1>1, RunEnded
<1>3. Spent => Spent'
  BY <1>1 DEF Spent
<1> QED
  BY <1>1, <1>2, <1>3, EndKept

LEMMA FailRunKept ==
  ASSUME OpencodeInv, FailRun
  PROVE  OpencodeInv'
<1> DEFINE e == [t |-> "error", id |-> 0]
<1>1. OpencodeTypeOK /\ ServerOK /\ aborting \in {"none", "posted", "applied"} /\ status = "busy" /\ status' = "idle"
      /\ errors \in Nat /\ errors' = errors + 1 /\ StopRun(<<e>>)
      /\ UNCHANGED <<conn, inbox, turns, acked, aborting, latch, turn, post, posted, proj, shown, reader, over, drops>>
  BY DEF OpencodeInv, OpencodeTypeOK, FailRun, StopRun, Quiet, bounds, inbound
<1>2. <<e>> \in Seq(Events) /\ \A m \in DOMAIN <<e>> : <<e>>[m].t = "error"
  BY DEF Events
<1> HIDE DEF e
<1>3. PICK events : /\ Told(events) /\ ToldFresh(events) /\ Arrive(events) /\ Grown /\ Moved /\ Users' = Users
                    /\ \A m \in DOMAIN events : events[m].t # "busy" /\ (events[m].t = "idle" => m = Len(events))
                    /\ handled' = LatestOf(Users)
  <2>1. errors' \in Nat /\ errors <= errors' /\ errors' > 0
    BY <1>1
  <2> DEFINE first == <<e>>
  <2>2. first \in Seq(Events) /\ \A m \in DOMAIN first : first[m].t = "error"
    BY <1>2
  <2>3. StopRun(first)
    BY <1>1
  <2> HIDE DEF first
  <2> QED
    BY <1>1, <2>1, <2>2, <2>3, RunStopped
<1>4. Spent => Spent'
  BY <1>1 DEF Spent
<1> QED
  BY <1>1, <1>3, <1>4, EndKept

\* An abort that meets a run ends it; the idle of one that meets none is the interrupt's.
LEMMA ApplyAbortKept ==
  ASSUME OpencodeInv, ApplyAbort
  PROVE  OpencodeInv'
<1>1. /\ OpencodeTypeOK /\ ServerOK /\ HistoryOK /\ TextsOK /\ aborting = "posted" /\ aborting' = "applied"
      /\ UNCHANGED <<conn, inbox, turns, acked, latch, turn, post, posted, proj, shown, reader, over, drops, errors>>
      /\ history \in Seq(NativeMessages) /\ errors \in Nat /\ handled \in Nat /\ status \in {"idle", "busy"}
  BY ServerIs DEF OpencodeInv, OpencodeTypeOK, ApplyAbort, bounds, writer
<1>2. CASE status = "busy"
  <2>1. StopRun(<<>>) /\ status' = "idle"
    BY <1>2 DEF ApplyAbort, StopRun
  <2>2. <<>> \in Seq(Events) /\ \A m \in DOMAIN <<>> : <<>>[m].t = "error"
    OBVIOUS
  <2>3. PICK events : /\ Told(events) /\ ToldFresh(events) /\ Arrive(events) /\ Grown /\ Moved /\ Users' = Users
                      /\ \A m \in DOMAIN events : events[m].t # "busy" /\ (events[m].t = "idle" => m = Len(events))
                      /\ handled' = LatestOf(Users)
    <3> DEFINE first == <<>>
    <3>1. first \in Seq(Events) /\ (\A m \in DOMAIN first : first[m].t = "error") /\ StopRun(first)
      BY <2>1, <2>2
    <3>2. errors' \in Nat /\ errors <= errors' /\ (first # <<>> => errors' > 0)
      BY <1>1
    <3> HIDE DEF first
    <3> QED
      BY <1>1, <1>2, <3>1, <3>2, RunStopped
  <2>4. Spent'
    BY <1>1 DEF Spent
  <2> QED
    BY <1>1, <1>2, <2>1, <2>3, <2>4, EndKept
<1>3. CASE status = "idle"
  <2> DEFINE e == [t |-> "idle", id |-> 0]
             events == <<e>>
  <2>1. Arrive(events) /\ UNCHANGED <<history, status, handled>>
    BY <1>3 DEF ApplyAbort, native
  <2>2. Grown /\ Users' = Users /\ Replies' = Replies
    BY <1>1, <2>1, Rewritten
  <2>3. events \in Seq(Events) /\ DOMAIN events = {1} /\ Len(events) = 1 /\ events[1] = e /\ e.t = "idle"
    <3>1. e \in Events
      BY DEF Events
    <3> QED
      BY <3>1
  <2> HIDE DEF events, e
  <2>4. Told(events)
    BY <2>2, <2>3 DEF Told
  <2>5. ToldFresh(events)
    BY <2>1, <2>2, <2>3 DEF ToldFresh, SaysAsBefore
  <2>6. Users \subseteq Nat
    BY <1>1, HistoryIs
  <2>7. Moved
    BY <1>1, <1>3, <2>1, <2>2, <2>6 DEF Moved
  <2>8. TextsOK'
    BY <1>1, <2>1, <2>2, NativeTexts
  <2>9. ASSUME Alone
        PROVE  One(\E m \in DOMAIN events : events[m].t = "idle") + One(Spent) + One(Ended) <= One(Spent') + One(Ended')
    <3>1. inbox # <<>> /\ Head(inbox) \in Interrupts /\ inbox \in Seq(Commands)
      BY <1>1 DEF TextsOK, OpencodeTypeOK
    <3>2. 1 \in DOMAIN inbox /\ Head(inbox) = inbox[1] /\ Head(inbox) \in ToSet(inbox)
      <4>1. 1 \in DOMAIN inbox /\ Head(inbox) = inbox[1]
        BY <3>1, TailIs
      <4> QED
        BY <4>1 DEF ToSet
    <3>3. Head(inbox) \in Asked /\ Head(inbox) \notin acked
      BY <1>1, <3>2 DEF Asked, TextsOK
    <3>4. acked \intersect Interrupts = {}
      BY <2>9, <3>1, <3>3 DEF Alone, OneInterrupt, Asked
    <3>5. ~Spent /\ Spent'
      BY <1>1, <3>4 DEF Spent
    <3>6. Ended' = Ended
      BY <1>1, <2>1, <2>2 DEF Ended, Finished
    <3>7. /\ One(Spent) = 0 /\ One(Spent') = 1 /\ One(Ended') = One(Ended) /\ One(Ended) \in {0, 1}
          /\ One(\E m \in DOMAIN events : events[m].t = "idle") \in {0, 1}
      BY <3>5, <3>6 DEF One
    <3> DEFINE a == One(Spent)
               b == One(Ended)
               c == One(Spent')
               d == One(Ended')
               z == One(\E m \in DOMAIN events : events[m].t = "idle")
    <3>8. a = 0 /\ c = 1 /\ d = b /\ b \in {0, 1} /\ z \in {0, 1}
      BY <3>7
    <3> HIDE DEF a, b, c, d, z
    <3>9. z + a + b <= c + d
      BY <3>8
    <3> QED
      BY <3>9 DEF a, b, c, d, z
  <2>10. status' \in {"idle", "busy"} /\ (status' = "busy" => \E u \in Users' : u > handled')
    BY <1>3, <2>1
  <2> QED
    BY <1>1, <2>1, <2>2, <2>3, <2>4, <2>5, <2>7, <2>8, <2>9, <2>10, NativeCalm DEF OpencodeTypeOK
<1> QED
  BY <1>1, <1>2, <1>3

-----------------------------------------------------------------------------
(* A step of the capture pump                                              *)

LEMMA TextsSame ==
  ASSUME TextsOK, UNCHANGED <<history, inbox, turns, acked, aborting, posted, post>>
  PROVE  TextsOK'
BY HistorySame, NativeTexts

\* It leaves the native session and the commands alone.
LEMMA CalmKept ==
  ASSUME OpencodeInv, Calm, OpencodeTypeOK', LedgerOK(proj'), StreamOK(proj, sse)', errors = 0 => FreshOK(proj, sse)',
         Alone => SerialOK'
  PROVE  OpencodeInv'
<1>1. /\ TextsOK /\ HistoryOK /\ (status = "busy" => \E u \in Users : u > handled)
      /\ UNCHANGED <<history, status, handled, inbox, turns, acked, aborting, posted, post, drops, errors>>
  BY ServerIs DEF OpencodeInv, Calm, native, inbound, bounds
<1>2. Users' = Users /\ HistoryOK'
  BY <1>1, HistorySame
<1>3. TextsOK'
  BY <1>1, TextsSame
<1>4. ServerOK'
  BY <1>1, <1>2, ServerIsNext
<1>5. LedgerOK(proj)'
  BY <1>1, LedgerSame
<1>6. Alone' => Alone
  <2>1. Asked' = Asked
    BY <1>1 DEF Asked
  <2> QED
    BY <1>1, <1>2, <2>1, AloneBack
<1> QED
  BY <1>1, <1>3, <1>4, <1>5, <1>6 DEF OpencodeInv

\* It loses the stream.
LEMMA LostKept ==
  ASSUME OpencodeInv, Breaks, UNCHANGED <<native, inbound, writer, proj, errors>>, conn' = "broken",
         sse' = <<>> \/ sse' = sse, Unread => Unread', OpencodeTypeOK'
  PROVE  OpencodeInv'
<1>1. /\ TextsOK /\ HistoryOK /\ (status = "busy" => \E u \in Users : u > handled)
      /\ LedgerOK(proj) /\ StreamOK(proj, sse) /\ (errors = 0 => FreshOK(proj, sse))
      /\ UNCHANGED <<history, status, handled, inbox, turns, acked, aborting, posted, post, errors, proj>>
  BY ServerIs DEF OpencodeInv, native, inbound, writer
<1>2. Users' = Users /\ HistoryOK' /\ Replies' = Replies
  BY <1>1, HistorySame
<1>3. TextsOK'
  BY <1>1, TextsSame
<1>4. ServerOK'
  BY <1>1, <1>2, ServerIsNext
<1>5. LedgerOK(proj)'
  BY <1>1, LedgerSame
<1>6. ~Alone'
  BY DEF Breaks, Alone, OnlyBrowser, OpencodeInv, OpencodeTypeOK
<1>7. StreamOK(proj, sse)'
  <2>1. CASE sse' = sse
    BY <1>1, <1>2, <2>1 DEF StreamOK, Met, Said
  <2>2. CASE sse' = <<>>
    BY <2>2 DEF StreamOK
  <2> QED
    BY <2>1, <2>2
<1>8. ASSUME errors' = 0
      PROVE  FreshOK(proj, sse)'
  <2>1. CASE sse' = sse
    BY <1>1, <1>2, <1>8, <2>1 DEF FreshOK, Fresh, Latest
  <2>2. CASE sse' = <<>>
    BY <2>2 DEF FreshOK
  <2> QED
    BY <2>1, <2>2
<1> QED
  BY <1>3, <1>4, <1>5, <1>6, <1>7, <1>8 DEF OpencodeInv

LEMMA ConnectFailsKept ==
  ASSUME OpencodeInv, ConnectFails
  PROVE  OpencodeInv'
<1>1. Unread'
  BY DEF Unread, ConnectFails
<1>2. OpencodeTypeOK'
  BY DEF OpencodeInv, OpencodeTypeOK, ConnectFails, Breaks, native, inbound, latch, writer
<1> QED
  BY <1>1, <1>2, LostKept DEF ConnectFails

LEMMA ReadFailsKept ==
  ASSUME OpencodeInv, ReadFails
  PROVE  OpencodeInv'
<1>1. Unread'
  BY DEF Unread, ReadFails
<1>2. OpencodeTypeOK'
  <2>1. drops' \in Nat /\ attempt' \in Nat /\ transport' = FALSE /\ nativeIdle' = FALSE /\ sse' = <<>>
    BY DEF OpencodeInv, OpencodeTypeOK, ReadFails, Breaks
  <2>2. /\ UNCHANGED <<history, status, handled, inbox, turns, aborting, acked, turn, post, posted, proj, shown, snap, over, errors>>
        /\ conn' = "broken" /\ capture' = "connect" /\ mode' = "strict"
    BY DEF ReadFails, native, inbound, writer
  <2>3. OpencodeTypeOK
    BY DEF OpencodeInv
  <2>4. sse' \in Seq(Events) /\ transport' \in BOOLEAN /\ nativeIdle' \in BOOLEAN
    <3>1. <<>> \in Seq(Events)
      OBVIOUS
    <3> QED
      BY <2>1, <3>1, Zenon
  <2>5. conn' \in {"up", "broken"} /\ mode' \in {"strict", "live"}
        /\ capture' \in {"connect", "history", "status", "consume", "errorstatus"}
    BY <2>2
  <2>6. /\ history' \in Seq(NativeMessages) /\ status' \in {"idle", "busy"} /\ handled' \in Nat
        /\ inbox' \in Seq(Commands) /\ turns' \in Seq(Prompts) /\ aborting' \in {"none", "posted", "applied"}
        /\ acked' \subseteq Commands /\ posted' \subseteq Prompts /\ proj' \in Projections /\ shown' \in {"idle", "running"}
        /\ snap' \in Nat /\ over' \in BOOLEAN /\ errors' \in Nat
    BY <2>2, <2>3 DEF OpencodeTypeOK
  <2>7. /\ turn' # NULL => turn' \in [of : Prompts, sawBusy : BOOLEAN]
        /\ post' # NULL => post' \in [of : Prompts, at : {"sent", "applied", "answered"}]
    BY <2>2, <2>3 DEF OpencodeTypeOK
  <2> QED
    BY <2>1, <2>4, <2>5, <2>6, <2>7 DEF OpencodeTypeOK
<1> QED
  BY <1>1, <1>2, LostKept DEF ReadFails

LEMMA DropKept ==
  ASSUME OpencodeInv, Drop
  PROVE  OpencodeInv'
<1>1. Unread => Unread'
  BY DEF Unread, Drop, reader
<1>2. sse' = <<>> \/ sse' = sse
  <2>1. sse \in Seq(Events)
    BY DEF OpencodeInv, OpencodeTypeOK
  <2>2. SubSeq(sse, 1, Len(sse)) = sse /\ SubSeq(sse, 1, 0) = <<>>
    BY <2>1
  <2> QED
    BY <2>2 DEF Drop
<1>3. OpencodeTypeOK'
  BY <1>2 DEF OpencodeInv, OpencodeTypeOK, Drop, Breaks, native, inbound, latch, writer, reader
<1> QED
  BY <1>1, <1>2, <1>3, LostKept DEF Drop

LEMMA ConnectKept ==
  ASSUME OpencodeInv, Connect
  PROVE  OpencodeInv'
<1>1. OpencodeTypeOK'
  BY DEF OpencodeInv, OpencodeTypeOK, Connect, Calm, native, inbound, latch, bounds
<1>2. Unread' /\ sse' = <<>> /\ proj' = proj
  BY DEF Connect, Unread
<1>3. StreamOK(proj, sse)'
  BY <1>2 DEF StreamOK
<1>4. FreshOK(proj, sse)'
  BY <1>2 DEF FreshOK, Fresh
<1>5. Alone => SerialOK'
  BY SerialConnect DEF OpencodeInv
<1> QED
  BY <1>1, <1>2, <1>3, <1>4, <1>5, CalmKept DEF Connect, OpencodeInv

LEMMA NoticeLossKept ==
  ASSUME OpencodeInv, NoticeLoss
  PROVE  OpencodeInv'
<1>1. OpencodeTypeOK'
  BY DEF OpencodeInv, OpencodeTypeOK, NoticeLoss, Calm, native, stream, inbound, bounds
<1>2. Unread' /\ conn' = conn /\ sse' = sse /\ proj' = proj /\ UNCHANGED <<history, errors>>
  BY DEF NoticeLoss, Unread, stream, Calm, native, bounds
<1>3. StreamOK(proj, sse)'
  BY <1>2, StreamSame DEF OpencodeInv
<1>4. errors = 0 => FreshOK(proj, sse)'
  BY <1>2, FreshSame DEF OpencodeInv
<1>5. ~Alone
  BY DEF OpencodeInv, SerialOK, NoticeLoss
<1> QED
  BY <1>1, <1>2, <1>3, <1>4, <1>5, CalmKept DEF NoticeLoss, OpencodeInv

\* The history replaces what the stream would have told.
LEMMA ReadHistoryKept ==
  ASSUME OpencodeInv, ReadHistory
  PROVE  OpencodeInv'
<1> DEFINE q == Reconciled(proj)
<1>1. /\ OpencodeTypeOK /\ HistoryOK /\ history \in Seq(NativeMessages) /\ LedgerOK(proj) /\ StreamOK(proj, sse)
      /\ errors = 0 => FreshOK(proj, sse)
      /\ proj' = q /\ Calm /\ UNCHANGED <<conn, sse, history, errors>> /\ proj \in Projections
      /\ capture = "history"
      /\ capture' \in {"history", "status"} /\ mode' = mode
  BY ServerIs DEF OpencodeInv, OpencodeTypeOK, ReadHistory, Fence, Calm, native, stream, bounds
<1>2. ReadUpTo(q, Len(history))
  BY <1>1, ReconciledKept
<1> HIDE DEF q
<1>3. q \in Projections /\ LedgerOK(q)
  BY <1>2 DEF ReadUpTo
<1>4. \A u \in Users : Met(q, u)
  BY <1>1, <1>2, HistoryIs DEF ReadUpTo, Met
<1>5. \A i \in Replies : q.emitted[i] # 0 \/ q.buf[i] = history[i].ver
  BY <1>1, <1>2, HistoryIs DEF ReadUpTo
<1>6. OpencodeTypeOK'
  BY <1>1, <1>3, HistoryIs DEF OpencodeTypeOK, ReadHistory, Fence, Calm, native, stream, inbound, latch, bounds
<1>7. Users' = Users /\ Replies' = Replies
  BY <1>1, HistorySame
<1>8. \A i \in Replies : history[i].parent \in Users
  BY <1>1 DEF HistoryOK
<1>9. StreamOK(proj, sse)'
  BY <1>1, <1>4, <1>7, <1>8 DEF StreamOK, Met
<1>10. ASSUME errors = 0
       PROVE  FreshOK(proj, sse)'
  <2>1. \A i \in Replies : Fresh(proj, i)'
    BY <1>1, <1>5 DEF Fresh
  <2>2. \A k \in DOMAIN sse : sse[k].t = "done" => sse[k].id \in Replies
    BY <1>1 DEF StreamOK
  <2> QED
    BY <1>1, <1>7, <1>10, <2>1, <2>2 DEF FreshOK, Latest
<1>11. ASSUME Alone
       PROVE  SerialOK'
  <2>1. SerialOK
    BY <1>11 DEF OpencodeInv
  <2>2. Calmly /\ UNCHANGED <<sse, turn>> /\ (Spent => Spent')
    BY DEF Calmly, ReadHistory, Fence, Calm, native, stream, latch, Spent, inbound
  <2> QED
    BY <1>1, <2>1, <2>2, SerialStill
<1> QED
  BY <1>1, <1>3, <1>6, <1>9, <1>10, <1>11, CalmKept

LEMMA StreamLedger ==
  ASSUME NEW p, NEW q, NEW s, q.buf = p.buf, q.emitted = p.emitted
  PROVE  (StreamOK(p, s) => StreamOK(q, s)) /\ (FreshOK(p, s) => FreshOK(q, s))
<1>1. StreamOK(p, s) => StreamOK(q, s)
  BY DEF StreamOK, Met
<1>2. FreshOK(p, s) => FreshOK(q, s)
  BY DEF FreshOK, Fresh
<1> QED
  BY <1>1, <1>2

\* What the next event says.
LEMMA FirstIs ==
  ASSUME OpencodeInv, sse # <<>>, capture = "consume"
  PROVE  /\ Head(sse) \in Events
         /\ Head(sse).t = "user" => Head(sse).id \in Users
         /\ Head(sse).t = "error" => errors > 0
         /\ Head(sse).t \in {"assistant", "part", "done"} =>
               Head(sse).id \in Replies /\ Met(proj, history[Head(sse).id].parent)
         /\ Head(sse).t = "part" => Head(sse).ver \in {1, 2}
         /\ errors = 0 /\ Head(sse).t = "done" =>
               /\ history[Head(sse).id].done
               /\ proj.emitted[Head(sse).id] # 0 \/ proj.buf[Head(sse).id] = history[Head(sse).id].ver
<1>1. sse \in Seq(Events) /\ StreamOK(proj, sse) /\ (errors = 0 => FreshOK(proj, sse))
  BY DEF OpencodeInv, OpencodeTypeOK
<1>2. Head(sse) \in Events /\ Head(sse) = sse[1] /\ 1 \in DOMAIN sse
  BY <1>1, TailIs
<1>3. ~Unread /\ 1..(1 - 1) = {}
  BY DEF Unread
<1>4. Head(sse).t = "part" => Head(sse).ver \in {1, 2}
  BY <1>2 DEF Events
<1>5. errors = 0 /\ Head(sse).t = "done" =>
               /\ history[Head(sse).id].done
               /\ proj.emitted[Head(sse).id] # 0 \/ proj.buf[Head(sse).id] = history[Head(sse).id].ver
  BY <1>1, <1>2, <1>3 DEF FreshOK, Fresh
<1> QED
  BY <1>1, <1>2, <1>3, <1>4, <1>5 DEF StreamOK

\* It reads an event.
LEMMA EventKept ==
  ASSUME OpencodeInv, Calm, capture = "consume", sse # <<>>, sse' = Tail(sse), conn' = conn, OpencodeTypeOK', LedgerOK(proj'),
         \A i \in MessageIds : Met(proj, i) => Met(proj', i),
         \A u \in Users : Head(sse) = Said(u) => Met(proj', u),
         errors = 0 => \A i \in Replies :
            /\ Fresh(proj, i) => Fresh(proj', i) \/ (Head(sse).t = "part" /\ Head(sse).id = i /\ Head(sse) # Latest(i))
            /\ Head(sse) = Latest(i) => Fresh(proj', i),
         Alone => SerialOK'
  PROVE  OpencodeInv'
<1>1. /\ HistoryOK /\ history \in Seq(NativeMessages) /\ sse \in Seq(Events) /\ StreamOK(proj, sse)
      /\ errors = 0 => FreshOK(proj, sse)
      /\ UNCHANGED <<history, errors>> /\ ~Unread
  BY ServerIs DEF OpencodeInv, OpencodeTypeOK, Calm, native, bounds, Unread
<1>2. StreamOK(proj', sse')
  BY <1>1, StreamTail
<1>3. StreamOK(proj, sse)'
  BY <1>1, <1>2, StreamSame
<1>4. ASSUME errors = 0
      PROVE  FreshOK(proj, sse)'
  <2>1. FreshOK(proj', sse')
    BY <1>1, <1>4, FreshTail
  <2> QED
    BY <1>1, <2>1, FreshSame
<1> QED
  BY <1>3, <1>4, CalmKept

\* An event that leaves the projection.
LEMMA PlainEventKept ==
  ASSUME OpencodeInv, Calm, capture = "consume", sse # <<>>, sse' = Tail(sse), conn' = conn, proj' = proj, OpencodeTypeOK',
         Head(sse).t \notin {"user", "part"}, Alone => SerialOK'
  PROVE  OpencodeInv'
<1>1. LedgerOK(proj')
  BY DEF OpencodeInv
<1>2. \A u \in Users : Head(sse) # Said(u)
  BY SaidIs
<1>3. \A i \in Replies : Head(sse) # Latest(i)
  BY LatestPart
<1> QED
  BY <1>1, <1>2, <1>3, EventKept

LEMMA ReadUserKept ==
  ASSUME OpencodeInv, ReadUser
  PROVE  OpencodeInv'
<1> DEFINE id == Head(sse).id
           q == OnUser(proj, id)
<1>1. /\ OpencodeTypeOK /\ HistoryOK /\ history \in Seq(NativeMessages) /\ LedgerOK(proj) /\ proj \in Projections
      /\ Head(sse).t = "user" /\ sse # <<>> /\ capture = "consume" /\ sse' = Tail(sse) /\ conn' = conn
      /\ proj' = q /\ over' = q.bad /\ Calm /\ UNCHANGED <<transport, turn, capture, mode, snap, attempt>>
      /\ nativeIdle' \in {nativeIdle, FALSE} /\ shown' \in {shown, "running"}
  BY ServerIs DEF OpencodeInv, OpencodeTypeOK, ReadUser, Event, Project, MarkRunning, reader
<1>2. id \in Users
  BY <1>1, FirstIs
<1>3. /\ q \in Projections /\ LedgerOK(q)
      /\ \A i \in MessageIds : Met(proj, i) => Met(q, i)
      /\ Met(q, id)
      /\ \A i \in Replies : q.buf[i] = proj.buf[i] /\ q.emitted[i] = proj.emitted[i]
  BY <1>1, <1>2, OnUserKept
<1> HIDE DEF q
<1>4. q.bad \in BOOLEAN /\ sse' \in Seq(Events)
  BY <1>1, <1>3, TailIs DEF Projections, OpencodeTypeOK
<1>5. OpencodeTypeOK'
  <2>1. nativeIdle' \in BOOLEAN /\ over' \in BOOLEAN
    <3>1. nativeIdle \in BOOLEAN
      BY <1>1 DEF OpencodeTypeOK
    <3> QED
      BY <1>1, <1>4, <3>1, Zenon
  <2>2. shown' \in {"idle", "running"}
    BY <1>1 DEF OpencodeTypeOK
  <2> QED
    BY <1>1, <1>3, <1>4, <2>1, <2>2 DEF OpencodeTypeOK, Calm, native, inbound, bounds
<1>6. \A u \in Users : Head(sse) = Said(u) => Met(proj', u)
  BY <1>1, <1>3, SaidIs
<1>7. \A i \in Replies : Head(sse) # Latest(i) /\ (Fresh(proj, i) => Fresh(proj', i))
  BY <1>1, <1>3, LatestPart DEF Fresh
<1>8. ASSUME Alone
      PROVE  SerialOK'
  <2>1. SerialOK
    BY <1>8 DEF OpencodeInv
  <2>2. Calmly /\ UNCHANGED inbound
    BY <1>1 DEF Calmly, Calm, native
  <2> QED
    BY <1>1, <2>1, <2>2, SerialReads
<1> QED
  BY <1>1, <1>3, <1>5, <1>6, <1>7, <1>8, EventKept

\* An event of a reply.
LEMMA ReplyEventKept ==
  ASSUME OpencodeInv, sse # <<>>, capture = "consume", sse' = Tail(sse), conn' = conn, Calm,
         Head(sse).t \notin {"user", "busy"},
         UNCHANGED <<latch, turn, shown, mode, snap, attempt>>, capture' \in {"consume", "errorstatus"}, over' = proj'.bad,
         proj' \in Projections, LedgerOK(proj'), \A i \in MessageIds : Met(proj, i) => Met(proj', i),
         errors = 0 => \A i \in Replies :
            /\ Fresh(proj, i) => Fresh(proj', i) \/ (Head(sse).t = "part" /\ Head(sse).id = i /\ Head(sse) # Latest(i))
            /\ Head(sse) = Latest(i) => Fresh(proj', i)
  PROVE  OpencodeInv'
<1>1. OpencodeTypeOK
  BY DEF OpencodeInv
<1>2. proj'.bad \in BOOLEAN /\ sse' \in Seq(Events)
  BY <1>1, TailIs DEF Projections, OpencodeTypeOK
<1>3. OpencodeTypeOK'
  BY <1>1, <1>2 DEF OpencodeTypeOK, Calm, native, inbound, latch, bounds
<1>4. \A u \in Users : Head(sse) # Said(u)
  BY SaidIs
<1>5. ASSUME Alone
      PROVE  SerialOK'
  <2>1. SerialOK
    BY <1>5 DEF OpencodeInv
  <2>2. Calmly /\ UNCHANGED inbound
    BY DEF Calmly, Calm, native, latch
  <2> QED
    BY <1>1, <2>1, <2>2, SerialReads
<1> QED
  BY <1>3, <1>4, <1>5, EventKept

LEMMA ReadMessageKept ==
  ASSUME OpencodeInv, ReadMessage
  PROVE  OpencodeInv'
<1> DEFINE id == Head(sse).id
           ver == Head(sse).ver
<1>1. /\ HistoryOK /\ history \in Seq(NativeMessages) /\ LedgerOK(proj) /\ proj \in Projections
      /\ sse # <<>> /\ capture = "consume" /\ sse' = Tail(sse) /\ conn' = conn /\ Calm
      /\ UNCHANGED <<latch, turn, shown, capture, mode, snap, attempt>> /\ over' = proj'.bad
      /\ Head(sse).t \in {"part", "assistant", "done"}
  BY ServerIs DEF OpencodeInv, OpencodeTypeOK, ReadMessage, Event, Project, reader
<1>2. id \in Replies /\ Met(proj, history[id].parent)
  BY <1>1, FirstIs
<1>3. CASE Head(sse).t = "part" /\ proj' = OnPart(proj, id, ver)
  <2> DEFINE q == OnPart(proj, id, ver)
  <2>1. ver \in {1, 2}
    BY <1>1, <1>3, FirstIs
  <2>2. /\ q \in Projections /\ LedgerOK(q)
        /\ \A i \in MessageIds : Met(proj, i) => Met(q, i)
        /\ q.emitted = proj.emitted
        /\ \A i \in MessageIds : i # id \/ proj.emitted[i] # 0 => q.buf[i] = proj.buf[i]
        /\ proj.emitted[id] = 0 => q.buf[id] = ver
    BY <1>1, <1>2, <2>1, OnPartKept
  <2>3. proj' = q
    BY <1>3
  <2> HIDE DEF q
  <2>4. Replies \subseteq MessageIds
    BY <1>1, HistoryIs, HistoryFits
  <2>5. ~Unread
    BY <1>1 DEF Unread
  <2>6. \A i \in Replies : /\ Fresh(proj, i) => Fresh(q, i) \/ (Head(sse).t = "part" /\ Head(sse).id = i /\ Head(sse) # Latest(i))
                           /\ Head(sse) = Latest(i) => Fresh(q, i)
    <3> SUFFICES ASSUME NEW i \in Replies
                 PROVE  /\ Fresh(proj, i) => Fresh(q, i) \/ (Head(sse).t = "part" /\ Head(sse).id = i /\ Head(sse) # Latest(i))
                        /\ Head(sse) = Latest(i) => Fresh(q, i)
      OBVIOUS
    <3>1. i \in MessageIds
      BY <2>4
    <3>2. Head(sse) = Latest(i) => id = i /\ ver = history[i].ver
      BY LatestPart
    <3>3. CASE i # id \/ proj.emitted[i] # 0
      BY <2>2, <2>5, <3>1, <3>2, <3>3 DEF Fresh
    <3>4. CASE i = id /\ proj.emitted[i] = 0
      BY <1>3, <2>2, <2>5, <3>1, <3>2, <3>4 DEF Fresh
    <3> QED
      BY <3>3, <3>4
  <2> QED
    BY <1>1, <2>2, <2>3, <2>6, ReplyEventKept
<1>4. CASE Head(sse).t = "assistant" /\ proj' = OnAssistant(proj, id)
  <2> DEFINE q == OnAssistant(proj, id)
  <2>1. /\ q \in Projections /\ LedgerOK(q) /\ Onward(proj, q)
        /\ \A i \in Replies : q.buf[i] = proj.buf[i] /\ q.emitted[i] = proj.emitted[i]
    BY <1>1, <1>2, OnAssistantKept
  <2>2. proj' = q
    BY <1>4
  <2> HIDE DEF q
  <2>3. \A i \in Replies : Head(sse) # Latest(i) /\ (Fresh(proj, i) => Fresh(q, i))
    BY <1>4, <2>1, LatestPart DEF Fresh
  <2> QED
    BY <1>1, <2>1, <2>2, <2>3, ReplyEventKept DEF Onward
<1>5. CASE Head(sse).t = "done" /\ proj' = Flush(OnAssistant(proj, id), id)
  <2> DEFINE q == Flush(OnAssistant(proj, id), id)
  <2>1. errors = 0 => history[id].done /\ (proj.emitted[id] # 0 \/ proj.buf[id] = history[id].ver)
    BY <1>1, <1>5, FirstIs
  <2>2. q \in Projections /\ LedgerOK(q) /\ Onward(proj, q)
    BY <1>1, <1>2, <2>1, OnDoneKept
  <2>3. proj' = q
    BY <1>5
  <2> HIDE DEF q
  <2>4. Replies \subseteq MessageIds
    BY <1>1, HistoryIs, HistoryFits
  <2>5. \A i \in Replies : Head(sse) # Latest(i) /\ (Fresh(proj, i) => Fresh(q, i))
    BY <1>5, <2>2, <2>4, LatestPart DEF Fresh, Onward
  <2> QED
    BY <1>1, <2>2, <2>3, <2>5, ReplyEventKept DEF Onward
<1> QED
  BY <1>1, <1>3, <1>4, <1>5 DEF ReadMessage, Event, Project

LEMMA ReadErrorKept ==
  ASSUME OpencodeInv, ReadError
  PROVE  OpencodeInv'
<1> DEFINE q == FlushAll(proj, Buffered(proj))
<1>1. /\ HistoryOK /\ history \in Seq(NativeMessages) /\ LedgerOK(proj) /\ proj \in Projections
      /\ sse # <<>> /\ capture = "consume" /\ sse' = Tail(sse) /\ conn' = conn /\ Calm
      /\ UNCHANGED <<latch, turn, shown, mode, snap, attempt>> /\ over' = proj'.bad
      /\ Head(sse).t = "error" /\ proj' = q /\ capture' = "errorstatus"
  BY ServerIs DEF OpencodeInv, OpencodeTypeOK, ReadError, Event, Project
<1>2. errors > 0
  BY <1>1, FirstIs
<1>3. errors # 0
  BY <1>2 DEF OpencodeInv, OpencodeTypeOK
<1>4. q \in Projections /\ LedgerOK(q) /\ Onward(proj, q)
  BY <1>1, <1>3, FlushBuffered
<1> HIDE DEF q
<1> QED
  BY <1>1, <1>3, <1>4, ReplyEventKept DEF Onward

\* The turn, if there is one, was seen busy.
SeenBusy == IF turn = NULL THEN NULL ELSE [turn EXCEPT !.sawBusy = TRUE]

LEMMA SeenTyped ==
  ASSUME turn # NULL => turn \in [of : Prompts, sawBusy : BOOLEAN]
  PROVE  SeenBusy # NULL => SeenBusy \in [of : Prompts, sawBusy : BOOLEAN]
BY DEF SeenBusy

LEMMA ReadBusyKept ==
  ASSUME OpencodeInv, ReadBusy
  PROVE  OpencodeInv'
<1>1. /\ OpencodeTypeOK /\ sse # <<>> /\ capture = "consume" /\ sse' = Tail(sse) /\ conn' = conn /\ proj' = proj /\ Calm
      /\ Head(sse).t = "busy" /\ shown' = "running" /\ nativeIdle' = FALSE /\ turn' = SeenBusy
      /\ UNCHANGED <<transport, capture, mode, snap, attempt, over>>
  BY DEF OpencodeInv, ReadBusy, Event, MarkRunning, SeenBusy, reader
<1>2. sse' \in Seq(Events)
  BY <1>1, TailIs DEF OpencodeTypeOK
<1>3. turn' # NULL => turn' \in [of : Prompts, sawBusy : BOOLEAN]
  BY <1>1, SeenTyped DEF OpencodeTypeOK
<1>4. OpencodeTypeOK'
  BY <1>1, <1>2, <1>3 DEF OpencodeTypeOK, Calm, native, inbound, bounds
<1>5. ASSUME Alone
      PROVE  SerialOK'
  <2>1. SerialOK
    BY <1>5 DEF OpencodeInv
  <2>2. Calmly /\ UNCHANGED inbound
    BY <1>1 DEF Calmly, Calm, native
  <2> QED
    BY <1>1, <2>1, <2>2, SerialReads DEF SeenBusy
<1> QED
  BY <1>1, <1>4, <1>5, PlainEventKept

LEMMA ReadIdleKept ==
  ASSUME OpencodeInv, ReadIdle
  PROVE  OpencodeInv'
<1>1. /\ OpencodeTypeOK /\ sse # <<>> /\ capture = "consume" /\ sse' = Tail(sse) /\ conn' = conn /\ proj' = proj /\ Calm
      /\ Head(sse).t = "idle" /\ capture' = "history" /\ mode' = "live"
      /\ UNCHANGED <<snap, attempt, transport, nativeIdle, turn, shown, over>>
  BY DEF OpencodeInv, ReadIdle, Event, latch
<1>2. sse' \in Seq(Events)
  BY <1>1, TailIs DEF OpencodeTypeOK
<1>3. OpencodeTypeOK'
  BY <1>1, <1>2 DEF OpencodeTypeOK, Calm, native, inbound, bounds
<1>4. ASSUME Alone
      PROVE  SerialOK'
  <2>1. SerialOK
    BY <1>4 DEF OpencodeInv
  <2> QED
    BY <1>1, <2>1, SerialIdle
<1> QED
  BY <1>1, <1>3, <1>4, PlainEventKept

\* It reads no event, and the ledger stays.
LEMMA PollKept ==
  ASSUME OpencodeInv, Calm, UNCHANGED stream, proj' \in Projections, Same(proj, proj'), Unread => Unread', OpencodeTypeOK',
         Alone => SerialOK'
  PROVE  OpencodeInv'
<1>1. /\ LedgerOK(proj) /\ StreamOK(proj, sse) /\ (errors = 0 => FreshOK(proj, sse))
      /\ UNCHANGED <<history, errors>> /\ conn' = conn /\ sse' = sse
  BY DEF OpencodeInv, Calm, native, bounds, stream
<1>2. LedgerOK(proj')
  BY <1>1, SameLedger
<1>3. StreamOK(proj', sse) /\ (errors = 0 => FreshOK(proj', sse))
  BY <1>1, StreamLedger DEF Same
<1>4. StreamOK(proj, sse)'
  BY <1>1, <1>3, StreamSame
<1>5. errors = 0 => FreshOK(proj, sse)'
  BY <1>1, <1>3, FreshSame
<1> QED
  BY <1>2, <1>4, <1>5, CalmKept

LEMMA ShowStatusKept ==
  ASSUME OpencodeInv, ShowStatus
  PROVE  OpencodeInv'
<1>1. OpencodeTypeOK'
  BY DEF OpencodeInv, OpencodeTypeOK, ShowStatus, Calm, native, stream, inbound, latch, bounds
<1>2. Same(proj, proj') /\ proj' \in Projections /\ (Unread => Unread')
  BY DEF OpencodeInv, OpencodeTypeOK, ShowStatus, Same, Unread
<1>3. ASSUME Alone
      PROVE  SerialOK'
  <2>1. OpencodeTypeOK /\ SerialOK
    BY <1>3 DEF OpencodeInv
  <2>2. Calmly /\ UNCHANGED <<sse, turn>> /\ (Spent => Spent') /\ capture = "errorstatus" /\ capture' = "consume"
    BY DEF Calmly, ShowStatus, Calm, native, stream, latch, Spent, inbound
  <2> QED
    BY <2>1, <2>2, SerialStill
<1> QED
  BY <1>1, <1>2, <1>3, PollKept DEF ShowStatus

LEMMA ReadStatusKept ==
  ASSUME OpencodeInv, ReadStatus
  PROVE  OpencodeInv'
<1>1. OpencodeTypeOK /\ HistoryOK /\ TextsOK /\ (status = "busy" => \E u \in Users : u > handled) /\ history \in Seq(NativeMessages)
  BY ServerIs DEF OpencodeInv, OpencodeTypeOK
<1>2. capture = "status" /\ UNCHANGED stream /\ Calm
  BY DEF ReadStatus
<1>3. proj' \in Projections /\ Same(proj, proj')
  <2>1. CASE proj' = proj
    BY <1>1, <2>1 DEF OpencodeTypeOK, Same
  <2>2. CASE proj' = [proj EXCEPT !.bound = LatestOf(Marked)]
    <3>1. Marked \in SUBSET DOMAIN history
      BY DEF Marked, Users
    <3>2. LatestOf(Marked) \in Nat
      BY <1>1, <3>1, LatestIs
    <3> QED
      BY <1>1, <2>2, <3>2 DEF OpencodeTypeOK, Projections, Same
  <2> QED
    BY <2>1, <2>2 DEF ReadStatus
<1>4. /\ capture' \in {"status", "consume"} /\ mode' = mode /\ snap' = snap /\ attempt' \in {attempt, 0}
      /\ over' \in {over, TRUE} /\ transport' \in {transport, transport \/ mode = "strict"}
      /\ nativeIdle' \in {nativeIdle, TRUE, FALSE} /\ shown' \in {shown, "idle", "running"}
      /\ turn' \in {turn, NULL, SeenBusy}
  <2>1. CASE Fence
    BY <1>2, <2>1 DEF Fence, latch
  <2>2. CASE Resume /\ over' = over /\ (Hold \/ Release \/ StayBusy)
    BY <2>2 DEF Resume, Hold, Release, StayBusy, MarkRunning, SeenBusy
  <2> QED
    BY <2>1, <2>2 DEF ReadStatus
<1>5. OpencodeTypeOK'
  <2>1. over' \in BOOLEAN /\ transport' \in BOOLEAN /\ nativeIdle' \in BOOLEAN
    <3>1. over \in BOOLEAN /\ transport \in BOOLEAN /\ nativeIdle \in BOOLEAN /\ (transport \/ mode = "strict") \in BOOLEAN
      BY <1>1, Zenon DEF OpencodeTypeOK
    <3> QED
      BY <1>4, <3>1, Zenon
  <2>2. shown' \in {"idle", "running"} /\ attempt' \in Nat
    BY <1>1, <1>4 DEF OpencodeTypeOK
  <2>3. turn' # NULL => turn' \in [of : Prompts, sawBusy : BOOLEAN]
    BY <1>1, <1>4, SeenTyped DEF OpencodeTypeOK
  <2> QED
    BY <1>1, <1>2, <1>3, <1>4, <2>1, <2>2, <2>3 DEF OpencodeTypeOK, Calm, native, stream, inbound, bounds
<1>6. Unread => Unread'
  BY <1>2 DEF Unread
<1>7. Alone => SerialOK'
  BY <1>1, SerialStatus DEF OpencodeInv
<1> QED
  BY <1>2, <1>3, <1>5, <1>6, <1>7, PollKept

-----------------------------------------------------------------------------
(* A step of the inject pump or the browser-turn pump                      *)

LEMMA WriterKept ==
  ASSUME OpencodeInv, UNCHANGED <<native, stream, capture, mode, errors>>, drops' = 0 => drops = 0,
         Asked \intersect Interrupts \subseteq Asked', proj' \in Projections, Same(proj, proj'), OpencodeTypeOK', TextsOK',
         Alone => SerialOK'
  PROVE  OpencodeInv'
<1>1. /\ HistoryOK /\ (status = "busy" => \E u \in Users : u > handled)
      /\ LedgerOK(proj) /\ StreamOK(proj, sse) /\ (errors = 0 => FreshOK(proj, sse))
      /\ UNCHANGED <<history, status, handled, errors, conn, sse>> /\ (Unread => Unread')
  BY ServerIs DEF OpencodeInv, native, stream, Unread
<1>2. Users' = Users /\ HistoryOK'
  BY <1>1, HistorySame
<1>3. ServerOK'
  BY <1>1, <1>2, ServerIsNext
<1>4. LedgerOK(proj')
  BY <1>1, SameLedger
<1>5. LedgerOK(proj)'
  BY <1>1, <1>4, LedgerSame
<1>6. StreamOK(proj', sse') /\ (errors = 0 => FreshOK(proj', sse'))
  BY <1>1, StreamLedger DEF Same
<1>7. StreamOK(proj, sse)'
  BY <1>1, <1>6, StreamSame
<1>8. errors' = 0 => FreshOK(proj, sse)'
  BY <1>1, <1>6, FreshSame
<1>9. Alone' => Alone
  BY <1>1, <1>2, AloneBack
<1> QED
  BY <1>3, <1>5, <1>7, <1>8, <1>9 DEF OpencodeInv

\* It claims no turn.
LEMMA SerialWaits ==
  ASSUME OpencodeInv, UNCHANGED <<native, stream, capture, mode, posted, transport, turn>>, Spent => Spent'
  PROVE  Alone => SerialOK'
<1> SUFFICES ASSUME Alone PROVE SerialOK'
  OBVIOUS
<1>1. OpencodeTypeOK /\ SerialOK
  BY DEF OpencodeInv
<1>2. Calmly /\ UNCHANGED <<sse, turn>>
  BY DEF Calmly, native, stream
<1> QED
  BY <1>1, <1>2, SerialStill

LEMMA FirstOfSeq ==
  ASSUME NEW S, NEW s \in Seq(S), s # <<>>
  PROVE  /\ Head(s) \in S /\ Tail(s) \in Seq(S)
         /\ \A k \in DOMAIN Tail(s) : k + 1 \in DOMAIN s /\ Tail(s)[k] = s[k + 1] /\ k + 1 # 1 /\ k \in Nat
         /\ 1 \in DOMAIN s /\ Head(s) = s[1]
         /\ \A k \in DOMAIN s : s[k] = Head(s) \/ \E l \in DOMAIN Tail(s) : Tail(s)[l] = s[k]
<1>1. /\ Tail(s) \in Seq(S) /\ Head(s) \in S /\ Head(s) = s[1]
      /\ Len(s) \in Nat \ {0} /\ DOMAIN s = 1..Len(s) /\ DOMAIN Tail(s) = 1..(Len(s) - 1)
      /\ \A k \in 1..(Len(s) - 1) : Tail(s)[k] = s[k + 1]
      /\ \A k \in 1..Len(s) : k = 1 \/ (k - 1 \in 1..(Len(s) - 1) /\ Tail(s)[k - 1] = s[k])
  BY TailIs
<1> DEFINE t == Tail(s)
           n == Len(s)
           h == Head(s)
<1>2. /\ n \in Nat \ {0} /\ DOMAIN s = 1..n /\ DOMAIN t = 1..(n - 1) /\ h = s[1]
      /\ \A k \in 1..(n - 1) : t[k] = s[k + 1]
      /\ \A k \in 1..n : k = 1 \/ (k - 1 \in 1..(n - 1) /\ t[k - 1] = s[k])
  BY <1>1
<1> HIDE DEF t, n, h
<1>3. \A k \in DOMAIN t : k + 1 \in DOMAIN s /\ t[k] = s[k + 1] /\ k + 1 # 1 /\ k \in Nat
  BY <1>2
<1>4. 1 \in DOMAIN s
  BY <1>2
<1>5. \A k \in DOMAIN s : s[k] = h \/ \E l \in DOMAIN t : t[l] = s[k]
  BY <1>2
<1> QED
  BY <1>1, <1>3, <1>4, <1>5 DEF t, h

LEMMA ToSetIs == ASSUME NEW s, NEW k \in DOMAIN s PROVE s[k] \in ToSet(s)
BY DEF ToSet

LEMMA ToSetOn ==
  ASSUME NEW s, NEW t, \A k \in DOMAIN s : \E l \in DOMAIN t : t[l] = s[k]
  PROVE  ToSet(s) \subseteq ToSet(t)
BY DEF ToSet

LEMMA SameProj == proj \in Projections /\ proj' = proj => proj' \in Projections /\ Same(proj, proj')
BY DEF Same

LEMMA SendKept ==
  ASSUME OpencodeInv, NEW c \in Commands, Send(c)
  PROVE  OpencodeInv'
<1>1. /\ OpencodeTypeOK /\ TextsOK /\ c \notin Asked /\ inbox' = Append(inbox, c) /\ inbox \in Seq(Commands)
      /\ UNCHANGED <<native, stream, turns, aborting, acked, latch, writer, proj, shown, reader, over, bounds>>
      /\ proj \in Projections
  BY DEF OpencodeInv, OpencodeTypeOK, Send
<1>2. UNCHANGED <<history, status, handled, conn, sse, transport, nativeIdle, turn, post, posted, capture, mode, snap, attempt, drops, errors>>
  BY <1>1 DEF native, stream, latch, writer, reader, bounds
<1>3. /\ inbox' \in Seq(Commands) /\ Len(inbox) \in Nat
      /\ DOMAIN inbox = 1..Len(inbox) /\ DOMAIN inbox' = 1..(Len(inbox) + 1)
      /\ \A k \in 1..Len(inbox) : inbox'[k] = inbox[k]
      /\ inbox'[Len(inbox) + 1] = c
  BY <1>1, AppendIs
<1>4. OpencodeTypeOK'
  BY <1>1, <1>2, <1>3 DEF OpencodeTypeOK
<1>5. /\ c \notin posted \union acked
      /\ \A k \in DOMAIN inbox : inbox[k] # c
      /\ \A k \in DOMAIN turns : turns[k] # c
  BY <1>1, ToSetIs DEF Asked
<1> DEFINE n == Len(inbox)
<1>6. /\ n \in Nat /\ DOMAIN inbox = 1..n /\ DOMAIN inbox' = 1..(n + 1) /\ inbox'[n + 1] = c
      /\ \A k \in 1..n : inbox'[k] = inbox[k]
  BY <1>3
<1> HIDE DEF n
<1>7. \A k \in DOMAIN inbox' : (k \in DOMAIN inbox /\ inbox'[k] = inbox[k]) \/ (k = n + 1 /\ k \notin DOMAIN inbox /\ inbox'[k] = c)
  BY <1>6
<1>8. \A k \in DOMAIN inbox' : /\ inbox'[k] \notin posted \union acked
                               /\ \A l \in DOMAIN turns : turns[l] # inbox'[k]
                               /\ \A l \in DOMAIN inbox' : inbox'[l] = inbox'[k] => l = k
  BY <1>1, <1>5, <1>7 DEF TextsOK
<1>9. inbox # <<>> => inbox' # <<>> /\ Head(inbox') = Head(inbox)
  <2> SUFFICES ASSUME inbox # <<>> PROVE inbox' # <<>> /\ Head(inbox') = Head(inbox)
    OBVIOUS
  <2>1. 1 \in DOMAIN inbox /\ Head(inbox) = inbox[1]
    BY <1>1, FirstOfSeq
  <2>2. inbox' # <<>>
    BY <1>3, <1>6
  <2>3. Head(inbox') = inbox'[1]
    BY <1>3, <2>2, FirstOfSeq
  <2> QED
    BY <1>6, <2>1, <2>2, <2>3
<1>10. Users' = Users
  BY <1>2, HistorySame
<1>11. TextsOK'
  BY <1>1, <1>2, <1>8, <1>9, <1>10 DEF TextsOK
<1>12. Asked \subseteq Asked'
  <2>1. ToSet(inbox) \subseteq ToSet(inbox')
    BY <1>6, ToSetOn
  <2> QED
    BY <1>1, <1>2, <2>1 DEF Asked
<1>13. Spent => Spent'
  BY <1>1 DEF Spent
<1>14. Alone => SerialOK'
  BY <1>1, <1>2, <1>13, SerialWaits
<1> QED
  BY <1>1, <1>2, <1>4, <1>11, <1>12, <1>14, WriterKept, SameProj

LEMMA QueueTextKept ==
  ASSUME OpencodeInv, QueueText
  PROVE  OpencodeInv'
<1> DEFINE c == Head(inbox)
<1>1. /\ OpencodeTypeOK /\ TextsOK /\ inbox # <<>> /\ c \in Prompts /\ inbox' = Tail(inbox) /\ turns' = Append(turns, c)
      /\ inbox \in Seq(Commands) /\ turns \in Seq(Prompts) /\ proj \in Projections
      /\ UNCHANGED <<aborting, acked, latch, writer, proj, over, native, stream, shown, reader, bounds>>
  BY DEF OpencodeInv, OpencodeTypeOK, QueueText, Still, Reads
<1>2. UNCHANGED <<history, status, handled, conn, sse, transport, nativeIdle, turn, post, posted, capture, mode, snap, attempt, drops, errors>>
  BY <1>1 DEF native, stream, latch, writer, reader, bounds
<1>3. /\ inbox' \in Seq(Commands)
      /\ \A k \in DOMAIN inbox' : k + 1 \in DOMAIN inbox /\ inbox'[k] = inbox[k + 1] /\ k + 1 # 1 /\ k \in Nat
      /\ 1 \in DOMAIN inbox /\ c = inbox[1]
      /\ \A k \in DOMAIN inbox : inbox[k] = c \/ \E l \in DOMAIN inbox' : inbox'[l] = inbox[k]
  BY <1>1, FirstOfSeq
<1>4. /\ turns' \in Seq(Prompts) /\ Len(turns) \in Nat
      /\ DOMAIN turns = 1..Len(turns) /\ DOMAIN turns' = 1..(Len(turns) + 1)
      /\ \A k \in 1..Len(turns) : turns'[k] = turns[k]
      /\ turns'[Len(turns) + 1] = c
  BY <1>1, AppendIs
<1>5. OpencodeTypeOK'
  BY <1>1, <1>2, <1>3, <1>4 DEF OpencodeTypeOK
<1>6. c \notin posted \union acked /\ \A l \in DOMAIN turns : turns[l] # c
  BY <1>1, <1>3 DEF TextsOK
<1> HIDE DEF c
<1> DEFINE n == Len(turns)
<1>7. /\ n \in Nat /\ DOMAIN turns = 1..n /\ DOMAIN turns' = 1..(n + 1) /\ turns'[n + 1] = c
      /\ \A k \in 1..n : turns'[k] = turns[k]
  BY <1>4
<1> HIDE DEF n
<1>8. \A k \in DOMAIN turns' : (k \in DOMAIN turns /\ turns'[k] = turns[k]) \/ (k = n + 1 /\ k \notin DOMAIN turns /\ turns'[k] = c)
  BY <1>7
<1>9. \A k \in DOMAIN turns' : turns'[k] \notin posted /\ \A l \in DOMAIN turns' : turns'[l] = turns'[k] => l = k
  BY <1>1, <1>6, <1>8 DEF TextsOK
<1>10. \A k \in DOMAIN inbox' : inbox'[k] # c /\ \A l \in DOMAIN inbox' : inbox'[l] = inbox'[k] => l = k
  BY <1>1, <1>3 DEF TextsOK
<1>11. \A k \in DOMAIN inbox' : inbox'[k] \notin posted \union acked /\ \A l \in DOMAIN turns' : turns'[l] # inbox'[k]
  BY <1>1, <1>3, <1>8, <1>10 DEF TextsOK
<1>12. aborting = "none"
  BY <1>1, NamesAssumption DEF TextsOK, c
<1>13. Users' = Users
  BY <1>2, HistorySame
<1>14. TextsOK'
  BY <1>1, <1>2, <1>9, <1>10, <1>11, <1>12, <1>13 DEF TextsOK
<1>15. Asked \subseteq Asked'
  <2>1. ToSet(turns) \subseteq ToSet(turns')
    BY <1>7, ToSetOn
  <2>2. c \in ToSet(turns')
    BY <1>7 DEF ToSet
  <2>3. ToSet(inbox) \subseteq ToSet(inbox') \union {c}
    BY <1>3 DEF ToSet
  <2> QED
    BY <1>1, <1>2, <2>1, <2>2, <2>3 DEF Asked
<1>16. Spent => Spent'
  BY <1>1 DEF Spent
<1>17. Alone => SerialOK'
  BY <1>1, <1>2, <1>16, SerialWaits
<1> QED
  BY <1>1, <1>2, <1>5, <1>14, <1>15, <1>17, WriterKept, SameProj

LEMMA PostAbortKept ==
  ASSUME OpencodeInv, PostAbort
  PROVE  OpencodeInv'
<1>1. /\ OpencodeTypeOK /\ TextsOK /\ inbox # <<>> /\ Head(inbox) \in Interrupts /\ aborting = "none" /\ aborting' = "posted"
      /\ nativeIdle' = FALSE /\ proj \in Projections
      /\ UNCHANGED <<inbox, turns, acked, transport, writer, proj, over, native, stream, shown, reader, bounds>>
  BY DEF OpencodeInv, OpencodeTypeOK, PostAbort, Still, Reads
<1>2. UNCHANGED <<history, status, handled, conn, sse, transport, turn, post, posted, capture, mode, snap, attempt, drops, errors>>
  BY <1>1 DEF native, stream, writer, reader, bounds
<1>3. OpencodeTypeOK'
  BY <1>1, <1>2 DEF OpencodeTypeOK
<1>4. Users' = Users
  BY <1>2, HistorySame
<1>5. TextsOK'
  BY <1>1, <1>2, <1>4 DEF TextsOK
<1>6. Asked' = Asked /\ (Spent => Spent')
  BY <1>1, <1>2 DEF Asked, Spent
<1>7. Alone => SerialOK'
  BY <1>1, <1>2, <1>6, SerialWaits
<1> QED
  BY <1>1, <1>2, <1>3, <1>5, <1>6, <1>7, WriterKept, SameProj

LEMMA AbortAnsweredKept ==
  ASSUME OpencodeInv, AbortAnswered
  PROVE  OpencodeInv'
<1> DEFINE c == Head(inbox)
<1>1. /\ OpencodeTypeOK /\ TextsOK /\ inbox # <<>> /\ c \in Interrupts /\ aborting = "applied" /\ aborting' = "none"
      /\ inbox' = Tail(inbox) /\ acked' = acked \union {c} /\ acked \subseteq Commands
      /\ inbox \in Seq(Commands) /\ proj \in Projections
      /\ UNCHANGED <<turns, latch, writer, proj, over, native, stream, shown, reader, bounds>>
  BY DEF OpencodeInv, OpencodeTypeOK, AbortAnswered, Still, Reads
<1>2. UNCHANGED <<history, status, handled, conn, sse, transport, nativeIdle, turn, post, posted, capture, mode, snap, attempt, drops, errors>>
  BY <1>1 DEF native, stream, latch, writer, reader, bounds
<1>3. /\ inbox' \in Seq(Commands) /\ c \in Commands
      /\ \A k \in DOMAIN inbox' : k + 1 \in DOMAIN inbox /\ inbox'[k] = inbox[k + 1] /\ k + 1 # 1 /\ k \in Nat
      /\ 1 \in DOMAIN inbox /\ c = inbox[1]
      /\ \A k \in DOMAIN inbox : inbox[k] = c \/ \E l \in DOMAIN inbox' : inbox'[l] = inbox[k]
  BY <1>1, FirstOfSeq
<1> HIDE DEF c
<1>4. acked' \subseteq Commands
  BY <1>1, <1>3
<1>5. OpencodeTypeOK'
  BY <1>1, <1>2, <1>3, <1>4 DEF OpencodeTypeOK
<1>6. \A k \in DOMAIN inbox' : inbox'[k] # c /\ \A l \in DOMAIN inbox' : inbox'[l] = inbox'[k] => l = k
  BY <1>1, <1>3 DEF TextsOK
<1>7. \A k \in DOMAIN inbox' : inbox'[k] \notin posted \union acked' /\ \A l \in DOMAIN turns : turns[l] # inbox'[k]
  BY <1>1, <1>3, <1>6 DEF TextsOK
<1>8. Users' = Users
  BY <1>2, HistorySame
<1>9. TextsOK'
  BY <1>1, <1>2, <1>6, <1>7, <1>8 DEF TextsOK
<1>10. Asked \subseteq Asked'
  <2>1. ToSet(inbox) \subseteq ToSet(inbox') \union {c}
    BY <1>3 DEF ToSet
  <2> QED
    BY <1>1, <1>2, <2>1 DEF Asked
<1>11. Spent'
  BY <1>1 DEF Spent
<1>12. Alone => SerialOK'
  BY <1>1, <1>2, <1>11, SerialWaits
<1> QED
  BY <1>1, <1>2, <1>5, <1>9, <1>10, <1>12, WriterKept, SameProj

LEMMA ClaimTurnKept ==
  ASSUME OpencodeInv, ClaimTurn
  PROVE  OpencodeInv'
<1> DEFINE c == Head(turns)
<1>1. /\ OpencodeTypeOK /\ TextsOK /\ turns # <<>> /\ post = NULL /\ turns' = Tail(turns) /\ nativeIdle' = FALSE
      /\ turns \in Seq(Prompts) /\ proj \in Projections /\ posted \subseteq Prompts
      /\ UNCHANGED <<inbox, aborting, acked, transport, native, stream, shown, reader, bounds>>
  BY DEF OpencodeInv, OpencodeTypeOK, ClaimTurn, Still
<1>2. UNCHANGED <<history, status, handled, conn, sse, capture, mode, snap, attempt, drops, errors>>
  BY <1>1 DEF native, stream, reader, bounds
<1>3. /\ turns' \in Seq(Prompts) /\ c \in Prompts
      /\ \A k \in DOMAIN turns' : k + 1 \in DOMAIN turns /\ turns'[k] = turns[k + 1] /\ k + 1 # 1 /\ k \in Nat
      /\ 1 \in DOMAIN turns /\ c = turns[1]
      /\ \A k \in DOMAIN turns : turns[k] = c \/ \E l \in DOMAIN turns' : turns'[l] = turns[k]
  BY <1>1, FirstOfSeq
<1>4. \A k \in DOMAIN turns' : turns'[k] # c /\ turns'[k] \notin posted /\ \A l \in DOMAIN turns' : turns'[l] = turns'[k] => l = k
  BY <1>1, <1>3 DEF TextsOK
<1>5. \A k \in DOMAIN inbox : inbox[k] # c /\ \A l \in DOMAIN turns' : turns'[l] # inbox[k]
  BY <1>1, <1>3 DEF TextsOK
<1>6. Users' = Users
  BY <1>2, HistorySame
<1>7. \A u \in Users : history[u].of # c
  BY <1>1, <1>3 DEF TextsOK
<1>8. /\ proj' \in Projections /\ Same(proj, proj') /\ posted \subseteq posted' /\ OpencodeTypeOK' /\ TextsOK'
  <2>1. CASE turn # NULL
    <3>1. UNCHANGED <<turn, post, posted, proj>> /\ over' = TRUE
      BY <2>1 DEF ClaimTurn, writer
    <3>2. OpencodeTypeOK'
      BY <1>1, <1>2, <1>3, <3>1 DEF OpencodeTypeOK
    <3>3. TextsOK'
      BY <1>1, <1>2, <1>4, <1>5, <1>6, <3>1 DEF TextsOK
    <3> QED
      BY <1>1, <3>1, <3>2, <3>3, SameProj
  <2>2. CASE turn = NULL
    <3>1. /\ turn' = [of |-> c, sawBusy |-> FALSE] /\ proj' = [proj EXCEPT !.bound = 0]
          /\ post' = [of |-> c, at |-> "sent"] /\ posted' = posted \union {c} /\ over' = over
      BY <2>2 DEF ClaimTurn
    <3> HIDE DEF c
    <3>2. proj' \in Projections /\ Same(proj, proj')
      BY <1>1, <3>1 DEF Projections, Same
    <3>3. /\ turn' \in [of : Prompts, sawBusy : BOOLEAN] /\ post' \in [of : Prompts, at : {"sent", "applied", "answered"}]
          /\ post'.of = c /\ post' # NULL /\ posted' \subseteq Prompts
      BY <1>1, <1>3, <3>1, NamesAssumption
    <3>4. OpencodeTypeOK'
      BY <1>1, <1>2, <1>3, <3>1, <3>2, <3>3 DEF OpencodeTypeOK
    <3>5. TextsOK'
      BY <1>1, <1>2, <1>4, <1>5, <1>6, <1>7, <3>1, <3>3 DEF TextsOK
    <3> QED
      BY <3>1, <3>2, <3>4, <3>5
  <2> QED
    BY <2>1, <2>2
<1>9. Asked \intersect Interrupts \subseteq Asked'
  <2>1. ToSet(turns) \subseteq Prompts
    BY <1>1 DEF ToSet
  <2> QED
    BY <1>1, <1>8, <2>1, NamesAssumption DEF Asked
<1>10. Alone => SerialOK'
  BY <1>1, SerialClaim DEF OpencodeInv
<1> QED
  BY <1>1, <1>2, <1>8, <1>9, <1>10, WriterKept

LEMMA PromptAnsweredKept ==
  ASSUME OpencodeInv, PromptAnswered
  PROVE  OpencodeInv'
<1>1. /\ OpencodeTypeOK /\ TextsOK /\ post # NULL /\ post.at = "applied" /\ post' = [post EXCEPT !.at = "answered"]
      /\ proj \in Projections
      /\ UNCHANGED <<inbound, latch, turn, posted, proj, over, native, stream, shown, reader, bounds>>
  BY DEF OpencodeInv, OpencodeTypeOK, PromptAnswered, Still
<1>2. UNCHANGED <<history, status, handled, conn, sse, inbox, turns, aborting, acked, transport, nativeIdle, capture, mode, snap,
                  attempt, drops, errors>>
  BY <1>1 DEF native, stream, inbound, latch, reader, bounds
<1>3. post \in [of : Prompts, at : {"sent", "applied", "answered"}]
  BY <1>1 DEF OpencodeTypeOK
<1>4. post' \in [of : Prompts, at : {"sent", "applied", "answered"}] /\ post'.of = post.of /\ post'.at = "answered"
  BY <1>1, <1>3
<1>5. OpencodeTypeOK'
  BY <1>1, <1>2, <1>4 DEF OpencodeTypeOK
<1>6. Users' = Users
  BY <1>2, HistorySame
<1>7. TextsOK'
  BY <1>1, <1>2, <1>4, <1>6 DEF TextsOK
<1>8. Asked' = Asked /\ (Spent => Spent')
  BY <1>1, <1>2 DEF Asked, Spent
<1>9. Alone => SerialOK'
  BY <1>1, <1>2, <1>8, SerialWaits
<1> QED
  BY <1>1, <1>2, <1>5, <1>7, <1>8, <1>9, WriterKept, SameProj

LEMMA AckTextKept ==
  ASSUME OpencodeInv, AckText
  PROVE  OpencodeInv'
<1>1. /\ OpencodeTypeOK /\ TextsOK /\ post # NULL /\ post' = NULL /\ acked' = acked \union {post.of} /\ acked \subseteq Commands
      /\ proj \in Projections
      /\ UNCHANGED <<inbox, turns, aborting, latch, turn, posted, proj, over, native, stream, shown, reader, bounds>>
  BY DEF OpencodeInv, OpencodeTypeOK, AckText, Acknowledge, Still
<1>2. UNCHANGED <<history, status, handled, conn, sse, transport, nativeIdle, capture, mode, snap, attempt, drops, errors>>
  BY <1>1 DEF native, stream, latch, reader, bounds
<1>3. post.of \in Prompts /\ post.of \in posted
  BY <1>1 DEF OpencodeTypeOK, TextsOK
<1>4. acked' \subseteq Commands
  BY <1>1, <1>3 DEF Commands
<1>5. OpencodeTypeOK'
  BY <1>1, <1>2, <1>4 DEF OpencodeTypeOK
<1>6. Users' = Users
  BY <1>2, HistorySame
<1>7. \A k \in DOMAIN inbox : inbox[k] \notin posted \union acked'
  BY <1>1, <1>3 DEF TextsOK
<1>8. TextsOK'
  BY <1>1, <1>2, <1>6, <1>7 DEF TextsOK
<1>9. Asked \subseteq Asked' /\ (Spent => Spent')
  BY <1>1, <1>2 DEF Asked, Spent
<1>10. Alone => SerialOK'
  BY <1>1, <1>2, <1>9, SerialWaits
<1> QED
  BY <1>1, <1>2, <1>5, <1>8, <1>9, <1>10, WriterKept, SameProj

LEMMA MutationFailsKept ==
  ASSUME OpencodeInv, MutationFails
  PROVE  OpencodeInv'
<1>1. /\ OpencodeTypeOK /\ TextsOK /\ proj \in Projections /\ over' = TRUE /\ drops \in Nat /\ drops' = drops + 1
      /\ UNCHANGED <<native, stream, inbound, latch, writer, proj, shown, reader, errors>>
  BY DEF OpencodeInv, OpencodeTypeOK, MutationFails, Breaks
<1>2. UNCHANGED <<history, status, handled, conn, sse, inbox, turns, aborting, acked, transport, nativeIdle, turn, post, posted,
                  capture, mode, snap, attempt>>
  BY <1>1 DEF native, stream, inbound, latch, writer, reader
<1>3. OpencodeTypeOK'
  BY <1>1, <1>2 DEF OpencodeTypeOK
<1>4. TextsOK'
  BY <1>1, <1>2, TextsSame
<1>5. Asked' = Asked /\ (Spent => Spent')
  BY <1>1, <1>2 DEF Asked, Spent
<1>6. Alone => SerialOK'
  BY <1>1, <1>2, <1>5, SerialWaits
<1>7. drops' = 0 => drops = 0
  BY <1>1
<1> QED
  BY <1>1, <1>2, <1>3, <1>4, <1>5, <1>6, <1>7, WriterKept, SameProj

-----------------------------------------------------------------------------
(* The theorems                                                            *)

LEMMA OpencodeStarts == OpencodeInit => OpencodeInv
<1> SUFFICES ASSUME OpencodeInit PROVE OpencodeInv
  OBVIOUS
<1>1. /\ history = <<>> /\ status = "idle" /\ handled = 0 /\ conn = "broken" /\ sse = <<>> /\ inbox = <<>> /\ turns = <<>>
      /\ aborting = "none" /\ acked = {} /\ transport = FALSE /\ nativeIdle = FALSE /\ turn = NULL /\ post = NULL
      /\ posted = {} /\ shown = "idle" /\ capture = "connect" /\ mode = "strict" /\ snap = 0 /\ attempt = 0
      /\ over = FALSE /\ drops = 0 /\ errors = 0
  BY DEF OpencodeInit
<1>2. proj \in Projections /\ proj.up = <<>> /\ \A i \in MessageIds : proj.buf[i] = 0 /\ proj.emitted[i] = 0
  <2> DEFINE zero == [i \in MessageIds |-> 0]
  <2>1. zero \in [MessageIds -> 0..2]
    OBVIOUS
  <2>2. proj = [order |-> <<>>, latest |-> 0, roles |-> {}, parents |-> {}, buf |-> zero, emitted |-> zero, up |-> <<>>,
                bound |-> 0, bad |-> FALSE]
    BY DEF OpencodeInit
  <2> HIDE DEF zero
  <2>3. proj \in Projections
    BY <2>1, <2>2 DEF Projections
  <2>4. proj.up = <<>> /\ proj.buf = zero /\ proj.emitted = zero
    BY <2>2
  <2> QED
    BY <2>3, <2>4 DEF zero
<1>3. transport \in BOOLEAN /\ nativeIdle \in BOOLEAN /\ over \in BOOLEAN
  BY <1>1, Zenon
<1>4. OpencodeTypeOK
  BY <1>1, <1>2, <1>3 DEF OpencodeTypeOK
<1>5. Users = {} /\ Replies = {} /\ DOMAIN history = {}
  BY <1>1 DEF Users, Replies
<1>6. ServerOK
  BY <1>1, <1>5 DEF ServerOK
<1>7. TextsOK
  BY <1>1, <1>5 DEF TextsOK
<1>8. LedgerOK(proj)
  BY <1>2, <1>5 DEF LedgerOK, Met
<1>9. StreamOK(proj, sse)
  BY <1>1, <1>5 DEF StreamOK
<1>10. FreshOK(proj, sse)
  BY <1>1, <1>5 DEF FreshOK
<1>11. SerialOK
  <2>1. Idles(sse) = {} /\ DOMAIN sse = {}
    BY <1>1 DEF Idles
  <2>2. Cardinality(Idles(sse)) = 0
    BY <2>1, FS_EmptySet
  <2>3. One(Deciding) = 0 /\ One(Spent) \in {0, 1} /\ One(Ended) \in {0, 1}
    BY <1>1 DEF One, Deciding
  <2>4. Cardinality(Idles(sse)) + One(Deciding) <= One(Spent) + One(Ended)
    BY <2>2, <2>3
  <2> QED
    BY <1>1, <2>1, <2>4 DEF SerialOK
<1> QED
  BY <1>4, <1>6, <1>7, <1>8, <1>9, <1>10, <1>11 DEF OpencodeInv

\* Nothing happens.
LEMMA OpencodeRests ==
  ASSUME OpencodeInv, UNCHANGED opencodeVars
  PROVE  OpencodeInv'
<1>1. /\ UNCHANGED <<native, stream, inbound, latch, writer, proj, shown, reader, over, bounds>>
  BY DEF opencodeVars
<1>2. /\ UNCHANGED <<history, status, handled, conn, sse, inbox, turns, aborting, acked, transport, nativeIdle, turn, post, posted,
                     capture, mode, snap, attempt, drops, errors>>
  BY <1>1 DEF native, stream, inbound, latch, writer, reader, bounds
<1>3. OpencodeTypeOK /\ TextsOK
  BY DEF OpencodeInv
<1>4. OpencodeTypeOK'
  BY <1>1, <1>2, <1>3 DEF OpencodeTypeOK
<1>5. Calm
  BY <1>1, <1>2 DEF Calm
<1>6. Alone => SerialOK'
  BY <1>1, <1>2, SerialWaits DEF Spent
<1> QED
  BY <1>1, <1>2, <1>3, <1>4, <1>5, <1>6, PollKept, SameProj DEF Unread, OpencodeTypeOK

\* Every step of the server, the terminal and the companion keeps it.
LEMMA OpencodeSteps ==
  ASSUME OpencodeInv, [OpencodeNext]_opencodeVars
  PROVE  OpencodeInv'
<1>1. CASE NativeStep
  BY <1>1, StartRunKept, BeginReplyKept, CompleteReplyKept, EndRunKept DEF NativeStep
<1>2. CASE ApplyPrompt \/ ApplyAbort \/ FailRun \/ \E l \in Locals : LocalPrompt(l)
  BY <1>2, ApplyPromptKept, ApplyAbortKept, FailRunKept, LocalPromptKept
<1>3. CASE CaptureStep
  BY <1>3, ConnectKept, NoticeLossKept, ReadHistoryKept, ReadStatusKept, ReadUserKept, ReadMessageKept, ReadBusyKept,
     ReadIdleKept, ReadErrorKept, ShowStatusKept DEF CaptureStep
<1>4. CASE ConnectFails \/ ReadFails \/ Drop \/ MutationFails
  BY <1>4, ConnectFailsKept, ReadFailsKept, DropKept, MutationFailsKept
<1>5. CASE \E c \in Commands : Send(c)
  BY <1>5, SendKept
<1>6. CASE WriterStep
  BY <1>6, QueueTextKept, PostAbortKept, AbortAnsweredKept, ClaimTurnKept, PromptAnsweredKept, AckTextKept DEF WriterStep
<1>7. CASE UNCHANGED opencodeVars
  BY <1>7, OpencodeRests
<1> QED
  BY <1>1, <1>2, <1>3, <1>4, <1>5, <1>6, <1>7 DEF OpencodeNext

\* What holds in every state of the companion and its session.
THEOREM OpencodeInvariant == OpencodeSpec => []OpencodeInv
<1>1. OpencodeInit => OpencodeInv
  BY OpencodeStarts
<1>2. OpencodeInv /\ [OpencodeNext]_opencodeVars => OpencodeInv'
  BY OpencodeSteps
<1> QED
  BY <1>1, <1>2, PTL DEF OpencodeSpec

\* The companion's state has its types (driver.ts, class OpenCodeDriver).
THEOREM OpencodeTyped == OpencodeSpec => []OpencodeTypeOK
<1>1. OpencodeInv => OpencodeTypeOK
  BY DEF OpencodeInv
<1> QED
  BY <1>1, OpencodeInvariant, PTL

\* However the stream and the history overlap, with any drops and reconnections, the
\* transcript shows a native message once, after what it answers, and in its final form
\* unless a run ended with an error (driver.ts, #flushMessage and #backfillHistory).
THEOREM ProjectionIsFaithful == OpencodeSpec => []ProjectionFaithful
<1>1. OpencodeInv => ProjectionFaithful
  BY DEF OpencodeInv, LedgerOK, ProjectionFaithful
<1> QED
  BY <1>1, OpencodeInvariant, PTL

\* While the browser is the only writer, with one interrupt at most and no stream lost, a
\* text is posted only when the run of every earlier one has ended (driver.ts, #pumpTurns).
THEOREM TurnsAreSerial == OpencodeSpec => BrowserTurnsSerial
<1>1. ASSUME OpencodeInv, [OpencodeNext]_opencodeVars
      PROVE  OnlyBrowser /\ OneInterrupt /\ posted' # posted => \A p \in posted : Finished(p)
  <2> SUFFICES ASSUME OnlyBrowser, OneInterrupt, posted' # posted PROVE \A p \in posted : Finished(p)
    OBVIOUS
  <2>1. ClaimTurn
    BY <1>1 DEF OpencodeNext, NativeStep, StartRun, BeginReply, CompleteReply, EndRun, ApplyPrompt, ApplyAbort, FailRun,
       LocalPrompt, Quiet, CaptureStep, Connect, NoticeLoss, ReadHistory, ReadStatus, ReadUser, ReadMessage, ReadBusy, ReadIdle,
       ReadError, ShowStatus, Calm, ConnectFails, ReadFails, Drop, MutationFails, Send, WriterStep, QueueText, PostAbort,
       AbortAnswered, PromptAnswered, AckText, Acknowledge, writer, opencodeVars
  <2>2. turn = NULL
    BY <2>1 DEF ClaimTurn, writer
  <2>3. SerialOK
    BY <1>1 DEF OpencodeInv, Alone
  <2> QED
    BY <2>2, <2>3 DEF SerialOK
<1>2. [][OpencodeInv /\ OpencodeInv' /\ [OpencodeNext]_opencodeVars]_opencodeVars
         => BrowserTurnsSerial
  <2>1. OpencodeInv /\ OpencodeInv' /\ [OpencodeNext]_opencodeVars
           => [OnlyBrowser /\ OneInterrupt /\ posted' # posted => \A p \in posted : Finished(p)]_opencodeVars
    BY <1>1
  <2> QED
    BY <2>1, PTL DEF BrowserTurnsSerial
<1> QED
  BY <1>2, OpencodeInvariant, PTL DEF OpencodeSpec
=============================================================================
