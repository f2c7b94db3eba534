-------------------------- MODULE ClaudeDriverProofs -------------------------
(***************************************************************************)
(* ClaudeInvariant for every value of the constants: what the companion    *)
(* has seen is the log up to a sequence number, its transcript and cards   *)
(* are what those events say, and what the stream and the collected pages  *)
(* still give follows them without a gap.  From it ProjectionComplete,     *)
(* DecisionsOnce and ModelFresh.                                           *)
(*                                                                         *)
(* AcceptKept is about one observation, LoopKept and AcceptedKept carry it *)
(* over the loop of a page or of the stream; Grows is what a step may do   *)
(* to the log, and ProjGrows and StreamSends what that leaves true.  Then  *)
(* each action has a lemma of its own.                                     *)
(***************************************************************************)
EXTENDS ClaudeDriver, WellFoundedInduction, TLAPS

-----------------------------------------------------------------------------
(* Loops                                                                   *)

\* The least member of a set of naturals.
LEMMA LeastNatural ==
  ASSUME NEW S \in SUBSET Nat, S # {}
  PROVE  \E x \in S : \A y \in S : x <= y
<1>1. PICK x \in S : \A y \in S : ~(<<y, x>> \in OpToRel(<, Nat))
  BY NatLessThanWellFounded, WFMin
<1>2. \A y \in S : <<y, x>> \in OpToRel(<, Nat) <=> y < x
  BY DEF OpToRel
<1>3. \A y \in S : ~(y < x)
  BY <1>1, <1>2, Zenon
<1> QED
  BY <1>3

\* Induction up to N over a set.
LEMMA UpTo ==
  ASSUME NEW N \in Nat, NEW T, 0 \in T, \A n \in 1..N : n - 1 \in T => n \in T
  PROVE  \A n \in 0..N : n \in T
<1> DEFINE S == {n \in 0..N : n \notin T}
<1> SUFFICES ASSUME S # {} PROVE FALSE
  OBVIOUS
<1>1. S \in SUBSET Nat
  OBVIOUS
<1>2. PICK n \in S : \A m \in S : n <= m
  BY <1>1, LeastNatural
<1>3. n \in 1..N /\ n - 1 \in 0..N /\ n - 1 < n
  BY <1>2
<1> QED
  BY <1>2, <1>3

-----------------------------------------------------------------------------
(* One observation                                                         *)

\* What the invariant reads of the reconciler.
Alike(p, r) ==
    /\ r.seen = p.seen /\ r.last = p.last /\ r.shown = p.shown /\ r.users = p.users
    /\ r.open = p.open /\ r.used = p.used /\ r.asks = p.asks /\ r.bad = p.bad

\* An interrupt's answer changes only the interrupt.
LEMMA StopIs ==
  ASSUME NEW p \in Projections, NEW e
  PROVE  LET r == StopAnswered(p, e) IN r \in Projections /\ Alike(p, r) /\ r.reading = p.reading
<1>1. CASE p.stop = log[e.seq].of
  BY <1>1 DEF StopAnswered, Projections, Alike
<1>2. CASE p.stop # log[e.seq].of
  BY <1>2 DEF StopAnswered, Alike
<1> QED
  BY <1>1, <1>2

\* A refresh starts or queues the settings reader.
LEMMA RefreshIs ==
  ASSUME NEW p \in Projections
  PROVE  Refresh(p) \in Projections /\ Alike(p, Refresh(p)) /\ Refresh(p).reading = p.reading
<1>1. CASE p.task = "none"
  BY <1>1 DEF Refresh, Projections, Alike
<1>2. CASE p.task # "none"
  BY <1>2 DEF Refresh, Projections, Alike
<1> QED
  BY <1>1, <1>2

\* The answer of a read takes it off; no answer starts one.
LEMMA ModelIs ==
  ASSUME NEW p \in Projections, NEW e, log[e.seq].val \in Values
  PROVE  LET r == ModelAnswered(p, e) IN
         r \in Projections /\ Alike(p, r) /\ r.reading \in {0, p.reading}
<1> DEFINE id == log[e.seq].of
           done == [p EXCEPT !.done = TRUE]
           match == p.expects = p.reading /\ p.expected = log[e.seq].val
           read == [p EXCEPT !.reading = 0, !.current = log[e.seq].val, !.expected = IF match THEN NULL ELSE @]
<1>1. done \in Projections /\ Alike(p, done) /\ done.reading = p.reading
  BY DEF Projections, Alike
<1>2. read \in Projections /\ Alike(p, read) /\ read.reading = 0
  BY DEF Projections, Alike
<1>3. /\ Refresh(done) \in Projections
      /\ Alike(done, Refresh(done)) /\ Refresh(done).reading = p.reading
  BY <1>1, RefreshIs
<1>4. ModelAnswered(p, e) \in {p, Refresh(done), read}
  BY DEF ModelAnswered
<1> HIDE DEF done, read
<1> QED
  BY <1>1, <1>2, <1>3, <1>4 DEF Alike

\* The first source of a text shows it.
LEMMA FirstSource ==
  ASSUME NEW p \in Projections, NEW e \in Items, NEW of \in Named, of = log[e.seq].of, NEW r, r = User(p, e),
         \A u \in p.users : u.of # of
  PROVE  /\ r \in Projections
         /\ r.users = p.users \union {[of |-> of, src |-> e.src]} /\ r.shown = Append(p.shown, e.seq)
         /\ r.seen = p.seen /\ r.last = p.last /\ r.open = p.open /\ r.used = p.used
         /\ r.asks = p.asks /\ r.bad = p.bad /\ r.reading = p.reading
<1> DEFINE users == p.users \union {[of |-> of, src |-> e.src]}
           shown == Append(p.shown, e.seq)
<1>1. {u \in p.users : u.of = of} = {}
  OBVIOUS
<1>2. r = [p EXCEPT !.users = users, !.shown = shown]
  BY <1>1 DEF User
<1>3. users \in SUBSET [of : Named, src : Sources]
  BY DEF Projections, Items
<1>4. shown \in Seq(Nat)
  BY DEF Projections, Items
<1> HIDE DEF users, shown
<1>5. /\ r \in Projections /\ r.users = users /\ r.shown = shown
      /\ r.seen = p.seen /\ r.last = p.last /\ r.open = p.open /\ r.used = p.used
      /\ r.asks = p.asks /\ r.bad = p.bad /\ r.reading = p.reading
  BY <1>2, <1>3, <1>4 DEF Projections
<1> QED
  BY <1>5 DEF users, shown

\* Another source of it does nothing, unless it is the same one.
LEMMA OtherSource ==
  ASSUME NEW p, NEW e, NEW of, of = log[e.seq].of,
         \E u \in p.users : u.of = of, [of |-> of, src |-> e.src] \notin p.users
  PROVE  User(p, e) = p
  BY DEF User

\* An ask adds a card once, and an open one only live.
LEMMA AskIs ==
  ASSUME NEW p \in Projections, NEW id \in Nat, NEW live, NEW r, r = Ask(p, id, live)
  PROVE  /\ r \in Projections
         /\ id \in p.asks => r = p
         /\ id \notin p.asks => r.asks = p.asks \union {id} /\ r.open \in {p.open, p.open \union {id}}
         /\ r.seen = p.seen /\ r.last = p.last /\ r.users = p.users /\ r.shown = p.shown
         /\ r.used = p.used /\ r.bad = p.bad /\ r.reading = p.reading
<1>1. CASE id \in p.asks
  BY <1>1 DEF Ask
<1>2. CASE id \notin p.asks
  <2> DEFINE asks == p.asks \union {id}
             open == IF live THEN p.open \union {id} ELSE p.open
  <2>1. asks \in SUBSET Nat /\ open \in SUBSET Nat
    BY DEF Projections
  <2>2. r = [p EXCEPT !.asks = asks, !.open = open]
    BY <1>2 DEF Ask
  <2>3. open \in {p.open, p.open \union {id}}
    OBVIOUS
  <2> HIDE DEF open
  <2> QED
    BY <1>2, <2>1, <2>2, <2>3 DEF Projections
<1> QED
  BY <1>1, <1>2

\* What an observation adds to what was known of the cards and the model.
After(p, r) ==
    /\ p.asks \subseteq r.asks
    /\ \A n \in p.asks : n \in r.open \ r.used => n \in p.open \ p.used
    /\ r.reading \in {0, p.reading}

\* A text seen a second time, from the other source, is neither shown nor an error.
LEMMA SecondSource ==
  ASSUME log \in Seq(Events), LogOK, NEW p, ProjOK(p), NEW e \in Items, ItemOK(e), NEW live,
         e \notin p.seen, NEW s \in p.seen, s.seq = e.seq
  PROVE  Project(p, e, live) = p
<1>1. p \in Projections /\ s \in Items /\ e.seq \in DOMAIN log /\ log[e.seq] \in Events /\ ItemOK(s)
  BY DEF ProjOK, SeenOK, Projections, ItemOK
<1>2. s.src # e.src
  BY <1>1 DEF Items
<1>3. log[e.seq].kind = "user"
  BY <1>1, <1>2 DEF ItemOK
<1>4. Project(p, e, live) = User(p, e)
  BY <1>3 DEF Project
<1>5. \E u \in p.users : u.of = log[e.seq].of
  <2>1. e.seq \in 1..p.last
    BY DEF ProjOK, SeenOK
  <2> QED
    BY <1>3, <2>1 DEF ProjOK, UsersOK
<1>6. [of |-> log[e.seq].of, src |-> e.src] \notin p.users
  <2> SUFFICES ASSUME [of |-> log[e.seq].of, src |-> e.src] \in p.users PROVE FALSE
    OBVIOUS
  <2>1. PICK t \in p.seen : log[t.seq].kind = "user" /\ log[t.seq].of = log[e.seq].of /\ t.src = e.src
    BY DEF ProjOK, UsersOK
  <2>2. t.seq \in DOMAIN log
    BY DEF ProjOK, SeenOK, ItemOK
  <2>3. t.seq = e.seq
    BY <1>1, <1>3, <2>1, <2>2 DEF LogOK
  <2>4. t = s
    BY <2>3 DEF ProjOK, SeenOK
  <2> QED
    BY <1>2, <2>1, <2>4
<1>7. log[e.seq].of \in Named
  BY <1>1 DEF Events
<1> QED
  BY <1>4, <1>5, <1>6, OtherSource

\* What the next event of the log makes of the reconciler, by the event's kind.
Shows(p, r, e, kind) ==
    /\ r.users = IF kind = "user" THEN p.users \union {[of |-> log[e.seq].of, src |-> e.src]} ELSE p.users
    /\ r.shown = IF kind \in {"user", "reply", "result"} THEN Append(p.shown, e.seq) ELSE p.shown
    /\ r.asks = IF kind = "ask" THEN p.asks \union {e.seq} ELSE p.asks
    /\ r.used = IF kind = "answer" THEN p.used \union ({log[e.seq].of} \intersect p.open) ELSE p.used
    /\ IF kind = "ask" THEN r.open \in {p.open, p.open \union {e.seq}}
       ELSE r.open = IF kind = "result" THEN p.open \ {log[e.seq].of} ELSE p.open

LEMMA ProjectIs ==
  ASSUME log \in Seq(Events), LogOK, NEW p, ProjOK(p), NEW e \in Items, ItemOK(e), e.seq = p.last + 1, NEW live,
         NEW q \in Projections, q.seen = p.seen \union {e}, q.last = e.seq, q.users = p.users,
         q.shown = p.shown, q.open = p.open, q.used = p.used, q.asks = p.asks, q.bad = p.bad,
         q.reading = p.reading,
         NEW r, r = Project(q, e, live)
  PROVE  /\ r \in Projections
         /\ r.seen = p.seen \union {e} /\ r.last = e.seq /\ ~r.bad /\ r.reading \in {0, p.reading}
         /\ Shows(p, r, e, log[e.seq].kind)
<1> DEFINE k == log[e.seq].kind
           of == log[e.seq].of
<1>1. /\ p \in Projections /\ ~p.bad /\ p.last \in Nat /\ e.seq \in DOMAIN log
      /\ log[e.seq] \in Events /\ EventOK(e.seq)
      /\ e.seq \in Nat
  BY DEF ProjOK, Projections, ItemOK, Items, LogOK
<1>2. /\ q \in Projections
      /\ q.seen = p.seen \union {e} /\ q.last = e.seq /\ q.users = p.users /\ q.shown = p.shown
      /\ q.open = p.open /\ q.used = p.used /\ q.asks = p.asks /\ q.bad = p.bad /\ q.reading = p.reading
  OBVIOUS
<1>3. of \in Named /\ log[e.seq].val \in Values
  BY <1>1 DEF Events
<1>4. CASE k = "user"
  <2>1. r = User(q, e)
    BY <1>4 DEF Project
  <2>2. \A u \in q.users : u.of # of
    <3> SUFFICES ASSUME NEW u \in p.users, u.of = of PROVE FALSE
      BY <1>2
    <3>1. PICK t \in p.seen : log[t.seq].kind = "user" /\ log[t.seq].of = of
      BY DEF ProjOK, UsersOK
    <3>2. t.seq \in DOMAIN log /\ t.seq \in 1..p.last
      BY DEF ProjOK, SeenOK, ItemOK
    <3>3. t.seq # e.seq
      BY <1>1, <3>2
    <3> QED
      BY <1>1, <1>4, <3>1, <3>2, <3>3 DEF LogOK
  <2>3. /\ r \in Projections /\ r.users = q.users \union {[of |-> of, src |-> e.src]} /\ r.shown = Append(q.shown, e.seq)
        /\ r.seen = q.seen /\ r.last = q.last /\ r.open = q.open /\ r.used = q.used
        /\ r.asks = q.asks /\ r.bad = q.bad /\ r.reading = q.reading
    <3>1. of = log[e.seq].of
      OBVIOUS
    <3> HIDE DEF of
    <3>2. \A u \in q.users : u.of # of
      BY <2>2
    <3> QED
      BY <1>2, <1>3, <2>1, <3>1, <3>2, FirstSource
  <2> QED
    BY <1>1, <1>2, <1>4, <2>3 DEF Shows
<1>5. CASE k = "echo"
  <2>1. r = User(q, e)
    BY <1>5 DEF Project
  <2>2. PICK m \in 1..(e.seq - 1) : log[m].kind = "user" /\ log[m].of = of /\ log[m].src = "client"
    BY <1>1, <1>5 DEF EventOK
  <2>3. m \in 1..p.last /\ m \in DOMAIN log
    BY <1>1, <2>2
  <2>4. \E u \in q.users : u.of = of
    BY <1>2, <2>2, <2>3 DEF ProjOK, UsersOK
  <2>5. e.src = "worker"
    BY <1>1, <1>5 DEF EventOK, ItemOK
  <2>6. [of |-> of, src |-> e.src] \notin q.users
    <3> SUFFICES ASSUME [of |-> of, src |-> e.src] \in p.users PROVE FALSE
      BY <1>2
    <3>1. PICK t \in p.seen : log[t.seq].kind = "user" /\ log[t.seq].of = of /\ t.src = "worker"
      BY <2>5 DEF ProjOK, UsersOK
    <3>2. t.seq \in DOMAIN log /\ ItemOK(t)
      BY DEF ProjOK, SeenOK, ItemOK
    <3>3. t.seq = m
      BY <2>2, <2>3, <3>1, <3>2 DEF LogOK
    <3> QED
      BY <2>2, <3>1, <3>2, <3>3 DEF ItemOK
  <2>7. r = q
    BY <1>2, <2>1, <2>4, <2>6, OtherSource
  <2> QED
    BY <1>1, <1>2, <1>5, <2>7 DEF Shows
<1>6. CASE k = "reply"
  <2>1. r = [q EXCEPT !.shown = Append(@, e.seq)]
    BY <1>6 DEF Project
  <2>2. Append(q.shown, e.seq) \in Seq(Nat)
    BY <1>1, <1>2 DEF Projections
  <2>3. /\ r \in Projections /\ r.users = q.users /\ r.shown = Append(q.shown, e.seq)
        /\ r.seen = q.seen /\ r.last = q.last /\ r.open = q.open /\ r.used = q.used
        /\ r.asks = q.asks /\ r.bad = q.bad /\ r.reading = q.reading
    BY <1>2, <2>1, <2>2 DEF Projections
  <2> QED
    BY <1>1, <1>2, <1>6, <2>3 DEF Shows
<1>7. CASE k = "ask"
  <2>1. r = Ask(q, e.seq, live)
    BY <1>7 DEF Project
  <2>2. e.seq \notin q.asks
    BY <1>1, <1>2 DEF ProjOK, CardsOK
  <2>3. /\ r \in Projections
        /\ r.asks = q.asks \union {e.seq} /\ r.open \in {q.open, q.open \union {e.seq}}
        /\ r.seen = q.seen /\ r.last = q.last /\ r.users = q.users /\ r.shown = q.shown
        /\ r.used = q.used /\ r.bad = q.bad /\ r.reading = q.reading
    BY <1>1, <1>2, <2>1, <2>2, AskIs
  <2> QED
    BY <1>1, <1>2, <1>7, <2>3 DEF Shows
<1>8. CASE k = "again"
  <2>1. r = Ask(q, of, live)
    BY <1>8 DEF Project
  <2>2. of \in 1..p.last /\ log[of].kind = "ask" /\ of \in Nat
    BY <1>1, <1>8 DEF EventOK
  <2>3. of \in q.asks
    BY <1>2, <2>2 DEF ProjOK, CardsOK
  <2>4. r = q
    BY <1>2, <2>1, <2>2, <2>3, AskIs
  <2> QED
    BY <1>1, <1>2, <1>8, <2>4 DEF Shows
<1>9. CASE k = "answer"
  <2>1. r = UseUp(q, of)
    BY <1>9 DEF Project
  <2>2. of \in Nat
    BY <1>1, <1>9 DEF EventOK
  <2> DEFINE used == q.used \union ({of} \intersect q.open)
  <2>3. used \in SUBSET Nat
    BY <1>2, <2>2 DEF Projections
  <2>4. /\ r \in Projections /\ r.used = used
        /\ r.seen = q.seen /\ r.last = q.last /\ r.users = q.users /\ r.shown = q.shown
        /\ r.open = q.open /\ r.asks = q.asks /\ r.bad = q.bad /\ r.reading = q.reading
    <3>1. CASE of \in q.open
      <4>0. q.used \union {of} = used
        BY <3>1
      <4>1. r = [q EXCEPT !.used = used]
        BY <2>1, <3>1, <4>0 DEF UseUp
      <4> HIDE DEF used
      <4> QED
        BY <1>2, <2>3, <4>1 DEF Projections
    <3>2. CASE of \notin q.open
      <4>1. r = q /\ used = q.used
        BY <2>1, <3>2 DEF UseUp, Projections
      <4> QED
        BY <1>2, <4>1
    <3> QED
      BY <3>1, <3>2
  <2> QED
    BY <1>1, <1>2, <1>9, <2>4 DEF Shows
<1>10. CASE k = "result"
  <2> DEFINE shown == Append(q.shown, e.seq)
             open == q.open \ {of}
  <2>1. r = [q EXCEPT !.open = open, !.shown = shown]
    BY <1>10 DEF Project
  <2>2. shown \in Seq(Nat) /\ open \in SUBSET Nat
    BY <1>1, <1>2 DEF Projections
  <2>3. shown = Append(p.shown, e.seq) /\ open = p.open \ {of}
    BY <1>2
  <2> HIDE DEF shown, open
  <2>4. /\ r \in Projections /\ r.users = q.users /\ r.shown = shown
        /\ r.seen = q.seen /\ r.last = q.last /\ r.open = open /\ r.used = q.used
        /\ r.asks = q.asks /\ r.bad = q.bad /\ r.reading = q.reading
    BY <1>2, <2>1, <2>2 DEF Projections
  <2> QED
    BY <1>1, <1>2, <1>10, <2>3, <2>4 DEF Shows
<1>11. CASE k \in {"ok", "fail"}
  <2> DEFINE stopped == StopAnswered(q, e)
  <2>1. r = ModelAnswered(stopped, e)
    BY <1>11 DEF Project
  <2>2. stopped \in Projections /\ Alike(q, stopped) /\ stopped.reading = q.reading
    BY <1>2, StopIs
  <2> HIDE DEF stopped
  <2>3. r \in Projections /\ Alike(stopped, r) /\ r.reading \in {0, stopped.reading}
    BY <1>3, <2>1, <2>2, ModelIs
  <2> QED
    BY <1>1, <1>2, <1>11, <2>2, <2>3 DEF Shows, Alike
<1>12. k \in {"user", "echo", "reply", "ask", "again", "answer", "result", "ok", "fail"}
  BY <1>1 DEF Events
<1> QED
  BY <1>4, <1>5, <1>6, <1>7, <1>8, <1>9, <1>10, <1>11, <1>12

\* So the reconciler knows the log up to the new event.
LEMMA NextKept ==
  ASSUME log \in Seq(Events), LogOK, NEW p, ProjOK(p), NEW e \in Items, ItemOK(e), e.seq = p.last + 1,
         NEW r \in Projections, r.seen = p.seen \union {e}, r.last = e.seq, ~r.bad, r.reading \in {0, p.reading},
         Shows(p, r, e, log[e.seq].kind)
  PROVE  ProjOK(r) /\ After(p, r)
<1> DEFINE k == log[e.seq].kind
           of == log[e.seq].of
<1>1. /\ p \in Projections /\ p.last \in Nat /\ p.last <= Len(log) /\ e.seq \in DOMAIN log
      /\ r.last = p.last + 1 /\ EventOK(e.seq) /\ Len(log) \in Nat
  BY DEF ProjOK, SeenOK, Projections, ItemOK, LogOK
<1>2. \A q \in 1..r.last : q \in 1..p.last \/ q = e.seq
  BY <1>1
<1>3. SeenOK(r)
  <2>1. r.last <= Len(log)
    BY <1>1
  <2>2. \A s \in p.seen : s.seq \in 1..p.last /\ ItemOK(s)
    BY DEF ProjOK, SeenOK
  <2>3. \A s \in r.seen : s.seq \in 1..r.last /\ ItemOK(s)
    BY <1>1, <2>2
  <2>4. \A s, t \in r.seen : s.seq = t.seq => s = t
    <3>1. \A s \in p.seen : s.seq # e.seq
      BY <1>1, <2>2
    <3> QED
      BY <3>1 DEF ProjOK, SeenOK
  <2>5. \A q \in 1..r.last : \E s \in r.seen : s.seq = q
    BY <1>2 DEF ProjOK, SeenOK
  <2> QED
    BY <2>1, <2>3, <2>4, <2>5 DEF SeenOK
<1>4. UsersOK(r)
  <2>1. \A u \in p.users : \E s \in r.seen : log[s.seq].kind = "user" /\ log[s.seq].of = u.of /\ s.src = u.src
    BY DEF ProjOK, UsersOK
  <2>2. \A q \in 1..p.last : log[q].kind = "user" => \E u \in p.users : u.of = log[q].of
    BY DEF ProjOK, UsersOK
  <2>3. CASE k = "user"
    <3> DEFINE u == [of |-> of, src |-> e.src]
    <3>1. r.users = p.users \union {u} /\ u.of = of /\ u.src = e.src
      BY <2>3 DEF Shows
    <3> HIDE DEF u
    <3>2. \A v \in r.users : \E s \in r.seen : log[s.seq].kind = "user" /\ log[s.seq].of = v.of /\ s.src = v.src
      BY <2>1, <2>3, <3>1
    <3>3. \A q \in 1..r.last : log[q].kind = "user" => \E v \in r.users : v.of = log[q].of
      BY <1>2, <2>2, <3>1
    <3> QED
      BY <3>2, <3>3 DEF UsersOK
  <2>4. CASE k # "user"
    <3>1. r.users = p.users
      BY <2>4 DEF Shows
    <3> QED
      BY <1>2, <2>1, <2>2, <2>4, <3>1 DEF UsersOK
  <2> QED
    BY <2>3, <2>4
<1>5. ShownOK(r)
  <2>1. /\ p.shown \in Seq(Nat)
        /\ \A i \in DOMAIN p.shown : p.shown[i] \in 1..p.last /\ log[p.shown[i]].kind \in {"user", "reply", "result"}
        /\ \A i, j \in DOMAIN p.shown : i < j => p.shown[i] < p.shown[j]
    BY <1>1 DEF ProjOK, ShownOK, Projections
  <2>2. CASE k \in {"user", "reply", "result"}
    <3>1. r.shown = Append(p.shown, e.seq)
      BY <2>2 DEF Shows
    <3>2. /\ DOMAIN r.shown = 1..(Len(p.shown) + 1) /\ r.shown[Len(p.shown) + 1] = e.seq
          /\ \A i \in DOMAIN p.shown : r.shown[i] = p.shown[i]
      BY <2>1, <3>1
    <3>3. \A i \in DOMAIN r.shown : i \in DOMAIN p.shown \/ i = Len(p.shown) + 1
      BY <2>1, <3>2
    <3>4. \A i \in DOMAIN r.shown : r.shown[i] \in 1..r.last /\ log[r.shown[i]].kind \in {"user", "reply", "result"}
      <4> SUFFICES ASSUME NEW i \in DOMAIN r.shown
                   PROVE  r.shown[i] \in 1..r.last /\ log[r.shown[i]].kind \in {"user", "reply", "result"}
        OBVIOUS
      <4>1. CASE i \in DOMAIN p.shown
        <5>1. r.shown[i] = p.shown[i] /\ p.shown[i] \in 1..p.last /\ log[p.shown[i]].kind \in {"user", "reply", "result"}
          BY <2>1, <3>2, <4>1
        <5> QED
          BY <1>1, <5>1
      <4>2. CASE i = Len(p.shown) + 1
        BY <1>1, <2>2, <3>2, <4>2
      <4> QED
        BY <3>3, <4>1, <4>2
    <3>5. ASSUME NEW i \in DOMAIN r.shown, NEW j \in DOMAIN r.shown, i < j PROVE r.shown[i] < r.shown[j]
      <4>1. i \in DOMAIN p.shown
        BY <2>1, <3>2, <3>5
      <4>2. CASE j \in DOMAIN p.shown
        BY <2>1, <3>2, <3>5, <4>1, <4>2
      <4>3. CASE j = Len(p.shown) + 1
        <5>1. r.shown[i] \in 1..p.last
          BY <2>1, <3>2, <4>1
        <5> QED
          BY <1>1, <3>2, <4>3, <5>1
      <4> QED
        BY <3>3, <4>2, <4>3
    <3> QED
      BY <3>4, <3>5 DEF ShownOK
  <2>3. CASE k \notin {"user", "reply", "result"}
    <3>1. r.shown = p.shown
      BY <2>3 DEF Shows
    <3> QED
      BY <1>1, <2>1, <3>1 DEF ShownOK
  <2> QED
    BY <2>2, <2>3
<1>6. /\ p.open \subseteq p.asks /\ p.used \subseteq p.asks
      /\ \A n \in p.asks : n \in 1..p.last /\ log[n].kind = "ask"
      /\ \A q \in 1..p.last :
           /\ log[q].kind = "ask" => q \in p.asks
           /\ log[q].kind = "result" => log[q].of \notin p.open
           /\ log[q].kind = "answer" => log[q].of \notin p.open \ p.used
  BY DEF ProjOK, CardsOK
<1>7. e.seq \notin p.asks
  BY <1>1, <1>6
<1>8. /\ p.asks \subseteq r.asks /\ p.used \subseteq r.used /\ r.open \subseteq r.asks /\ r.used \subseteq r.asks
      /\ \A n \in p.asks : n \in r.open => n \in p.open
      /\ k = "ask" => r.asks = p.asks \union {e.seq}
      /\ k # "ask" => r.asks = p.asks
  <2>1. CASE k = "ask"
    <3>1. r.asks = p.asks \union {e.seq} /\ r.used = p.used /\ r.open \in {p.open, p.open \union {e.seq}}
      BY <2>1 DEF Shows
    <3> QED
      BY <1>6, <1>7, <2>1, <3>1
  <2>2. CASE k # "ask"
    <3>1. /\ r.asks = p.asks /\ r.open \subseteq p.open
          /\ p.used \subseteq r.used /\ r.used \subseteq p.used \union p.open
      BY <2>2 DEF Shows
    <3> QED
      BY <1>6, <2>2, <3>1
  <2> QED
    BY <2>1, <2>2
<1>9. CardsOK(r)
  <2>1. \A n \in r.asks : n \in 1..r.last /\ log[n].kind = "ask"
    BY <1>1, <1>6, <1>8
  <2>2. ASSUME NEW q \in 1..r.last PROVE /\ log[q].kind = "ask" => q \in r.asks
                                         /\ log[q].kind = "result" => log[q].of \notin r.open
                                         /\ log[q].kind = "answer" => log[q].of \notin r.open \ r.used
    <3>1. log[q].kind = "ask" => q \in r.asks
      BY <1>2, <1>6, <1>8
    <3>2. log[q].kind \in {"again", "answer", "result"} => log[q].of \in 1..(q - 1) /\ log[log[q].of].kind = "ask"
      BY <1>1 DEF LogOK, EventOK
    <3>3. log[q].kind \in {"answer", "result"} => log[q].of \in p.asks
      <4> SUFFICES ASSUME log[q].kind \in {"answer", "result"} PROVE log[q].of \in p.asks
        OBVIOUS
      <4>1. log[q].of \in 1..p.last
        BY <1>1, <3>2
      <4> QED
        BY <1>6, <3>2, <4>1
    <3>4. CASE q \in 1..p.last
      BY <1>6, <1>8, <3>1, <3>3, <3>4
    <3>5. CASE q = e.seq
      <4>1. k = "result" => r.open = p.open \ {of}
        BY DEF Shows
      <4>2. k = "answer" => r.open = p.open /\ r.used = p.used \union ({of} \intersect p.open)
        BY DEF Shows
      <4> QED
        BY <3>1, <3>5, <4>1, <4>2
    <3> QED
      BY <1>2, <3>4, <3>5
  <2> QED
    BY <1>8, <2>1, <2>2 DEF CardsOK
<1> QED
  BY <1>3, <1>4, <1>5, <1>8, <1>9 DEF ProjOK, After

\* NativeReconciler.accept of an event that is not too far ahead.
LEMMA AcceptKept ==
  ASSUME log \in Seq(Events), LogOK, NEW p, ProjOK(p), NEW e \in Items, ItemOK(e), e.seq <= p.last + 1, NEW live,
         NEW r, r = Accept(p, e, live)
  PROVE  ProjOK(r) /\ After(p, r) /\ p.last <= r.last /\ e.seq <= r.last
<1>1. p \in Projections /\ p.last \in Nat /\ e.seq \in Nat /\ e.seq # 0
  BY DEF ProjOK, Projections, Items
<1>2. ASSUME r = p, e.seq <= p.last PROVE ProjOK(r) /\ After(p, r) /\ p.last <= r.last /\ e.seq <= r.last
  BY <1>1, <1>2 DEF After
<1>3. CASE e \in p.seen
  <2>1. r = p
    BY <1>3 DEF Accept
  <2>2. e.seq \in 1..p.last
    BY <1>3 DEF ProjOK, SeenOK
  <2> QED
    BY <1>1, <1>2, <2>1, <2>2
<1>4. CASE e \notin p.seen /\ \E s \in p.seen : s.seq = e.seq
  <2>1. PICK s \in p.seen : s.seq = e.seq
    BY <1>4
  <2>2. Project(p, e, live) = p
    BY <1>4, <2>1, SecondSource
  <2>3. r = p
    BY <1>4, <2>2 DEF Accept
  <2>4. e.seq \in 1..p.last
    BY <2>1 DEF ProjOK, SeenOK
  <2> QED
    BY <1>1, <1>2, <2>3, <2>4
<1>5. CASE e \notin p.seen /\ \A s \in p.seen : s.seq # e.seq
  <2>1. ~(e.seq <= p.last)
    BY <1>1, <1>5 DEF ProjOK, SeenOK
  <2>2. e.seq = p.last + 1
    BY <1>1, <2>1
  <2> DEFINE q0 == [p EXCEPT !.seen = @ \union {e}, !.last = e.seq]
  <2>3. /\ q0 \in Projections
        /\ q0.seen = p.seen \union {e} /\ q0.last = e.seq /\ q0.users = p.users /\ q0.shown = p.shown
        /\ q0.open = p.open /\ q0.used = p.used /\ q0.asks = p.asks /\ q0.bad = p.bad /\ q0.reading = p.reading
    BY <1>1 DEF Projections
  <2>4. r = Project(q0, e, live)
    BY <1>5, <2>1 DEF Accept
  <2> HIDE DEF q0
  <2>5. /\ r \in Projections
        /\ r.seen = p.seen \union {e} /\ r.last = e.seq /\ ~r.bad /\ r.reading \in {0, p.reading}
        /\ Shows(p, r, e, log[e.seq].kind)
    BY <2>2, <2>3, <2>4, ProjectIs
  <2>6. ProjOK(r) /\ After(p, r)
    BY <2>2, <2>5, NextKept
  <2> QED
    BY <1>1, <2>2, <2>5, <2>6
<1> QED
  BY <1>3, <1>4, <1>5

-----------------------------------------------------------------------------
(* Observations one after the other                                        *)

\* What was learnt in two steps was learnt.
LEMMA AfterAfter ==
  ASSUME NEW p, NEW a, NEW r, After(p, a), After(a, r)
  PROVE  After(p, r)
  BY DEF After

\* Items that name events, none before those between it and the event at b.
Follow(items, b) ==
    /\ items \in Seq(Items) /\ \A i \in DOMAIN items : ItemOK(items[i])
    /\ \A i \in DOMAIN items : \A q \in (b + 1)..(items[i].seq - 1) : \E j \in 1..(i - 1) : items[j].seq = q

\* A function that takes the observations one by one, and what it is after each.
Takes(g, p, items, live) ==
    /\ g[0] = p
    /\ \A n \in 1..Len(items) : Accept(g[n - 1], items[n], live) \in Projections
                                   => g[n] = Accept(g[n - 1], items[n], live)
Knows(g, p, items, live) ==
    \A n \in 0..Len(items) :
        /\ ProjOK(g[n]) /\ After(p, g[n]) /\ p.last <= g[n].last
        /\ \A j \in 1..n : items[j].seq <= g[n].last
        /\ n # 0 => g[n] = Accept(g[n - 1], items[n], live)

\* Every observation of the loop is one of an event that is not too far ahead.
LEMMA LoopKept ==
  ASSUME log \in Seq(Events), LogOK, NEW p, ProjOK(p), NEW items, Follow(items, p.last), NEW live,
         NEW g, Takes(g, p, items, live)
  PROVE  Knows(g, p, items, live)
<1> DEFINE N == Len(items)
           Is(n) == /\ ProjOK(g[n]) /\ After(p, g[n]) /\ p.last <= g[n].last
                    /\ \A j \in 1..n : items[j].seq <= g[n].last
                    /\ n # 0 => g[n] = Accept(g[n - 1], items[n], live)
           T == {n \in 0..N : Is(n)}
<1>1. N \in Nat /\ p.last \in Nat /\ \A n \in 1..N : items[n] \in Items /\ ItemOK(items[n]) /\ items[n].seq \in Nat
  <2>1. items \in Seq(Items) /\ \A n \in DOMAIN items : ItemOK(items[n])
    BY DEF Follow
  <2>2. N \in Nat /\ DOMAIN items = 1..N /\ \A n \in 1..N : items[n] \in Items
    BY <2>1
  <2>3. \A item \in Items : item.seq \in Nat
    BY DEF Items
  <2>4. p.last \in Nat
    BY DEF ProjOK, Projections
  <2> HIDE DEF N
  <2> QED
    BY <2>1, <2>2, <2>3, <2>4
<1>2. 0 \in T
  <2>1. After(p, p)
    BY DEF After
  <2> QED
    BY <1>1, <2>1 DEF Takes
<1>3. ASSUME NEW n \in 1..N, n - 1 \in T PROVE n \in T
  <2> DEFINE a == g[n - 1]
             r == Accept(a, items[n], live)
  <2>1. ProjOK(a) /\ After(p, a) /\ p.last <= a.last /\ \A j \in 1..(n - 1) : items[j].seq <= a.last
    BY <1>3
  <2>2. a.last \in Nat
    BY <2>1 DEF ProjOK, Projections
  <2>3. items[n].seq <= a.last + 1
    <3> SUFFICES ASSUME ~(items[n].seq <= a.last + 1) PROVE FALSE
      OBVIOUS
    <3>1. a.last + 1 \in (p.last + 1)..(items[n].seq - 1)
      BY <1>1, <2>1, <2>2
    <3>2. n \in DOMAIN items
      BY DEF Follow
    <3>3. PICK j \in 1..(n - 1) : items[j].seq = a.last + 1
      BY <3>1, <3>2 DEF Follow
    <3> QED
      BY <2>1, <2>2, <3>3
  <2>4. PICK b : b = a
    OBVIOUS
  <2>5. PICK c : c = Accept(b, items[n], live)
    OBVIOUS
  <2>6. ProjOK(c) /\ After(b, c) /\ b.last <= c.last /\ items[n].seq <= c.last
    BY <1>1, <2>1, <2>3, <2>4, <2>5, AcceptKept
  <2>7. g[n] = c
    BY <2>4, <2>5, <2>6 DEF ProjOK, Takes
  <2>8. After(p, c)
    BY <2>1, <2>4, <2>6, AfterAfter
  <2>9. c.last \in Nat
    BY <2>6 DEF ProjOK, Projections
  <2>10. p.last <= c.last /\ \A j \in 1..n : items[j].seq <= c.last
    <3>1. p.last <= c.last
      BY <1>1, <2>1, <2>2, <2>4, <2>6, <2>9
    <3>2. ASSUME NEW j \in 1..n PROVE items[j].seq <= c.last
      <4>1. CASE j = n
        BY <2>6, <4>1
      <4>2. CASE j \in 1..(n - 1)
        <5>1. items[j].seq <= a.last /\ items[j].seq \in Nat
          BY <1>1, <2>1, <4>2
        <5> QED
          BY <2>2, <2>4, <2>6, <2>9, <5>1
      <4> QED
        BY <4>1, <4>2
    <3> QED
      BY <3>1, <3>2
  <2>11. n \in 0..N
    OBVIOUS
  <2> QED
    BY <2>4, <2>5, <2>6, <2>7, <2>8, <2>10, <2>11
<1> HIDE DEF T
<1>4. \A n \in 0..N : n \in T
  BY <1>1, <1>2, <1>3, UpTo
<1> QED
  BY <1>4 DEF T, Knows

\* A fold of N steps over the domain D, as a function of the steps taken.
FoldOf(f, D, N, base, step) ==
    f \in [0..N -> D] /\ f[0] = base /\ \A n \in 1..N : f[n] = step[<<f[n - 1], n>>]

\* Such a function exists; with it Accepted is defined for every number of observations.
LEMMA FoldExists ==
  ASSUME NEW D, NEW N \in Nat, NEW base \in D, NEW step \in [D \X (1..N) -> D]
  PROVE  \E f : FoldOf(f, D, N, base, step)
<1> DEFINE Folds(k) == {f \in [0..k -> D] : f[0] = base /\ \A n \in 1..k : f[n] = step[<<f[n - 1], n>>]}
           T == {k \in 0..N : Folds(k) # {}}
<1>1. 0 \in T
  <2>1. [n \in 0..0 |-> base] \in Folds(0)
    OBVIOUS
  <2> QED
    BY <2>1
<1>2. ASSUME NEW k \in 1..N, k - 1 \in T PROVE k \in T
  <2>1. PICK f \in [0..(k - 1) -> D] : f[0] = base /\ \A n \in 1..(k - 1) : f[n] = step[<<f[n - 1], n>>]
    BY <1>2
  <2> DEFINE g == [n \in 0..k |-> IF n = k THEN step[<<f[k - 1], k>>] ELSE f[n]]
  <2>2. step[<<f[k - 1], k>>] \in D
    BY <2>1
  <2>3. g \in [0..k -> D]
    BY <2>1, <2>2
  <2>4. /\ \A n \in 0..(k - 1) : g[n] = f[n]
        /\ g[k] = step[<<f[k - 1], k>>]
    OBVIOUS
  <2> HIDE DEF g
  <2>5. g[0] = base
    BY <2>1, <2>4
  <2>6. ASSUME NEW n \in 1..k PROVE g[n] = step[<<g[n - 1], n>>]
    <3>1. n - 1 \in 0..(k - 1) /\ g[n - 1] = f[n - 1]
      BY <2>4
    <3>2. CASE n = k
      BY <2>4, <3>1, <3>2
    <3>3. CASE n \in 1..(k - 1)
      BY <2>1, <2>4, <3>1, <3>3
    <3> QED
      BY <3>2, <3>3
  <2>7. g \in Folds(k)
    BY <2>3, <2>5, <2>6
  <2>8. k \in 0..N
    OBVIOUS
  <2> HIDE DEF Folds
  <2> QED
    BY <2>7, <2>8
<1> HIDE DEF T
<1>3. N \in T
  BY <1>1, <1>2, UpTo
<1>4. Folds(N) # {}
  BY <1>3 DEF T
<1> QED
  BY <1>4 DEF FoldOf

\* What the reconciler knows after a series of observations, all of which it has passed.
LEMMA AcceptedKept ==
  ASSUME log \in Seq(Events), LogOK, NEW p, ProjOK(p), NEW items, Follow(items, p.last), NEW live,
         NEW r, r = Accepted(p, items, live)
  PROVE  ProjOK(r) /\ After(p, r) /\ p.last <= r.last /\ \A j \in DOMAIN items : items[j].seq <= r.last
<1> DEFINE N == Len(items)
           step == [x \in Projections \X (1..N) |->
                      IF Accept(x[1], items[x[2]], live) \in Projections THEN Accept(x[1], items[x[2]], live) ELSE x[1]]
           Is(g) == g = [n \in 0..N |-> IF n = 0 THEN p ELSE Accept(g[n - 1], items[n], live)]
<1>1. items \in Seq(Items) /\ N \in Nat /\ DOMAIN items = 1..N
  BY DEF Follow
<1>2. p \in Projections
  BY DEF ProjOK
<1>3. step \in [Projections \X (1..N) -> Projections]
  OBVIOUS
<1>4. PICK f \in [0..N -> Projections] : f[0] = p /\ \A n \in 1..N : f[n] = step[<<f[n - 1], n>>]
  <2> DEFINE D == Projections
  <2>1. N \in Nat /\ p \in D /\ step \in [D \X (1..N) -> D]
    BY <1>1, <1>2, <1>3
  <2> HIDE DEF D, step, N
  <2>2. \E f : FoldOf(f, D, N, p, step)
    BY <2>1, FoldExists
  <2> QED
    BY <2>2 DEF D, FoldOf
<1>5. \A n \in 1..N : Accept(f[n - 1], items[n], live) \in Projections => f[n] = Accept(f[n - 1], items[n], live)
  <2> SUFFICES ASSUME NEW n \in 1..N, Accept(f[n - 1], items[n], live) \in Projections
               PROVE  f[n] = Accept(f[n - 1], items[n], live)
    OBVIOUS
  <2>1. f[n - 1] \in Projections
    BY <1>1, <1>4
  <2>2. <<f[n - 1], n>> \in Projections \X (1..N)
    BY <2>1
  <2>3. step[<<f[n - 1], n>>] = Accept(f[n - 1], items[n], live)
    BY <2>2
  <2> QED
    BY <1>4, <2>3
<1> HIDE DEF step
<1>6. \A n \in 0..N : n # 0 => f[n] = Accept(f[n - 1], items[n], live)
  <2>1. Takes(f, p, items, live)
    BY <1>4, <1>5 DEF Takes
  <2>2. Knows(f, p, items, live)
    BY <2>1, LoopKept
  <2> QED
    BY <2>2 DEF Knows
<1>7. \A n \in 0..N : f[n] = IF n = 0 THEN p ELSE Accept(f[n - 1], items[n], live)
  BY <1>4, <1>6
<1>8. Is(f)
  BY <1>4, <1>7
<1>9. Is(CHOOSE g : Is(g))
  BY <1>8, Zenon
<1> DEFINE after == CHOOSE g : Is(g)
<1>10. Accepted(p, items, live) = after[N]
  BY Zenon DEF Accepted
<1> HIDE DEF after
<1>11. after = [n \in 0..N |-> IF n = 0 THEN p ELSE Accept(after[n - 1], items[n], live)]
  BY <1>9 DEF after
<1>12. after[0] = p /\ \A n \in 1..N : after[n] = Accept(after[n - 1], items[n], live)
  BY <1>1, <1>11
<1>13. N \in 0..N
  BY <1>1
<1>14. ProjOK(after[N]) /\ After(p, after[N]) /\ p.last <= after[N].last /\ \A j \in 1..N : items[j].seq <= after[N].last
  <2>1. Takes(after, p, items, live)
    BY <1>12 DEF Takes
  <2>2. Knows(after, p, items, live)
    BY <2>1, LoopKept
  <2> QED
    BY <1>13, <2>2 DEF Knows
<1> QED
  BY <1>1, <1>10, <1>14

-----------------------------------------------------------------------------
(* The log                                                                 *)

\* Events keep what they say, and only a client's text gets another source.
Grows ==
    /\ Len(log) <= Len(log')
    /\ \A n \in DOMAIN log :
         /\ log'[n].kind = log[n].kind /\ log'[n].of = log[n].of
         /\ log'[n].src = log[n].src \/ (log[n].kind = "user" /\ log'[n].src # "client")

\* An event that may come next.
Fits(e) ==
    /\ e.kind = "user" =>
         /\ e.of \in Prompts \union Locals /\ (e.of \in Locals => e.src = "worker")
         /\ \A m \in DOMAIN log : log[m].kind = "user" => log[m].of # e.of
    /\ e.kind = "echo" =>
         /\ e.of \in Prompts /\ e.src = "worker"
         /\ \E m \in DOMAIN log : log[m].kind = "user" /\ log[m].of = e.of /\ log[m].src = "client"
    /\ e.kind \in {"reply", "ask"} => e.of = NULL
    /\ e.kind \in {"again", "answer", "result"} => e.of \in DOMAIN log /\ log[e.of].kind = "ask"
    /\ e.kind = "result" => \A m \in DOMAIN log : log[m].kind = "result" => log[m].of # e.of

\* A fitting event keeps the log well formed.
LEMMA AppendKept ==
  ASSUME log \in Seq(Events), LogOK, NEW e \in Events, Fits(e), log' = Append(log, e)
  PROVE  log' \in Seq(Events) /\ Grows /\ LogOK'
<1> DEFINE N == Len(log)
<1>1. /\ N \in Nat /\ DOMAIN log = 1..N /\ Len(log') = N + 1 /\ DOMAIN log' = 1..(N + 1)
      /\ log'[N + 1] = e /\ \A n \in 1..N : log'[n] = log[n]
      /\ log' \in Seq(Events)
  OBVIOUS
<1> HIDE DEF N
<1>2. \A n \in 1..(N + 1) : n \in 1..N \/ n = N + 1
  BY <1>1
<1>3. Grows
  <2>1. Len(log) <= Len(log')
    BY <1>1 DEF N
  <2> QED
    BY <1>1, <2>1 DEF Grows
<1>4. ASSUME NEW n \in 1..N PROVE EventOK(n)'
  <2>1. EventOK(n) /\ log'[n] = log[n]
    BY <1>1 DEF LogOK
  <2>2. \A m \in 1..(n - 1) : m \in 1..N /\ log'[m] = log[m]
    BY <1>1
  <2>3. log[n].kind \in {"again", "answer", "result"} => log'[log[n].of] = log[log[n].of]
    BY <2>1, <2>2 DEF EventOK
  <2> QED
    BY <2>1, <2>2, <2>3 DEF EventOK
<1>5. ASSUME NEW n \in 1..(N + 1), n = N + 1 PROVE EventOK(n)'
  <2>1. 1..(n - 1) = 1..N /\ log'[n] = e
    BY <1>1, <1>5
  <2>2. e.kind \in {"again", "answer", "result"} => e.of \in 1..(n - 1) /\ log'[e.of].kind = "ask"
    BY <1>1, <2>1 DEF Fits
  <2>3. e.kind = "echo" =>
          /\ e.of \in Prompts /\ e.src = "worker"
          /\ \E m \in 1..(n - 1) : log'[m].kind = "user" /\ log'[m].of = e.of /\ log'[m].src = "client"
    BY <1>1, <2>1 DEF Fits
  <2>4. /\ e.kind = "user" => e.of \in Prompts \union Locals /\ (e.of \in Locals => e.src = "worker")
        /\ e.kind \in {"reply", "ask"} => e.of = NULL
    BY DEF Fits
  <2> QED
    BY <2>1, <2>2, <2>3, <2>4 DEF EventOK
<1>6. ASSUME NEW m \in 1..(N + 1), NEW n \in 1..(N + 1), m # n,
             log'[m].kind = log'[n].kind, log'[n].kind \in {"user", "result"}
      PROVE  log'[m].of # log'[n].of
  <2>1. CASE m \in 1..N /\ n \in 1..N
    BY <1>1, <1>6, <2>1 DEF LogOK
  <2>2. CASE m = N + 1 /\ n \in 1..N
    BY <1>1, <1>6, <2>2 DEF Fits
  <2>3. CASE m \in 1..N /\ n = N + 1
    BY <1>1, <1>6, <2>3 DEF Fits
  <2> QED
    BY <1>2, <1>6, <2>1, <2>2, <2>3
<1>7. \A n \in DOMAIN log' : EventOK(n)'
  <2> SUFFICES ASSUME NEW n \in 1..(N + 1) PROVE EventOK(n)'
    BY <1>1
  <2> QED
    BY <1>2, <1>4, <1>5
<1>8. \A m, n \in DOMAIN log' :
        m # n /\ log'[m].kind = log'[n].kind /\ log'[n].kind \in {"user", "result"} => log'[m].of # log'[n].of
  BY <1>1, <1>6
<1>9. LogOK'
  BY <1>7, <1>8 DEF LogOK
<1> QED
  BY <1>1, <1>3, <1>9

\* The worker's copy of a text takes the place of the client's.
LEMMA RelabelKept ==
  ASSUME log \in Seq(Events), LogOK, NEW n \in DOMAIN log, log[n].kind = "user", log[n].src = "client",
         \A m \in DOMAIN log : log[m].of = log[n].of => m <= n,
         log' = [log EXCEPT ![n].src = "worker"]
  PROVE  log' \in Seq(Events) /\ Grows /\ LogOK' /\ Len(log') = Len(log)
<1> DEFINE e == [log[n] EXCEPT !.src = "worker"]
<1>1. log[n] \in Events /\ Len(log) \in Nat /\ DOMAIN log = 1..Len(log)
  OBVIOUS
<1>2. e \in Events /\ e.kind = log[n].kind /\ e.of = log[n].of /\ e.src = "worker"
  BY <1>1 DEF Events, Sources
<1>3. /\ log' \in Seq(Events) /\ Len(log') = Len(log) /\ DOMAIN log' = DOMAIN log
      /\ log'[n] = e /\ \A m \in DOMAIN log : m # n => log'[m] = log[m]
  BY <1>2
<1> HIDE DEF e
<1>4. \A m \in DOMAIN log : log'[m].kind = log[m].kind /\ log'[m].of = log[m].of /\ (m # n => log'[m].src = log[m].src)
  BY <1>2, <1>3
<1>5. log'[n].src = "worker"
  BY <1>2, <1>3
<1>6. Grows
  BY <1>1, <1>3, <1>4, <1>5 DEF Grows
<1>7. ASSUME NEW q \in DOMAIN log PROVE EventOK(q)'
  <2>1. EventOK(q)
    BY DEF LogOK
  <2>2. log[q].kind = "echo" => \E m \in 1..(q - 1) : log'[m].kind = "user" /\ log'[m].of = log[q].of /\ log'[m].src = "client"
    <3> SUFFICES ASSUME log[q].kind = "echo"
                 PROVE  \E m \in 1..(q - 1) : log'[m].kind = "user" /\ log'[m].of = log[q].of /\ log'[m].src = "client"
      OBVIOUS
    <3>1. PICK m \in 1..(q - 1) : log[m].kind = "user" /\ log[m].of = log[q].of /\ log[m].src = "client"
      BY <2>1 DEF EventOK
    <3>2. m \in DOMAIN log
      BY <1>1, <3>1
    <3>3. m # n
      BY <1>1, <3>1, <3>2
    <3> QED
      BY <1>4, <3>1, <3>2, <3>3
  <2>3. log[q].kind \in {"again", "answer", "result"} => log'[log[q].of].kind = "ask"
    <3> SUFFICES ASSUME log[q].kind \in {"again", "answer", "result"} PROVE log'[log[q].of].kind = "ask"
      OBVIOUS
    <3>1. log[q].of \in 1..(q - 1) /\ log[log[q].of].kind = "ask"
      BY <2>1 DEF EventOK
    <3>2. log[q].of \in DOMAIN log
      BY <1>1, <3>1
    <3> QED
      BY <1>4, <3>1, <3>2
  <2>4. log[q].src = "worker" => log'[q].src = "worker"
    BY <1>4, <1>5
  <2> QED
    BY <1>4, <2>1, <2>2, <2>3, <2>4 DEF EventOK
<1>8. LogOK'
  BY <1>3, <1>4, <1>7 DEF LogOK
<1> QED
  BY <1>3, <1>6, <1>8

\* The reconciler's knowledge is about what the log keeps.
LEMMA ItemGrows ==
  ASSUME log \in Seq(Events), log' \in Seq(Events), Grows, NEW item, ItemOK(item)
  PROVE  ItemOK(item)'
<1>1. item.seq \in DOMAIN log /\ DOMAIN log = 1..Len(log) /\ DOMAIN log' = 1..Len(log')
      /\ Len(log) \in Nat /\ Len(log') \in Nat
  BY DEF ItemOK
<1>2. item.seq \in DOMAIN log'
  BY <1>1 DEF Grows
<1> QED
  BY <1>1, <1>2 DEF Grows, ItemOK

LEMMA ProjGrows ==
  ASSUME log \in Seq(Events), log' \in Seq(Events), LogOK, Grows, NEW p, ProjOK(p)
  PROVE  ProjOK(p)'
<1>1. /\ DOMAIN log = 1..Len(log) /\ DOMAIN log' = 1..Len(log')
      /\ Len(log) \in Nat /\ Len(log') \in Nat /\ p \in Projections /\ p.last \in Nat
      /\ p.last <= Len(log)
  BY DEF ProjOK, SeenOK, Projections
<1>2. \A q \in 1..p.last : q \in DOMAIN log
  BY <1>1
<1>3. \A q \in 1..p.last : log'[q].kind = log[q].kind /\ log'[q].of = log[q].of
  BY <1>2 DEF Grows
<1>4. \A s \in p.seen : s.seq \in 1..p.last /\ ItemOK(s)' /\ ItemOK(s)
  BY ItemGrows DEF ProjOK, SeenOK
<1>5. SeenOK(p)'
  BY <1>1, <1>4 DEF ProjOK, SeenOK, Grows
<1>6. UsersOK(p)'
  BY <1>3, <1>4 DEF ProjOK, UsersOK
<1>7. ShownOK(p)'
  BY <1>3 DEF ProjOK, ShownOK
<1>8. CardsOK(p)'
  BY <1>3 DEF ProjOK, CardsOK
<1> QED
  BY <1>1, <1>5, <1>6, <1>7, <1>8 DEF ProjOK

\* Equal knowledge is as good.
LEMMA AlikeKept ==
  ASSUME NEW p, ProjOK(p), NEW r \in Projections, Alike(p, r)
  PROVE  ProjOK(r)
<1>1. r.seen = p.seen /\ r.last = p.last /\ r.shown = p.shown /\ r.users = p.users
      /\ r.open = p.open /\ r.used = p.used /\ r.asks = p.asks /\ r.bad = p.bad
  BY DEF Alike
<1>2. SeenOK(r)
  BY <1>1 DEF ProjOK, SeenOK
<1>3. UsersOK(r)
  BY <1>1 DEF ProjOK, UsersOK
<1>4. ShownOK(r)
  BY <1>1 DEF ProjOK, ShownOK
<1>5. CardsOK(r)
  BY <1>1 DEF ProjOK, CardsOK
<1> QED
  BY <1>1, <1>2, <1>3, <1>4, <1>5 DEF ProjOK

-----------------------------------------------------------------------------
(* The stream                                                              *)

\* What the provider sends for a step of the log.
Sends ==
    /\ up' = up
    /\ \E item \in Items :
         /\ ItemOK(item)'
         /\ Len(log') = Len(log) \/ (Len(log') = Len(log) + 1 /\ item.seq = Len(log'))
         /\ buf' = IF up THEN Append(buf, item) ELSE buf

\* So does one that is emitted, and the stream is sent it.
LEMMA EmitKept ==
  ASSUME log \in Seq(Events), LogOK, NEW e \in Events, Fits(e), Emit(e), up' = up
  PROVE  log' \in Seq(Events) /\ Grows /\ LogOK' /\ Sends
<1>1. log' = Append(log, e) /\ buf' = IF up THEN Append(buf, Item(Len(log) + 1, e.src)) ELSE buf
  BY DEF Emit, Send
<1>2. log' \in Seq(Events) /\ Grows /\ LogOK'
  BY <1>1, AppendKept
<1>3. PICK item : item = Item(Len(log) + 1, e.src)
  OBVIOUS
<1>4. /\ Len(log) \in Nat /\ Len(log') = Len(log) + 1 /\ Len(log') \in DOMAIN log' /\ log'[Len(log')] = e
  BY <1>1
<1>5. item \in Items /\ item.seq = Len(log') /\ item.src = e.src
  BY <1>3, <1>4 DEF Item, Items, Events
<1>6. ItemOK(item)'
  BY <1>4, <1>5 DEF ItemOK
<1>7. Sends
  BY <1>1, <1>3, <1>4, <1>5, <1>6 DEF Sends
<1> QED
  BY <1>2, <1>7

\* What is sent leaves no gap behind what was sent before.
LEMMA CoveredSends ==
  ASSUME log \in Seq(Events), log' \in Seq(Events), buf \in Seq(Items), ~up => buf = <<>>, Sends,
         NEW b \in Nat, Covered(b)
  PROVE  Covered(b)'
<1>1. PICK item \in Items :
         /\ Len(log') = Len(log) \/ (Len(log') = Len(log) + 1 /\ item.seq = Len(log'))
         /\ item.seq \in DOMAIN log'
         /\ buf' = IF up THEN Append(buf, item) ELSE buf
  BY DEF Sends, ItemOK
<1>2. up' = up /\ Len(log) \in Nat /\ Len(log') \in Nat /\ item.seq \in 1..Len(log')
  BY <1>1 DEF Sends
<1>3. CASE up
  <2> DEFINE M == Len(buf)
  <2>1. /\ M \in Nat /\ DOMAIN buf = 1..M /\ DOMAIN buf' = 1..(M + 1) /\ buf'[M + 1] = item
        /\ \A i \in 1..M : buf'[i] = buf[i]
    BY <1>1, <1>3
  <2> HIDE DEF M
  <2>2. \A q \in (b + 1)..Len(log) : \E i \in 1..M : buf'[i].seq = q
    BY <1>3, <2>1 DEF Covered
  <2>3. ASSUME NEW q \in (b + 1)..Len(log') PROVE \E i \in DOMAIN buf' : buf'[i].seq = q
    <3>1. CASE q \in (b + 1)..Len(log)
      BY <2>1, <2>2, <3>1
    <3>2. CASE q \notin (b + 1)..Len(log)
      <4>1. q = item.seq
        BY <1>1, <1>2, <3>2
      <4> QED
        BY <2>1, <4>1
    <3> QED
      BY <3>1, <3>2
  <2>4. ASSUME NEW i \in DOMAIN buf', NEW q \in (b + 1)..(buf'[i].seq - 1)
        PROVE  \E j \in 1..(i - 1) : buf'[j].seq = q
    <3>1. CASE i \in 1..M
      <4>1. PICK j \in 1..(i - 1) : buf[j].seq = q
        BY <2>1, <2>4, <3>1 DEF Covered
      <4>2. j \in 1..M
        BY <2>1, <3>1
      <4> QED
        BY <2>1, <4>1, <4>2
    <3>2. CASE i = M + 1
      <4>1. q \in (b + 1)..Len(log)
        BY <1>1, <1>2, <2>1, <3>2
      <4>2. (M + 1) - 1 = M
        BY <2>1
      <4> QED
        BY <2>2, <3>2, <4>1, <4>2
    <3> QED
      BY <2>1, <3>1, <3>2
  <2> QED
    BY <2>3, <2>4 DEF Covered
<1>4. CASE ~up
  <2>1. buf' = <<>> /\ ~up'
    BY <1>1, <1>2, <1>4
  <2> QED
    BY <2>1 DEF Covered
<1> QED
  BY <1>3, <1>4

\* Whoever has got further needs less.
LEMMA CoveredUp ==
  ASSUME log \in Seq(Events), NEW b \in Nat, Covered(b), NEW c \in Nat, b <= c
  PROVE  Covered(c)
<1>1. \A q : q \in (c + 1)..Len(log) => q \in (b + 1)..Len(log)
  OBVIOUS
<1>2. \A x \in Int : \A q \in (c + 1)..x : q \in (b + 1)..x
  OBVIOUS
<1> QED
  BY <1>1 DEF Covered

\* The stream, in every phase of the capture pump, after a step of the log.
LEMMA StreamSends ==
  ASSUME log \in Seq(Events), log' \in Seq(Events), Grows, buf \in Seq(Items), hist \in Seq(Items), proj.last \in Nat,
         StreamOK, Sends, phase' = phase, hist' = hist, proj'.last = proj.last
  PROVE  buf' \in Seq(Items) /\ StreamOK'
<1>1. PICK item \in Items : ItemOK(item)' /\ buf' = IF up THEN Append(buf, item) ELSE buf
  BY DEF Sends
<1>2. up' = up
  BY DEF Sends
<1>3. buf' \in Seq(Items)
  BY <1>1
<1>4. \A i \in DOMAIN buf : (buf[i].seq \in DOMAIN log')
        /\ (log'[buf[i].seq].kind # "user" \/ log'[buf[i].seq].src = "client" => buf[i].src = log'[buf[i].seq].src)
  <2> SUFFICES ASSUME NEW i \in DOMAIN buf
               PROVE  (buf[i].seq \in DOMAIN log')
                      /\ (log'[buf[i].seq].kind # "user" \/ log'[buf[i].seq].src = "client" => buf[i].src = log'[buf[i].seq].src)
    OBVIOUS
  <2>1. PICK x : x = buf[i]
    OBVIOUS
  <2>2. ItemOK(x)
    BY <2>1 DEF StreamOK
  <2>3. ItemOK(x)'
    BY <2>2, ItemGrows
  <2> QED
    BY <2>1, <2>3 DEF ItemOK
<1>5. \A i \in DOMAIN buf' : ItemOK(buf[i])'
  BY <1>1, <1>4 DEF ItemOK
<1>6. \A i \in DOMAIN hist : hist[i].seq = i
        /\ (hist[i].seq \in DOMAIN log')
        /\ (log'[hist[i].seq].kind # "user" \/ log'[hist[i].seq].src = "client" => hist[i].src = log'[hist[i].seq].src)
  <2> SUFFICES ASSUME NEW i \in DOMAIN hist
               PROVE  hist[i].seq = i /\ (hist[i].seq \in DOMAIN log')
                      /\ (log'[hist[i].seq].kind # "user" \/ log'[hist[i].seq].src = "client" => hist[i].src = log'[hist[i].seq].src)
    OBVIOUS
  <2>1. PICK x : x = hist[i]
    OBVIOUS
  <2>2. ItemOK(x) /\ x.seq = i
    BY <2>1 DEF StreamOK
  <2>3. ItemOK(x)'
    BY <2>2, ItemGrows
  <2> QED
    BY <2>1, <2>2, <2>3 DEF ItemOK
<1>7. Len(log) <= Len(log') /\ Len(log) \in Nat /\ Len(log') \in Nat /\ Len(hist) \in Nat /\ Len(hist) <= Len(log)
  BY DEF Grows, StreamOK
<1>8. ~up' => buf' = <<>>
  BY <1>1, <1>2 DEF StreamOK
<1>9. \A b \in Nat : Covered(b) => Covered(b)'
  BY CoveredSends DEF StreamOK
<1>10. phase' = "read" => \E b \in 0..Len(log') : Covered(b)'
  BY <1>7, <1>9 DEF StreamOK
<1>11. phase' = "accept" => Covered(Len(hist))'
  <2>1. PICK b : b = Len(hist)
    OBVIOUS
  <2>2. phase' = "accept" => Covered(b)'
    BY <1>7, <1>9, <2>1 DEF StreamOK
  <2> QED
    BY <2>1, <2>2 DEF Covered
<1>12. phase' = "live" => Covered(proj.last)'
  <2>1. PICK b : b = proj.last
    OBVIOUS
  <2>2. phase' = "live" => Covered(b)'
    BY <1>9, <2>1 DEF StreamOK
  <2> QED
    BY <2>1, <2>2 DEF Covered
<1>13. Len(hist') <= Len(log') /\ \A k \in DOMAIN hist' : hist'[k].seq = k /\ ItemOK(hist[k])'
  BY <1>6, <1>7 DEF ItemOK
<1>14. StreamOK'
  BY <1>5, <1>8, <1>10, <1>11, <1>12, <1>13 DEF StreamOK
<1> QED
  BY <1>3, <1>14

-----------------------------------------------------------------------------
(* The steps of the provider and the worker                                *)

LogStep == log' \in Seq(Events) /\ Grows /\ LogOK' /\ Sends

\* Only the event of a text admits it.
LEMMA AppendAdmits ==
  ASSUME log \in Seq(Events), NEW e \in Events, Emit(e), NEW c, e.kind # "user" \/ e.of # c
  PROVE  Admitted(c)' <=> Admitted(c)
<1>1. /\ Len(log) \in Nat /\ DOMAIN log = 1..Len(log) /\ DOMAIN log' = 1..(Len(log) + 1)
      /\ log'[Len(log) + 1] = e /\ \A n \in 1..Len(log) : log'[n] = log[n]
  BY DEF Emit
<1>2. ASSUME Admitted(c) PROVE Admitted(c)'
  BY <1>1, <1>2 DEF Admitted
<1>3. ASSUME Admitted(c)' PROVE Admitted(c)
  <2>1. PICK n \in DOMAIN log' : log'[n].kind = "user" /\ log'[n].of = c
    BY <1>3 DEF Admitted
  <2>2. n # Len(log) + 1
    BY <1>1, <2>1
  <2>3. n \in 1..Len(log)
    BY <1>1, <2>1, <2>2
  <2> QED
    BY <1>1, <2>1, <2>3 DEF Admitted
<1> QED
  BY <1>2, <1>3

\* What the worker, the terminal user and other clients write.
Written ==
    \/ \E l \in Locals : LocalPrompt(l)
    \/ Worker
    \/ \E n \in DOMAIN log : AskAgain(n) \/ PeerAnswers(n) \/ Finish(n)

\* What they write fits the log.
LEMMA WrittenKept ==
  ASSUME TypeOK, LogOK, Written
  PROVE  LogStep /\ \A c \in Prompts : Admitted(c)' <=> Admitted(c)
<1> USE NamesAssumption, BoundsAssumption
<1>0. log \in Seq(Events) /\ Len(log) \in Nat /\ DOMAIN log = 1..Len(log) /\ \A n \in DOMAIN log : log[n] \in Events
  BY DEF TypeOK
<1>1. ASSUME NEW e \in Events, Fits(e), Emit(e), up' = up, \A c \in Prompts : e.kind # "user" \/ e.of # c
      PROVE  LogStep /\ \A c \in Prompts : Admitted(c)' <=> Admitted(c)
  <2>1. LogStep
    BY <1>0, <1>1, EmitKept DEF LogStep
  <2> QED
    BY <1>0, <1>1, <2>1, AppendAdmits
<1>2. ASSUME NEW l \in Locals, LocalPrompt(l)
      PROVE  LogStep /\ \A c \in Prompts : Admitted(c)' <=> Admitted(c)
  <2>1. PICK e : e = Event("user", l, NULL, "worker")
    OBVIOUS
  <2>2. Emit(e) /\ up' = up /\ \A n \in DOMAIN log : log[n].of # l
    BY <1>2, <2>1 DEF LocalPrompt
  <2>3. e.kind = "user" /\ e.of = l /\ e.src = "worker" /\ e \in Events
    BY <2>1 DEF Event, Events, Named, Values, Sources
  <2>4. Fits(e)
    BY <2>2, <2>3 DEF Fits
  <2> QED
    BY <1>1, <2>2, <2>3, <2>4
<1>3. ASSUME Echo PROVE LogStep /\ \A c \in Prompts : Admitted(c)' <=> Admitted(c)
  <2>1. PICK n \in DOMAIN log :
          /\ log[n].kind = "user" /\ log[n].src = "client"
          /\ \A m \in DOMAIN log : log[m].of = log[n].of => m <= n
          /\ \/ Emit(Event("echo", log[n].of, NULL, "worker"))
             \/ log' = [log EXCEPT ![n].src = "worker"] /\ Send(Item(n, "worker"))
    BY <1>3 DEF Echo
  <2>2. up' = up
    BY <1>3 DEF Echo
  <2>3. CASE Emit(Event("echo", log[n].of, NULL, "worker"))
    <3>1. PICK e : e = Event("echo", log[n].of, NULL, "worker")
      OBVIOUS
    <3>2. e.kind = "echo" /\ e.of = log[n].of /\ e.src = "worker" /\ e \in Events
      BY <1>0, <3>1 DEF Event, Events, Named, Values, Sources
    <3>3. log[n].of \in Prompts
      BY <2>1 DEF LogOK, EventOK
    <3>4. Fits(e)
      BY <2>1, <3>2, <3>3 DEF Fits
    <3> QED
      BY <1>1, <2>2, <2>3, <3>1, <3>2, <3>4
  <2>4. CASE log' = [log EXCEPT ![n].src = "worker"] /\ Send(Item(n, "worker"))
    <3>1. log' \in Seq(Events) /\ Grows /\ LogOK' /\ Len(log') = Len(log)
      BY <1>0, <2>1, <2>4, RelabelKept
    <3>2. PICK item : item = Item(n, "worker")
      OBVIOUS
    <3>3. item \in Items /\ item.seq = n /\ item.src = "worker"
      BY <1>0, <3>2 DEF Item, Items, Sources
    <3>4. log'[n].src = "worker" /\ DOMAIN log' = DOMAIN log
      BY <1>0, <2>4
    <3>5. ItemOK(item)'
      BY <3>3, <3>4 DEF ItemOK
    <3>6. buf' = IF up THEN Append(buf, item) ELSE buf
      BY <2>4, <3>2 DEF Send
    <3>7. LogStep
      BY <2>2, <3>1, <3>3, <3>5, <3>6 DEF LogStep, Sends
    <3>8. \A c \in Prompts : Admitted(c)' <=> Admitted(c)
      BY <3>1, <3>4 DEF Admitted, Grows
    <3> QED
      BY <3>7, <3>8
  <2> QED
    BY <2>1, <2>3, <2>4
<1>4. ASSUME NEW k \in Kinds, Output(k) PROVE LogStep /\ \A c \in Prompts : Admitted(c)' <=> Admitted(c)
  <2>1. PICK e : e = Event(k, NULL, NULL, "worker")
    OBVIOUS
  <2>2. Emit(e) /\ up' = up
    BY <1>4, <2>1 DEF Output
  <2>3. k \in {"reply", "ask"} /\ e.kind = k /\ e.of = NULL /\ e.src = "worker" /\ e \in Events
    BY <2>1 DEF Event, Events, Named, Values, Sources
  <2>4. Fits(e)
    BY <2>3 DEF Fits
  <2> QED
    BY <1>1, <2>2, <2>3, <2>4
<1>5. ASSUME NEW n \in DOMAIN log, NEW e \in Events, e.kind \in {"again", "answer", "result"}, e.of = n,
             log[n].kind = "ask",
             e.kind = "result" => \A m \in DOMAIN log : log[m].kind = "result" => log[m].of # n,
             Emit(e), up' = up
      PROVE  LogStep /\ \A c \in Prompts : Admitted(c)' <=> Admitted(c)
  <2>1. Fits(e)
    BY <1>5 DEF Fits
  <2> QED
    BY <1>1, <1>5, <2>1
<1>6. ASSUME NEW n \in DOMAIN log, AskAgain(n) PROVE LogStep /\ \A c \in Prompts : Admitted(c)' <=> Admitted(c)
  <2>1. PICK e : e = Event("again", n, NULL, "worker")
    OBVIOUS
  <2>2. Emit(e) /\ up' = up /\ log[n].kind = "ask"
    BY <1>6, <2>1 DEF AskAgain
  <2>3. e.kind = "again" /\ e.of = n /\ e \in Events
    BY <1>0, <2>1 DEF Event, Events, Named, Values, Sources
  <2> QED
    BY <1>5, <2>2, <2>3
<1>7. ASSUME NEW n \in DOMAIN log, PeerAnswers(n) PROVE LogStep /\ \A c \in Prompts : Admitted(c)' <=> Admitted(c)
  <2>1. PICK e : e = Event("answer", n, "peer", "client")
    OBVIOUS
  <2>2. Emit(e) /\ up' = up /\ log[n].kind = "ask"
    BY <1>7, <2>1 DEF PeerAnswers, Open
  <2>3. e.kind = "answer" /\ e.of = n /\ e \in Events
    BY <1>0, <2>1 DEF Event, Events, Named, Values, Sources
  <2> QED
    BY <1>5, <2>2, <2>3
<1>8. ASSUME NEW n \in DOMAIN log, Finish(n) PROVE LogStep /\ \A c \in Prompts : Admitted(c)' <=> Admitted(c)
  <2>1. PICK e : e = Event("result", n, NULL, "worker")
    OBVIOUS
  <2>2. Emit(e) /\ up' = up /\ log[n].kind = "ask" /\ \A m \in DOMAIN log : log[m].kind = "result" => log[m].of # n
    BY <1>8, <2>1 DEF Finish, Open
  <2>3. e.kind = "result" /\ e.of = n /\ e \in Events
    BY <1>0, <2>1 DEF Event, Events, Named, Values, Sources
  <2> QED
    BY <1>5, <2>2, <2>3
<1> QED
  BY <1>2, <1>3, <1>4, <1>6, <1>7, <1>8 DEF Written, Worker

\* A POST that the provider admits.
LEMMA AdmitKept ==
  ASSUME TypeOK, LogOK, NEW c, c \in Prompts => ~Admitted(c), c \in DOMAIN log => log[c].kind = "ask",
         Admit(c), up' = up
  PROVE  LogStep /\ model' \in Models /\ \A d \in Prompts : d # c => (Admitted(d)' <=> Admitted(d))
<1> USE NamesAssumption, BoundsAssumption
<1>0. log \in Seq(Events) /\ Len(log) \in Nat /\ DOMAIN log = 1..Len(log) /\ model \in Models
  BY DEF TypeOK
<1>1. ASSUME NEW e \in Events, Fits(e), Emit(e), \A d \in Prompts : d # c => e.kind # "user" \/ e.of # d
      PROVE  LogStep /\ \A d \in Prompts : d # c => (Admitted(d)' <=> Admitted(d))
  <2>1. LogStep
    BY <1>0, <1>1, EmitKept DEF LogStep
  <2> QED
    BY <1>0, <1>1, <2>1, AppendAdmits
<1>2. CASE AdmitText(c)
  <2>1. PICK e : e = Event("user", c, NULL, "client")
    OBVIOUS
  <2>2. Emit(e) /\ c \in Prompts /\ model' = model
    BY <1>2, <2>1 DEF AdmitText
  <2>3. e.kind = "user" /\ e.of = c /\ e.src = "client" /\ e \in Events
    BY <2>1, <2>2 DEF Event, Events, Named, Values, Sources
  <2>4. c \notin Locals
    BY <2>2
  <2>5. Fits(e)
    BY <2>2, <2>3, <2>4 DEF Fits, Admitted
  <2> QED
    BY <1>0, <1>1, <2>2, <2>3, <2>5
<1>3. CASE AdmitDecision(c)
  <2>1. PICK e : e = Event("answer", c, NULL, "client")
    OBVIOUS
  <2>2. Emit(e) /\ c \in DOMAIN log /\ model' = model
    BY <1>3, <2>1 DEF AdmitDecision
  <2>3. e.kind = "answer" /\ e.of = c /\ e \in Events
    BY <1>0, <2>1, <2>2 DEF Event, Events, Named, Values, Sources
  <2>4. Fits(e)
    BY <2>2, <2>3 DEF Fits
  <2> QED
    BY <1>0, <1>1, <2>2, <2>3, <2>4
<1>4. CASE AdmitInterrupt(c)
  <2>1. PICK e : e \in {Event("ok", c, NULL, "worker"), Event("fail", c, NULL, "worker")} /\ Emit(e)
    BY <1>4 DEF AdmitInterrupt
  <2>2. c \in Interrupts /\ model' = model
    BY <1>4 DEF AdmitInterrupt
  <2>3. e.kind \in {"ok", "fail"} /\ e \in Events
    BY <2>1, <2>2 DEF Event, Events, Named, Values, Sources
  <2>4. Fits(e)
    BY <2>3 DEF Fits
  <2> QED
    BY <1>0, <1>1, <2>1, <2>2, <2>3, <2>4
<1>5. CASE AdmitModelControl(c)
  <2>1. PICK e : e = Event("ok", c, model', "worker")
    OBVIOUS
  <2>2. Emit(e) /\ model' \in Models /\ c \in Named
    BY <1>0, <1>5, <2>1 DEF AdmitModelControl, Named, Read, TypeOK
  <2>3. e.kind = "ok" /\ e \in Events
    BY <2>1, <2>2 DEF Event, Events, Values, Sources
  <2>4. Fits(e)
    BY <2>3 DEF Fits
  <2> QED
    BY <1>1, <2>2, <2>3, <2>4
<1> QED
  BY <1>2, <1>3, <1>4, <1>5 DEF Admit

-----------------------------------------------------------------------------
(* What a step leaves as it was                                            *)

\* A step of the log that observes nothing.
LEMMA LogStepKept ==
  ASSUME ClaudeInv, LogStep, phase' = phase, hist' = hist, proj' \in Projections, Alike(proj, proj')
  PROVE  LogOK' /\ ProjOK(proj)' /\ StreamOK' /\ buf' \in Seq(Items)
<1>1. /\ log \in Seq(Events) /\ log' \in Seq(Events) /\ Grows /\ Sends /\ LogOK' /\ LogOK /\ StreamOK /\ ProjOK(proj)
      /\ buf \in Seq(Items) /\ hist \in Seq(Items) /\ proj \in Projections
  BY DEF ClaudeInv, TypeOK, LogStep
<1>2. proj.last \in Nat /\ proj'.last = proj.last
  BY <1>1 DEF Projections, Alike
<1>3. PICK p : p = proj
  OBVIOUS
<1>4. PICK r : r = proj'
  OBVIOUS
<1>5. ProjOK(p) /\ r \in Projections /\ Alike(p, r)
  BY <1>1, <1>3, <1>4
<1>6. ProjOK(r)
  BY <1>5, AlikeKept
<1>7. ProjOK(r)'
  BY <1>1, <1>6, ProjGrows
<1>8. ProjOK(proj)'
  BY <1>4, <1>7 DEF ProjOK, SeenOK, UsersOK, ShownOK, CardsOK, ItemOK
<1>9. buf' \in Seq(Items) /\ StreamOK'
  BY <1>1, <1>2, StreamSends
<1> QED
  BY <1>1, <1>8, <1>9

\* The same log, and what the reconciler knows of it afterwards.
LEMMA SameLog ==
  ASSUME LogOK, log' = log, NEW p, ProjOK(p), p = proj'
  PROVE  LogOK' /\ ProjOK(proj)'
<1>1. LogOK'
  BY DEF LogOK, EventOK
<1>2. ProjOK(proj)'
  BY DEF ProjOK, SeenOK, UsersOK, ShownOK, CardsOK, ItemOK
<1> QED
  BY <1>1, <1>2

\* The same stream, for a reconciler that has got as far.
LEMMA SameStream ==
  ASSUME StreamOK, log' = log, up' = up, buf' = buf, hist' = hist, phase' = phase, proj'.last = proj.last
  PROVE  StreamOK'
  BY DEF StreamOK, Covered, ItemOK

\* A step that touches neither the log nor what has been observed.
LEMMA StillKept ==
  ASSUME ClaudeInv, log' = log, up' = up, buf' = buf, hist' = hist, phase' = phase,
         proj' \in Projections, Alike(proj, proj')
  PROVE  LogOK' /\ ProjOK(proj)' /\ StreamOK'
<1>1. LogOK /\ StreamOK /\ ProjOK(proj)
  BY DEF ClaudeInv
<1>2. PICK p : p = proj
  OBVIOUS
<1>3. PICK r : r = proj'
  OBVIOUS
<1>4. ProjOK(p) /\ r \in Projections /\ Alike(p, r)
  BY <1>1, <1>2, <1>3
<1>5. ProjOK(r)
  BY <1>4, AlikeKept
<1>6. LogOK' /\ ProjOK(proj)'
  BY <1>1, <1>3, <1>5, SameLog
<1>7. proj'.last = proj.last
  BY DEF Alike
<1> QED
  BY <1>1, <1>6, <1>7, SameStream

\* The same texts, and a POST that goes on or ends.
LEMMA SameTexts ==
  ASSUME TextsOK, inbox' = inbox, asked' = asked, \A c \in Prompts : Admitted(c)' <=> Admitted(c),
         writer' = NULL \/ (writer # NULL /\ writer'.of = writer.of /\ (writer'.at # "applied" => writer.at # "applied"))
  PROVE  TextsOK'
<1>1. \A c : Ordered(c)' <=> Ordered(c)
  BY DEF Ordered
<1> QED
  BY <1>1 DEF TextsOK

\* The same log admits the same texts.
LEMMA SameAdmitted ==
  ASSUME log' = log
  PROVE  \A c \in Prompts : Admitted(c)' <=> Admitted(c)
  BY DEF Admitted

\* What was spent stays spent.
LEMMA AnswersKept ==
  ASSUME AnswersOK, After(proj, proj'),
         \A i \in DOMAIN inbox' : inbox'[i] \in Int =>
            inbox'[i] \in proj.asks \/ \E j \in DOMAIN inbox : inbox[j] = inbox'[i],
         writer' # NULL /\ writer'.of \in Int =>
            (writer # NULL /\ writer.of = writer'.of) \/
            (writer'.of \in proj'.asks /\ writer'.of \notin proj'.open \ proj'.used),
         \A n \in acked' : n \in Int => n \in acked \/ (writer # NULL /\ n = writer.of) \/
            (n \in proj'.asks /\ n \notin proj'.open \ proj'.used)
  PROVE  AnswersOK'
<1>1. \A n : Spent(n) => n \in proj'.asks /\ n \notin proj'.open \ proj'.used
  BY DEF Spent, After
<1>2. proj.asks \subseteq proj'.asks
  BY DEF After
<1>3. \A i \in DOMAIN inbox' : inbox'[i] \in Int => inbox'[i] \in proj'.asks
  BY <1>2 DEF AnswersOK
<1>4. writer' # NULL /\ writer'.of \in Int => writer'.of \in proj'.asks /\ writer'.of \notin proj'.open \ proj'.used
  BY <1>1 DEF AnswersOK
<1>5. \A n \in acked' : n \in Int => n \in proj'.asks /\ n \notin proj'.open \ proj'.used
  BY <1>1 DEF AnswersOK
<1> QED
  BY <1>3, <1>4, <1>5 DEF AnswersOK, Spent

\* The same decisions, about cards of which more is known.
LEMMA SameAnswers ==
  ASSUME AnswersOK, After(proj, proj'), inbox' = inbox,
         writer' = NULL \/ (writer # NULL /\ writer'.of = writer.of), acked' = acked
  PROVE  AnswersOK'
  BY AnswersKept DEF AnswersOK

\* Equal knowledge is a continuation.
LEMMA AlikeAfter ==
  ASSUME NEW p, NEW r, Alike(p, r), r.reading \in {0, p.reading}
  PROVE  After(p, r)
  BY DEF Alike, After

-----------------------------------------------------------------------------
(* The invariant, step by step                                             *)

\* The worker, the terminal user and other clients disturb the log and the stream only.
LEMMA WrittenStep ==
  ASSUME ClaudeInv, Written
  PROVE  ClaudeInv'
<1>1. /\ model' = model /\ up' = up /\ UNCHANGED Companion
  BY DEF Written, Worker, LocalPrompt, Echo, Output, AskAgain, PeerAnswers, Finish
<1>2. /\ phase' = phase /\ hist' = hist /\ proj' = proj /\ inbox' = inbox /\ writer' = writer /\ acked' = acked
      /\ strays' = strays /\ asked' = asked /\ reads' = reads /\ since' = since
  BY <1>1 DEF Companion, capture
<1>3. TypeOK /\ LogOK /\ TextsOK /\ AnswersOK /\ ReadsOK
  BY DEF ClaudeInv
<1>4. LogStep /\ \A c \in Prompts : Admitted(c)' <=> Admitted(c)
  BY <1>3, WrittenKept
<1>5. proj' \in Projections /\ Alike(proj, proj') /\ After(proj, proj')
  BY <1>2, <1>3 DEF TypeOK, Alike, After
<1>6. LogOK' /\ ProjOK(proj)' /\ StreamOK' /\ buf' \in Seq(Items)
  BY <1>2, <1>4, <1>5, LogStepKept
<1>7. TypeOK'
  BY <1>1, <1>2, <1>3, <1>4, <1>6 DEF TypeOK, LogStep
<1>8. TextsOK'
  BY <1>2, <1>3, <1>4, SameTexts
<1>9. AnswersOK'
  BY <1>2, <1>3, <1>5, SameAnswers
<1>10. ReadsOK'
  BY <1>2, <1>3 DEF ReadsOK
<1> QED
  BY <1>6, <1>7, <1>8, <1>9, <1>10 DEF ClaudeInv

\* Only what was asked for is posted, and only what is no text and no decision strays.
LEMMA ApplyPostStep ==
  ASSUME ClaudeInv, ApplyPost
  PROVE  ClaudeInv'
<1>1. TypeOK /\ LogOK /\ TextsOK /\ AnswersOK /\ ReadsOK /\ ProjOK(proj)
  BY DEF ClaudeInv
<1>2. /\ writer # NULL /\ writer.at = "sent" /\ Admit(writer.of) /\ writer' = [writer EXCEPT !.at = "applied"]
      /\ up' = up /\ phase' = phase /\ hist' = hist /\ proj' = proj /\ inbox' = inbox /\ acked' = acked
      /\ strays' = strays /\ asked' = asked /\ reads' = reads /\ since' = since
  BY DEF ApplyPost, capture
<1>3. PICK c : c = writer.of
  OBVIOUS
<1>4. writer \in Posts /\ c \in Commands \union Int
  BY <1>1, <1>2, <1>3 DEF TypeOK, Posts
<1>5. writer' \in Posts /\ writer'.of = c /\ writer'.at = "applied"
  BY <1>2, <1>3, <1>4 DEF Posts
<1>6. c \in Prompts => ~Admitted(c) /\ Ordered(c)
  BY <1>1, <1>2, <1>3 DEF TextsOK
<1>7. c \in DOMAIN log => log[c].kind = "ask"
  <2> SUFFICES ASSUME c \in DOMAIN log PROVE log[c].kind = "ask"
    OBVIOUS
  <2>1. c \in Int
    BY <1>1 DEF TypeOK
  <2>2. c \in proj.asks
    BY <1>1, <1>2, <1>3, <2>1 DEF AnswersOK, Spent
  <2> QED
    BY <1>1, <2>2 DEF ProjOK, CardsOK
<1>8. LogStep /\ model' \in Models /\ \A d \in Prompts : d # c => (Admitted(d)' <=> Admitted(d))
  BY <1>1, <1>2, <1>3, <1>6, <1>7, AdmitKept
<1>9. proj' \in Projections /\ Alike(proj, proj') /\ After(proj, proj')
  BY <1>1, <1>2 DEF TypeOK, Alike, After
<1>10. LogOK' /\ ProjOK(proj)' /\ StreamOK' /\ buf' \in Seq(Items)
  BY <1>2, <1>8, <1>9, LogStepKept
<1>11. TypeOK'
  BY <1>1, <1>2, <1>5, <1>8, <1>10 DEF TypeOK, LogStep
<1>12. TextsOK'
  <2>1. \A d : Ordered(d)' <=> Ordered(d)
    BY <1>2 DEF Ordered
  <2>2. \A d \in Prompts : Admitted(d)' => Ordered(d)'
    BY <1>1, <1>6, <1>8, <2>1 DEF TextsOK
  <2>3. ASSUME NEW i \in DOMAIN inbox', inbox'[i] \in Prompts
        PROVE /\ Ordered(inbox'[i]) /\ ~Admitted(inbox'[i])
              /\ \A j \in DOMAIN inbox : i # j => inbox'[i] # inbox[j]
              /\ inbox'[i] # c
    BY <1>1, <1>2, <1>3, <2>3 DEF TextsOK
  <2>4. ASSUME NEW i \in DOMAIN inbox', inbox'[i] \in Prompts
        PROVE /\ Ordered(inbox[i])' /\ ~Admitted(inbox[i])'
    <3>1. PICK d : d = inbox'[i]
      OBVIOUS
    <3>2. d \in Prompts /\ Ordered(d)' /\ ~Admitted(d)'
      BY <1>8, <2>1, <2>3, <2>4, <3>1
    <3> QED
      BY <3>1, <3>2 DEF Ordered, Admitted
  <2>5. writer' # NULL /\ writer'.of \in Prompts =>
          Ordered(writer.of)' /\ writer'.at = "applied"
    BY <1>5, <1>6, <2>1 DEF Ordered
  <2> QED
    BY <1>2, <1>5, <2>2, <2>3, <2>4, <2>5 DEF TextsOK
<1>13. AnswersOK'
  BY <1>1, <1>2, <1>3, <1>5, <1>9, SameAnswers
<1>14. ReadsOK'
  BY <1>1, <1>2 DEF ReadsOK
<1> QED
  BY <1>10, <1>11, <1>12, <1>13, <1>14 DEF ClaudeInv

\* A read of the settings ends and leaves the rest alone.
LEMMA ReadEndsIs ==
  ASSUME NEW p \in Projections, NEW r, r = ReadEnds(p)
  PROVE  r \in Projections /\ Alike(p, r) /\ r.reading = p.reading
  BY DEF ReadEnds, Projections, Alike

LEMMA ApplyReadStep ==
  ASSUME ClaudeInv, ApplyRead
  PROVE  ClaudeInv'
<1>1. TypeOK /\ LogOK /\ TextsOK /\ AnswersOK /\ ReadsOK /\ ProjOK(proj) /\ reads \in Nat /\ proj \in Projections
  BY DEF ClaudeInv, TypeOK
<1>2. /\ Admit(Read(reads)) /\ proj' = ReadEnds(proj)
      /\ up' = up /\ phase' = phase /\ hist' = hist /\ inbox' = inbox /\ acked' = acked /\ writer' = writer
      /\ strays' = strays /\ asked' = asked /\ reads' = reads /\ since' = since
  BY DEF ApplyRead, capture
<1>3. PICK c : c = Read(reads)
  OBVIOUS
<1>4. c \in Int /\ c <= 0
  BY <1>1, <1>3 DEF Read
<1>5. c \notin Prompts /\ c \notin DOMAIN log
  BY <1>1, <1>4, NamesAssumption DEF TypeOK
<1>6. LogStep /\ model' \in Models /\ \A d \in Prompts : d # c => (Admitted(d)' <=> Admitted(d))
  BY <1>1, <1>2, <1>3, <1>5, AdmitKept
<1>7. proj' \in Projections /\ Alike(proj, proj') /\ proj'.reading = proj.reading
  BY <1>1, <1>2, ReadEndsIs
<1>8. After(proj, proj')
  BY <1>7, AlikeAfter
<1>9. LogOK' /\ ProjOK(proj)' /\ StreamOK' /\ buf' \in Seq(Items)
  BY <1>2, <1>6, <1>7, LogStepKept
<1>10. TypeOK'
  BY <1>1, <1>2, <1>6, <1>7, <1>9 DEF TypeOK, LogStep
<1>11. \A d \in Prompts : Admitted(d)' <=> Admitted(d)
  BY <1>5, <1>6
<1>12. TextsOK'
  BY <1>1, <1>2, <1>11, SameTexts
<1>13. AnswersOK'
  BY <1>1, <1>2, <1>8, SameAnswers
<1>14. ReadsOK'
  BY <1>1, <1>2, <1>7 DEF ReadsOK
<1> QED
  BY <1>9, <1>10, <1>12, <1>13, <1>14 DEF ClaudeInv

LEMMA ApplyStrayStep ==
  ASSUME ClaudeInv, ApplyStray
  PROVE  ClaudeInv'
<1>1. TypeOK /\ LogOK /\ TextsOK /\ AnswersOK /\ ReadsOK /\ ProjOK(proj)
  BY DEF ClaudeInv
<1>2. PICK c \in strays : Admit(c) /\ strays' = strays \ {c}
  BY DEF ApplyStray
<1>3. /\ up' = up /\ phase' = phase /\ hist' = hist /\ inbox' = inbox /\ acked' = acked /\ writer' = writer
      /\ proj' = proj /\ asked' = asked /\ reads' = reads /\ since' = since
  BY DEF ApplyStray, capture
<1>4. c \in Models \/ (c \in Int /\ c <= 0)
  BY <1>1, <1>2 DEF TypeOK
<1>5. c \notin Prompts /\ c \notin DOMAIN log
  BY <1>1, <1>4, NamesAssumption DEF TypeOK
<1>6. LogStep /\ model' \in Models /\ \A d \in Prompts : d # c => (Admitted(d)' <=> Admitted(d))
  BY <1>1, <1>2, <1>3, <1>5, AdmitKept
<1>7. proj' \in Projections /\ Alike(proj, proj') /\ After(proj, proj')
  BY <1>1, <1>3 DEF TypeOK, Alike, After
<1>8. LogOK' /\ ProjOK(proj)' /\ StreamOK' /\ buf' \in Seq(Items)
  BY <1>3, <1>6, <1>7, LogStepKept
<1>9. TypeOK'
  BY <1>1, <1>2, <1>3, <1>6, <1>8 DEF TypeOK, LogStep
<1>10. \A d \in Prompts : Admitted(d)' <=> Admitted(d)
  BY <1>5, <1>6
<1>11. TextsOK'
  BY <1>1, <1>3, <1>10, SameTexts
<1>12. AnswersOK'
  BY <1>1, <1>3, <1>7, SameAnswers
<1>13. ReadsOK'
  BY <1>1, <1>3 DEF ReadsOK
<1> QED
  BY <1>8, <1>9, <1>11, <1>12, <1>13 DEF ClaudeInv

\* What is not the capture pump's is left alone by a step of the stream.
Aside == UNCHANGED <<log, proj, inbox, writer, acked, strays, asked, reads, since>>

LEMMA AsideKept ==
  ASSUME ClaudeInv, Aside, model' \in Models, up' \in BOOLEAN, buf' \in Seq(Items), hist' \in Seq(Items),
         phase' \in {"open", "read", "accept", "live"}, StreamOK'
  PROVE  ClaudeInv'
<1>1. TypeOK /\ LogOK /\ TextsOK /\ AnswersOK /\ ReadsOK /\ ProjOK(proj)
  BY DEF ClaudeInv
<1>2. /\ log' = log /\ proj' = proj /\ inbox' = inbox /\ writer' = writer /\ acked' = acked /\ strays' = strays
      /\ asked' = asked /\ reads' = reads /\ since' = since
  BY DEF Aside
<1>3. LogOK' /\ ProjOK(proj)'
  <2>1. PICK p : p = proj
    OBVIOUS
  <2>2. ProjOK(p) /\ p = proj'
    BY <1>1, <1>2, <2>1
  <2> QED
    BY <1>1, <1>2, <2>2, SameLog
<1>4. After(proj, proj')
  BY <1>2 DEF After
<1>5. TypeOK'
  BY <1>1, <1>2 DEF TypeOK
<1>6. TextsOK'
  BY <1>1, <1>2, SameTexts, SameAdmitted
<1>7. AnswersOK'
  BY <1>1, <1>2, <1>4, SameAnswers
<1>8. ReadsOK'
  BY <1>1, <1>2 DEF ReadsOK
<1> QED
  BY <1>3, <1>5, <1>6, <1>7, <1>8 DEF ClaudeInv

\* The terminal user's choice of model is in no event.
LEMMA LocalModelStep ==
  ASSUME ClaudeInv, NEW m \in Models, LocalModel(m)
  PROVE  ClaudeInv'
<1>1. TypeOK /\ StreamOK
  BY DEF ClaudeInv
<1>2. Aside /\ model' = m /\ up' = up /\ buf' = buf /\ hist' = hist /\ phase' = phase
  BY DEF LocalModel, Aside, Companion, capture, stream
<1>3. StreamOK'
  BY <1>1, <1>2, SameStream DEF Aside
<1> QED
  BY <1>1, <1>2, <1>3, AsideKept DEF TypeOK

\* A stream that is lost has nothing more to give.
LEMMA LostStream ==
  ASSUME StreamOK, log \in Seq(Events), log' = log, hist' = hist, up' = FALSE, buf' = <<>>
  PROVE  StreamOK'
<1>1. \A b : Covered(b)'
  BY DEF Covered
<1>2. \A k \in DOMAIN hist' : hist'[k].seq = k /\ ItemOK(hist[k])'
  BY DEF StreamOK, ItemOK
<1>3. phase' = "read" => \E b \in 0..Len(log') : Covered(b)'
  <2>1. 0 \in 0..Len(log')
    OBVIOUS
  <2> QED
    BY <1>1, <2>1
<1>4. Covered(Len(hist))' /\ Covered(proj.last)'
  BY DEF Covered
<1>5. Len(hist') <= Len(log')
  BY DEF StreamOK
<1> QED
  BY <1>2, <1>3, <1>4, <1>5 DEF StreamOK

\* The connection is lost, a page fails, or the stream ends.
LEMMA DropStep ==
  ASSUME ClaudeInv, Drop
  PROVE  ClaudeInv'
<1>1. TypeOK /\ StreamOK
  BY DEF ClaudeInv
<1>2. Aside /\ model' = model /\ up' = FALSE /\ buf' = <<>> /\ hist' = hist /\ phase' = phase
  BY DEF Drop, Aside, Companion, capture, provider
<1>3. log \in Seq(Events) /\ log' = log /\ buf' \in Seq(Items)
  BY <1>1, <1>2 DEF Aside, TypeOK
<1>4. StreamOK'
  BY <1>1, <1>2, <1>3, LostStream
<1> QED
  BY <1>1, <1>2, <1>3, <1>4, AsideKept DEF TypeOK

LEMMA CaptureFailsStep ==
  ASSUME ClaudeInv, CaptureFails
  PROVE  ClaudeInv'
<1>1. TypeOK /\ StreamOK
  BY DEF ClaudeInv
<1>2. Aside /\ model' = model /\ up' = FALSE /\ buf' = <<>> /\ hist' = hist /\ phase' = "open"
  BY DEF CaptureFails, Aside, Writers, provider
<1>3. log \in Seq(Events) /\ log' = log /\ buf' \in Seq(Items)
  BY <1>1, <1>2 DEF Aside, TypeOK
<1>4. StreamOK'
  BY <1>1, <1>2, <1>3, LostStream
<1> QED
  BY <1>1, <1>2, <1>3, <1>4, AsideKept DEF TypeOK

LEMMA StreamEndedStep ==
  ASSUME ClaudeInv, StreamEnded
  PROVE  ClaudeInv'
<1>1. TypeOK /\ StreamOK
  BY DEF ClaudeInv
<1>2. Aside /\ model' = model /\ up' = FALSE /\ up' = up /\ buf' = <<>> /\ hist' = hist /\ phase' = "open"
  BY <1>1 DEF StreamEnded, Aside, Writers, provider, stream, TypeOK
<1>3. log \in Seq(Events) /\ log' = log /\ buf' \in Seq(Items)
  BY <1>1, <1>2 DEF Aside, TypeOK
<1>4. StreamOK'
  BY <1>1, <1>2, <1>3, LostStream
<1> QED
  BY <1>1, <1>2, <1>3, <1>4, AsideKept DEF TypeOK

\* The stream is open before history is read: it gives whatever comes behind the log of then.
LEMMA OpenConnectionStep ==
  ASSUME ClaudeInv, OpenConnection
  PROVE  ClaudeInv'
<1>1. TypeOK /\ StreamOK
  BY DEF ClaudeInv
<1>2. Aside /\ model' = model /\ up' = TRUE /\ buf' = <<>> /\ hist' = <<>> /\ phase' = "read"
  BY DEF OpenConnection, Aside, Writers, provider
<1>3. Len(log) \in Nat /\ log' = log
  BY <1>1, <1>2 DEF TypeOK, Aside
<1>4. \E b \in 0..Len(log') : Covered(b)'
  <2>1. PICK b : b = Len(log)
    OBVIOUS
  <2>2. Covered(b)'
    BY <1>2, <1>3, <2>1 DEF Covered
  <2> QED
    BY <1>3, <2>1, <2>2
<1>5. StreamOK'
  BY <1>2, <1>3, <1>4 DEF StreamOK
<1>6. buf' \in Seq(Items) /\ hist' \in Seq(Items)
  BY <1>2
<1> QED
  BY <1>1, <1>2, <1>5, <1>6, AsideKept DEF TypeOK

\* The last page ends the log of now, and what the stream has given since then suffices.
LEMMA ReadPageStep ==
  ASSUME ClaudeInv, ReadPage
  PROVE  ClaudeInv'
<1> DEFINE to == IF Len(hist) + PageSize < Len(log) THEN Len(hist) + PageSize ELSE Len(log)
           page == [k \in 1..(to - Len(hist)) |-> Item(Len(hist) + k, log[Len(hist) + k].src)]
<1>1. TypeOK /\ StreamOK
  BY DEF ClaudeInv
<1>2. /\ Aside /\ model' = model /\ up' = up /\ buf' = buf /\ phase = "read" /\ hist' = hist \o page
      /\ phase' \in IF to = Len(hist) THEN {"accept"} ELSE IF to = Len(log) THEN {"accept", "read"} ELSE {"read"}
  BY DEF ReadPage, Aside, Writers, provider, stream
<1>3. /\ log \in Seq(Events) /\ hist \in Seq(Items) /\ buf \in Seq(Items) /\ up \in BOOLEAN
      /\ Len(log) \in Nat /\ Len(hist) \in Nat /\ log' = log /\ Len(hist) <= Len(log) /\ PageSize \in Nat \ {0}
  BY <1>1, <1>2, BoundsAssumption DEF TypeOK, StreamOK, Aside
<1>4. to \in Nat /\ Len(hist) <= to /\ to <= Len(log) /\ (to = Len(hist) => to = Len(log))
  BY <1>3
<1>5. phase' = "accept" => to = Len(log)
  BY <1>2, <1>4
<1>6. phase' \in {"read", "accept"}
  BY <1>2
<1> HIDE DEF to
<1>7. /\ page \in Seq(Items) /\ Len(page) = to - Len(hist)
      /\ \A k \in 1..(to - Len(hist)) : page[k].seq = Len(hist) + k /\ page[k].src = log[Len(hist) + k].src
  <2>1. to - Len(hist) \in Nat
    BY <1>3, <1>4
  <2>2. \A k \in 1..(to - Len(hist)) : log[Len(hist) + k] \in Events
    BY <1>3, <1>4
  <2>3. \A k \in 1..(to - Len(hist)) : Item(Len(hist) + k, log[Len(hist) + k].src) \in Items
    BY <1>3, <2>2 DEF Item, Items, Events
  <2> QED
    BY <2>1, <2>3 DEF Item
<1> HIDE DEF page
<1>8. hist' \in Seq(Items) /\ Len(hist') = to
  <2>1. hist' = hist \o page
    BY <1>2
  <2>2. Len(hist') = Len(hist) + Len(page) /\ hist' \in Seq(Items)
    BY <1>3, <1>7, <2>1
  <2> QED
    BY <1>3, <1>4, <1>7, <2>2
<1>9. \A k \in DOMAIN hist' : hist'[k].seq = k /\ ItemOK(hist[k])'
  <2> SUFFICES ASSUME NEW k \in 1..to PROVE hist'[k].seq = k /\ ItemOK(hist[k])'
    BY <1>8
  <2>1. CASE k \in 1..Len(hist)
    <3>1. hist'[k] = hist[k]
      BY <1>2, <1>3, <1>4, <1>7, <2>1
    <3> QED
      BY <1>1, <1>3, <2>1, <3>1 DEF StreamOK, ItemOK
  <2>2. CASE k \notin 1..Len(hist)
    <3>1. k - Len(hist) \in 1..(to - Len(hist)) /\ Len(hist) + (k - Len(hist)) = k
      BY <1>3, <1>4, <2>2
    <3>2. hist'[k] = page[k - Len(hist)]
      BY <1>2, <1>3, <1>4, <1>7, <2>2
    <3>3. hist'[k].seq = k /\ hist'[k].src = log[k].src
      BY <1>7, <3>1, <3>2
    <3>4. k \in DOMAIN log
      BY <1>3, <1>4
    <3> QED
      BY <1>3, <3>3, <3>4 DEF ItemOK
  <2> QED
    BY <2>1, <2>2
<1>10. PICK b \in 0..Len(log) : Covered(b)
  BY <1>1, <1>2 DEF StreamOK
<1>11. phase' = "read" => \E c \in 0..Len(log') : Covered(c)'
  BY <1>2, <1>3, <1>10 DEF Covered
<1>12. phase' = "accept" => Covered(Len(hist))'
  <2>1. PICK c : c = Len(log)
    OBVIOUS
  <2>2. Covered(c)
    BY <1>3, <1>10, <2>1, CoveredUp
  <2> QED
    BY <1>2, <1>3, <1>5, <1>8, <2>1, <2>2 DEF Covered
<1>13. \A i \in DOMAIN buf' : ItemOK(buf[i])'
  BY <1>1, <1>2, <1>3 DEF StreamOK, ItemOK
<1>14. Len(hist') <= Len(log') /\ (~up' => buf' = <<>>)
  BY <1>1, <1>2, <1>3, <1>4, <1>8 DEF StreamOK
<1>15. StreamOK'
  BY <1>6, <1>9, <1>11, <1>12, <1>13, <1>14 DEF StreamOK
<1> QED
  BY <1>1, <1>2, <1>3, <1>6, <1>8, <1>15, AsideKept DEF TypeOK

\* A step that observes.
LEMMA PumpKept ==
  ASSUME ClaudeInv, UNCHANGED <<log, model, up, inbox, writer, acked, strays, asked, reads, since>>,
         ProjOK(proj)', After(proj, proj'),
         buf' \in Seq(Items), hist' \in Seq(Items), phase' = "live", StreamOK'
  PROVE  ClaudeInv'
<1>1. TypeOK /\ LogOK /\ TextsOK /\ AnswersOK /\ ReadsOK
  BY DEF ClaudeInv
<1>2. /\ log' = log /\ model' = model /\ up' = up /\ inbox' = inbox /\ writer' = writer /\ acked' = acked
      /\ strays' = strays /\ asked' = asked /\ reads' = reads /\ since' = since
  OBVIOUS
<1>3. LogOK'
  BY <1>1, <1>2 DEF LogOK, EventOK
<1>4. proj' \in Projections
  BY DEF ProjOK
<1>6. TypeOK'
  BY <1>1, <1>2, <1>4 DEF TypeOK
<1>7. TextsOK'
  BY <1>1, <1>2, SameTexts, SameAdmitted
<1>8. AnswersOK'
  BY <1>1, <1>2, SameAnswers
<1>9. ReadsOK'
  BY <1>1, <1>2 DEF ReadsOK, After
<1> QED
  BY <1>3, <1>6, <1>7, <1>8, <1>9 DEF ClaudeInv

\* The pages hold the log from its start, and the stream goes on behind them.
LEMMA ReconcileHistoryStep ==
  ASSUME ClaudeInv, ReconcileHistory
  PROVE  ClaudeInv'
<1>1. TypeOK /\ LogOK /\ ProjOK(proj) /\ StreamOK
  BY DEF ClaudeInv
<1>2. PICK p, h, r : p = proj /\ h = hist /\ r = Accepted(p, h, FALSE)
  OBVIOUS
<1>3. /\ UNCHANGED <<log, model, up, inbox, writer, acked, strays, asked, reads, since>>
      /\ phase = "accept" /\ proj' = Refresh(r) /\ phase' = "live" /\ hist' = <<>> /\ buf' = buf
  BY <1>2 DEF ReconcileHistory, provider, stream, Writers
<1>4. log \in Seq(Events) /\ ProjOK(p) /\ p.last \in Nat /\ h \in Seq(Items) /\ Len(h) \in Nat /\ buf \in Seq(Items)
      /\ \A k \in DOMAIN h : h[k].seq = k /\ ItemOK(h[k])
  BY <1>1, <1>2 DEF TypeOK, ProjOK, Projections, StreamOK
<1>5. Follow(h, p.last)
  <2>1. ASSUME NEW i \in DOMAIN h, NEW q \in (p.last + 1)..(h[i].seq - 1) PROVE \E j \in 1..(i - 1) : h[j].seq = q
    <3>1. h[i].seq = i /\ i \in 1..Len(h) /\ q \in 1..(i - 1)
      BY <1>4
    <3>2. q \in DOMAIN h
      BY <1>4, <3>1
    <3> QED
      BY <1>4, <3>1, <3>2
  <2> QED
    BY <1>4, <2>1 DEF Follow
<1>6. ProjOK(r) /\ After(p, r) /\ p.last <= r.last /\ \A j \in DOMAIN h : h[j].seq <= r.last
  BY <1>1, <1>2, <1>4, <1>5, AcceptedKept
<1>7. PICK s : s = Refresh(r)
  OBVIOUS
<1>8. s \in Projections /\ Alike(r, s) /\ s.reading = r.reading
  BY <1>6, <1>7, RefreshIs DEF ProjOK
<1>9. ProjOK(s)
  BY <1>6, <1>8, AlikeKept
<1>10. After(p, s)
  BY <1>6, <1>8, AlikeAfter, AfterAfter
<1>11. ProjOK(proj)'
  BY <1>1, <1>3, <1>7, <1>9, SameLog
<1>12. s.last \in Nat /\ Len(h) <= s.last
  <2>1. s.last = r.last /\ r.last \in Nat
    BY <1>6, <1>8 DEF Alike, ProjOK, Projections
  <2>2. CASE Len(h) = 0
    BY <2>1, <2>2
  <2>3. CASE Len(h) # 0
    BY <1>4, <1>6, <2>1, <2>3
  <2> QED
    BY <2>1, <2>2, <2>3
<1>13. Covered(s.last)
  <2>1. PICK b : b = Len(h)
    OBVIOUS
  <2>2. Covered(b) /\ b \in Nat
    BY <1>1, <1>2, <1>3, <1>4, <2>1 DEF StreamOK
  <2> QED
    BY <1>4, <1>12, <2>1, <2>2, CoveredUp
<1>14. up' = up /\ log' = log
  BY <1>3
<1>15. Covered(proj.last)'
  BY <1>3, <1>7, <1>13, <1>14 DEF Covered
<1>16. StreamOK'
  <2>1. (\A i \in DOMAIN buf' : ItemOK(buf[i])') /\ (~up' => buf' = <<>>)
    BY <1>1, <1>3, <1>14 DEF StreamOK, ItemOK
  <2>2. Len(hist') <= Len(log') /\ DOMAIN hist' = {}
    BY <1>3, <1>4, <1>14
  <2> QED
    BY <1>3, <1>15, <2>1, <2>2 DEF StreamOK
<1>17. buf' \in Seq(Items) /\ hist' \in Seq(Items)
  BY <1>3, <1>4
<1>18. After(proj, proj')
  BY <1>2, <1>3, <1>7, <1>10
<1> QED
  BY <1>3, <1>11, <1>16, <1>17, <1>18, PumpKept

\* What has arrived goes on behind what was seen, and then nothing is waiting.
LEMMA ConsumeStep ==
  ASSUME ClaudeInv, Consume
  PROVE  ClaudeInv'
<1>1. TypeOK /\ LogOK /\ ProjOK(proj) /\ StreamOK
  BY DEF ClaudeInv
<1>2. PICK p, b, r : p = proj /\ b = buf /\ r = Accepted(p, b, TRUE)
  OBVIOUS
<1>3. /\ UNCHANGED <<log, model, up, inbox, writer, acked, strays, asked, reads, since>>
      /\ phase = "live" /\ phase' = "live" /\ proj' = r /\ hist' = hist /\ buf' = <<>>
  BY <1>2 DEF Consume, provider, capture, Writers
<1>4. log \in Seq(Events) /\ ProjOK(p) /\ p.last \in Nat /\ b \in Seq(Items) /\ hist \in Seq(Items)
  BY <1>1, <1>2 DEF TypeOK, ProjOK, Projections
<1>5. Covered(p.last) /\ \A i \in DOMAIN b : ItemOK(b[i])
  BY <1>1, <1>2, <1>3 DEF StreamOK
<1>6. Follow(b, p.last)
  BY <1>2, <1>4, <1>5 DEF Follow, Covered
<1>7. ProjOK(r) /\ After(p, r) /\ p.last <= r.last /\ \A j \in DOMAIN b : b[j].seq <= r.last
  BY <1>1, <1>2, <1>4, <1>6, AcceptedKept
<1>8. ProjOK(proj)'
  BY <1>1, <1>3, <1>7, SameLog
<1>9. up' = up /\ log' = log /\ r.last \in Nat /\ Len(log) \in Nat
  BY <1>3, <1>4, <1>7 DEF ProjOK, Projections
<1>10. up => \A q \in (r.last + 1)..Len(log) : FALSE
  <2> SUFFICES ASSUME up, NEW q \in (r.last + 1)..Len(log) PROVE FALSE
    OBVIOUS
  <2>1. q \in (p.last + 1)..Len(log)
    BY <1>4, <1>7, <1>9
  <2>2. PICK i \in DOMAIN b : b[i].seq = q
    BY <1>2, <1>5, <2>1 DEF Covered
  <2> QED
    BY <1>7, <1>9, <2>2
<1>11. Covered(proj.last)'
  BY <1>3, <1>9, <1>10 DEF Covered
<1>12. StreamOK'
  <2>1. Len(hist') <= Len(log') /\ \A k \in DOMAIN hist' : hist'[k].seq = k /\ ItemOK(hist[k])'
    BY <1>1, <1>3, <1>9 DEF StreamOK, ItemOK
  <2>2. DOMAIN buf' = {}
    BY <1>3
  <2> QED
    BY <1>3, <1>11, <2>1, <2>2 DEF StreamOK
<1>13. buf' \in Seq(Items) /\ hist' \in Seq(Items)
  BY <1>3, <1>4
<1>14. After(proj, proj')
  BY <1>2, <1>3, <1>7
<1> QED
  BY <1>3, <1>8, <1>12, <1>13, <1>14, PumpKept

\* What is not the writers' is left alone by their steps.
Calm == UNCHANGED <<log, model, up, buf, hist, phase>>

\* A step of the writers that keeps what has been observed.
LEMMA CalmKept ==
  ASSUME ClaudeInv, Calm, proj' \in Projections, Alike(proj, proj'),
         inbox' \in Seq(Commands \union Int), writer' \in Posts \union {NULL}, acked' \subseteq Commands \union Int,
         \A c \in strays' : c \in Models \/ (c \in Int /\ c <= 0),
         asked' \in Seq(Commands \union Int), reads' \in Nat, since' \in Nat,
         TextsOK', AnswersOK', ReadsOK'
  PROVE  ClaudeInv'
<1>1. TypeOK
  BY DEF ClaudeInv
<1>2. LogOK' /\ ProjOK(proj)' /\ StreamOK'
  BY StillKept DEF Calm
<1>3. TypeOK'
  BY <1>1 DEF TypeOK, Calm
<1> QED
  BY <1>2, <1>3 DEF ClaudeInv

\* A command that a viewer sends.
LEMMA OrderedMore ==
  ASSUME TypeOK, NEW c \in Commands \union Int, inbox' = Append(inbox, c), asked' = Append(asked, c)
  PROVE  /\ inbox' \in Seq(Commands \union Int) /\ asked' \in Seq(Commands \union Int)
         /\ \A d : Ordered(d)' <=> Ordered(d) \/ d = c
         /\ \A i \in DOMAIN inbox' : (i \in DOMAIN inbox /\ inbox'[i] = inbox[i]) \/ (i = Len(inbox) + 1 /\ inbox'[i] = c)
<1>1. inbox \in Seq(Commands \union Int) /\ asked \in Seq(Commands \union Int)
  BY DEF TypeOK
<1>2. /\ Len(asked) \in Nat /\ DOMAIN asked = 1..Len(asked) /\ DOMAIN asked' = 1..(Len(asked) + 1)
      /\ asked'[Len(asked) + 1] = c /\ \A i \in 1..Len(asked) : asked'[i] = asked[i]
  BY <1>1
<1>3. \A d : Ordered(d)' <=> Ordered(d) \/ d = c
  <2> SUFFICES ASSUME NEW d PROVE Ordered(d)' <=> Ordered(d) \/ d = c
    OBVIOUS
  <2>1. ASSUME Ordered(d)' PROVE Ordered(d) \/ d = c
    <3>1. PICK i \in DOMAIN asked' : asked'[i] = d
      BY <2>1 DEF Ordered
    <3>2. i \in 1..Len(asked) \/ i = Len(asked) + 1
      BY <1>2
    <3> QED
      BY <1>2, <3>1, <3>2 DEF Ordered
  <2>2. ASSUME Ordered(d) \/ d = c PROVE Ordered(d)'
    <3>1. CASE Ordered(d)
      BY <1>2, <3>1 DEF Ordered
    <3>2. CASE d = c
      <4>1. Len(asked) + 1 \in DOMAIN asked'
        BY <1>2
      <4> QED
        BY <1>2, <3>2, <4>1 DEF Ordered
    <3> QED
      BY <2>2, <3>1, <3>2
  <2> QED
    BY <2>1, <2>2
<1> QED
  BY <1>1, <1>3

\* A command that is new is in no log, in no other place of the inbox and in nobody's hands.
LEMMA OrderStep ==
  ASSUME ClaudeInv, NEW c \in Commands, Order(c)
  PROVE  ClaudeInv'
<1>1. TypeOK /\ TextsOK /\ AnswersOK /\ ReadsOK
  BY DEF ClaudeInv
<1>2. /\ c \notin ToSet(asked) /\ inbox' = Append(inbox, c) /\ asked' = Append(asked, c)
      /\ Calm /\ log' = log /\ proj' = proj /\ writer' = writer /\ acked' = acked /\ strays' = strays
      /\ reads' = reads /\ since' = since
  BY DEF Order, InboxFrame, Calm, provider, stream, capture
<1>3. /\ inbox' \in Seq(Commands \union Int) /\ asked' \in Seq(Commands \union Int)
      /\ \A d : Ordered(d)' <=> Ordered(d) \/ d = c
      /\ \A i \in DOMAIN inbox' : (i \in DOMAIN inbox /\ inbox'[i] = inbox[i]) \/ (i = Len(inbox) + 1 /\ inbox'[i] = c)
  BY <1>1, <1>2, OrderedMore
<1>4. ~Ordered(c)
  BY <1>2 DEF Ordered, ToSet
<1>5. proj' \in Projections /\ Alike(proj, proj') /\ After(proj, proj')
  BY <1>1, <1>2 DEF TypeOK, Alike, After
<1>6. TextsOK'
  <2>1. \A d \in Prompts : Admitted(d)' => Ordered(d)'
    BY <1>1, <1>2, <1>3 DEF TextsOK, Admitted
  <2>2. ASSUME NEW i \in DOMAIN inbox', inbox'[i] \in Prompts
        PROVE  /\ Ordered(inbox[i])' /\ ~Admitted(inbox[i])'
               /\ \A j \in DOMAIN inbox' : i # j => inbox'[i] # inbox'[j]
               /\ writer # NULL => writer.of # inbox'[i]
    <3>1. PICK d : d = inbox'[i]
      OBVIOUS
    <3>2. ~Admitted(d) /\ (Ordered(d) \/ d = c)
      BY <1>1, <1>3, <1>4, <2>2, <3>1 DEF TextsOK
    <3>3. Ordered(inbox[i])' /\ ~Admitted(inbox[i])'
      BY <1>2, <1>3, <3>1, <3>2 DEF Ordered, Admitted
    <3>4. ASSUME NEW j \in DOMAIN inbox', i # j PROVE inbox'[i] # inbox'[j]
      <4>1. CASE i \in DOMAIN inbox /\ inbox'[i] = inbox[i]
        <5>1. inbox'[i] # c
          BY <1>1, <1>4, <2>2, <4>1 DEF TextsOK
        <5> QED
          BY <1>1, <1>3, <2>2, <3>4, <4>1, <5>1 DEF TextsOK
      <4>2. CASE i = Len(inbox) + 1 /\ inbox'[i] = c
        <5>1. j \in DOMAIN inbox /\ inbox'[j] = inbox[j]
          BY <1>3, <3>4, <4>2
        <5>2. inbox[j] \in Prompts => Ordered(inbox[j])
          BY <1>1, <5>1 DEF TextsOK
        <5> QED
          BY <1>4, <2>2, <4>2, <5>1, <5>2
      <4> QED
        BY <1>3, <4>1, <4>2
    <3>5. writer # NULL => writer.of # inbox'[i]
      BY <1>1, <1>3, <1>4, <2>2 DEF TextsOK
    <3> QED
      BY <3>3, <3>4, <3>5
  <2>3. writer' # NULL /\ writer'.of \in Prompts => Ordered(writer.of)' /\ (writer'.at # "applied" => ~Admitted(writer.of)')
    <3>1. PICK d : d = writer.of
      OBVIOUS
    <3>2. writer # NULL /\ d \in Prompts => Ordered(d) /\ (writer.at # "applied" => ~Admitted(d))
      BY <1>1, <3>1 DEF TextsOK
    <3>3. Ordered(d) => Ordered(d)'
      BY <1>3
    <3> QED
      BY <1>2, <3>1, <3>2, <3>3 DEF Ordered, Admitted
  <2> QED
    BY <1>2, <2>1, <2>2, <2>3 DEF TextsOK
<1>7. AnswersOK'
  <2>1. c \notin Int
    BY NamesAssumption, BoundsAssumption DEF Commands
  <2>2. \A i \in DOMAIN inbox' : inbox'[i] \in Int =>
            inbox'[i] \in proj.asks \/ \E j \in DOMAIN inbox : inbox[j] = inbox'[i]
    BY <1>3, <2>1
  <2> QED
    BY <1>1, <1>2, <1>5, <2>2, AnswersKept
<1>8. ReadsOK'
  BY <1>1, <1>2 DEF ReadsOK
<1> QED
  BY <1>1, <1>2, <1>3, <1>5, <1>6, <1>7, <1>8, CalmKept DEF TypeOK

\* A decision is about a card that the viewer sees.
LEMMA DecideStep ==
  ASSUME ClaudeInv, NEW c \in DOMAIN log, Decide(c)
  PROVE  ClaudeInv'
<1>1. TypeOK /\ TextsOK /\ AnswersOK /\ ReadsOK /\ ProjOK(proj)
  BY DEF ClaudeInv
<1>2. /\ c \in proj.open /\ inbox' = Append(inbox, c) /\ asked' = Append(asked, c)
      /\ Calm /\ log' = log /\ proj' = proj /\ writer' = writer /\ acked' = acked /\ strays' = strays
      /\ reads' = reads /\ since' = since
  BY DEF Decide, InboxFrame, Calm, provider, stream, capture
<1>3. c \in Int /\ c \notin Prompts
  BY <1>1, NamesAssumption DEF TypeOK
<1>4. /\ inbox' \in Seq(Commands \union Int) /\ asked' \in Seq(Commands \union Int)
      /\ \A d : Ordered(d)' <=> Ordered(d) \/ d = c
      /\ \A i \in DOMAIN inbox' : (i \in DOMAIN inbox /\ inbox'[i] = inbox[i]) \/ (i = Len(inbox) + 1 /\ inbox'[i] = c)
  BY <1>1, <1>2, <1>3, OrderedMore
<1>5. proj' \in Projections /\ Alike(proj, proj') /\ After(proj, proj')
  BY <1>1, <1>2 DEF TypeOK, Alike, After
<1>6. TextsOK'
  <2>1. \A d \in Prompts : Admitted(d)' => Ordered(d)'
    BY <1>1, <1>2, <1>4 DEF TextsOK, Admitted
  <2>2. ASSUME NEW i \in DOMAIN inbox', inbox'[i] \in Prompts
        PROVE  /\ Ordered(inbox[i])' /\ ~Admitted(inbox[i])'
               /\ \A j \in DOMAIN inbox' : i # j => inbox'[i] # inbox'[j]
               /\ writer # NULL => writer.of # inbox'[i]
    <3>1. i \in DOMAIN inbox /\ inbox'[i] = inbox[i]
      BY <1>3, <1>4, <2>2
    <3>2. PICK d : d = inbox'[i]
      OBVIOUS
    <3>3. ~Admitted(d) /\ Ordered(d)
      BY <1>1, <2>2, <3>1, <3>2 DEF TextsOK
    <3>4. Ordered(inbox[i])' /\ ~Admitted(inbox[i])'
      BY <1>2, <1>4, <3>2, <3>3 DEF Ordered, Admitted
    <3>5. ASSUME NEW j \in DOMAIN inbox', i # j PROVE inbox'[i] # inbox'[j]
      BY <1>1, <1>3, <1>4, <2>2, <3>1, <3>5 DEF TextsOK
    <3> QED
      BY <1>1, <2>2, <3>1, <3>4, <3>5 DEF TextsOK
  <2>3. writer' # NULL /\ writer'.of \in Prompts => Ordered(writer.of)' /\ (writer'.at # "applied" => ~Admitted(writer.of)')
    <3>1. PICK d : d = writer.of
      OBVIOUS
    <3>2. writer # NULL /\ d \in Prompts => Ordered(d) /\ (writer.at # "applied" => ~Admitted(d))
      BY <1>1, <3>1 DEF TextsOK
    <3>3. Ordered(d) => Ordered(d)'
      BY <1>4
    <3> QED
      BY <1>2, <3>1, <3>2, <3>3 DEF Ordered, Admitted
  <2> QED
    BY <1>2, <2>1, <2>2, <2>3 DEF TextsOK
<1>7. AnswersOK'
  <2>1. c \in proj.asks
    BY <1>1, <1>2 DEF ProjOK, CardsOK
  <2>2. \A i \in DOMAIN inbox' : inbox'[i] \in Int =>
            inbox'[i] \in proj.asks \/ \E j \in DOMAIN inbox : inbox[j] = inbox'[i]
    BY <1>4, <2>1
  <2> QED
    BY <1>1, <1>2, <1>5, <2>2, AnswersKept
<1>8. ReadsOK'
  BY <1>1, <1>2 DEF ReadsOK
<1> QED
  BY <1>1, <1>2, <1>4, <1>5, <1>6, <1>7, <1>8, CalmKept DEF TypeOK

\* The inject pump takes the next command in hand.
TurnOK ==
    /\ inbox' \in Seq(Commands \union Int) /\ TextsOK'
    /\ \A i \in DOMAIN inbox' : \E j \in DOMAIN inbox : inbox[j] = inbox'[i]

\* The command in hand is in no other place.
LEMMA TurnKept ==
  ASSUME TypeOK, TextsOK, writer = NULL, inbox # <<>>, inbox' = Tail(inbox), log' = log, asked' = asked,
         writer' = NULL \/ writer' = Sent(Head(inbox))
  PROVE  TurnOK
<1>1. inbox \in Seq(Commands \union Int)
  BY DEF TypeOK
<1>2. PICK c : c = Head(inbox)
  OBVIOUS
<1>3. /\ inbox' \in Seq(Commands \union Int) /\ 1 \in DOMAIN inbox /\ inbox[1] = c
      /\ \A i \in DOMAIN inbox' : i + 1 \in DOMAIN inbox /\ inbox'[i] = inbox[i + 1] /\ i # 0 /\ i \in Nat
  BY <1>1, <1>2
<1>4. \A d : (Ordered(d)' <=> Ordered(d)) /\ (Admitted(d)' <=> Admitted(d))
  BY DEF Ordered, Admitted
<1>5. \A d \in Prompts : Admitted(d)' => Ordered(d)'
  BY <1>4 DEF TextsOK
<1>6. c \in Prompts => Ordered(c) /\ ~Admitted(c)
  BY <1>3 DEF TextsOK
<1>7. ASSUME NEW i \in DOMAIN inbox', inbox'[i] \in Prompts
      PROVE  /\ Ordered(inbox[i])' /\ ~Admitted(inbox[i])'
             /\ \A j \in DOMAIN inbox' : i # j => inbox'[i] # inbox'[j]
             /\ inbox'[i] # c
  <2>1. PICK d : d = inbox'[i]
    OBVIOUS
  <2>2. i + 1 \in DOMAIN inbox /\ inbox[i + 1] = d /\ d \in Prompts /\ i + 1 # 1
    BY <1>3, <1>7, <2>1
  <2>3. Ordered(d) /\ ~Admitted(d) /\ \A j \in DOMAIN inbox : i + 1 # j => d # inbox[j]
    BY <2>2 DEF TextsOK
  <2>4. Ordered(d)' /\ ~Admitted(d)'
    BY <1>4, <2>3
  <2>5. Ordered(inbox[i])' /\ ~Admitted(inbox[i])'
    BY <2>1, <2>4 DEF Ordered, Admitted
  <2>6. \A j \in DOMAIN inbox' : i # j => j + 1 # i + 1
    BY <1>3
  <2>7. \A j \in DOMAIN inbox' : i # j => inbox'[i] # inbox'[j]
    BY <1>3, <2>1, <2>3, <2>6
  <2> QED
    BY <1>3, <2>1, <2>2, <2>3, <2>5, <2>7
<1>8. writer' # NULL => writer'.of = c
  BY <1>2 DEF Sent
<1>9. writer' # NULL /\ writer'.of \in Prompts => Ordered(writer.of)' /\ (writer'.at # "applied" => ~Admitted(writer.of)')
  <2>1. PICK d : d = writer'.of
    OBVIOUS
  <2>2. writer' # NULL /\ d \in Prompts => Ordered(d)' /\ ~Admitted(d)'
    BY <1>4, <1>6, <1>8, <2>1
  <2> QED
    BY <2>1, <2>2 DEF Ordered, Admitted
<1>10. TextsOK'
  BY <1>5, <1>7, <1>8, <1>9 DEF TextsOK
<1> QED
  BY <1>3, <1>10 DEF TurnOK

\* A POST that has been sent.
LEMMA SentIs ==
  ASSUME NEW c \in Commands \union Int
  PROVE  Sent(c) \in Posts /\ Sent(c).of = c
  BY DEF Sent, Posts

\* The next command in the inbox.
LEMMA HeadIs ==
  ASSUME TypeOK, inbox # <<>>
  PROVE  Head(inbox) \in Commands \union Int /\ 1 \in DOMAIN inbox /\ inbox[1] = Head(inbox)
  BY DEF TypeOK

\* A POST of a text, an interrupt or a model, or the drop of one.
LEMMA CommandStep ==
  ASSUME ClaudeInv, Calm, writer = NULL, inbox # <<>>, inbox' = Tail(inbox), Head(inbox) \in Commands,
         writer' = NULL \/ writer' = Sent(Head(inbox)),
         proj' \in Projections, Alike(proj, proj'), proj'.reading \in {0, proj.reading},
         acked' = acked \/ acked' = acked \union {Head(inbox)},
         UNCHANGED <<strays, asked, reads>>, since' \in Nat, ReadsOK'
  PROVE  ClaudeInv'
<1>1. TypeOK /\ TextsOK /\ AnswersOK
  BY DEF ClaudeInv
<1>2. log' = log /\ asked' = asked
  BY DEF Calm
<1>3. TurnOK
  BY <1>1, <1>2, TurnKept
<1>4. PICK c : c = Head(inbox)
  OBVIOUS
<1>5. c \in Commands /\ c \notin Int
  BY <1>4, NamesAssumption, BoundsAssumption DEF Commands
<1>6. writer' \in Posts \union {NULL} /\ (writer' # NULL => writer'.of = c)
  BY <1>4, <1>5, SentIs
<1>7. acked' \subseteq Commands \union Int
  BY <1>1, <1>4, <1>5 DEF TypeOK
<1>8. After(proj, proj')
  BY AlikeAfter
<1>9. AnswersOK'
  <2>1. \A n \in acked' : n \in Int => n \in acked
    BY <1>4, <1>5
  <2>2. \A i \in DOMAIN inbox' : inbox'[i] \in Int =>
            inbox'[i] \in proj.asks \/ \E j \in DOMAIN inbox : inbox[j] = inbox'[i]
    BY <1>3 DEF TurnOK
  <2>3. ~(writer' # NULL /\ writer'.of \in Int)
    BY <1>5, <1>6
  <2> QED
    BY <1>1, <1>8, <2>1, <2>2, <2>3, AnswersKept
<1> QED
  BY <1>1, <1>3, <1>6, <1>7, <1>9, CalmKept DEF TypeOK, TurnOK

\* A text and an interrupt.
LEMMA PostTextStep ==
  ASSUME ClaudeInv, PostText
  PROVE  ClaudeInv'
<1>1. TypeOK /\ ReadsOK
  BY DEF ClaudeInv
<1>2. /\ Calm /\ writer = NULL /\ inbox # <<>> /\ inbox' = Tail(inbox) /\ Head(inbox) \in Prompts
      /\ writer' = Sent(Head(inbox)) /\ proj' = proj /\ acked' = acked /\ since' = since
      /\ strays' = strays /\ asked' = asked /\ reads' = reads
  BY DEF PostText, Turn, WriterFrame, Calm, provider, stream, capture
<1>3. proj' \in Projections /\ Alike(proj, proj') /\ proj'.reading = proj.reading
  BY <1>1, <1>2 DEF TypeOK, Alike
<1>4. ReadsOK'
  BY <1>1, <1>2 DEF ReadsOK
<1>5. Head(inbox) \in Commands /\ since' \in Nat
  BY <1>1, <1>2 DEF Commands, TypeOK
<1> QED
  BY <1>2, <1>3, <1>4, <1>5, CommandStep

LEMMA PostInterruptStep ==
  ASSUME ClaudeInv, PostInterrupt
  PROVE  ClaudeInv'
<1>1. TypeOK /\ ReadsOK /\ proj \in Projections
  BY DEF ClaudeInv, TypeOK
<1>2. /\ Calm /\ writer = NULL /\ inbox # <<>> /\ inbox' = Tail(inbox) /\ Head(inbox) \in Interrupts
      /\ writer' = Sent(Head(inbox)) /\ acked' = acked /\ since' = since
      /\ proj' = [proj EXCEPT !.stop = Head(inbox), !.stopped = "no"]
      /\ strays' = strays /\ asked' = asked /\ reads' = reads
  BY DEF PostInterrupt, Turn, WriterFrame, Calm, provider, stream, capture
<1>3. PICK c : c = Head(inbox)
  OBVIOUS
<1>4. c \in Interrupts /\ proj' = [proj EXCEPT !.stop = c, !.stopped = "no"]
  BY <1>2, <1>3
<1>5. proj' \in Projections /\ Alike(proj, proj') /\ proj'.reading = proj.reading
  BY <1>1, <1>4 DEF Projections, Alike
<1>6. ReadsOK'
  BY <1>1, <1>2, <1>5 DEF ReadsOK
<1>7. Head(inbox) \in Commands /\ since' \in Nat
  BY <1>1, <1>2 DEF Commands, TypeOK
<1> QED
  BY <1>2, <1>5, <1>6, <1>7, CommandStep

\* No read is under way when a choice is posted.
LEMMA SetModelStep ==
  ASSUME ClaudeInv, SetModel
  PROVE  ClaudeInv'
<1>1. TypeOK /\ ReadsOK /\ proj \in Projections /\ reads \in Nat /\ since \in Nat
  BY DEF ClaudeInv, TypeOK
<1>2. /\ Calm /\ writer = NULL /\ inbox # <<>> /\ inbox' = Tail(inbox) /\ Head(inbox) \in ChosenModels
      /\ strays' = strays /\ asked' = asked /\ reads' = reads
  BY DEF SetModel, Turn, WriterFrame, Calm, provider, stream, capture
<1>3. PICK m : m = Head(inbox)
  OBVIOUS
<1>4. m \in Models /\ Head(inbox) \in Commands
  BY <1>2, <1>3, BoundsAssumption DEF Commands
<1>5. CASE /\ writer' = Sent(Head(inbox)) /\ proj' = Expect(proj, m) /\ since' = reads /\ acked' = acked
  <2>1. proj' \in Projections /\ Alike(proj, proj') /\ proj'.reading = 0
    BY <1>1, <1>4, <1>5 DEF Expect, Projections, Alike
  <2>2. ReadsOK'
    BY <1>1, <1>2, <1>5, <2>1 DEF ReadsOK
  <2> QED
    BY <1>1, <1>2, <1>4, <1>5, <2>1, <2>2, CommandStep
<1>6. CASE /\ acked' = acked \union {Head(inbox)} /\ writer' = writer /\ proj' = proj /\ since' = since
  <2>1. proj' \in Projections /\ Alike(proj, proj') /\ proj'.reading = proj.reading
    BY <1>1, <1>6 DEF Alike
  <2>2. ReadsOK'
    BY <1>1, <1>2, <1>6, <2>1 DEF ReadsOK
  <2> QED
    BY <1>1, <1>2, <1>4, <1>6, <2>1, <2>2, CommandStep
<1>7. \/ /\ writer' = Sent(Head(inbox)) /\ proj' = Expect(proj, m) /\ since' = reads /\ acked' = acked
      \/ /\ acked' = acked \union {Head(inbox)} /\ writer' = writer /\ proj' = proj /\ since' = since
  BY <1>3 DEF SetModel
<1> QED
  BY <1>5, <1>6, <1>7

\* A card is used up before its answer is posted.
LEMMA UsedIs ==
  ASSUME NEW p, ProjOK(p), NEW n \in p.open, NEW r, r = [p EXCEPT !.used = @ \union {n}]
  PROVE  ProjOK(r) /\ After(p, r) /\ r.reading = p.reading /\ r.last = p.last
         /\ n \in r.asks /\ n \notin r.open \ r.used
<1> DEFINE used == p.used \union {n}
<1>1. p \in Projections /\ used \in SUBSET Nat /\ r = [p EXCEPT !.used = used]
  BY DEF ProjOK, Projections
<1>2. n \in used /\ p.used \subseteq used /\ \A m \in used : m \in p.used \/ m \in p.open
  OBVIOUS
<1> HIDE DEF used
<1>3. /\ r \in Projections /\ r.used = used
      /\ r.seen = p.seen /\ r.last = p.last /\ r.users = p.users /\ r.shown = p.shown
      /\ r.open = p.open /\ r.asks = p.asks /\ r.bad = p.bad /\ r.reading = p.reading
  BY <1>1 DEF Projections
<1>4. SeenOK(r)
  BY <1>3 DEF ProjOK, SeenOK
<1>5. UsersOK(r)
  BY <1>3 DEF ProjOK, UsersOK
<1>6. ShownOK(r)
  BY <1>3 DEF ProjOK, ShownOK
<1>7. CardsOK(r)
  BY <1>2, <1>3 DEF ProjOK, CardsOK
<1>8. n \in p.asks
  BY DEF ProjOK, CardsOK
<1> QED
  BY <1>2, <1>3, <1>4, <1>5, <1>6, <1>7, <1>8 DEF ProjOK, After

\* A decision in hand is about a card that is used up.
LEMMA RespondStep ==
  ASSUME ClaudeInv, Respond
  PROVE  ClaudeInv'
<1>1. TypeOK /\ TextsOK /\ AnswersOK /\ ReadsOK /\ LogOK /\ StreamOK /\ ProjOK(proj) /\ proj \in Projections
  BY DEF ClaudeInv, TypeOK
<1>2. /\ Calm /\ writer = NULL /\ inbox # <<>> /\ inbox' = Tail(inbox) /\ Head(inbox) \in DOMAIN log
      /\ strays' = strays /\ asked' = asked /\ reads' = reads /\ since' = since /\ log' = log
      /\ phase' = phase /\ hist' = hist /\ up' = up /\ buf' = buf
  BY DEF Respond, Turn, WriterFrame, Calm, provider, stream, capture
<1>3. PICK n : n = Head(inbox)
  OBVIOUS
<1>4. n \in Int /\ inbox[1] = n /\ 1 \in DOMAIN inbox
  BY <1>1, <1>2, <1>3, HeadIs DEF TypeOK
<1>5. n \in proj.asks
  BY <1>1, <1>4 DEF AnswersOK
<1>6. CASE Usable(n) /\ writer' = Sent(n) /\ proj' = [proj EXCEPT !.used = @ \union {n}] /\ acked' = acked
  <2>1. PICK p : p = proj
    OBVIOUS
  <2>2. PICK r : r = [p EXCEPT !.used = @ \union {n}]
    OBVIOUS
  <2>3. proj' = r /\ n \in p.open /\ ProjOK(p)
    BY <1>1, <1>6, <2>1, <2>2 DEF Usable
  <2>4. ProjOK(r) /\ After(p, r) /\ r.reading = p.reading /\ r.last = p.last
        /\ n \in r.asks /\ n \notin r.open \ r.used
    BY <2>2, <2>3, UsedIs
  <2>5. LogOK' /\ ProjOK(proj)'
    BY <1>1, <1>2, <2>3, <2>4, SameLog
  <2>6. proj'.last = proj.last /\ After(proj, proj') /\ proj'.reading = proj.reading
    BY <2>1, <2>3, <2>4
  <2>7. StreamOK'
    BY <1>1, <1>2, <2>6, SameStream
  <2>8. TurnOK
    BY <1>1, <1>2, <1>3, <1>6, TurnKept
  <2>9. writer' \in Posts /\ writer'.of = n
    BY <1>4, <1>6, SentIs
  <2>10. AnswersOK'
    <3>1. \A i \in DOMAIN inbox' : inbox'[i] \in Int =>
            inbox'[i] \in proj.asks \/ \E j \in DOMAIN inbox : inbox[j] = inbox'[i]
      BY <2>8 DEF TurnOK
    <3>2. n \in proj'.asks /\ n \notin proj'.open \ proj'.used
      BY <2>3, <2>4
    <3> QED
      BY <1>1, <1>6, <2>6, <2>9, <3>1, <3>2, AnswersKept
  <2>11. ReadsOK'
    BY <1>1, <1>2, <2>6 DEF ReadsOK
  <2>12. proj' \in Projections
    BY <2>3, <2>4 DEF ProjOK
  <2>13. TypeOK'
    BY <1>1, <1>2, <1>6, <2>8, <2>9, <2>12 DEF TypeOK, TurnOK, Calm
  <2> QED
    BY <2>5, <2>7, <2>8, <2>10, <2>11, <2>13 DEF ClaudeInv, TurnOK
<1>7. CASE ~Usable(n) /\ writer' = writer /\ proj' = proj /\ acked' = acked \union {n}
  <2>1. proj' \in Projections /\ Alike(proj, proj') /\ After(proj, proj')
    BY <1>1, <1>7 DEF Alike, After
  <2>2. TurnOK
    BY <1>1, <1>2, <1>7, TurnKept
  <2>3. AnswersOK'
    <3>1. \A i \in DOMAIN inbox' : inbox'[i] \in Int =>
            inbox'[i] \in proj.asks \/ \E j \in DOMAIN inbox : inbox[j] = inbox'[i]
      BY <2>2 DEF TurnOK
    <3>2. n \in proj'.asks /\ n \notin proj'.open \ proj'.used
      BY <1>5, <1>7 DEF Usable
    <3> QED
      BY <1>1, <1>2, <1>7, <2>1, <3>1, <3>2, AnswersKept
  <2>4. ReadsOK'
    BY <1>1, <1>2, <1>7 DEF ReadsOK
  <2>5. writer' \in Posts \union {NULL} /\ acked' \subseteq Commands \union Int
    BY <1>1, <1>2, <1>4, <1>7 DEF TypeOK
  <2>6. /\ \A c \in strays' : c \in Models \/ (c \in Int /\ c <= 0)
        /\ asked' \in Seq(Commands \union Int) /\ reads' \in Nat /\ since' \in Nat
    BY <1>1, <1>2 DEF TypeOK
  <2> QED
    BY <1>2, <2>1, <2>2, <2>3, <2>4, <2>5, <2>6, CalmKept DEF TurnOK
<1>8. \/ Usable(n) /\ writer' = Sent(n) /\ proj' = [proj EXCEPT !.used = @ \union {n}] /\ acked' = acked
      \/ ~Usable(n) /\ writer' = writer /\ proj' = proj /\ acked' = acked \union {n}
  BY <1>3 DEF Respond
<1> QED
  BY <1>6, <1>7, <1>8

\* The POST in hand goes on, ends or is given up.
LEMMA HandStep ==
  ASSUME ClaudeInv, Calm, writer # NULL, inbox' = inbox, proj' \in Projections, Alike(proj, proj'),
         proj'.reading = proj.reading,
         writer' = NULL \/ (writer' \in Posts /\ writer'.of = writer.of /\ (writer'.at # "applied" => writer.at # "applied")),
         acked' = acked \/ acked' = acked \union {writer.of},
         strays' = strays \/ (writer.of \in Models /\ strays' = strays \union {writer.of}),
         UNCHANGED <<asked, reads, since>>
  PROVE  ClaudeInv'
<1>1. TypeOK /\ TextsOK /\ AnswersOK /\ ReadsOK
  BY DEF ClaudeInv
<1>2. log' = log /\ asked' = asked /\ reads' = reads /\ since' = since
  BY DEF Calm
<1>3. writer \in Posts /\ writer.of \in Commands \union Int
  BY <1>1 DEF TypeOK, Posts
<1>4. After(proj, proj')
  BY AlikeAfter
<1>5. TextsOK'
  BY <1>1, <1>2, SameTexts, SameAdmitted
<1>6. AnswersOK'
  <2>1. \A i \in DOMAIN inbox' : inbox'[i] \in Int =>
            inbox'[i] \in proj.asks \/ \E j \in DOMAIN inbox : inbox[j] = inbox'[i]
    OBVIOUS
  <2>2. \A n \in acked' : n \in acked \/ n = writer.of
    OBVIOUS
  <2> QED
    BY <1>1, <1>4, <2>1, <2>2, AnswersKept
<1>7. ReadsOK'
  BY <1>1, <1>2 DEF ReadsOK
<1>8. writer' \in Posts \union {NULL} /\ acked' \subseteq Commands \union Int
  BY <1>1, <1>3 DEF TypeOK
<1>9. /\ \A c \in strays' : c \in Models \/ (c \in Int /\ c <= 0)
      /\ inbox' \in Seq(Commands \union Int)
      /\ asked' \in Seq(Commands \union Int) /\ reads' \in Nat /\ since' \in Nat
  BY <1>1, <1>2 DEF TypeOK
<1> QED
  BY <1>5, <1>6, <1>7, <1>8, <1>9, CalmKept

\* The acknowledgement.
LEMMA AckPostStep ==
  ASSUME ClaudeInv, AckPost
  PROVE  ClaudeInv'
<1>1. proj \in Projections
  BY DEF ClaudeInv, TypeOK
<1>2. /\ Calm /\ writer # NULL /\ inbox' = inbox /\ writer' = NULL /\ acked' = acked \union {writer.of}
      /\ strays' = strays /\ asked' = asked /\ reads' = reads /\ since' = since /\ proj' = [proj EXCEPT !.stop = NULL]
  BY DEF AckPost, WriterFrame, Calm, provider, stream, capture
<1>3. proj' \in Projections /\ Alike(proj, proj') /\ proj'.reading = proj.reading
  BY <1>1, <1>2 DEF Projections, Alike
<1> QED
  BY <1>2, <1>3, HandStep

\* A second token, a second POST and the end of the companion move the POST in hand only.
LEMMA RetryStep ==
  ASSUME ClaudeInv, RefreshToken \/ PostAgain \/ InterruptRefused
  PROVE  ClaudeInv'
<1>1. TypeOK /\ proj \in Projections
  BY DEF ClaudeInv, TypeOK
<1>2. /\ Calm /\ writer # NULL /\ inbox' = inbox /\ proj' = proj /\ acked' = acked
      /\ strays' = strays /\ asked' = asked /\ reads' = reads /\ since' = since
      /\ \/ writer.at = "sent" /\ writer' = [writer EXCEPT !.at = "refresh"]
         \/ writer.at = "refresh" /\ writer' = [writer EXCEPT !.at = "sent", !.retried = TRUE]
         \/ writer' = writer
  BY DEF RefreshToken, PostAgain, InterruptRefused, GiveUp, WriterFrame, Calm, provider, stream, capture
<1>3. writer \in Posts
  BY <1>1, <1>2 DEF TypeOK
<1>4. writer' \in Posts /\ writer'.of = writer.of /\ (writer'.at # "applied" => writer.at # "applied")
  BY <1>2, <1>3 DEF Posts
<1>5. Alike(proj, proj') /\ proj' \in Projections /\ proj'.reading = proj.reading
  BY <1>1, <1>2 DEF Alike
<1> QED
  BY <1>2, <1>4, <1>5, HandStep

\* A POST that fails ends the companion or is a choice that may stray.
LEMMA PostFailsStep ==
  ASSUME ClaudeInv, PostFails
  PROVE  ClaudeInv'
<1>1. TypeOK /\ proj \in Projections
  BY DEF ClaudeInv, TypeOK
<1>2. /\ Calm /\ writer # NULL /\ inbox' = inbox /\ proj' = proj
      /\ asked' = asked /\ reads' = reads /\ since' = since
      /\ writer' = NULL \/ writer' = writer
      /\ acked' = acked \/ acked' = acked \union {writer.of}
      /\ strays' = strays \/ (writer.of \in ChosenModels /\ strays' = strays \union {writer.of})
  BY DEF PostFails, GiveUp, Calm, provider, stream, capture
<1>3. writer \in Posts
  BY <1>1, <1>2 DEF TypeOK
<1>4. Alike(proj, proj') /\ proj' \in Projections /\ proj'.reading = proj.reading
  BY <1>1, <1>2 DEF Alike
<1>5. strays' = strays \/ (writer.of \in Models /\ strays' = strays \union {writer.of})
  BY <1>2, BoundsAssumption
<1>6. writer' = NULL \/ (writer' \in Posts /\ writer'.of = writer.of /\ (writer'.at # "applied" => writer.at # "applied"))
  BY <1>2, <1>3
<1> QED
  BY <1>2, <1>4, <1>5, <1>6, HandStep

\* A read is posted, or given up.
LEMMA ReaderStep ==
  ASSUME ClaudeInv, PostRead \/ ReadFails
  PROVE  ClaudeInv'
<1>1. TypeOK /\ TextsOK /\ AnswersOK /\ ReadsOK /\ proj \in Projections /\ reads \in Nat /\ since \in Nat
  BY DEF ClaudeInv, TypeOK
<1>2. /\ Calm /\ inbox' = inbox /\ writer' = writer /\ acked' = acked /\ asked' = asked /\ since' = since /\ log' = log
  BY DEF PostRead, ReadFails, ReaderFrame, Calm, provider, stream, capture
<1>3. /\ proj' \in Projections /\ Alike(proj, proj') /\ reads' \in Nat /\ reads <= reads'
      /\ proj'.reading = 0 \/ proj'.reading = proj.reading \/ proj'.reading = reads + 1
      /\ \A c \in strays' : c \in Models \/ (c \in Int /\ c <= 0)
  <2>1. CASE PostRead
    <3> DEFINE expects == IF proj.expected # NULL THEN reads + 1 ELSE proj.expects
    <3>1. /\ reads' = reads + 1 /\ strays' = strays
          /\ proj' = [proj EXCEPT !.task = "sent", !.reading = reads + 1, !.expects = expects]
      BY <2>1 DEF PostRead
    <3>2. expects \in Nat /\ reads + 1 \in Nat
      BY <1>1 DEF Projections
    <3> HIDE DEF expects
    <3>3. proj' \in Projections /\ Alike(proj, proj') /\ proj'.reading = reads + 1
      BY <1>1, <3>1, <3>2 DEF Projections, Alike
    <3> QED
      BY <1>1, <3>1, <3>3 DEF TypeOK
  <2>2. CASE ReadFails
    <3>1. proj' = ReadEnds(proj) /\ reads' = reads /\ (strays' = strays \/ strays' = strays \union {Read(reads)})
      BY <2>2 DEF ReadFails
    <3>2. proj' \in Projections /\ Alike(proj, proj') /\ proj'.reading = proj.reading
      BY <1>1, <3>1, ReadEndsIs
    <3>3. Read(reads) \in Int /\ Read(reads) <= 0
      BY <1>1 DEF Read
    <3> QED
      BY <1>1, <3>1, <3>2, <3>3 DEF TypeOK
  <2> QED
    BY <2>1, <2>2
<1>4. TextsOK'
  BY <1>1, <1>2, SameTexts, SameAdmitted
<1>5. AnswersOK'
  <2>1. \A n : Spent(n)' <=> Spent(n)
    BY <1>3 DEF Spent, Alike
  <2>2. proj'.asks = proj.asks
    BY <1>3 DEF Alike
  <2> QED
    BY <1>1, <1>2, <1>3, <2>2 DEF AnswersOK, Spent, Alike
<1>6. ReadsOK'
  BY <1>1, <1>2, <1>3 DEF ReadsOK
<1>7. /\ inbox' \in Seq(Commands \union Int) /\ writer' \in Posts \union {NULL} /\ acked' \subseteq Commands \union Int
      /\ asked' \in Seq(Commands \union Int) /\ since' \in Nat
  BY <1>1, <1>2 DEF TypeOK
<1> QED
  BY <1>2, <1>3, <1>4, <1>5, <1>6, <1>7, CalmKept

\* The first state.
LEMMA InitOK ==
  ASSUME Init
  PROVE  ClaudeInv
<1> USE NamesAssumption, BoundsAssumption
<1>1. log = <<>> /\ buf = <<>> /\ hist = <<>> /\ inbox = <<>> /\ asked = <<>> /\ Len(log) = 0 /\ Len(hist) = 0
      /\ DOMAIN log = {} /\ DOMAIN buf = {} /\ DOMAIN hist = {} /\ DOMAIN inbox = {}
  BY DEF Init
<1>2. /\ proj \in Projections
      /\ proj.seen = {} /\ proj.last = 0 /\ proj.shown = <<>> /\ proj.users = {} /\ proj.open = {} /\ proj.used = {}
      /\ proj.asks = {} /\ ~proj.bad /\ proj.reading = 0
  <2>1. <<>> \in Seq(Nat)
    OBVIOUS
  <2> QED
    BY <2>1 DEF Init, Projections, Values
<1>3. TypeOK
  <2>1. /\ log \in Seq(Events) /\ buf \in Seq(Items) /\ hist \in Seq(Items)
        /\ inbox \in Seq(Commands \union Int) /\ asked \in Seq(Commands \union Int)
    BY <1>1
  <2>2. /\ model \in Models /\ up \in BOOLEAN /\ phase = "open" /\ writer = NULL /\ acked = {} /\ strays = {}
        /\ reads = 0 /\ since = 0
    BY DEF Init
  <2> QED
    BY <1>2, <2>1, <2>2 DEF TypeOK
<1>4. LogOK
  BY <1>1 DEF LogOK
<1>5. ProjOK(proj)
  BY <1>1, <1>2 DEF ProjOK, SeenOK, UsersOK, ShownOK, CardsOK
<1>6. StreamOK
  BY <1>1 DEF Init, StreamOK
<1>7. TextsOK
  BY <1>1 DEF Init, TextsOK, Admitted
<1>8. AnswersOK
  BY <1>1 DEF Init, AnswersOK
<1>9. ReadsOK
  BY <1>2 DEF Init, ReadsOK
<1> QED
  BY <1>3, <1>4, <1>5, <1>6, <1>7, <1>8, <1>9 DEF ClaudeInv

\* Every action.
LEMMA NextOK ==
  ASSUME ClaudeInv, Next
  PROVE  ClaudeInv'
<1>1. CASE Written
  BY <1>1, WrittenStep
<1>2. CASE Provider \/ ApplyStray
  BY <1>2, ApplyPostStep, ApplyReadStep, ApplyStrayStep DEF Provider
<1>3. CASE \E m \in Models : LocalModel(m)
  BY <1>3, LocalModelStep
<1>4. CASE Drop \/ CaptureFails
  BY <1>4, DropStep, CaptureFailsStep
<1>5. CASE PostFails \/ ReadFails \/ RefreshToken
  BY <1>5, PostFailsStep, ReaderStep, RetryStep
<1>6. CASE \E c \in Prompts \union Interrupts \union ChosenModels : Order(c)
  BY <1>6, OrderStep DEF Commands
<1>7. CASE \E n \in DOMAIN log : Decide(n)
  BY <1>7, DecideStep
<1>8. CASE Pumps
  BY <1>8, OpenConnectionStep, ReadPageStep, ReconcileHistoryStep, ConsumeStep, StreamEndedStep, ReaderStep DEF Pumps
<1>9. CASE WriterStep
  BY <1>9, PostTextStep, PostInterruptStep, RespondStep, SetModelStep, AckPostStep, RetryStep DEF WriterStep
<1> QED
  BY <1>1, <1>2, <1>3, <1>4, <1>5, <1>6, <1>7, <1>8, <1>9 DEF Next, Written

\* A step that changes nothing.
LEMMA StutterOK ==
  ASSUME ClaudeInv, UNCHANGED vars
  PROVE  ClaudeInv'
<1>1. Aside /\ model' = model /\ up' = up /\ buf' = buf /\ hist' = hist /\ phase' = phase
  BY DEF vars, provider, stream, capture, Aside
<1>2. TypeOK /\ StreamOK
  BY DEF ClaudeInv
<1>3. StreamOK'
  BY <1>1, <1>2, SameStream DEF Aside
<1> QED
  BY <1>1, <1>2, <1>3, AsideKept DEF TypeOK

-----------------------------------------------------------------------------
(* The theorems                                                            *)

\* The invariant: what the reconciler knows is what the log says up to the last sequence
\* number it has seen, what the stream and the pages still give follows that without a gap,
\* and a decision in the writer's hands or acknowledged is about a card that is used up.
THEOREM ClaudeInvariant == Spec => []ClaudeInv
<1>1. Init => ClaudeInv
  BY InitOK
<1>2. ClaudeInv /\ [Next]_vars => ClaudeInv'
  BY NextOK, StutterOK
<1> QED
  BY <1>1, <1>2, PTL DEF Spec

\* Whatever the stream loses and the pages repeat, the transcript is a prefix of the log in
\* its order, every prompt once, and no observation is rejected.
THEOREM ProjectionIsComplete == Spec => []ProjectionComplete
<1>1. ClaudeInv => ProjectionComplete
  <2> SUFFICES ASSUME ClaudeInv PROVE ProjectionComplete
    OBVIOUS
  <2>1. /\ LogOK /\ ProjOK(proj) /\ proj \in Projections /\ log \in Seq(Events)
        /\ SeenOK(proj) /\ ShownOK(proj) /\ ~proj.bad /\ proj.last <= Len(log)
    BY DEF ClaudeInv, TypeOK, ProjOK, SeenOK
  <2>2. {s.seq : s \in proj.seen} = 1..proj.last
    BY <2>1 DEF SeenOK
  <2>3. ASSUME NEW i \in DOMAIN proj.shown, NEW j \in DOMAIN proj.shown, i < j
        PROVE  /\ proj.shown[i] < proj.shown[j]
               /\ log[proj.shown[i]].of = log[proj.shown[j]].of => log[proj.shown[i]].of = NULL
    <3> DEFINE m == proj.shown[i]
               n == proj.shown[j]
    <3>1. /\ m \in 1..proj.last /\ log[m].kind \in {"user", "reply", "result"}
          /\ n \in 1..proj.last /\ log[n].kind \in {"user", "reply", "result"}
          /\ m < n
      BY <2>1, <2>3 DEF ShownOK
    <3>2. m \in DOMAIN log /\ n \in DOMAIN log /\ m # n
      BY <2>1, <3>1 DEF Projections
    <3>3. EventOK(m) /\ EventOK(n)
      BY <2>1, <3>2 DEF LogOK
    <3>4. CASE log[m].kind = "reply" \/ log[n].kind = "reply"
      BY <3>1, <3>3, <3>4 DEF EventOK
    <3>5. CASE log[m].kind = log[n].kind /\ log[n].kind \in {"user", "result"}
      BY <2>1, <3>1, <3>2, <3>5 DEF LogOK
    <3>6. CASE log[m].kind = "user" /\ log[n].kind = "result"
      BY <3>1, <3>3, <3>6, NamesAssumption DEF EventOK
    <3>7. CASE log[m].kind = "result" /\ log[n].kind = "user"
      BY <3>1, <3>3, <3>7, NamesAssumption DEF EventOK
    <3> QED
      BY <3>1, <3>4, <3>5, <3>6, <3>7
  <2> QED
    BY <2>1, <2>2, <2>3 DEF ProjectionComplete
<1> QED
  BY <1>1, ClaudeInvariant, PTL

\* A POST that is new is a text's, an interrupt's, a choice's or a decision's.
LEMMA NewPost ==
  ASSUME TypeOK, Next, writer' # writer, writer' # NULL,
         writer'.at = "sent", writer'.retried = FALSE, writer'.of \notin Commands
  PROVE  Respond
<1>1. CASE Written \/ (\E m \in Models : LocalModel(m)) \/ Drop
  <2>1. UNCHANGED Companion
    BY <1>1 DEF Written, Worker, LocalPrompt, Echo, Output, AskAgain, PeerAnswers, Finish, LocalModel, Drop
  <2> QED
    BY <2>1 DEF Companion
<1>2. CASE ApplyPost
  <2>1. writer \in Posts
    BY <1>2 DEF ApplyPost, TypeOK
  <2> QED
    BY <1>2, <2>1 DEF ApplyPost, Posts
<1>3. CASE ApplyRead \/ ApplyStray
  BY <1>3 DEF ApplyRead, ApplyStray
<1>4. CASE CaptureFails \/ OpenConnection \/ ReadPage \/ ReconcileHistory \/ Consume \/ StreamEnded
  BY <1>4 DEF CaptureFails, OpenConnection, ReadPage, ReconcileHistory, Consume, StreamEnded, Writers
<1>5. CASE PostFails
  BY <1>5 DEF PostFails, GiveUp
<1>6. CASE ReadFails \/ PostRead
  BY <1>6 DEF ReadFails, PostRead, ReaderFrame
<1>7. CASE RefreshToken \/ PostAgain \/ InterruptRefused
  <2>1. writer \in Posts
    BY <1>7 DEF RefreshToken, PostAgain, InterruptRefused, TypeOK
  <2> QED
    BY <1>7, <2>1 DEF RefreshToken, PostAgain, InterruptRefused, GiveUp, Posts
<1>8. CASE (\E c \in Prompts \union Interrupts \union ChosenModels : Order(c)) \/ (\E n \in DOMAIN log : Decide(n))
  BY <1>8 DEF Order, Decide, InboxFrame
<1>9. CASE AckPost
  BY <1>9 DEF AckPost
<1>10. CASE PostText \/ PostInterrupt \/ SetModel
  BY <1>10 DEF PostText, PostInterrupt, SetModel, Turn, Sent, Commands
<1> QED
  BY <1>1, <1>2, <1>3, <1>4, <1>5, <1>6, <1>7, <1>8, <1>9, <1>10
     DEF Next, Written, Worker, Provider, Pumps, WriterStep

\* A viewer's decision is posted at most once for a request, and not after another client's
\* answer or the result has been seen.
THEOREM DecisionsAreOnce == Spec => DecisionsOnce
<1> DEFINE Fresh == \A n \in DOMAIN log : writer' = Sent(n) /\ writer' # writer => ~Gone(n) /\ n \notin acked
<1>1. ClaudeInv /\ Next => Fresh
  <2> SUFFICES ASSUME ClaudeInv, Next, NEW n \in DOMAIN log, writer' = Sent(n), writer' # writer
               PROVE  ~Gone(n) /\ n \notin acked
    OBVIOUS
  <2>1. TypeOK /\ ProjOK(proj) /\ AnswersOK /\ n \in Int /\ n \notin Commands
    BY NamesAssumption, BoundsAssumption DEF ClaudeInv, TypeOK, Commands
  <2>2. writer'.of = n /\ writer'.at = "sent" /\ writer'.retried = FALSE
    BY DEF Sent
  <2>3. writer' # NULL
    <3>1. writer' \in [of : Int, at : {"sent"}, retried : BOOLEAN]
      BY <2>1 DEF Sent
    <3> QED
      BY <3>1, NamesAssumption
  <2>4. Respond
    BY <2>1, <2>2, <2>3, NewPost
  <2>5. Usable(n)
    <3>1. PICK m : m = Head(inbox)
      OBVIOUS
    <3>2. Usable(m) /\ writer' = Sent(m)
      BY <2>4, <3>1 DEF Respond
    <3>3. m = n
      BY <2>2, <3>2 DEF Sent
    <3> QED
      BY <3>2, <3>3
  <2>6. n \notin acked
    BY <2>1, <2>5 DEF AnswersOK, Spent, Usable
  <2>7. ~Gone(n)
    <3> SUFFICES ASSUME NEW s \in proj.seen, log[s.seq].of = n, log[s.seq].kind \in {"answer", "result"} PROVE FALSE
      BY DEF Gone
    <3>1. s.seq \in 1..proj.last
      BY <2>1 DEF ProjOK, SeenOK
    <3> QED
      BY <2>1, <2>5, <3>1 DEF ProjOK, CardsOK, Usable
  <2> QED
    BY <2>6, <2>7
<1>2. ClaudeInv /\ [Next]_vars => [Fresh]_vars
  BY <1>1
<1>3. Spec => [][Fresh]_vars
  BY <1>2, ClaudeInvariant, PTL DEF Spec
<1> QED
  BY <1>3 DEF DecisionsOnce

\* An observation takes a new model only from the read that is under way.
THEOREM ModelIsFresh == Spec => ModelFresh
<1> DEFINE Fresh == proj.reading # 0 /\ proj'.reading = 0 /\ proj.current # proj'.current => proj.reading > since'
<1>1. ClaudeInv /\ Next => Fresh
  <2> SUFFICES ASSUME ClaudeInv, Next PROVE Fresh
    OBVIOUS
  <2>1. TypeOK /\ ReadsOK /\ proj \in Projections
    BY DEF ClaudeInv, TypeOK
  <2>2. CASE since' = since
    BY <2>1, <2>2 DEF ReadsOK
  <2>3. CASE SetModel
    BY <2>1, <2>2, <2>3 DEF SetModel, Expect, Projections
  <2>4. since' = since \/ SetModel
    <3>1. CASE Written \/ (\E m \in Models : LocalModel(m)) \/ Drop
      <4>1. UNCHANGED Companion
        BY <3>1 DEF Written, Worker, LocalPrompt, Echo, Output, AskAgain, PeerAnswers, Finish, LocalModel, Drop
      <4> QED
        BY <4>1 DEF Companion
    <3>2. CASE Provider \/ ApplyStray
      BY <3>2 DEF Provider, ApplyPost, ApplyRead, ApplyStray
    <3>3. CASE CaptureFails \/ OpenConnection \/ ReadPage \/ ReconcileHistory \/ Consume \/ StreamEnded
      BY <3>3 DEF CaptureFails, OpenConnection, ReadPage, ReconcileHistory, Consume, StreamEnded, Writers
    <3>4. CASE PostFails \/ ReadFails \/ PostRead
      BY <3>4 DEF PostFails, ReadFails, PostRead, ReaderFrame
    <3>5. CASE (\E c \in Prompts \union Interrupts \union ChosenModels : Order(c)) \/ (\E n \in DOMAIN log : Decide(n))
      BY <3>5 DEF Order, Decide, InboxFrame
    <3>6. CASE RefreshToken \/ PostText \/ PostInterrupt \/ Respond \/ AckPost \/ PostAgain \/ InterruptRefused
      BY <3>6 DEF RefreshToken, PostText, PostInterrupt, Respond, AckPost, PostAgain, InterruptRefused
    <3> QED
      BY <3>1, <3>2, <3>3, <3>4, <3>5, <3>6 DEF Next, Written, Worker, Pumps, WriterStep
  <2> QED
    BY <2>2, <2>3, <2>4
<1>2. ClaudeInv /\ [Next]_vars => [Fresh]_vars
  BY <1>1
<1>3. Spec => [][Fresh]_vars
  BY <1>2, ClaudeInvariant, PTL DEF Spec
<1> QED
  BY <1>3 DEF ModelFresh
=============================================================================
