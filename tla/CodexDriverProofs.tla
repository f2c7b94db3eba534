-------------------------- MODULE CodexDriverProofs --------------------------
(***************************************************************************)
(* Proofs about CodexDriver and, after them, about what is advisory in a   *)
(* session: Presence and LivePreview.                                      *)
(*                                                                         *)
(* The companion of a Codex thread: an item is shown once, after the text  *)
(* it answers, and in its final form; an open card has an open request or  *)
(* its resolution on the way; a request is decided once.  For every number *)
(* of texts, replies, failures, replays and decisions.  The invariant      *)
(* (CodexInv) says of the socket and of the queue that what is on its way  *)
(* is true of the thread and comes in its order: every user item is in the *)
(* ledger, in the history that is still to be read, or on its way before   *)
(* whatever follows it (OrderOK); the resolution of a closed request is    *)
(* behind the request (CardsOK, LiveOK); a page of the history holds a     *)
(* user before its replies, and as final only what is (PageOK).  A step of *)
(* the app-server changes the thread in a few ways only (Grown) and        *)
(* notifies the companion of them (Notified), and then all of it is kept   *)
(* (NativeKept); the steps of the companion are taken one by one.          *)
(*                                                                         *)
(* The list: once a page has opened the tombstone no frame, from whichever *)
(* generator, gives the session a row again.  The preview: what a page     *)
(* renders is never older than what was rendered before, because the       *)
(* store's cell only grows (WrittenNewer) and is always as new as what any *)
(* page rendered (CellNewest), so that even a page without a watermark     *)
(* starts there.                                                           *)
(***************************************************************************)
EXTENDS CodexDriver, Presence, LivePreview, WellFoundedInduction, FiniteSetTheorems, SequenceTheorems, TLAPS

-----------------------------------------------------------------------------
(* Loops                                                                   *)

\* The least member of a set of naturals.
LEMMA LeastNatural ==
  ASSUME NEW S \in SUBSET Nat, S # {}
  PROVE  \E x \in S : \A y \in S : x <= y
<1>1. PICK x \in S : \A y \in S : ~(<<y, x>> \in OpToRel(<, Nat))
  BY NatLessThanWellFounded, WFMin
<1>2. \A y \in S : <<y, x>> \in OpToRel(<, Nat) <=> y < x
  BY DEF OpToRel
<1>3. \A y \in S : ~(y < x)
  BY <1>1, <1>2, Zenon
<1> QED
  BY <1>3

\* Induction up to N over a set.
LEMMA UpTo ==
  ASSUME NEW N \in Nat, NEW T, 0 \in T, \A n \in 1..N : n - 1 \in T => n \in T
  PROVE  \A n \in 0..N : n \in T
<1> DEFINE S == {n \in 0..N : n \notin T}
<1> SUFFICES ASSUME S # {} PROVE FALSE
  OBVIOUS
<1>1. S \in SUBSET Nat
  OBVIOUS
<1>2. PICK n \in S : \A m \in S : n <= m
  BY <1>1, LeastNatural
<1>3. n \in 1..N /\ n - 1 \in 0..N /\ n - 1 < n
  BY <1>2
<1> QED
  BY <1>2, <1>3

-----------------------------------------------------------------------------
(* Sequences                                                               *)

LEMMA ConcatIs ==
  ASSUME NEW S, NEW s \in Seq(S), NEW t \in Seq(S)
  PROVE  /\ s \o t \in Seq(S) /\ Len(s) \in Nat /\ Len(t) \in Nat /\ Len(s \o t) = Len(s) + Len(t)
         /\ DOMAIN s = 1..Len(s) /\ DOMAIN t = 1..Len(t) /\ DOMAIN (s \o t) = 1..(Len(s) + Len(t))
         /\ \A k \in 1..Len(s) : (s \o t)[k] = s[k]
         /\ \A k \in 1..Len(t) : (s \o t)[Len(s) + k] = t[k]
         /\ \A k \in (Len(s) + 1)..(Len(s) + Len(t)) : k - Len(s) \in 1..Len(t) /\ (s \o t)[k] = t[k - Len(s)]
OBVIOUS

LEMMA InConcat ==
  ASSUME NEW S, NEW s \in Seq(S), NEW t \in Seq(S), NEW m
  PROVE  /\ In(m, s \o t) <=> In(m, s) \/ In(m, t)
         /\ \A k \in DOMAIN s : Precedes(m, s, k) => Precedes(m, s \o t, k)
         /\ \A k \in DOMAIN s : Later(m, s, k) \/ In(m, t) => Later(m, s \o t, k)
         /\ \A k \in DOMAIN t : In(m, s) \/ Precedes(m, t, k) => Precedes(m, s \o t, Len(s) + k)
         /\ \A k \in DOMAIN t : Later(m, t, k) => Later(m, s \o t, Len(s) + k)
<1> DEFINE st == s \o t
           a == Len(s)
           b == Len(t)
<1>1. /\ a \in Nat /\ b \in Nat /\ DOMAIN s = 1..a /\ DOMAIN t = 1..b /\ DOMAIN st = 1..(a + b)
      /\ \A k \in 1..a : st[k] = s[k]
      /\ \A k \in 1..b : st[a + k] = t[k]
      /\ \A k \in (a + 1)..(a + b) : k - a \in 1..b /\ st[k] = t[k - a]
  BY ConcatIs
<1> HIDE DEF st, a, b
<1>2. In(m, st) <=> In(m, s) \/ In(m, t)
  <2>1. ASSUME NEW k \in 1..(a + b), st[k] = m PROVE In(m, s) \/ In(m, t)
    <3>1. k \in 1..a \/ k \in (a + 1)..(a + b)
      BY <1>1
    <3>2. CASE k \in 1..a
      BY <1>1, <2>1, <3>2 DEF In
    <3>3. CASE k \in (a + 1)..(a + b)
      BY <1>1, <2>1, <3>3 DEF In
    <3> QED
      BY <3>1, <3>2, <3>3
  <2>2. ASSUME NEW k \in 1..a, s[k] = m PROVE In(m, st)
    <3>1. k \in 1..(a + b)
      BY <1>1
    <3> QED
      BY <1>1, <2>2, <3>1 DEF In
  <2>3. ASSUME NEW k \in 1..b, t[k] = m PROVE In(m, st)
    <3>1. a + k \in 1..(a + b)
      BY <1>1
    <3> QED
      BY <1>1, <2>3, <3>1 DEF In
  <2> QED
    BY <1>1, <2>1, <2>2, <2>3 DEF In
<1>3. \A k \in DOMAIN s : Precedes(m, s, k) => Precedes(m, st, k)
  BY <1>1 DEF Precedes
<1>4. \A k \in DOMAIN s : Later(m, s, k) \/ In(m, t) => Later(m, st, k)
  <2>1. ASSUME NEW k \in DOMAIN s, Later(m, s, k) PROVE Later(m, st, k)
    BY <1>1, <2>1 DEF Later
  <2>2. ASSUME NEW k \in DOMAIN s, In(m, t) PROVE Later(m, st, k)
    <3>1. PICK l \in 1..b : t[l] = m
      BY <1>1, <2>2 DEF In
    <3>2. a + l \in 1..(a + b) /\ a + l > k /\ st[a + l] = m
      BY <1>1, <3>1
    <3> QED
      BY <1>1, <3>2 DEF Later
  <2> QED
    BY <2>1, <2>2
<1>5. \A k \in DOMAIN t : In(m, s) \/ Precedes(m, t, k) => Precedes(m, st, a + k)
  <2>1. ASSUME NEW k \in 1..b, NEW j \in 1..a, s[j] = m PROVE Precedes(m, st, a + k)
    <3>1. j \in 1..(a + k - 1) /\ st[j] = m
      BY <1>1, <2>1
    <3> QED
      BY <1>1, <3>1 DEF Precedes
  <2>2. ASSUME NEW k \in 1..b, NEW j \in 1..(k - 1), t[j] = m PROVE Precedes(m, st, a + k)
    <3>1. j \in 1..b /\ a + j \in 1..(a + k - 1)
      BY <1>1
    <3>2. st[a + j] = m
      BY <1>1, <2>2, <3>1
    <3> QED
      BY <1>1, <3>1, <3>2 DEF Precedes
  <2> QED
    BY <1>1, <2>1, <2>2 DEF Precedes, In
<1>6. \A k \in DOMAIN t : Later(m, t, k) => Later(m, st, a + k)
  <2> SUFFICES ASSUME NEW k \in 1..b, NEW l \in 1..b, l > k, t[l] = m PROVE Later(m, st, a + k)
    BY <1>1 DEF Later
  <2>1. a + l \in 1..(a + b) /\ a + l > a + k /\ st[a + l] = m
    BY <1>1
  <2> QED
    BY <1>1, <2>1 DEF Later
<1> QED
  BY <1>2, <1>3, <1>4, <1>5, <1>6 DEF st, a

\* What is said of the rest of a sequence.
LEMMA InTail ==
  ASSUME NEW S, NEW s \in Seq(S), s # <<>>, NEW m
  PROVE  /\ Tail(s) \in Seq(S) /\ Head(s) \in S /\ Len(s) \in Nat \ {0} /\ DOMAIN s = 1..Len(s) /\ Head(s) = s[1]
         /\ \A k \in DOMAIN Tail(s) : k + 1 \in DOMAIN s /\ Tail(s)[k] = s[k + 1]
         /\ In(m, s) => m = Head(s) \/ In(m, Tail(s))
         /\ In(m, Tail(s)) => In(m, s) /\ Later(m, s, 1)
         /\ Later(m, s, 1) => In(m, Tail(s))
         /\ \A k \in DOMAIN Tail(s) : Precedes(m, s, k + 1) => m = Head(s) \/ Precedes(m, Tail(s), k)
         /\ \A k \in DOMAIN Tail(s) : Later(m, s, k + 1) => Later(m, Tail(s), k)
<1> DEFINE t == Tail(s)
           n == Len(s)
<1>1. /\ t \in Seq(S) /\ Head(s) \in S /\ n \in Nat \ {0} /\ DOMAIN s = 1..n /\ Head(s) = s[1]
      /\ DOMAIN t = 1..(n - 1) /\ \A k \in 1..(n - 1) : t[k] = s[k + 1]
  OBVIOUS
<1> HIDE DEF t, n
<1>2. \A k \in 1..n : k = 1 \/ (k - 1 \in 1..(n - 1) /\ s[k] = t[k - 1])
  BY <1>1
<1>3. In(m, s) => m = Head(s) \/ In(m, t)
  BY <1>1, <1>2 DEF In
<1>4. In(m, t) => In(m, s) /\ Later(m, s, 1)
  <2> SUFFICES ASSUME NEW l \in 1..(n - 1), t[l] = m PROVE In(m, s) /\ Later(m, s, 1)
    BY <1>1 DEF In
  <2>1. l + 1 \in 1..n /\ l + 1 > 1 /\ s[l + 1] = m
    BY <1>1
  <2> QED
    BY <1>1, <2>1 DEF In, Later
<1>5. Later(m, s, 1) => In(m, t)
  <2> SUFFICES ASSUME NEW l \in 1..n, l > 1, s[l] = m PROVE In(m, t)
    BY <1>1 DEF Later
  <2> QED
    BY <1>1, <1>2 DEF In
<1>6. \A k \in DOMAIN t : Precedes(m, s, k + 1) => m = Head(s) \/ Precedes(m, t, k)
  <2> SUFFICES ASSUME NEW k \in 1..(n - 1), Precedes(m, s, k + 1), m # Head(s)
               PROVE  Precedes(m, t, k)
    BY <1>1
  <2>2. PICK j \in 1..(k + 1 - 1) : s[j] = m
    BY DEF Precedes
  <2>3. k \in 1..(n - 1)
    BY <1>1
  <2>4. j \in 1..n /\ j # 1
    BY <1>1, <2>2, <2>3
  <2>1. j - 1 \in 1..(k - 1) /\ t[j - 1] = m
    BY <1>1, <1>2, <2>2, <2>3, <2>4
  <2> QED
    BY <2>1 DEF Precedes
<1>7. \A k \in DOMAIN t : Later(m, s, k + 1) => Later(m, t, k)
  <2> SUFFICES ASSUME NEW k \in 1..(n - 1), NEW j \in 1..n, j > k + 1, s[j] = m
               PROVE  Later(m, t, k)
    BY <1>1 DEF Later
  <2>1. j - 1 \in 1..(n - 1) /\ t[j - 1] = m /\ j - 1 > k
    BY <1>1, <1>2
  <2> QED
    BY <1>1, <2>1 DEF Later
<1> QED
  BY <1>1, <1>3, <1>4, <1>5, <1>6, <1>7 DEF t, n

LEMMA InAppend ==
  ASSUME NEW S, NEW s \in Seq(S), NEW x \in S, NEW m
  PROVE  /\ Append(s, x) \in Seq(S) /\ Len(s) \in Nat /\ DOMAIN s = 1..Len(s)
         /\ DOMAIN Append(s, x) = 1..(Len(s) + 1) /\ Append(s, x)[Len(s) + 1] = x
         /\ \A k \in 1..Len(s) : Append(s, x)[k] = s[k]
         /\ In(m, Append(s, x)) <=> In(m, s) \/ m = x
         /\ \A k \in DOMAIN s : Precedes(m, s, k) => Precedes(m, Append(s, x), k)
         /\ In(m, s) => Precedes(m, Append(s, x), Len(s) + 1)
         /\ \A k \in DOMAIN s : Later(m, s, k) \/ m = x => Later(m, Append(s, x), k)
<1> DEFINE t == Append(s, x)
           n == Len(s)
<1>1. /\ t \in Seq(S) /\ n \in Nat /\ DOMAIN s = 1..n /\ DOMAIN t = 1..(n + 1) /\ t[n + 1] = x
      /\ \A k \in 1..n : t[k] = s[k]
  OBVIOUS
<1> HIDE DEF t, n
<1>2. In(m, t) <=> In(m, s) \/ m = x
  BY <1>1 DEF In
<1>3. \A k \in DOMAIN s : Precedes(m, s, k) => Precedes(m, t, k)
  BY <1>1 DEF Precedes
<1>4. In(m, s) => Precedes(m, t, n + 1)
  BY <1>1 DEF Precedes, In
<1>5. \A k \in DOMAIN s : Later(m, s, k) \/ m = x => Later(m, t, k)
  BY <1>1 DEF Later
<1> QED
  BY <1>1, <1>2, <1>3, <1>4, <1>5 DEF t, n

-----------------------------------------------------------------------------
(* The thread grows                                                        *)

Finite == IsFiniteSet(Prompts) /\ IsFiniteSet(Locals) /\ MaxReplies \in Nat

LEMMA ConstantsFinite == Finite
BY BoundsAssumption, NamesAssumption DEF Finite

\* Every item of the thread has an id: users are told apart by their texts.
LEMMA ThreadFits ==
  ASSUME thread \in Seq(Items), ThreadOK
  PROVE  DOMAIN thread \subseteq Ids
<1> DEFINE N == Len(thread)
           T == Prompts \union Locals
<1>1. N \in Nat /\ DOMAIN thread = 1..N
  OBVIOUS
<1>2. IsFiniteSet(1..N) /\ Cardinality(1..N) = N
  BY <1>1, FS_Interval
<1>3. IsFiniteSet(Users) /\ IsFiniteSet(Replies)
  <2>1. Users \in SUBSET (1..N) /\ Replies \in SUBSET (1..N)
    BY <1>1 DEF Users, Replies
  <2> QED
    BY <1>2, <2>1, FS_Subset
<1>4. IsFiniteSet(T) /\ Cardinality(T) \in Nat
  <2>1. IsFiniteSet(T)
    BY ConstantsFinite, FS_Union DEF Finite
  <2> QED
    BY <2>1, FS_CardinalityType
<1>5. Cardinality(Users) <= Cardinality(T)
  <2> DEFINE f == [u \in Users |-> thread[u].of]
  <2>1. f \in [Users -> T]
    BY DEF ThreadOK
  <2>2. \A u, v \in Users : f[u] = f[v] => u = v
    BY DEF ThreadOK
  <2>3. f \in Injection(Users, T)
    BY <2>1, <2>2 DEF Injection, IsInjective
  <2> QED
    BY <1>4, <2>3, FS_Injection
<1>6. N = Cardinality(Users) + Cardinality(Replies)
  <2>1. Users \union Replies = 1..N /\ Users \intersect Replies = {}
    BY <1>1 DEF Users, Replies
  <2>2. Cardinality({}) = 0
    BY FS_EmptySet
  <2>3. Cardinality(Users) \in Nat /\ Cardinality(Replies) \in Nat
    BY <1>3, FS_CardinalityType
  <2>4. Cardinality(Users \union Replies) = Cardinality(Users) + Cardinality(Replies) - Cardinality(Users \intersect Replies)
    BY <1>3, FS_Union
  <2>5. Cardinality(Users \union Replies) = N
    BY ONLY <1>2, <2>1, Zenon
  <2>6. Cardinality(Users \intersect Replies) = 0
    BY ONLY <2>1, <2>2, Zenon
  <2> HIDE DEF N
  <2> QED
    BY <1>1, <2>3, <2>4, <2>5, <2>6
<1>7. N <= Cardinality(T) + MaxReplies
  <2>1. Cardinality(Users) \in Nat /\ Cardinality(Replies) \in Nat /\ Cardinality(Replies) <= MaxReplies
    BY <1>3, FS_CardinalityType DEF ThreadOK
  <2> QED
    BY <1>4, <1>5, <1>6, <2>1, ConstantsFinite DEF Finite
<1> QED
  BY <1>1, <1>4, <1>7, ConstantsFinite DEF Ids, Finite

LEMMA ThreadTyped ==
  ASSUME thread \in Seq(Items), ThreadOK
  PROVE  /\ Len(thread) \in Nat /\ DOMAIN thread = 1..Len(thread) /\ DOMAIN thread \subseteq Ids /\ Ids \subseteq Nat
         /\ \A i \in DOMAIN thread : i \in Ids /\ i \in Nat /\ thread[i] \in Items /\ thread[i].turn \in Nat
               /\ thread[i].ver \in {1, 2} /\ thread[i].ask \in {"none", "open", "closed"}
               /\ thread[i].kind \in {"user", "agent", "cmd", "patch"}
         /\ Users \subseteq DOMAIN thread /\ Replies \subseteq DOMAIN thread
         /\ \A i \in DOMAIN thread : i \in Users <=> thread[i].kind = "user"
         /\ \A i \in DOMAIN thread : i \in Replies <=> thread[i].kind # "user"
<1>1. DOMAIN thread \subseteq Ids
  BY ThreadFits
<1>2. Ids \subseteq Nat
  BY DEF Ids
<1>3. \A i \in DOMAIN thread : thread[i] \in Items
  OBVIOUS
<1>4. \A x \in Items : /\ x.turn \in Nat /\ x.ver \in {1, 2} /\ x.ask \in {"none", "open", "closed"}
                       /\ x.kind \in {"user", "agent", "cmd", "patch"}
  BY BoundsAssumption DEF Items
<1>5. Len(thread) \in Nat /\ DOMAIN thread = 1..Len(thread)
  OBVIOUS
<1> QED
  BY <1>1, <1>2, <1>3, <1>4, <1>5 DEF Users, Replies

\* What a step of the app-server may do to the thread.
Grown ==
    /\ thread' \in Seq(Items) /\ Len(thread) <= Len(thread') /\ Len(thread') <= Len(thread) + 1
    /\ turn' \in Nat /\ turn <= turn' /\ mode' = mode
    /\ \A i \in DOMAIN thread :
          /\ thread'[i].turn = thread[i].turn /\ thread'[i].kind = thread[i].kind /\ thread'[i].of = thread[i].of
          /\ thread[i].ver = 2 \/ Terminal(thread[i].turn) => thread'[i].ver = thread[i].ver
          /\ thread[i].ask # "none" => thread'[i].ask # "none"
    /\ \A t \in 1..turn : Terminal(t) => (t < turn' \/ (t = turn' /\ status' # "active"))

LEMMA GrownFacts ==
  ASSUME TypeOK, ThreadOK, Grown
  PROVE  /\ DOMAIN thread \subseteq DOMAIN thread' /\ DOMAIN thread' = 1..Len(thread') /\ Len(thread') \in Nat
         /\ \A i \in DOMAIN thread : (i \in Users' <=> i \in Users) /\ (i \in Replies' <=> i \in Replies)
         /\ \A i \in DOMAIN thread : \A u : u \in Users /\ Leads(u, i) => u \in Users' /\ Leads(u, i)'
         /\ \A u \in Users' : u \in DOMAIN thread => u \in Users
         /\ \A u \in Users' : u \in DOMAIN thread \/ u = Len(thread) + 1
         /\ \A t \in 1..turn : Terminal(t) => Terminal(t)'
         /\ \A i \in DOMAIN thread : thread[i].turn \in 1..turn
         /\ 1..turn \subseteq 1..turn'
<1>1. thread \in Seq(Items) /\ turn \in Nat
  BY DEF TypeOK
<1>2. /\ Len(thread) \in Nat /\ Len(thread') \in Nat /\ DOMAIN thread = 1..Len(thread) /\ DOMAIN thread' = 1..Len(thread')
      /\ Len(thread) <= Len(thread') /\ Len(thread') <= Len(thread) + 1
  BY <1>1 DEF Grown
<1>3. DOMAIN thread \subseteq DOMAIN thread'
  BY <1>2
<1>4. \A i \in DOMAIN thread : (i \in Users' <=> i \in Users) /\ (i \in Replies' <=> i \in Replies)
  BY <1>3 DEF Grown, Users, Replies
<1>5. \A i \in DOMAIN thread : \A u : u \in Users /\ Leads(u, i) => u \in Users' /\ Leads(u, i)'
  BY <1>3, <1>4 DEF Grown, Leads, Users
<1>6. \A u \in Users' : u \in DOMAIN thread \/ u = Len(thread) + 1
  BY <1>2 DEF Users
<1>7. \A t \in 1..turn : Terminal(t) => Terminal(t)'
  BY DEF Grown, Terminal
<1>8. 1..turn \subseteq 1..turn'
  BY <1>1 DEF Grown
<1> QED
  BY <1>2, <1>3, <1>4, <1>5, <1>6, <1>7, <1>8 DEF ThreadOK

\* What was shown stays true: the content that was shown no longer changes.
LEMMA ShownGrown ==
  ASSUME TypeOK, ThreadOK, Grown, DOMAIN thread' \subseteq Ids, ShownOK(proj), proj' = proj
  PROVE  ShownOK(proj)'
<1>1. /\ DOMAIN thread \subseteq DOMAIN thread'
      /\ \A i \in DOMAIN thread : (i \in Users' <=> i \in Users) /\ (i \in Replies' <=> i \in Replies)
      /\ \A i \in DOMAIN thread : \A u : u \in Users /\ Leads(u, i) => u \in Users' /\ Leads(u, i)'
      /\ \A i \in DOMAIN thread : thread[i].turn \in 1..turn
  BY GrownFacts
<1>0. PICK p : ShownOK(p) /\ p = proj
  OBVIOUS
<1>2. \A i \in Ids : p.seen[i] # 0 \/ i \in p.starts => i \in DOMAIN thread'
  BY <1>0, <1>1 DEF ShownOK
<1>3. ASSUME NEW i \in Ids, p.seen[i] # 0
      PROVE  IF thread'[i].kind = "agent"
             THEN p.seen[i] = thread'[i].ver
                  /\ (thread'[i].ver = 2 \/ thread'[i].turn < turn' \/ (thread'[i].turn = turn' /\ status' # "active"))
             ELSE p.seen[i] = 2
  <2>1. i \in DOMAIN thread /\ thread'[i].kind = thread[i].kind /\ thread'[i].turn = thread[i].turn
    BY <1>0, <1>3 DEF ShownOK, Grown
  <2>2. CASE thread[i].kind # "agent"
    BY <1>0, <1>3, <2>1, <2>2 DEF ShownOK
  <2>3. CASE thread[i].kind = "agent"
    <3>1. p.seen[i] = thread[i].ver /\ (thread[i].ver = 2 \/ Terminal(thread[i].turn))
      BY <1>0, <1>3, <2>3 DEF ShownOK
    <3>2. thread'[i].ver = thread[i].ver
      BY <2>1, <3>1 DEF Grown
    <3>3. Terminal(thread[i].turn) => thread'[i].turn < turn' \/ (thread'[i].turn = turn' /\ status' # "active")
      BY <1>1, <2>1 DEF Grown
    <3> QED
      BY <2>1, <2>3, <3>1, <3>2, <3>3
  <2> QED
    BY <2>2, <2>3
<1>4. \A i \in Users' : p.seen[i] # 0 => In(Row(i, "user"), p.up)
  <2> SUFFICES ASSUME NEW i \in Users', p.seen[i] # 0 PROVE In(Row(i, "user"), p.up)
    OBVIOUS
  <2>1. i \in Ids
    BY DEF Users
  <2>2. i \in Users
    BY <1>0, <1>1, <2>1 DEF ShownOK
  <2> QED
    BY <1>0, <2>2 DEF ShownOK
<1>5. ASSUME NEW k \in DOMAIN p.up
      PROVE  LET e == p.up[k] IN
          /\ e.id \in DOMAIN thread' /\ (p.seen[e.id] # 0 \/ (e.what = "call" /\ e.id \in p.starts))
          /\ thread'[e.id].kind = CASE e.what = "user" -> "user" [] e.what = "text" -> "agent" [] OTHER -> "cmd"
          /\ \A j \in DOMAIN p.up : p.up[j] = e => j = k
          /\ e.what = "result" => Precedes(Row(e.id, "call"), p.up, k)
          /\ e.what # "user" => \E u \in Users' : u < e.id /\ thread'[u].turn = thread'[e.id].turn /\ Precedes(Row(u, "user"), p.up, k)
  <2>1. PICK e : e = p.up[k]
    OBVIOUS
  <2>2. /\ e.id \in DOMAIN thread /\ (p.seen[e.id] # 0 \/ (e.what = "call" /\ e.id \in p.starts))
        /\ thread[e.id].kind = CASE e.what = "user" -> "user" [] e.what = "text" -> "agent" [] OTHER -> "cmd"
        /\ \A j \in DOMAIN p.up : p.up[j] = e => j = k
        /\ e.what = "result" => Precedes(Row(e.id, "call"), p.up, k)
        /\ e.what # "user" => \E u \in Users : Leads(u, e.id) /\ Precedes(Row(u, "user"), p.up, k)
    BY <1>0, <2>1 DEF ShownOK
  <2>3. e.id \in DOMAIN thread' /\ thread'[e.id].kind = thread[e.id].kind
    BY <1>1, <2>2 DEF Grown
  <2>4. e.what # "user" => \E u \in Users' : u < e.id /\ thread'[u].turn = thread'[e.id].turn /\ Precedes(Row(u, "user"), p.up, k)
    BY <1>1, <2>2, <2>3 DEF Leads
  <2> QED
    BY <2>1, <2>2, <2>3, <2>4
<1>6. proj' = p /\ ~p.bad /\ \A i \in p.starts : In(Row(i, "call"), p.up)
  BY <1>0 DEF ShownOK
<1> QED
  BY <1>2, <1>3, <1>4, <1>5, <1>6 DEF ShownOK, Terminal, Leads

\* A page that was read stays a page of the thread.
LEMMA PageGrown ==
  ASSUME TypeOK, ThreadOK, Grown, ReadingOK, PageOK, reading' = reading, proj' = proj
  PROVE  PageOK'
<1>0. PICK r, s : r = reading /\ s = proj.seen
  OBVIOUS
<1>1. /\ DOMAIN thread \subseteq DOMAIN thread' /\ Len(thread') \in Nat
      /\ \A i \in DOMAIN thread : (i \in Users' <=> i \in Users) /\ (i \in Replies' <=> i \in Replies)
      /\ \A i \in DOMAIN thread : \A u : u \in Users /\ Leads(u, i) => u \in Users' /\ Leads(u, i)'
      /\ \A u \in Users' : u \in DOMAIN thread \/ u = Len(thread) + 1
      /\ \A i \in DOMAIN thread : thread[i].turn \in 1..turn
  BY GrownFacts
<1>2. mode' = mode /\ (PageHere' <=> PageHere) /\ r = reading' /\ s = proj'.seen
  BY <1>0 DEF Grown, PageHere
<1>3. ASSUME PageHere
      PROVE  r.got \in Seq(Entries) /\ \A k \in DOMAIN r.got : LET e == r.got[k] IN
          /\ e.id \in DOMAIN thread' /\ e.turn = thread'[e.id].turn
          /\ e.ver = 2 => thread'[e.id].ver = 2
          /\ Final(e) => e.ver = thread'[e.id].ver /\ (e.turn < turn' \/ (e.turn = turn' /\ status' # "active"))
          /\ e.turn = r.turn => Final(e)
          /\ e.id \in Replies' => \E u \in Users' : u < e.id /\ thread'[u].turn = thread'[e.id].turn
                /\ (s[u] # 0 \/ \E j \in 1..(k - 1) : r.got[j].id = u)
  <2>1. r.got \in Seq(Entries)
    BY <1>0, <1>3 DEF PageOK
  <2>2. ASSUME NEW k \in DOMAIN r.got, NEW e, e = r.got[k]
        PROVE /\ e.id \in DOMAIN thread' /\ e.turn = thread'[e.id].turn
              /\ e.ver = 2 => thread'[e.id].ver = 2
              /\ Final(e) => e.ver = thread'[e.id].ver /\ (e.turn < turn' \/ (e.turn = turn' /\ status' # "active"))
              /\ e.turn = r.turn => Final(e)
              /\ e.id \in Replies' => \E u \in Users' : u < e.id /\ thread'[u].turn = thread'[e.id].turn
                    /\ (s[u] # 0 \/ \E j \in 1..(k - 1) : r.got[j].id = u)
    <3>1. /\ e.id \in DOMAIN thread /\ e.turn = thread[e.id].turn
          /\ e.ver = 2 => thread[e.id].ver = 2
          /\ Final(e) => e.ver = thread[e.id].ver /\ Terminal(e.turn)
          /\ e.turn = r.turn => Final(e)
          /\ e.id \in Replies => \E u \in Users :
                Leads(u, e.id) /\ (s[u] # 0 \/ \E j \in 1..(k - 1) : r.got[j].id = u)
      BY <1>0, <1>3, <2>2 DEF PageOK
    <3>2. e.id \in DOMAIN thread' /\ e.turn = thread'[e.id].turn /\ e.turn \in 1..turn
      BY <1>1, <3>1 DEF Grown
    <3>3. e.ver = 2 => thread'[e.id].ver = 2
      BY <3>1 DEF Grown
    <3>4. Final(e) => e.ver = thread'[e.id].ver /\ (e.turn < turn' \/ (e.turn = turn' /\ status' # "active"))
      BY <3>1, <3>2 DEF Grown
    <3>5. ASSUME e.id \in Replies'
          PROVE \E u \in Users' : u < e.id /\ thread'[u].turn = thread'[e.id].turn
                    /\ (s[u] # 0 \/ \E j \in 1..(k - 1) : r.got[j].id = u)
      <4>1. PICK u \in Users : Leads(u, e.id) /\ (s[u] # 0 \/ \E j \in 1..(k - 1) : r.got[j].id = u)
        BY <1>1, <3>1, <3>5
      <4>2. u \in Users' /\ u < e.id /\ thread'[u].turn = thread'[e.id].turn
        BY <1>1, <3>1, <4>1 DEF Leads
      <4> QED
        BY <4>1, <4>2
    <3> QED
      BY <3>1, <3>2, <3>3, <3>4, <3>5
  <2> QED
    BY <2>1, <2>2
<1>4. ASSUME mode = "paginated", r.step = "page", NEW u \in Users',
             u <= r.pos, r.turn # 0 => thread'[u].turn = r.turn
      PROVE  s[u] # 0 \/ (PageHere /\ \E k \in DOMAIN r.got : r.got[k].id = u)
  <2>1. r.pos <= Len(thread) /\ r.pos \in Nat /\ Len(thread) \in Nat
    BY <1>0, <1>4 DEF ReadingOK, TypeOK
  <2>2. u \in Users /\ thread'[u].turn = thread[u].turn
    BY <1>1, <1>4, <2>1 DEF Grown
  <2> QED
    BY <1>0, <1>4, <2>2 DEF PageOK, Got
<1>5. \A e : Final(e)' <=> Final(e)
  BY <1>0, <1>2 DEF Final
<1> QED
  BY <1>2, <1>3, <1>4, <1>5 DEF PageOK, Leads, Terminal, Got, Final

LEMMA ReadingGrown ==
  ASSUME TypeOK, ThreadOK, Grown, ReadingOK, reading' = reading, proj' = proj, phase' = phase
  PROVE  ReadingOK'
<1>1. /\ Len(thread) \in Nat /\ Len(thread') \in Nat /\ Len(thread) <= Len(thread') /\ mode' = mode
      /\ \A t \in 1..turn : Terminal(t) => t < turn' \/ (t = turn' /\ status' # "active")
      /\ 1..turn \subseteq 1..turn' /\ reading.pos \in Nat
  BY GrownFacts DEF Grown, TypeOK
<1>2. PICK r, p : r = reading /\ p = proj
  OBVIOUS
<1>3. r.turn # 0 => r.turn \in 1..turn' /\ (r.turn < turn' \/ (r.turn = turn' /\ status' # "active"))
  BY <1>1, <1>2 DEF ReadingOK
<1>4. \A t \in r.terminal : t \in 1..turn' /\ (t < turn' \/ (t = turn' /\ status' # "active"))
  BY <1>1, <1>2 DEF ReadingOK
<1>5. \A k \in DOMAIN p.ready : p.ready[k] \in 1..turn' /\ (p.ready[k] < turn' \/ (p.ready[k] = turn' /\ status' # "active"))
  BY <1>1, <1>2 DEF ReadingOK
<1>6. mode = "paginated" => r.pos <= Len(thread')
  BY <1>1, <1>2 DEF ReadingOK
<1>7. NoRequest' = NoRequest
  BY DEF NoRequest
<1> QED
  BY <1>1, <1>2, <1>3, <1>4, <1>5, <1>6, <1>7 DEF ReadingOK, Terminal

-----------------------------------------------------------------------------
(* The app-server sends                                                    *)

\* What a step of the app-server may say of the thread as it is after it.
Notified(msgs) ==
    /\ msgs \in Seq(WireMessages)
    /\ wire' = IF Subscribed THEN wire \o msgs ELSE wire
    /\ \A k \in DOMAIN msgs : LET m == msgs[k] IN
          /\ m.t \in {"started", "completed", "request", "resolved"} => m.id \in DOMAIN thread'
          /\ m.t = "completed" => thread'[m.id].ver = 2
          /\ m.t = "request" => thread'[m.id].ask = "open"
          /\ m.t = "turn" => m.id \in 1..turn' /\ (m.id < turn' \/ (m.id = turn' /\ status' # "active"))
    /\ \A u \in Users' : u \in DOMAIN thread \/ In(Msg("completed", u), msgs)
    /\ \A i \in DOMAIN thread' : thread'[i].ask = "closed" =>
          (i \in DOMAIN thread /\ thread[i].ask = "closed") \/ In(Msg("resolved", i), msgs)
    /\ \A i \in DOMAIN thread : thread[i].ask = "open" => thread'[i].ask = "open" \/ In(Msg("resolved", i), msgs)

\* Before the subscription the companion has nothing.
LEMMA Unsubscribed ==
  ASSUME TypeOK, ReadingOK, ChannelOK, ~Subscribed
  PROVE  /\ wire = <<>> /\ queue = <<>> /\ live = {} /\ phase = "attach" /\ \A i \in Ids : proj.cards[i] = "none"
         /\ \A u : Covered(u)
<1>1. reading.step = "resume" /\ wire = <<>> /\ queue = <<>> /\ live = {}
  BY DEF ChannelOK, Subscribed
<1>2. reading.step # "none" /\ reading.step # "page"
  BY <1>1
<1>3. phase = "attach"
  BY <1>1 DEF ReadingOK, NoRequest, TypeOK
<1> QED
  BY <1>1, <1>3 DEF ReadingOK, Covered

LEMMA WireGrown ==
  ASSUME TypeOK, NEW msgs, Notified(msgs), Subscribed
  PROVE  /\ wire' = wire \o msgs /\ wire' \in Seq(WireMessages) /\ Len(wire) \in Nat
         /\ DOMAIN wire = 1..Len(wire)
         /\ \A k \in DOMAIN wire : k \in DOMAIN wire' /\ wire'[k] = wire[k]
         /\ \A k \in DOMAIN msgs : Len(wire) + k \in DOMAIN wire' /\ wire'[Len(wire) + k] = msgs[k]
         /\ \A k \in DOMAIN wire' : k \in DOMAIN wire \/ (k - Len(wire) \in DOMAIN msgs /\ k = Len(wire) + (k - Len(wire)))
<1>1. wire' = wire \o msgs /\ wire \in Seq(WireMessages) /\ msgs \in Seq(WireMessages)
  BY DEF Notified, TypeOK
<1>2. PICK w, v : w = wire /\ v = wire'
  OBVIOUS
<1>3. v = w \o msgs /\ w \in Seq(WireMessages)
  BY <1>1, <1>2
<1>4. /\ v \in Seq(WireMessages) /\ Len(w) \in Nat /\ Len(msgs) \in Nat
      /\ DOMAIN w = 1..Len(w) /\ DOMAIN msgs = 1..Len(msgs) /\ DOMAIN v = 1..(Len(w) + Len(msgs))
      /\ \A k \in 1..Len(w) : v[k] = w[k]
      /\ \A k \in 1..Len(msgs) : v[Len(w) + k] = msgs[k]
  BY <1>1, <1>3, ConcatIs
<1>5. \A k \in DOMAIN w : k \in DOMAIN v
  BY <1>4
<1>6. \A k \in DOMAIN msgs : Len(w) + k \in DOMAIN v
  BY <1>4
<1>7. \A k \in DOMAIN v : k \in DOMAIN w \/ (k - Len(w) \in DOMAIN msgs /\ k = Len(w) + (k - Len(w)))
  BY <1>4
<1> QED
  BY <1>1, <1>2, <1>3, <1>4, <1>5, <1>6, <1>7

LEMMA KnownGrown ==
  ASSUME Grown, reading' = reading, proj' = proj, phase' = phase
  PROVE  \A u \in Users : Known(u) => Known(u)'
BY DEF Users, Known, Covered, Beyond, PageHere, Got, Grown

LEMMA OrderSent ==
  ASSUME TypeOK, ThreadOK, Grown, ChannelOK, ReadingOK, OrderOK(queue, wire), NEW msgs, Notified(msgs), queue' = queue,
         \A u \in Users : Known(u) => Known(u)', ~Subscribed => reading' = reading /\ phase' = phase
  PROVE  OrderOK(queue, wire)'
<1>1. /\ DOMAIN thread \subseteq DOMAIN thread' /\ DOMAIN thread' = 1..Len(thread') /\ Len(thread') \in Nat
      /\ \A u \in Users' : u \in DOMAIN thread => u \in Users
      /\ \A u \in Users' : u \in DOMAIN thread \/ u = Len(thread) + 1
  BY GrownFacts
<1>2. DOMAIN thread = 1..Len(thread) /\ Len(thread) \in Nat /\ Len(thread') <= Len(thread) + 1
  BY DEF TypeOK, Grown
<1>3. \A u \in Users : Known(u) => Known(u)'
  OBVIOUS
<1>4. CASE ~Subscribed
  <2>1. wire' = <<>> /\ queue' = <<>> /\ reading'.step = "resume" /\ phase' = "attach"
    BY <1>4, Unsubscribed DEF Notified, Subscribed
  <2>2. \A u : Covered(u)'
    BY <2>1 DEF Covered
  <2> QED
    BY <2>1, <2>2 DEF OrderOK, Known
<1>5. CASE Subscribed
  <2>1. PICK q, w, v : q = queue /\ w = wire /\ v = wire'
    OBVIOUS
  <2>2. /\ v = w \o msgs /\ Len(w) \in Nat /\ DOMAIN w = 1..Len(w)
        /\ \A k \in DOMAIN w : k \in DOMAIN v /\ v[k] = w[k]
        /\ \A k \in DOMAIN msgs : Len(w) + k \in DOMAIN v /\ v[Len(w) + k] = msgs[k]
        /\ \A k \in DOMAIN v : k \in DOMAIN w \/ (k - Len(w) \in DOMAIN msgs /\ k = Len(w) + (k - Len(w)))
    BY <1>5, <2>1, WireGrown
  <2>3. w \in Seq(WireMessages) /\ msgs \in Seq(WireMessages)
    BY <2>1 DEF TypeOK, Notified
  <2>4. \A m : /\ In(m, w) \/ In(m, msgs) => In(m, v)
               /\ \A k \in DOMAIN w : Precedes(m, w, k) => Precedes(m, v, k)
               /\ \A k \in DOMAIN msgs : In(m, w) => Precedes(m, v, Len(w) + k)
    BY <2>2, <2>3, InConcat
  <2>5. OrderOK(q, w)
    BY <2>1
  <2>6. \A u \in Users : Known(u)' \/ In(Msg("completed", u), q) \/ In(Msg("completed", u), w)
    BY <1>3, <2>5 DEF OrderOK
  <2>7. ASSUME NEW u \in Users' PROVE Known(u)' \/ In(Msg("completed", u), q) \/ In(Msg("completed", u), v)
    <3>1. CASE u \in DOMAIN thread
      BY <1>1, <2>4, <2>6, <3>1
    <3>2. CASE u \notin DOMAIN thread
      BY <2>4, <3>2 DEF Notified
    <3> QED
      BY <3>1, <3>2
  <2>8. ASSUME NEW k \in DOMAIN q, NEW u \in Users', q[k].t \in {"started", "completed"}, u < q[k].id
        PROVE  Known(u)' \/ Precedes(Msg("completed", u), q, k)
    <3>1. q[k].id \in DOMAIN thread
      BY <2>1, <2>8 DEF ChannelOK, Says
    <3>2. u \in Users
      BY <1>1, <1>2, <2>8, <3>1
    <3> QED
      BY <1>3, <2>5, <2>8, <3>2 DEF OrderOK
  <2>9. ASSUME NEW k \in DOMAIN v, NEW u \in Users', v[k].t \in {"started", "completed"}, u < v[k].id
        PROVE  Known(u)' \/ In(Msg("completed", u), q) \/ Precedes(Msg("completed", u), v, k)
    <3>1. CASE k \in DOMAIN w
      <4>1. v[k] = w[k] /\ w[k].id \in DOMAIN thread
        BY <2>1, <2>2, <2>9, <3>1 DEF ChannelOK, Says
      <4>2. u \in Users
        BY <1>1, <1>2, <2>9, <4>1
      <4>3. Known(u) \/ In(Msg("completed", u), q) \/ Precedes(Msg("completed", u), w, k)
        BY <2>5, <2>9, <3>1, <4>1, <4>2 DEF OrderOK
      <4> QED
        BY <1>3, <2>4, <3>1, <4>2, <4>3
    <3>2. CASE k \notin DOMAIN w
      <4>1. PICK j \in DOMAIN msgs : k = Len(w) + j /\ v[k] = msgs[j]
        BY <2>2, <3>2
      <4>2. msgs[j].id \in DOMAIN thread'
        BY <2>9, <4>1 DEF Notified
      <4>3. u \in DOMAIN thread
        BY <1>1, <1>2, <2>9, <4>1, <4>2
      <4>4. Known(u)' \/ In(Msg("completed", u), q) \/ In(Msg("completed", u), w)
        BY <1>1, <2>6, <4>3
      <4> QED
        BY <2>4, <4>1, <4>4
    <3> QED
      BY <3>1, <3>2
  <2> QED
    BY <2>1, <2>7, <2>8, <2>9 DEF OrderOK
<1> QED
  BY <1>4, <1>5

LEMMA CardsSent ==
  ASSUME TypeOK, ThreadOK, Grown, ChannelOK, ReadingOK, CardsOK(queue, wire), NEW msgs, Notified(msgs),
         queue' = queue, proj' = proj, phase' = phase
  PROVE  CardsOK(queue, wire)'
<1>1. \A i : Closed(i)' => Closed(i) \/ In(Msg("resolved", i), msgs)
  BY DEF Closed, Notified
<1>2. CASE ~Subscribed
  <2>1. wire' = <<>> /\ queue' = <<>> /\ \A i \in Ids : proj.cards[i] = "none"
    BY <1>2, Unsubscribed DEF Notified
  <2> QED
    BY <2>1 DEF CardsOK
<1>3. CASE Subscribed
  <2>1. PICK q, w, v : q = queue /\ w = wire /\ v = wire'
    OBVIOUS
  <2>2. /\ v = w \o msgs /\ Len(w) \in Nat
        /\ \A k \in DOMAIN w : k \in DOMAIN v /\ v[k] = w[k]
        /\ \A k \in DOMAIN msgs : Len(w) + k \in DOMAIN v /\ v[Len(w) + k] = msgs[k]
        /\ \A k \in DOMAIN v : k \in DOMAIN w \/ (k - Len(w) \in DOMAIN msgs /\ k = Len(w) + (k - Len(w)))
    BY <1>3, <2>1, WireGrown
  <2>3. w \in Seq(WireMessages) /\ msgs \in Seq(WireMessages)
    BY <2>1 DEF TypeOK, Notified
  <2>4. \A m : /\ In(m, w) \/ In(m, msgs) => In(m, v)
               /\ \A k \in DOMAIN w : Later(m, w, k) \/ In(m, msgs) => Later(m, v, k)
    BY <2>2, <2>3, InConcat
  <2>5. CardsOK(q, w)
    BY <2>1
  <2>6. ASSUME NEW i \in Ids, Closed(i)', proj.cards[i] \in {"open", "submitted"}
        PROVE  In(Msg("resolved", i), q) \/ In(Msg("resolved", i), v)
    BY <1>1, <2>4, <2>5, <2>6 DEF CardsOK
  <2>7. ASSUME NEW k \in DOMAIN q, q[k].t = "request", Closed(q[k].id)'
        PROVE  Later(Msg("resolved", q[k].id), q, k) \/ In(Msg("resolved", q[k].id), v)
    <3>1. PICK i : i = q[k].id
      OBVIOUS
    <3>2. Closed(i)'
      BY <2>7, <3>1 DEF Closed
    <3> QED
      BY <1>1, <2>4, <2>5, <2>7, <3>1, <3>2 DEF CardsOK
  <2>8. ASSUME NEW k \in DOMAIN v, v[k].t = "request", Closed(v[k].id)'
        PROVE  Later(Msg("resolved", v[k].id), v, k)
    <3>1. PICK i : i = v[k].id
      OBVIOUS
    <3>2. Closed(i)'
      BY <2>8, <3>1 DEF Closed
    <3>3. CASE k \in DOMAIN w
      BY <1>1, <2>2, <2>4, <2>5, <2>8, <3>1, <3>2, <3>3 DEF CardsOK
    <3>4. CASE k \notin DOMAIN w
      <4>1. PICK j \in DOMAIN msgs : v[k] = msgs[j]
        BY <2>2, <3>4
      <4>2. thread'[i].ask = "open"
        BY <2>8, <3>1, <4>1 DEF Notified
      <4> QED
        BY <3>2, <4>2 DEF Closed
    <3> QED
      BY <3>3, <3>4
  <2> QED
    BY <2>1, <2>6, <2>7, <2>8 DEF CardsOK
<1> QED
  BY <1>2, <1>3

LEMMA LiveSent ==
  ASSUME TypeOK, ThreadOK, Grown, ChannelOK, ReadingOK, LiveOK(wire, received, live), NEW msgs, Notified(msgs),
         received' = received, live' = live, \A i \in Ids : decisions[i] = "none" => decisions'[i] = "none"
  PROVE  LiveOK(wire, received, live)'
<1>1. CASE ~Subscribed
  <2>1. live = {}
    BY <1>1, Unsubscribed
  <2> QED
    BY <2>1 DEF LiveOK
<1>2. CASE Subscribed
  <2>1. PICK w, v : w = wire /\ v = wire'
    OBVIOUS
  <2>2. v = w \o msgs /\ w \in Seq(WireMessages) /\ msgs \in Seq(WireMessages)
    BY <1>2, <2>1, WireGrown DEF TypeOK, Notified
  <2>3. \A m : In(m, w) \/ In(m, msgs) => In(m, v)
    BY <2>2, InConcat
  <2>4. DOMAIN thread \subseteq DOMAIN thread'
    BY GrownFacts
  <2>5. ASSUME NEW i \in live PROVE i \in DOMAIN thread' /\ (thread'[i].ask = "open" \/ In(Msg("resolved", i), v))
    BY <2>1, <2>3, <2>4, <2>5 DEF LiveOK, Notified
  <2> QED
    BY <2>1, <2>5 DEF LiveOK
<1> QED
  BY <1>1, <1>2

\* An answer is sent once, to the request that waits for it.
AnswersOnce(msgs) ==
    /\ \A k, l \in DOMAIN msgs : msgs[k].t = "answer" /\ msgs[l].t = "answer" => k = l
    /\ \A k \in DOMAIN msgs : msgs[k].t = "answer" =>
          /\ msgs[k].id = "reading" => reading.at = "sent" /\ reading'.at = "applied"
          /\ msgs[k].id = "writer" => writer # NULL /\ writer.at = "sent" /\ writer' # NULL /\ writer'.at = "applied"
    /\ reading.at = "applied" => reading'.at = "applied"
    /\ writer # NULL /\ writer.at = "applied" => writer' # NULL /\ writer'.at = "applied"
    /\ Subscribed' = Subscribed

LEMMA ChannelSent ==
  ASSUME TypeOK, ThreadOK, Grown, ChannelOK, NEW msgs, Notified(msgs), AnswersOnce(msgs), queue' = queue, live' = live
  PROVE  ChannelOK'
<1>1. PICK q, w, v : q = queue /\ w = wire /\ v = wire'
  OBVIOUS
<1>2. ASSUME NEW m, Says(m) PROVE Says(m)'
  <2>1. \A i \in DOMAIN thread : i \in DOMAIN thread'
    BY GrownFacts
  <2>2. \A t \in 1..turn : t \in 1..turn' /\ (Terminal(t) => Terminal(t)')
    BY GrownFacts
  <2> QED
    BY <1>2, <2>1, <2>2 DEF Says, Grown
<1>3. \A k \in DOMAIN q : Says(q[k])' /\ q[k].t # "answer"
  <2> SUFFICES ASSUME NEW k \in DOMAIN q PROVE Says(q[k])' /\ q[k].t # "answer"
    OBVIOUS
  <2>1. PICK m : m = q[k]
    OBVIOUS
  <2>2. Says(m) /\ m.t # "answer"
    BY <1>1, <2>1 DEF ChannelOK
  <2>3. Says(m)'
    BY <1>2, <2>2
  <2> QED
    BY <2>1, <2>2, <2>3
<1>4. CASE ~Subscribed
  <2>1. v = <<>> /\ q = <<>> /\ live' = {}
    BY <1>1, <1>4 DEF ChannelOK, Notified
  <2> QED
    BY <1>1, <2>1 DEF ChannelOK
<1>5. CASE Subscribed
  <2>2. /\ Len(w) \in Nat
        /\ \A k \in DOMAIN w : k \in DOMAIN v /\ v[k] = w[k]
        /\ \A k \in DOMAIN v : k \in DOMAIN w \/ (k - Len(w) \in DOMAIN msgs /\ k = Len(w) + (k - Len(w)))
        /\ \A k \in DOMAIN msgs : v[Len(w) + k] = msgs[k]
    BY <1>1, <1>5, WireGrown
  <2>3. ASSUME NEW k \in DOMAIN v PROVE Says(v[k])'
    <3>1. PICK m : m = v[k]
      OBVIOUS
    <3>2. CASE k \in DOMAIN w
      <4>1. Says(m)
        BY <1>1, <2>2, <3>1, <3>2 DEF ChannelOK
      <4>2. Says(m)'
        BY <1>2, <4>1
      <4> QED
        BY <3>1, <4>2
    <3>3. CASE k \notin DOMAIN w
      <4>1. PICK j \in DOMAIN msgs : m = msgs[j]
        BY <2>2, <3>1, <3>3
      <4>2. Says(m)'
        BY <4>1 DEF Notified, Says, Terminal
      <4> QED
        BY <3>1, <4>2
    <3> QED
      BY <3>2, <3>3
  <2>4. ASSUME NEW k \in DOMAIN v, v[k].t = "answer", v[k].id = "reading" PROVE reading'.at = "applied"
    BY <1>1, <2>2, <2>4 DEF ChannelOK, AnswersOnce
  <2>5. ASSUME NEW k \in DOMAIN v, v[k].t = "answer", v[k].id = "writer" PROVE writer' # NULL /\ writer'.at = "applied"
    BY <1>1, <2>2, <2>5 DEF ChannelOK, AnswersOnce
  <2>6. ASSUME NEW k \in DOMAIN v, NEW l \in DOMAIN v, v[k].t = "answer", v[l].t = "answer", v[l].id = v[k].id,
               v[k].id # "stop"
        PROVE  k = l
    <3>0. \A j \in DOMAIN msgs : msgs[j] \in WireMessages
      BY DEF Notified
    <3>1. \A j \in DOMAIN msgs : msgs[j].t = "answer" => msgs[j].id \in {"reading", "writer", "stop"}
      BY <3>0 DEF WireMessages, Notices
    <3>2. ASSUME NEW a \in DOMAIN w, NEW b \in DOMAIN v, b \notin DOMAIN w, v[a].t = "answer", v[b].t = "answer",
                 v[a].id = v[b].id, v[b].id # "stop"
          PROVE  FALSE
      <4>1. PICK j \in DOMAIN msgs : v[b] = msgs[j]
        BY <2>2, <3>2
      <4>2. w[a].t = "answer" /\ w[a].id = msgs[j].id /\ msgs[j].t = "answer"
        BY <2>2, <3>2, <4>1
      <4>3. msgs[j].id = "reading" \/ msgs[j].id = "writer"
        BY <3>1, <3>2, <4>1, <4>2
      <4>4. CASE msgs[j].id = "reading"
        BY <1>1, <4>2, <4>4 DEF ChannelOK, AnswersOnce
      <4>5. CASE msgs[j].id = "writer"
        BY <1>1, <4>2, <4>5 DEF ChannelOK, AnswersOnce
      <4> QED
        BY <4>3, <4>4, <4>5
    <3>3. CASE k \in DOMAIN w /\ l \in DOMAIN w
      BY <1>1, <2>2, <2>6, <3>3 DEF ChannelOK
    <3>4. CASE k \notin DOMAIN w /\ l \notin DOMAIN w
      <4>1. k - Len(w) \in DOMAIN msgs /\ l - Len(w) \in DOMAIN msgs /\ k = Len(w) + (k - Len(w)) /\ l = Len(w) + (l - Len(w))
        BY <2>2, <3>4
      <4>2. msgs[k - Len(w)] = v[k] /\ msgs[l - Len(w)] = v[l]
        BY <2>2, <4>1
      <4>3. k - Len(w) = l - Len(w)
        BY <2>6, <4>1, <4>2 DEF AnswersOnce
      <4> QED
        BY <4>1, <4>3
    <3> QED
      BY <2>6, <3>2, <3>3, <3>4
  <2>7. Subscribed'
    BY <1>5 DEF AnswersOnce
  <2> QED
    BY <1>1, <1>3, <2>3, <2>4, <2>5, <2>6, <2>7 DEF ChannelOK
<1> QED
  BY <1>4, <1>5

-----------------------------------------------------------------------------
(* The projection takes an item                                            *)

\* What a step of the projection never takes back.
Onward(p, r) ==
    /\ \A i \in Ids : p.seen[i] # 0 => r.seen[i] # 0
    /\ r.cards = p.cards /\ r.ready = p.ready

LEMMA SameLedger ==
  ASSUME NEW p, ShownOK(p), NEW r, r.up = p.up, r.seen = p.seen, r.starts = p.starts, r.bad = p.bad
  PROVE  ShownOK(r)
BY DEF ShownOK

\* Something of an item is shown, and noted.
LEMMA PushKept ==
  ASSUME thread \in Seq(Items), ThreadOK, NEW p \in Projections, ShownOK(p), NEW r \in Projections,
         NEW id \in DOMAIN thread, NEW what \in {"user", "text", "call", "result"},
         r.up = Append(p.up, Row(id, what)), ~r.bad,
         ~In(Row(id, what), p.up),
         thread[id].kind = CASE what = "user" -> "user" [] what = "text" -> "agent" [] OTHER -> "cmd",
         what = "result" => In(Row(id, "call"), p.up),
         what # "user" => \E u \in Users : Leads(u, id) /\ In(Row(u, "user"), p.up),
         \A i \in Ids : i # id => r.seen[i] = p.seen[i] /\ (i \in r.starts <=> i \in p.starts),
         p.seen[id] # 0 => r.seen[id] # 0,
         r.seen[id] # 0 \/ (what = "call" /\ id \in r.starts),
         id \in p.starts => id \in r.starts \/ r.seen[id] # 0,
         id \in r.starts => what = "call" \/ id \in p.starts,
         r.seen[id] # 0 => what # "call"
            /\ IF thread[id].kind = "agent"
               THEN r.seen[id] = thread[id].ver /\ (thread[id].ver = 2 \/ Terminal(thread[id].turn))
               ELSE r.seen[id] = 2
  PROVE  ShownOK(r)
<1> DEFINE e == Row(id, what)
<1>1. p.up \in Seq(Shows) /\ e \in Shows /\ id \in Ids /\ p.starts \subseteq Ids /\ r.starts \subseteq Ids
  BY ThreadTyped DEF Projections, Shows, Row
<1>a. r.up = Append(p.up, e)
  OBVIOUS
<1> HIDE DEF e
<1>b. PICK s, x, ru : s = p.up /\ x = e /\ ru = r.up
  OBVIOUS
<1>c. s \in Seq(Shows) /\ x \in Shows /\ ru = Append(s, x)
  BY <1>1, <1>a, <1>b
<1>d. /\ Len(s) \in Nat /\ DOMAIN s = 1..Len(s) /\ DOMAIN ru = 1..(Len(s) + 1) /\ ru[Len(s) + 1] = x
      /\ \A k \in 1..Len(s) : ru[k] = s[k]
  BY ONLY <1>c, InAppend
<1>e. \A m : /\ In(m, ru) <=> In(m, s) \/ m = x
             /\ \A k \in DOMAIN s : Precedes(m, s, k) => Precedes(m, ru, k)
             /\ In(m, s) => Precedes(m, ru, Len(s) + 1)
  BY ONLY <1>c, InAppend
<1>3. \A i \in Ids : r.seen[i] # 0 \/ i \in r.starts => i \in DOMAIN thread
  BY DEF ShownOK
<1>4. \A i \in Ids : r.seen[i] # 0 =>
          IF thread[i].kind = "agent"
          THEN r.seen[i] = thread[i].ver /\ (thread[i].ver = 2 \/ Terminal(thread[i].turn))
          ELSE r.seen[i] = 2
  BY DEF ShownOK
<1>5. ASSUME NEW i \in Users, r.seen[i] # 0 PROVE In(Row(i, "user"), ru)
  <2>1. i \in Ids /\ thread[i].kind = "user"
    BY ThreadTyped
  <2>2. CASE i = id
    <3>1. what = "user"
      BY <1>5, <2>1, <2>2
    <3> QED
      BY <1>b, <1>c, <1>d, <1>e, <2>2, <3>1 DEF e
  <2>3. CASE i # id
    BY <1>b, <1>c, <1>d, <1>e, <1>5, <2>1, <2>3 DEF ShownOK
  <2> QED
    BY <2>2, <2>3
<1>6. ASSUME NEW i \in r.starts PROVE In(Row(i, "call"), ru)
  <2>1. CASE i = id /\ i \notin p.starts
    BY <1>b, <1>c, <1>d, <1>e, <1>6, <2>1 DEF e
  <2>2. CASE i \in p.starts
    BY <1>b, <1>c, <1>d, <1>e, <2>2 DEF ShownOK
  <2> QED
    BY <1>1, <1>6, <2>1, <2>2
<1>7. ASSUME NEW k \in DOMAIN ru, NEW f, f = ru[k]
      PROVE  /\ f.id \in DOMAIN thread /\ (r.seen[f.id] # 0 \/ (f.what = "call" /\ f.id \in r.starts))
             /\ thread[f.id].kind = CASE f.what = "user" -> "user" [] f.what = "text" -> "agent" [] OTHER -> "cmd"
             /\ \A j \in DOMAIN ru : ru[j] = f => j = k
             /\ f.what = "result" => Precedes(Row(f.id, "call"), ru, k)
             /\ f.what # "user" => \E u \in Users : Leads(u, f.id) /\ Precedes(Row(u, "user"), ru, k)
  <2>1. CASE k \in 1..Len(s)
    <3>1. f = s[k] /\ k \in DOMAIN s
      BY <1>b, <1>c, <1>d, <1>e, <1>7, <2>1
    <3>2. /\ f.id \in DOMAIN thread /\ (p.seen[f.id] # 0 \/ (f.what = "call" /\ f.id \in p.starts))
          /\ thread[f.id].kind = CASE f.what = "user" -> "user" [] f.what = "text" -> "agent" [] OTHER -> "cmd"
          /\ \A j \in DOMAIN s : s[j] = f => j = k
          /\ f.what = "result" => Precedes(Row(f.id, "call"), s, k)
          /\ f.what # "user" => \E u \in Users : Leads(u, f.id) /\ Precedes(Row(u, "user"), s, k)
      BY <1>b, <3>1 DEF ShownOK
    <3>3. r.seen[f.id] # 0 \/ (f.what = "call" /\ f.id \in r.starts)
      <4>1. f.id \in Ids
        BY <3>2, ThreadTyped
      <4> QED
        BY <3>2, <4>1
    <3>4. f # e
      BY <1>b, <3>1 DEF In, e
    <3>5. \A j \in DOMAIN ru : ru[j] = f => j = k
      BY <1>b, <1>c, <1>d, <1>e, <3>2, <3>4
    <3>6. \A m : Precedes(m, s, k) => Precedes(m, ru, k)
      BY ONLY <1>c, <1>d, <1>e, <2>1
    <3>7. f.what = "result" => Precedes(Row(f.id, "call"), ru, k)
      BY ONLY <3>2, <3>6
    <3>8. f.what # "user" => \E u \in Users : Leads(u, f.id) /\ Precedes(Row(u, "user"), ru, k)
      BY ONLY <3>2, <3>6
    <3> QED
      BY ONLY <3>2, <3>3, <3>5, <3>7, <3>8
  <2>2. CASE k = Len(s) + 1
    <3>1. f = e /\ f.id = id /\ f.what = what
      BY <1>b, <1>c, <1>d, <1>e, <1>7, <2>2 DEF e, Row
    <3>2. \A j \in DOMAIN ru : ru[j] = f => j = k
      <4>1. \A j \in 1..Len(s) : s[j] # e
        BY <1>b, <1>c, <1>d, <1>e DEF In, e
      <4> QED
        BY <1>b, <1>c, <1>d, <1>e, <2>2, <3>1, <4>1
    <3>3. ASSUME what = "result" PROVE Precedes(Row(id, "call"), ru, k)
      <4>1. In(Row(id, "call"), s)
        BY <1>b, <3>3
      <4>2. Precedes(Row(id, "call"), ru, Len(s) + 1)
        BY ONLY <1>e, <4>1
      <4> QED
        BY ONLY <2>2, <4>2
    <3>4. ASSUME what # "user" PROVE \E u \in Users : Leads(u, id) /\ Precedes(Row(u, "user"), ru, k)
      <4>1. PICK u \in Users : Leads(u, id) /\ In(Row(u, "user"), s)
        BY <1>b, <3>4
      <4>2. Precedes(Row(u, "user"), ru, Len(s) + 1)
        BY ONLY <1>e, <4>1
      <4> QED
        BY <2>2, <4>1, <4>2
    <3> QED
      BY <3>1, <3>2, <3>3, <3>4
  <2>3. k \in 1..Len(s) \/ k = Len(s) + 1
    BY <1>b, <1>c, <1>d, <1>e
  <2> QED
    BY <2>1, <2>2, <2>3
<1> QED
  BY <1>b, <1>3, <1>4, <1>5, <1>6, <1>7 DEF ShownOK

\* The types of the steps of a projection.
LEMMA ShowTyped ==
  ASSUME NEW p \in Projections, NEW id \in Ids, NEW what \in {"user", "text", "call", "result"}
  PROVE  /\ Show(p, id, what) \in Projections
         /\ Show(p, id, what) = [p EXCEPT !.up = Append(p.up, Row(id, what))]
<1>1. p.up \in Seq(Shows) /\ Row(id, what) \in Shows
  BY DEF Projections, Shows, Row
<1>2. Append(p.up, Row(id, what)) \in Seq(Shows)
  BY <1>1, InAppend
<1> QED
  BY <1>2 DEF Projections, Show

LEMMA SeenTyped ==
  ASSUME NEW p \in Projections, NEW id \in Ids, NEW ver \in {1, 2}, NEW r, r = [p EXCEPT !.seen[id] = ver]
  PROVE  /\ r \in Projections /\ r.seen[id] = ver
         /\ \A i \in Ids : i # id => r.seen[i] = p.seen[i]
<1> DEFINE seen == [p.seen EXCEPT ![id] = ver]
<1>1. p.seen \in [Ids -> 0..2] /\ ver \in 0..2
  BY DEF Projections
<1>2. seen \in [Ids -> 0..2] /\ seen[id] = ver /\ \A i \in Ids : i # id => seen[i] = p.seen[i]
  BY <1>1
<1>3. r = [p EXCEPT !.seen = seen]
  OBVIOUS
<1> HIDE DEF seen
<1>4. r.seen = seen /\ r \in Projections
  BY <1>2, <1>3 DEF Projections
<1> QED
  BY <1>2, <1>4

\* The shown users of a turn lead what follows in it.
Led(p, id) == \E u \in Users : Leads(u, id) /\ p.seen[u] # 0

LEMMA LedShown ==
  ASSUME NEW p, ShownOK(p), NEW id, Led(p, id)
  PROVE  \E u \in Users : Leads(u, id) /\ In(Row(u, "user"), p.up)
BY DEF Led, ShownOK

\* What is not in the ledger has not been shown.
LEMMA NotYet ==
  ASSUME thread \in Seq(Items), ThreadOK, NEW p, ShownOK(p), NEW id \in DOMAIN thread, p.seen[id] = 0, NEW what,
         what = "call" => id \notin p.starts
  PROVE  ~In(Row(id, what), p.up)
<1> SUFFICES ASSUME NEW k \in DOMAIN p.up, p.up[k] = Row(id, what) PROVE FALSE
  BY DEF In
<1>1. p.up[k].id = id /\ p.up[k].what = what
  BY DEF Row
<1> QED
  BY <1>1 DEF ShownOK

LEMMA AcceptUserKept ==
  ASSUME TypeOK, ThreadOK, NEW p \in Projections, ShownOK(p), NEW id \in Users, NEW r, r = AcceptUser(p, id)
  PROVE  r \in Projections /\ ShownOK(r) /\ Onward(p, r) /\ r.seen[id] # 0
<1>1. thread \in Seq(Items) /\ id \in DOMAIN thread /\ id \in Ids /\ thread[id].kind = "user"
  BY ThreadTyped DEF TypeOK
<1> DEFINE told == Show(p, id, "user")
           mine == [told EXCEPT !.bound = @ \union {writer.of}]
<1>2. told \in Projections /\ told = [p EXCEPT !.up = Append(p.up, Row(id, "user"))]
  BY <1>1, ShowTyped
<1>3. Mine(id) => mine \in Projections
  <2> SUFFICES ASSUME Mine(id) PROVE mine \in Projections
    OBVIOUS
  <2>1. writer.of \in Prompts
    BY DEF Mine, TypeOK
  <2>2. told.bound \in SUBSET Prompts
    BY <1>2 DEF Projections
  <2>3. told.bound \union {writer.of} \in SUBSET Prompts
    BY <2>1, <2>2
  <2> HIDE DEF told
  <2> QED
    BY <1>2, <2>3 DEF Projections
<1>4. PICK q : q = (IF Mine(id) THEN mine ELSE told)
  OBVIOUS
<1>5. /\ q \in Projections /\ q.up = Append(p.up, Row(id, "user")) /\ q.seen = p.seen /\ q.starts = p.starts
      /\ q.bad = p.bad /\ q.cards = p.cards /\ q.ready = p.ready
  BY <1>2, <1>3, <1>4 DEF Projections
<1>6. p.seen[id] \in {0, 2}
  BY <1>1 DEF ShownOK
<1>7. r = Admit(p, id, 2, q)
  BY <1>4 DEF AcceptUser
<1>8. CASE p.seen[id] = 2
  <2>1. r = p
    BY <1>7, <1>8 DEF Admit
  <2> QED
    BY <1>8, <2>1 DEF Onward
<1>9. CASE p.seen[id] = 0
  <2>1. r = [q EXCEPT !.seen[id] = 2]
    BY <1>7, <1>9 DEF Admit
  <2>2. /\ r \in Projections /\ r.seen[id] = 2 /\ \A i \in Ids : i # id => r.seen[i] = p.seen[i]
    BY <1>1, <1>5, <2>1, SeenTyped
  <2>3. r.up = q.up /\ r.starts = q.starts /\ r.bad = q.bad /\ r.cards = q.cards /\ r.ready = q.ready
    BY <1>5, <2>1 DEF Projections
  <2>4. ~p.bad
    BY DEF ShownOK
  <2>5. ~In(Row(id, "user"), p.up)
    BY <1>1, <1>9, NotYet
  <2>6. id \notin p.starts
    <3>1. id \in p.starts => In(Row(id, "call"), p.up)
      BY DEF ShownOK
    <3>2. ASSUME NEW k \in DOMAIN p.up, p.up[k] = Row(id, "call") PROVE FALSE
      <4>1. p.up[k].id = id /\ p.up[k].what = "call"
        BY <3>2 DEF Row
      <4> QED
        BY <1>1, <4>1 DEF ShownOK
    <3> QED
      BY <3>1, <3>2 DEF In
  <2>7. ShownOK(r)
    BY <1>1, <1>5, <2>2, <2>3, <2>4, <2>5, <2>6, PushKept
  <2> QED
    BY <1>5, <2>2, <2>3, <2>7 DEF Onward
<1> QED
  BY <1>6, <1>8, <1>9

LEMMA AcceptAgentKept ==
  ASSUME TypeOK, ThreadOK, NEW p \in Projections, ShownOK(p), NEW id \in DOMAIN thread, thread[id].kind = "agent",
         NEW ver, ver = thread[id].ver, ver = 2 \/ Terminal(thread[id].turn), Led(p, id), NEW r, r = AcceptAgent(p, id, ver)
  PROVE  r \in Projections /\ ShownOK(r) /\ Onward(p, r)
<1>1. thread \in Seq(Items) /\ id \in Ids /\ ver \in {1, 2}
  BY ThreadTyped DEF TypeOK
<1>2. PICK q : q = (IF p.draft = id THEN [p EXCEPT !.draft = 0] ELSE p)
  OBVIOUS
<1>3. /\ q \in Projections /\ q.up = p.up /\ q.seen = p.seen /\ q.starts = p.starts /\ q.bad = p.bad
      /\ q.cards = p.cards /\ q.ready = p.ready
  BY <1>2 DEF Projections
<1>4. ShownOK(q)
  BY <1>3, SameLedger
<1>5. r = Admit(q, id, ver, Show(q, id, "text"))
  BY <1>2 DEF AcceptAgent
<1>6. q.seen[id] \in {0, ver}
  BY <1>1, <1>3 DEF ShownOK
<1>7. CASE q.seen[id] # 0
  <2>1. r = q
    BY <1>1, <1>5, <1>6, <1>7 DEF Admit
  <2> QED
    BY <1>3, <1>4, <2>1 DEF Onward
<1>8. CASE q.seen[id] = 0
  <2> DEFINE s == Show(q, id, "text")
  <2>1. s \in Projections /\ s = [q EXCEPT !.up = Append(q.up, Row(id, "text"))]
    BY <1>1, <1>3, ShowTyped
  <2>2. /\ s.up = Append(q.up, Row(id, "text")) /\ s.seen = q.seen /\ s.starts = q.starts /\ s.bad = q.bad
        /\ s.cards = q.cards /\ s.ready = q.ready
    BY <1>3, <2>1 DEF Projections
  <2>3. r = [s EXCEPT !.seen[id] = ver]
    BY <1>5, <1>8 DEF Admit
  <2>4. r \in Projections /\ r.seen[id] = ver /\ \A i \in Ids : i # id => r.seen[i] = q.seen[i]
    BY <1>1, <2>1, <2>2, <2>3, SeenTyped
  <2>5. r.up = s.up /\ r.starts = s.starts /\ r.bad = s.bad /\ r.cards = s.cards /\ r.ready = s.ready
    BY <2>1, <2>3 DEF Projections
  <2>6. ~q.bad /\ ~In(Row(id, "text"), q.up)
    BY <1>1, <1>4, <1>8, NotYet DEF ShownOK
  <2>7. \E u \in Users : Leads(u, id) /\ In(Row(u, "user"), q.up)
    BY <1>3, LedShown
  <2>8. id \notin q.starts
    <3>1. id \in q.starts => In(Row(id, "call"), q.up)
      BY <1>4 DEF ShownOK
    <3>2. ASSUME NEW k \in DOMAIN q.up, q.up[k] = Row(id, "call") PROVE FALSE
      <4>1. q.up[k].id = id /\ q.up[k].what = "call"
        BY <3>2 DEF Row
      <4> QED
        BY <1>4, <4>1 DEF ShownOK
    <3> QED
      BY <3>1, <3>2 DEF In
  <2> HIDE DEF s
  <2>9. ShownOK(r)
    BY <1>1, <1>3, <1>4, <1>8, <2>2, <2>4, <2>5, <2>6, <2>7, <2>8, PushKept
  <2>10. \A i \in Ids : p.seen[i] # 0 => r.seen[i] # 0
    BY <1>1, <1>3, <2>4
  <2> QED
    BY <1>3, <2>2, <2>4, <2>5, <2>9, <2>10 DEF Onward
<1> QED
  BY <1>7, <1>8

LEMMA CommandStartKept ==
  ASSUME TypeOK, ThreadOK, NEW p \in Projections, ShownOK(p), NEW id \in DOMAIN thread, thread[id].kind = "cmd",
         Led(p, id), NEW r, r = CommandStart(p, id)
  PROVE  /\ r \in Projections /\ ShownOK(r) /\ r.seen = p.seen /\ r.cards = p.cards /\ r.ready = p.ready
         /\ p.seen[id] = 0 => id \in r.starts
<1>1. thread \in Seq(Items) /\ id \in Ids
  BY ThreadTyped DEF TypeOK
<1>2. CASE p.seen[id] # 0 \/ id \in p.starts
  BY <1>2 DEF CommandStart
<1>3. CASE p.seen[id] = 0 /\ id \notin p.starts
  <2> DEFINE s == Show(p, id, "call")
  <2>1. s \in Projections /\ s = [p EXCEPT !.up = Append(p.up, Row(id, "call"))]
    BY <1>1, ShowTyped
  <2>2. /\ s.up = Append(p.up, Row(id, "call")) /\ s.seen = p.seen /\ s.starts = p.starts /\ s.bad = p.bad
        /\ s.cards = p.cards /\ s.ready = p.ready
    BY <2>1 DEF Projections
  <2>3. r = [s EXCEPT !.starts = @ \union {id}]
    BY <1>3 DEF CommandStart
  <2> HIDE DEF s
  <2>4. s.starts \union {id} \in SUBSET Ids
    BY <1>1, <2>1 DEF Projections
  <2>5. /\ r \in Projections /\ r.up = s.up /\ r.seen = s.seen /\ r.starts = s.starts \union {id} /\ r.bad = s.bad
        /\ r.cards = s.cards /\ r.ready = s.ready
    BY <2>1, <2>3, <2>4 DEF Projections
  <2>6. ~p.bad /\ ~In(Row(id, "call"), p.up)
    BY <1>1, <1>3, NotYet DEF ShownOK
  <2>7. \E u \in Users : Leads(u, id) /\ In(Row(u, "user"), p.up)
    BY LedShown
  <2>8. ShownOK(r)
    BY <1>1, <1>3, <2>2, <2>5, <2>6, <2>7, PushKept
  <2> QED
    BY <2>2, <2>5, <2>8
<1> QED
  BY <1>2, <1>3

LEMMA AcceptCommandKept ==
  ASSUME TypeOK, ThreadOK, NEW p \in Projections, ShownOK(p), NEW id \in DOMAIN thread, thread[id].kind = "cmd",
         NEW ver \in {1, 2}, Led(p, id), NEW r, r = AcceptCommand(p, id, ver)
  PROVE  r \in Projections /\ ShownOK(r) /\ Onward(p, r)
<1>1. thread \in Seq(Items) /\ id \in Ids /\ p.seen[id] \in {0, 2}
  BY ThreadTyped DEF TypeOK, ShownOK
<1>2. CASE ver = 1
  BY <1>2 DEF AcceptCommand, Onward
<1>3. CASE ver = 2 /\ p.seen[id] = 2
  <2>1. r = p
    BY <1>3 DEF AcceptCommand, Admit
  <2> QED
    BY <2>1 DEF Onward
<1>4. CASE ver = 2 /\ p.seen[id] = 0
  <2> DEFINE called == IF id \in p.starts THEN p ELSE Show(p, id, "call")
  <2>1. PICK q : q = CommandStart(p, id)
    OBVIOUS
  <2>2. /\ q \in Projections /\ ShownOK(q) /\ q.seen = p.seen /\ q.cards = p.cards /\ q.ready = p.ready
        /\ id \in q.starts
    BY <1>4, <2>1, CommandStartKept
  <2>3. r = [[Show(called, id, "result") EXCEPT !.starts = @ \ {id}] EXCEPT !.seen[id] = 2]
    BY <1>4 DEF AcceptCommand, Admit
  <2>4. called \in Projections /\ called = [q EXCEPT !.starts = called.starts] /\ called.starts \ {id} = q.starts \ {id}
    <3>1. CASE id \in p.starts
      <4>1. q = p /\ called = p
        BY <2>1, <3>1 DEF CommandStart
      <4> HIDE DEF called
      <4> QED
        BY <2>2, <4>1 DEF Projections
    <3>2. CASE id \notin p.starts
      <4>1. PICK s : s = Show(p, id, "call")
        OBVIOUS
      <4>2. s \in Projections
        BY <1>1, <4>1, ShowTyped
      <4>3. q = [s EXCEPT !.starts = @ \union {id}] /\ called = s
        BY <1>4, <2>1, <3>2, <4>1 DEF CommandStart
      <4> HIDE DEF called
      <4>4. called = [q EXCEPT !.starts = called.starts]
        BY <4>2, <4>3 DEF Projections
      <4>5. q.starts = s.starts \union {id}
        BY <4>2, <4>3 DEF Projections
      <4> QED
        BY <4>2, <4>3, <4>4, <4>5
    <3> QED
      BY <3>1, <3>2
  <2> HIDE DEF called
  <2>5. PICK c : c = called
    OBVIOUS
  <2>6. PICK s : s = Show(c, id, "result")
    OBVIOUS
  <2>7. s \in Projections /\ s = [c EXCEPT !.up = Append(c.up, Row(id, "result"))]
    BY <1>1, <2>4, <2>5, <2>6, ShowTyped
  <2>8. c \in Projections /\ c = [q EXCEPT !.starts = c.starts] /\ c.starts \ {id} = q.starts \ {id}
    BY <2>4, <2>5
  <2>9. c.up = q.up /\ c.seen = q.seen /\ c.bad = q.bad /\ c.cards = q.cards /\ c.ready = q.ready
    BY <2>2, <2>8 DEF Projections
  <2>10. /\ s.up = Append(q.up, Row(id, "result")) /\ s.seen = q.seen /\ s.starts = c.starts /\ s.bad = q.bad
         /\ s.cards = q.cards /\ s.ready = q.ready
    BY <2>7, <2>8, <2>9 DEF Projections
  <2>11. PICK t : t = [s EXCEPT !.starts = @ \ {id}]
    OBVIOUS
  <2>12. s.starts \ {id} \in SUBSET Ids
    BY <2>7 DEF Projections
  <2>13. /\ t \in Projections /\ t.up = s.up /\ t.seen = s.seen /\ t.starts = q.starts \ {id} /\ t.bad = s.bad
         /\ t.cards = s.cards /\ t.ready = s.ready
    BY <2>7, <2>8, <2>10, <2>11, <2>12 DEF Projections
  <2>14. r = [t EXCEPT !.seen[id] = 2]
    BY <2>3, <2>5, <2>6, <2>11
  <2>15. r \in Projections /\ r.seen[id] = 2 /\ \A i \in Ids : i # id => r.seen[i] = t.seen[i]
    BY <1>1, <2>13, <2>14, SeenTyped
  <2>16. r.up = t.up /\ r.starts = t.starts /\ r.bad = t.bad /\ r.cards = t.cards /\ r.ready = t.ready
    BY <2>13, <2>14 DEF Projections
  <2>17. ~q.bad /\ In(Row(id, "call"), q.up) /\ ~In(Row(id, "result"), q.up)
    BY <1>1, <1>4, <2>2, NotYet DEF ShownOK
  <2>18. \E u \in Users : Leads(u, id) /\ In(Row(u, "user"), q.up)
    BY <2>2, LedShown DEF Led
  <2>19. q.starts \subseteq Ids
    BY <2>2 DEF Projections
  <2>20. ShownOK(r)
    BY <1>1, <2>2, <2>10, <2>13, <2>15, <2>16, <2>17, <2>18, <2>19, PushKept
  <2>21. \A i \in Ids : p.seen[i] # 0 => r.seen[i] # 0
    BY <1>1, <2>2, <2>10, <2>13, <2>15
  <2> QED
    BY <2>2, <2>10, <2>13, <2>15, <2>16, <2>20, <2>21 DEF Onward
<1> QED
  BY <1>1, <1>2, <1>3, <1>4

\* What the reconciler accepts, from the stream or from history, keeps the transcript.
LEMMA AcceptKept ==
  ASSUME TypeOK, ThreadOK, NEW p \in Projections, ShownOK(p), NEW id \in DOMAIN thread, NEW ver \in {1, 2},
         thread[id].kind = "agent" => ver = thread[id].ver /\ (ver = 2 \/ Terminal(thread[id].turn)),
         id \in Replies => Led(p, id), NEW r, r = Accept(p, id, ver)
  PROVE  r \in Projections /\ ShownOK(r) /\ Onward(p, r) /\ (id \in Users => r.seen[id] # 0)
<1>1. /\ thread \in Seq(Items) /\ id \in Ids /\ thread[id].kind \in {"user", "agent", "cmd", "patch"}
      /\ id \in Users <=> thread[id].kind = "user"
      /\ id \in Replies <=> thread[id].kind # "user"
  BY ThreadTyped DEF TypeOK
<1>2. CASE thread[id].kind = "user"
  BY <1>1, <1>2, AcceptUserKept DEF Accept
<1>3. CASE thread[id].kind = "agent"
  BY <1>1, <1>3, AcceptAgentKept DEF Accept
<1>4. CASE thread[id].kind = "cmd"
  BY <1>1, <1>4, AcceptCommandKept DEF Accept
<1>5. CASE thread[id].kind = "patch"
  <2>1. r = p
    BY <1>5 DEF Accept
  <2> QED
    BY <1>1, <1>5, <2>1 DEF Onward
<1> QED
  BY <1>1, <1>2, <1>3, <1>4, <1>5

\* One entry of a page.
Relevant(e) == reading.turn = 0 \/ e.turn = reading.turn
LEMMA EntryKept ==
  ASSUME TypeOK, ThreadOK, NEW p \in Projections, ShownOK(p), NEW e \in Entries,
         e.id \in DOMAIN thread, e.turn = thread[e.id].turn,
         Final(e) => e.ver = thread[e.id].ver /\ Terminal(e.turn),
         e.turn = reading.turn => Final(e),
         e.id \in Replies /\ Relevant(e) => Led(p, e.id), NEW r, r = Entry(p, e)
  PROVE  r \in Projections /\ ShownOK(r) /\ Onward(p, r) /\ (e.id \in Users /\ Relevant(e) => r.seen[e.id] # 0)
<1>1. /\ e.id \in Ids /\ thread[e.id].kind \in {"user", "agent", "cmd", "patch"}
      /\ e.ver \in {1, 2} /\ e.turn \in Nat
      /\ e.id \in Users <=> thread[e.id].kind = "user"
  BY ThreadTyped DEF TypeOK, Entries
<1>2. CASE ~Relevant(e)
  <2>1. r = p
    BY <1>2 DEF Entry, Relevant
  <2> QED
    BY <1>2, <2>1 DEF Onward
<1>3. CASE Relevant(e) /\ thread[e.id].kind = "agent" /\ ~Final(e)
  <2>1. reading.turn = 0
    BY <1>3 DEF Relevant
  <2>2. r = [p EXCEPT !.deferred = @ \union {e.turn}]
    BY <1>3, <2>1 DEF Entry
  <2>3. p.deferred \union {e.turn} \in SUBSET Nat
    BY <1>1 DEF Projections
  <2>4. /\ r \in Projections /\ r.up = p.up /\ r.seen = p.seen /\ r.starts = p.starts /\ r.bad = p.bad
        /\ r.cards = p.cards /\ r.ready = p.ready
    BY <2>2, <2>3 DEF Projections
  <2>5. ShownOK(r)
    BY <2>4, SameLedger
  <2> QED
    BY <1>1, <1>3, <2>4, <2>5 DEF Onward
<1>4. CASE Relevant(e) /\ ~(thread[e.id].kind = "agent" /\ ~Final(e))
  <2>1. r = Accept(p, e.id, e.ver)
    BY <1>4 DEF Entry, Relevant
  <2>2. PICK i, v : i = e.id /\ v = e.ver
    OBVIOUS
  <2>3. /\ i \in DOMAIN thread /\ v \in {1, 2} /\ (i \in Replies => Led(p, i)) /\ r = Accept(p, i, v)
        /\ thread[i].kind = "agent" => v = thread[i].ver /\ (v = 2 \/ Terminal(thread[i].turn))
    BY <1>1, <1>4, <2>1, <2>2
  <2>4. r \in Projections /\ ShownOK(r) /\ Onward(p, r) /\ (i \in Users => r.seen[i] # 0)
    BY <2>3, AcceptKept
  <2> QED
    BY <2>2, <2>4
<1> QED
  BY <1>2, <1>3, <1>4

\* A page is a series of entries.
LEMMA ReconcileIs ==
  ASSUME NEW p, NEW entries, Len(entries) \in Nat
  PROVE  \E g : /\ g[0] = p /\ \A n \in 1..Len(entries) : g[n] = Entry(g[n - 1], entries[n])
                /\ Reconcile(p, entries) = g[Len(entries)]
<1> DEFINE N == Len(entries)
           Is(g, k) == g = [n \in 0..k |-> IF n = 0 THEN p ELSE Entry(g[n - 1], entries[n])]
           T == {k \in 0..N : \E g : Is(g, k)}
<1>1. 0 \in T
  <2> DEFINE g == [n \in 0..0 |-> p]
  <2>1. Is(g, 0)
    OBVIOUS
  <2> HIDE DEF g, Is
  <2> QED
    BY <2>1
<1>2. ASSUME NEW k \in 1..N, k - 1 \in T PROVE k \in T
  <2>1. PICK f : Is(f, k - 1)
    BY <1>2
  <2> DEFINE g == [n \in 0..k |-> IF n = k THEN Entry(f[k - 1], entries[k]) ELSE f[n]]
  <2>2. g[k] = Entry(f[k - 1], entries[k]) /\ \A n \in 0..(k - 1) : g[n] = f[n]
    OBVIOUS
  <2>3. \A n \in 0..(k - 1) : f[n] = IF n = 0 THEN p ELSE Entry(f[n - 1], entries[n])
    BY <2>1
  <2>4. DOMAIN g = 0..k /\ g = [n \in 0..k |-> g[n]]
    OBVIOUS
  <2> HIDE DEF g
  <2>5. \A n \in 0..k : g[n] = IF n = 0 THEN p ELSE Entry(g[n - 1], entries[n])
    <3> SUFFICES ASSUME NEW n \in 0..k PROVE g[n] = IF n = 0 THEN p ELSE Entry(g[n - 1], entries[n])
      OBVIOUS
    <3>1. CASE n = k
      <4>1. n # 0 /\ n - 1 \in 0..(k - 1)
        BY <3>1
      <4> QED
        BY <2>2, <3>1, <4>1
    <3>2. CASE n # k
      <4>1. n \in 0..(k - 1) /\ (n = 0 \/ n - 1 \in 0..(k - 1))
        BY <3>2
      <4> QED
        BY <2>2, <2>3, <4>1
    <3> QED
      BY <3>1, <3>2
  <2>6. Is(g, k)
    BY <2>4, <2>5
  <2> HIDE DEF Is
  <2> QED
    BY <2>6
<1>3. N \in T
  <2> HIDE DEF T, N
  <2>1. N \in Nat
    BY DEF N
  <2>2. \A n \in 0..N : n \in T
    BY <1>1, <1>2, <2>1, UpTo
  <2> QED
    BY <2>1, <2>2
<1>4. PICK f : Is(f, N)
  BY <1>3
<1>5. Is(CHOOSE g : Is(g, N), N)
  BY <1>4, Zenon
<1> DEFINE after == CHOOSE g : Is(g, N)
<1>6. Reconcile(p, entries) = after[N]
  BY Zenon DEF Reconcile
<1> HIDE DEF after
<1>7. after = [n \in 0..N |-> IF n = 0 THEN p ELSE Entry(after[n - 1], entries[n])]
  BY <1>5 DEF after
<1>8. after[0] = p /\ \A n \in 1..N : after[n] = Entry(after[n - 1], entries[n])
  BY <1>7
<1> QED
  BY <1>6, <1>8

LEMMA OnwardOn ==
  ASSUME NEW p, NEW q, NEW r, Onward(p, q), Onward(q, r)
  PROVE  Onward(p, r)
BY DEF Onward

\* A page keeps the transcript, and shows its users.
LEMMA ReconcileKept ==
  ASSUME TypeOK, ThreadOK, ShownOK(proj), PageOK, PageHere, NEW r, r = Reconcile(proj, reading.got)
  PROVE  /\ r \in Projections /\ ShownOK(r) /\ Onward(proj, r)
         /\ \A k \in DOMAIN reading.got : reading.got[k].id \in Users /\ Relevant(reading.got[k])
               => r.seen[reading.got[k].id] # 0
<1>1. PICK p, s : p = proj /\ s = reading.got
  OBVIOUS
<1> DEFINE N == Len(s)
<1>2. s \in Seq(Entries) /\ N \in Nat /\ DOMAIN s = 1..N /\ p \in Projections /\ ShownOK(p)
  BY <1>1 DEF PageOK, TypeOK
<1>3. PICK g : g[0] = p /\ (\A n \in 1..N : g[n] = Entry(g[n - 1], s[n])) /\ Reconcile(p, s) = g[N]
  BY <1>2, ReconcileIs
<1> DEFINE Is(n) == /\ g[n] \in Projections /\ ShownOK(g[n]) /\ Onward(p, g[n])
                    /\ \A j \in 1..n : s[j].id \in Users /\ Relevant(s[j]) => g[n].seen[s[j].id] # 0
           T == {n \in 0..N : Is(n)}
<1>4. 0 \in T
  BY <1>2, <1>3 DEF Onward
<1>5. ASSUME NEW n \in 1..N, n - 1 \in T PROVE n \in T
  <2>1. PICK a, e, b : a = g[n - 1] /\ e = s[n] /\ b = g[n]
    OBVIOUS
  <2>2. /\ a \in Projections /\ ShownOK(a) /\ Onward(p, a)
        /\ \A j \in 1..(n - 1) : s[j].id \in Users /\ Relevant(s[j]) => a.seen[s[j].id] # 0
    BY <1>5, <2>1
  <2>3. b = Entry(a, e) /\ e \in Entries /\ n \in DOMAIN s
    BY <1>2, <1>3, <2>1
  <2>4. /\ e.id \in DOMAIN thread /\ e.turn = thread[e.id].turn
        /\ Final(e) => e.ver = thread[e.id].ver /\ Terminal(e.turn)
        /\ e.turn = reading.turn => Final(e)
        /\ e.id \in Replies => \E u \in Users :
              Leads(u, e.id) /\ (proj.seen[u] # 0 \/ \E j \in 1..(n - 1) : s[j].id = u)
    BY <1>1, <2>1, <2>3 DEF PageOK
  <2>5. ASSUME e.id \in Replies, Relevant(e) PROVE Led(a, e.id)
    <3>1. PICK u \in Users : Leads(u, e.id) /\ (proj.seen[u] # 0 \/ \E j \in 1..(n - 1) : s[j].id = u)
      BY <2>4, <2>5
    <3>2. u \in Ids /\ u \in DOMAIN thread
      BY ThreadTyped DEF TypeOK
    <3>3. CASE proj.seen[u] # 0
      BY <1>1, <2>2, <3>1, <3>2, <3>3 DEF Onward, Led
    <3>4. ASSUME NEW j \in 1..(n - 1), s[j].id = u PROVE Led(a, e.id)
      <4>1. j \in DOMAIN s
        BY <1>2, <3>4
      <4>2. s[j].turn = thread[u].turn
        BY <1>1, <3>4, <4>1 DEF PageOK
      <4>3. Relevant(s[j])
        BY <2>4, <2>5, <3>1, <4>2 DEF Relevant, Leads
      <4> QED
        BY <2>2, <3>1, <3>4, <4>3 DEF Led
    <3> QED
      BY <3>1, <3>3, <3>4
  <2>6. b \in Projections /\ ShownOK(b) /\ Onward(a, b) /\ (e.id \in Users /\ Relevant(e) => b.seen[e.id] # 0)
    BY <2>2, <2>3, <2>4, <2>5, EntryKept
  <2>7. Onward(p, b)
    BY <2>2, <2>6, OnwardOn
  <2>8. ASSUME NEW j \in 1..n, s[j].id \in Users, Relevant(s[j]) PROVE b.seen[s[j].id] # 0
    <3>1. CASE j = n
      BY <2>1, <2>6, <2>8, <3>1
    <3>2. CASE j \in 1..(n - 1)
      <4>1. a.seen[s[j].id] # 0
        BY <2>2, <2>8, <3>2
      <4>2. s[j].id \in Ids
        BY <2>8, ThreadTyped DEF TypeOK
      <4> QED
        BY <2>6, <4>1, <4>2 DEF Onward
    <3> QED
      BY <3>1, <3>2
  <2> QED
    BY <2>1, <2>6, <2>7, <2>8
<1> HIDE DEF T
<1>6. \A n \in 0..N : n \in T
  BY <1>2, <1>4, <1>5, UpTo
<1>7. Is(N)
  BY <1>2, <1>6 DEF T
<1> QED
  BY <1>1, <1>2, <1>3, <1>7

-----------------------------------------------------------------------------
(* The driver takes a message                                              *)

LEMMA StartedKept ==
  ASSUME TypeOK, ThreadOK, NEW p \in Projections, ShownOK(p), NEW id \in DOMAIN thread,
         thread[id].kind = "cmd" => Led(p, id), NEW r, r = Started(p, id)
  PROVE  r \in Projections /\ ShownOK(r) /\ Onward(p, r)
<1>1. id \in Ids /\ thread[id].kind \in {"user", "agent", "cmd", "patch"}
  BY ThreadTyped DEF TypeOK
<1>2. CASE thread[id].kind = "agent"
  <2>1. r = Preview(p, id)
    BY <1>2 DEF Started
  <2>2. id \in Nat
    BY <1>1, ThreadTyped DEF TypeOK
  <2>3. /\ r \in Projections /\ r.up = p.up /\ r.seen = p.seen /\ r.starts = p.starts /\ r.bad = p.bad
        /\ r.cards = p.cards /\ r.ready = p.ready
    <3>1. CASE r = p
      BY <3>1
    <3>2. CASE r = [p EXCEPT !.overlap = TRUE, !.draft = 0]
      <4>1. PICK o, q : o = TRUE /\ q = [p EXCEPT !.overlap = o]
        OBVIOUS
      <4>0. o \in BOOLEAN
        BY <4>1
      <4>2. r = [q EXCEPT !.draft = 0]
        BY <3>2, <4>1
      <4>3. /\ q \in Projections /\ q.up = p.up /\ q.seen = p.seen /\ q.starts = p.starts /\ q.bad = p.bad
            /\ q.cards = p.cards /\ q.ready = p.ready
        BY <4>0, <4>1 DEF Projections
      <4>4. q \in Projections
        BY <4>3
      <4>5. r \in Projections
        BY ONLY <4>2, <4>4 DEF Projections
      <4>6. /\ r.up = q.up /\ r.seen = q.seen /\ r.starts = q.starts /\ r.bad = q.bad /\ r.cards = q.cards
            /\ r.ready = q.ready
        BY ONLY <4>2, <4>4 DEF Projections
      <4> QED
        BY <4>3, <4>5, <4>6
    <3>3. CASE r = [p EXCEPT !.draft = id]
      BY <2>2, <3>3 DEF Projections
    <3> QED
      BY <2>1, <3>1, <3>2, <3>3 DEF Preview
  <2> QED
    BY <2>3, SameLedger DEF Onward
<1>3. CASE thread[id].kind = "cmd"
  <2>1. r = CommandStart(p, id)
    BY <1>3 DEF Started
  <2>2. r \in Projections /\ ShownOK(r) /\ r.seen = p.seen /\ r.cards = p.cards /\ r.ready = p.ready
    BY <1>3, <2>1, CommandStartKept
  <2> QED
    BY <2>2 DEF Onward
<1>4. CASE thread[id].kind \notin {"agent", "cmd"}
  <2>1. r = [p EXCEPT !.fresh = @ \union {id}]
    BY <1>4 DEF Started
  <2>2. p.fresh \union {id} \in SUBSET Ids
    BY <1>1 DEF Projections
  <2>3. /\ r \in Projections /\ r.up = p.up /\ r.seen = p.seen /\ r.starts = p.starts /\ r.bad = p.bad
        /\ r.cards = p.cards /\ r.ready = p.ready
    BY <2>1, <2>2 DEF Projections
  <2> QED
    BY <2>3, SameLedger DEF Onward
<1> QED
  BY <1>2, <1>3, <1>4

\* What a step does to the cards.
LEMMA CardTyped ==
  ASSUME NEW p \in Projections, ShownOK(p), NEW id \in Ids, NEW c \in {"open", "submitted", "closed"},
         NEW r, r = [p EXCEPT !.cards[id] = c]
  PROVE  /\ r \in Projections /\ ShownOK(r) /\ r.seen = p.seen /\ r.ready = p.ready
         /\ r.cards[id] = c /\ \A i \in Ids : i # id => r.cards[i] = p.cards[i]
<1> DEFINE cards == [p.cards EXCEPT ![id] = c]
<1>1. p.cards \in [Ids -> {"none", "open", "submitted", "closed"}]
  BY DEF Projections
<1>2. cards \in [Ids -> {"none", "open", "submitted", "closed"}] /\ cards[id] = c /\ \A i \in Ids : i # id => cards[i] = p.cards[i]
  BY <1>1
<1>3. r = [p EXCEPT !.cards = cards]
  OBVIOUS
<1> HIDE DEF cards
<1>4. /\ r.cards = cards /\ r \in Projections /\ r.up = p.up /\ r.seen = p.seen /\ r.starts = p.starts /\ r.bad = p.bad
      /\ r.ready = p.ready
  BY <1>2, <1>3 DEF Projections
<1> QED
  BY <1>2, <1>4, SameLedger

LEMMA CloseCardKept ==
  ASSUME NEW p \in Projections, ShownOK(p), NEW id \in Ids, NEW r, r = CloseCard(p, id)
  PROVE  /\ r \in Projections /\ ShownOK(r) /\ r.seen = p.seen /\ r.ready = p.ready
         /\ r.cards[id] \notin {"open", "submitted"} /\ \A i \in Ids : i # id => r.cards[i] = p.cards[i]
<1>1. CASE p.cards[id] \in {"open", "submitted"}
  <2>1. PICK q : q = [p EXCEPT !.cards[id] = "closed"]
    OBVIOUS
  <2>2. /\ q \in Projections /\ ShownOK(q) /\ q.seen = p.seen /\ q.ready = p.ready
        /\ q.cards[id] = "closed" /\ \A i \in Ids : i # id => q.cards[i] = p.cards[i]
    BY <2>1, CardTyped
  <2>3. r = [q EXCEPT !.fresh = @ \ {id}]
    BY <1>1, <2>1 DEF CloseCard
  <2>4. q.fresh \ {id} \in SUBSET Ids
    BY <2>2 DEF Projections
  <2>5. /\ r \in Projections /\ r.up = q.up /\ r.seen = q.seen /\ r.starts = q.starts /\ r.bad = q.bad
        /\ r.cards = q.cards /\ r.ready = q.ready
    BY <2>2, <2>3, <2>4 DEF Projections
  <2> QED
    BY <2>2, <2>5, SameLedger
<1>2. CASE p.cards[id] \notin {"open", "submitted"}
  BY <1>2 DEF CloseCard
<1> QED
  BY <1>1, <1>2

LEMMA CompletedKept ==
  ASSUME TypeOK, ThreadOK, NEW p \in Projections, ShownOK(p), NEW id \in DOMAIN thread, thread[id].ver = 2,
         id \in Replies => Led(p, id), NEW r, r = Completed(p, id)
  PROVE  /\ r \in Projections /\ ShownOK(r) /\ r.ready = p.ready
         /\ \A i \in Ids : p.seen[i] # 0 => r.seen[i] # 0
         /\ \A i \in Ids : r.cards[i] \in {"open", "submitted"} => p.cards[i] \in {"open", "submitted"}
         /\ id \in Users => r.seen[id] # 0
<1>1. id \in Ids /\ (id \in Users <=> thread[id].kind = "user")
  BY ThreadTyped DEF TypeOK
<1>2. CASE thread[id].kind = "patch"
  <2>1. PICK q : q = CloseCard(p, id)
    OBVIOUS
  <2>2. /\ q \in Projections /\ ShownOK(q) /\ q.seen = p.seen /\ q.ready = p.ready
        /\ q.cards[id] \notin {"open", "submitted"} /\ \A i \in Ids : i # id => q.cards[i] = p.cards[i]
    BY <1>1, <2>1, CloseCardKept
  <2>3. r = [q EXCEPT !.fresh = @ \ {id}]
    BY <1>2, <2>1 DEF Completed
  <2>4. q.fresh \ {id} \in SUBSET Ids
    BY <2>2 DEF Projections
  <2>5. /\ r \in Projections /\ r.up = q.up /\ r.seen = q.seen /\ r.starts = q.starts /\ r.bad = q.bad
        /\ r.cards = q.cards /\ r.ready = q.ready
    BY <2>2, <2>3, <2>4 DEF Projections
  <2> QED
    BY <1>1, <1>2, <2>2, <2>5, SameLedger
<1>3. CASE thread[id].kind # "patch"
  <2>1. r = Accept(p, id, 2)
    BY <1>3 DEF Completed
  <2>2. r \in Projections /\ ShownOK(r) /\ Onward(p, r) /\ (id \in Users => r.seen[id] # 0)
    BY <2>1, AcceptKept
  <2> QED
    BY <2>2 DEF Onward
<1> QED
  BY <1>2, <1>3

LEMMA ObserveKept ==
  ASSUME NEW p \in Projections, ShownOK(p), NEW id \in Ids, NEW r, r = Observe(p, id)
  PROVE  /\ r \in Projections /\ ShownOK(r) /\ r.seen = p.seen /\ r.ready = p.ready
         /\ \A i \in Ids : i # id => r.cards[i] = p.cards[i]
<1>1. PICK q : q = [p EXCEPT !.cards[id] = "open"]
  OBVIOUS
<1>2. /\ q \in Projections /\ ShownOK(q) /\ q.seen = p.seen /\ q.ready = p.ready
      /\ \A i \in Ids : i # id => q.cards[i] = p.cards[i]
  BY <1>1, CardTyped
<1> QED
  BY <1>1, <1>2 DEF Observe

LEMMA TurnEndsKept ==
  ASSUME NEW p \in Projections, ShownOK(p), NEW t \in Nat, NEW r, r = TurnEnds(p, t)
  PROVE  /\ r \in Projections /\ ShownOK(r) /\ r.seen = p.seen /\ r.cards = p.cards
         /\ r.ready = p.ready \/ r.ready = Append(p.ready, t)
<1>1. PICK q : q = [p EXCEPT !.draft = 0, !.overlap = FALSE]
  OBVIOUS
<1>2. /\ q \in Projections /\ q.up = p.up /\ q.seen = p.seen /\ q.starts = p.starts /\ q.bad = p.bad
      /\ q.cards = p.cards /\ q.ready = p.ready /\ q.deferred = p.deferred
  BY <1>1 DEF Projections
<1>3. CASE t \notin p.deferred
  <2>1. r = q
    BY <1>1, <1>3 DEF TurnEnds
  <2> QED
    BY <1>2, <2>1, SameLedger
<1>4. CASE t \in p.deferred
  <2>1. r = [q EXCEPT !.deferred = @ \ {t}, !.ready = Append(@, t)]
    BY <1>1, <1>4 DEF TurnEnds
  <2>2. q.deferred \ {t} \in SUBSET Nat /\ q.ready \in Seq(Nat)
    BY <1>2 DEF Projections
  <2>3. Append(q.ready, t) \in Seq(Nat)
    BY <2>2
  <2>4. /\ r \in Projections /\ r.up = p.up /\ r.seen = p.seen /\ r.starts = p.starts /\ r.bad = p.bad
        /\ r.cards = p.cards /\ r.ready = Append(p.ready, t)
    BY <1>2, <2>1, <2>2, <2>3 DEF Projections
  <2> QED
    BY <2>4, SameLedger
<1> QED
  BY <1>3, <1>4

\* One message, with what it may change.
LEMMA InboundKept ==
  ASSUME TypeOK, ThreadOK, NEW p \in Projections, ShownOK(p), NEW m \in WireMessages, Says(m),
         m.t \in {"started", "completed"} /\ m.id \in Replies => Led(p, m.id), NEW r, r = Inbound(p, m)
  PROVE  /\ r \in Projections /\ ShownOK(r)
         /\ \A i \in Ids : p.seen[i] # 0 => r.seen[i] # 0
         /\ \A i \in Ids : r.cards[i] \in {"open", "submitted"} =>
               /\ p.cards[i] \in {"open", "submitted"} \/ (m.t = "request" /\ m.id = i)
               /\ ~(m.t = "resolved" /\ m.id = i)
         /\ r.ready = p.ready \/ (m.t = "turn" /\ r.ready = Append(p.ready, m.id))
         /\ m.t = "completed" /\ m.id \in Users => r.seen[m.id] # 0
<1>1. m.t \in {"started", "completed", "request", "resolved"} => m.id \in DOMAIN thread /\ m.id \in Ids
  BY ThreadTyped DEF Says, TypeOK
<1>2. \A i \in DOMAIN thread : i \in Replies <=> thread[i].kind # "user"
  BY ThreadTyped DEF TypeOK
<1>3. PICK id : id = m.id
  OBVIOUS
<1>4. CASE m.t = "started"
  <2>1. id \in DOMAIN thread /\ r = Started(p, id) /\ (thread[id].kind = "cmd" => Led(p, id))
    BY <1>1, <1>2, <1>3, <1>4 DEF Inbound
  <2>2. r \in Projections /\ ShownOK(r) /\ Onward(p, r)
    BY <2>1, StartedKept
  <2> QED
    BY <1>4, <2>2 DEF Onward
<1>5. CASE m.t = "completed"
  <2>1. id \in DOMAIN thread /\ r = Completed(p, id) /\ (id \in Replies => Led(p, id)) /\ thread[id].ver = 2
    BY <1>1, <1>3, <1>5 DEF Inbound, Says
  <2> QED
    BY <1>3, <1>5, <2>1, CompletedKept
<1>6. CASE m.t = "turn"
  <2>1. id \in Nat /\ r = TurnEnds(p, id)
    BY <1>3, <1>6 DEF Inbound, Says
  <2> QED
    BY <1>3, <1>6, <2>1, TurnEndsKept
<1>7. CASE m.t = "request"
  <2>1. id \in Ids /\ r = Observe(p, id)
    BY <1>1, <1>3, <1>7 DEF Inbound
  <2> QED
    BY <1>3, <1>7, <2>1, ObserveKept
<1>8. CASE m.t = "resolved"
  <2>1. id \in Ids /\ r = CloseCard(p, id)
    BY <1>1, <1>3, <1>8 DEF Inbound
  <2> QED
    BY <1>3, <1>8, <2>1, CloseCardKept
<1>9. CASE m.t \notin {"started", "completed", "turn", "request", "resolved"}
  <2>1. r = p
    BY <1>9 DEF Inbound
  <2> QED
    BY <1>9, <2>1
<1> QED
  BY <1>4, <1>5, <1>6, <1>7, <1>8, <1>9

-----------------------------------------------------------------------------
(* The client takes messages apart                                         *)

\* The queue c, the requests and what is still on its way.
Arrived(c, w) ==
    /\ c \in [queue : Seq(WireMessages), received : SUBSET Ids, live : SUBSET Ids]
    /\ \A k \in DOMAIN c.queue : Says(c.queue[k]) /\ c.queue[k].t # "answer"
    /\ OrderOK(c.queue, w) /\ CardsOK(c.queue, w) /\ LiveOK(w, c.received, c.live)

LEMMA HeldMade ==
  ASSUME NEW q \in Seq(WireMessages), NEW rc \in SUBSET Ids, NEW lv \in SUBSET Ids, NEW w,
         \A k \in DOMAIN q : Says(q[k]) /\ q[k].t # "answer",
         OrderOK(q, w), CardsOK(q, w), LiveOK(w, rc, lv),
         NEW c, c = [queue |-> q, received |-> rc, live |-> lv]
  PROVE  Arrived(c, w)
<1>1. c.queue = q /\ c.received = rc /\ c.live = lv /\ c \in [queue : Seq(WireMessages), received : SUBSET Ids, live : SUBSET Ids]
  OBVIOUS
<1>2. /\ \A k \in DOMAIN c.queue : Says(c.queue[k]) /\ c.queue[k].t # "answer"
      /\ OrderOK(c.queue, w) /\ CardsOK(c.queue, w) /\ LiveOK(w, c.received, c.live)
  BY <1>1
<1> QED
  BY <1>1, <1>2 DEF Arrived

\* A message that joins the queue.
LEMMA QueueTyped ==
  ASSUME NEW q \in Seq(WireMessages), NEW m \in WireMessages, Says(m), m.t # "answer",
         \A k \in DOMAIN q : Says(q[k]) /\ q[k].t # "answer"
  PROVE  /\ Append(q, m) \in Seq(WireMessages)
         /\ \A k \in DOMAIN Append(q, m) : Says(Append(q, m)[k]) /\ Append(q, m)[k].t # "answer"
<1> DEFINE a == Append(q, m)
<1>1. /\ a \in Seq(WireMessages) /\ Len(q) \in Nat /\ DOMAIN q = 1..Len(q) /\ DOMAIN a = 1..(Len(q) + 1)
      /\ a[Len(q) + 1] = m /\ \A k \in 1..Len(q) : a[k] = q[k]
  BY InAppend
<1> HIDE DEF a
<1>2. ASSUME NEW k \in DOMAIN a PROVE Says(a[k]) /\ a[k].t # "answer"
  <2>1. CASE k = Len(q) + 1
    BY <1>1, <2>1
  <2>2. CASE k \in DOMAIN q
    BY <1>1, <2>2
  <2> QED
    BY <1>1, <1>2, <2>1, <2>2
<1> QED
  BY <1>1, <1>2 DEF a

LEMMA QueueOrder ==
  ASSUME NEW q \in Seq(WireMessages), NEW w \in Seq(WireMessages), w # <<>>, OrderOK(q, w), NEW m, m = Head(w)
  PROVE  /\ OrderOK(Append(q, m), Tail(w))
         /\ m.t \notin {"started", "completed"} => OrderOK(q, Tail(w))
<1> DEFINE a == Append(q, m)
           t == Tail(w)
<1>1. \A x : /\ t \in Seq(WireMessages) /\ m \in WireMessages /\ Len(w) \in Nat \ {0} /\ DOMAIN w = 1..Len(w) /\ m = w[1]
             /\ \A k \in DOMAIN t : k + 1 \in DOMAIN w /\ t[k] = w[k + 1]
             /\ In(x, w) => x = m \/ In(x, t)
             /\ \A k \in DOMAIN t : Precedes(x, w, k + 1) => x = m \/ Precedes(x, t, k)
  BY InTail
<1>2. \A x : /\ Len(q) \in Nat /\ DOMAIN q = 1..Len(q) /\ DOMAIN a = 1..(Len(q) + 1) /\ a[Len(q) + 1] = m
             /\ \A k \in 1..Len(q) : a[k] = q[k]
             /\ In(x, a) <=> In(x, q) \/ x = m
             /\ \A k \in DOMAIN q : Precedes(x, q, k) => Precedes(x, a, k)
             /\ In(x, q) => Precedes(x, a, Len(q) + 1)
  BY <1>1, InAppend
<1> HIDE DEF a, t
<1>3. \A u \in Users : Known(u) \/ In(Msg("completed", u), q) \/ In(Msg("completed", u), w)
  BY DEF OrderOK
<1>4. \A k \in DOMAIN q : \A u \in Users :
          q[k].t \in {"started", "completed"} /\ u < q[k].id => Known(u) \/ Precedes(Msg("completed", u), q, k)
  BY DEF OrderOK
<1>5. \A k \in DOMAIN w : \A u \in Users :
          w[k].t \in {"started", "completed"} /\ u < w[k].id
             => Known(u) \/ In(Msg("completed", u), q) \/ Precedes(Msg("completed", u), w, k)
  BY DEF OrderOK
<1>6. ASSUME NEW k \in DOMAIN a, NEW u \in Users, a[k].t \in {"started", "completed"}, u < a[k].id
      PROVE  Known(u) \/ Precedes(Msg("completed", u), a, k)
  <2>1. CASE k \in DOMAIN q
    <3>1. a[k] = q[k]
      BY <1>2, <2>1
    <3> QED
      BY <1>2, <1>4, <1>6, <2>1, <3>1
  <2>2. CASE k = Len(q) + 1
    <3>1. a[k] = w[1] /\ 1 \in DOMAIN w
      BY <1>1, <1>2, <2>2
    <3>2. ~Precedes(Msg("completed", u), w, 1)
      BY DEF Precedes
    <3>3. Known(u) \/ In(Msg("completed", u), q)
      BY <1>5, <1>6, <3>1, <3>2
    <3> QED
      BY <1>2, <2>2, <3>3
  <2> QED
    BY <1>2, <2>1, <2>2
<1>7. ASSUME NEW k \in DOMAIN t, NEW u \in Users, t[k].t \in {"started", "completed"}, u < t[k].id
      PROVE  Known(u) \/ In(Msg("completed", u), q) \/ Msg("completed", u) = m \/ Precedes(Msg("completed", u), t, k)
  BY <1>1, <1>5, <1>7
<1>8. OrderOK(a, t)
  BY <1>1, <1>2, <1>3, <1>6, <1>7 DEF OrderOK
<1>9. ASSUME m.t \notin {"started", "completed"} PROVE OrderOK(q, t)
  <2>1. \A u : m # Msg("completed", u)
    BY <1>9 DEF Msg
  <2> QED
    BY <1>1, <1>3, <1>4, <1>7, <2>1 DEF OrderOK
<1> QED
  BY <1>8, <1>9 DEF a, t

LEMMA QueueCards ==
  ASSUME NEW q \in Seq(WireMessages), NEW w \in Seq(WireMessages), w # <<>>, CardsOK(q, w), NEW m, m = Head(w)
  PROVE  /\ CardsOK(Append(q, m), Tail(w))
         /\ m.t # "resolved" => CardsOK(q, Tail(w))
<1> DEFINE a == Append(q, m)
           t == Tail(w)
<1>1. \A x : /\ t \in Seq(WireMessages) /\ m \in WireMessages /\ Len(w) \in Nat \ {0} /\ DOMAIN w = 1..Len(w) /\ m = w[1]
             /\ \A k \in DOMAIN t : k + 1 \in DOMAIN w /\ t[k] = w[k + 1]
             /\ In(x, w) => x = m \/ In(x, t)
             /\ Later(x, w, 1) => In(x, t)
             /\ \A k \in DOMAIN t : Later(x, w, k + 1) => Later(x, t, k)
  BY InTail
<1>2. \A x : /\ Len(q) \in Nat /\ DOMAIN q = 1..Len(q) /\ DOMAIN a = 1..(Len(q) + 1) /\ a[Len(q) + 1] = m
             /\ \A k \in 1..Len(q) : a[k] = q[k]
             /\ In(x, a) <=> In(x, q) \/ x = m
             /\ \A k \in DOMAIN q : Later(x, q, k) \/ x = m => Later(x, a, k)
  BY <1>1, InAppend
<1> HIDE DEF a, t
<1>3. \A i \in Ids : Closed(i) /\ proj.cards[i] \in {"open", "submitted"}
          => In(Msg("resolved", i), q) \/ In(Msg("resolved", i), w)
  BY DEF CardsOK
<1>4. \A k \in DOMAIN q : q[k].t = "request" /\ Closed(q[k].id)
          => Later(Msg("resolved", q[k].id), q, k) \/ In(Msg("resolved", q[k].id), w)
  BY DEF CardsOK
<1>5. \A k \in DOMAIN w : w[k].t = "request" /\ Closed(w[k].id) => Later(Msg("resolved", w[k].id), w, k)
  BY DEF CardsOK
<1>6. ASSUME NEW k \in DOMAIN a, a[k].t = "request", Closed(a[k].id)
      PROVE  Later(Msg("resolved", a[k].id), a, k) \/ In(Msg("resolved", a[k].id), t)
  <2>1. CASE k \in DOMAIN q
    <3>1. a[k] = q[k]
      BY <1>2, <2>1
    <3>2. Later(Msg("resolved", q[k].id), q, k) \/ In(Msg("resolved", q[k].id), w)
      BY <1>4, <1>6, <2>1, <3>1
    <3> QED
      BY <1>1, <1>2, <2>1, <3>1, <3>2
  <2>2. CASE k = Len(q) + 1
    <3>1. a[k] = w[1] /\ 1 \in DOMAIN w
      BY <1>1, <1>2, <2>2
    <3> QED
      BY <1>1, <1>5, <1>6, <3>1
  <2> QED
    BY <1>2, <2>1, <2>2
<1>7. \A k \in DOMAIN t : t[k].t = "request" /\ Closed(t[k].id) => Later(Msg("resolved", t[k].id), t, k)
  BY <1>1, <1>5
<1>8. CardsOK(a, t)
  BY <1>1, <1>2, <1>3, <1>6, <1>7 DEF CardsOK
<1>9. ASSUME m.t # "resolved" PROVE CardsOK(q, t)
  <2>1. \A i : m # Msg("resolved", i)
    BY <1>9 DEF Msg
  <2> QED
    BY <1>1, <1>3, <1>4, <1>7, <2>1 DEF CardsOK
<1> QED
  BY <1>8, <1>9 DEF a, t

LEMMA DeliverKept ==
  ASSUME TypeOK, ThreadOK, NEW c, NEW w \in Seq(WireMessages), w # <<>>, Arrived(c, w), NEW m, m = Head(w), Says(m),
         m.t # "answer", NEW d, d = Deliver(c, m)
  PROVE  Arrived(d, Tail(w))
<1> DEFINE C == [queue : Seq(WireMessages), received : SUBSET Ids, live : SUBSET Ids]
<1>1. c \in C /\ c.queue \in Seq(WireMessages) /\ c.received \subseteq Ids /\ c.live \subseteq Ids
  BY DEF Arrived
<1>2. /\ m \in WireMessages /\ m = w[1] /\ 1 \in DOMAIN w
      /\ \A x : (In(x, w) => x = m \/ In(x, Tail(w))) /\ (Later(x, w, 1) => In(x, Tail(w)))
  BY InTail
<1>3. \A k \in DOMAIN c.queue : Says(c.queue[k]) /\ c.queue[k].t # "answer"
  BY DEF Arrived
<1>4. /\ Append(c.queue, m) \in Seq(WireMessages)
      /\ \A k \in DOMAIN Append(c.queue, m) : Says(Append(c.queue, m)[k]) /\ Append(c.queue, m)[k].t # "answer"
  BY <1>1, <1>2, <1>3, QueueTyped
<1>5. OrderOK(Append(c.queue, m), Tail(w)) /\ CardsOK(Append(c.queue, m), Tail(w))
  BY <1>1, QueueOrder, QueueCards DEF Arrived
<1>6. m.t \notin {"started", "completed", "resolved"} => OrderOK(c.queue, Tail(w)) /\ CardsOK(c.queue, Tail(w))
  BY <1>1, QueueOrder, QueueCards DEF Arrived
<1>7. /\ c.live \subseteq c.received
      /\ \A i \in c.live : i \in DOMAIN thread /\ (thread[i].ask = "open" \/ In(Msg("resolved", i), w))
      /\ \A i \in Ids : i \in c.live \/ i \notin c.received => decisions[i] = "none"
  BY DEF Arrived, LiveOK
<1>8. m.t # "resolved" => \A i \in c.live : thread[i].ask = "open" \/ In(Msg("resolved", i), Tail(w))
  <2>1. m.t # "resolved" => \A i : m # Msg("resolved", i)
    BY DEF Msg
  <2> QED
    BY <1>2, <1>7, <2>1
<1>9. CASE m.t = "request" /\ m.id \notin c.received
  <2>1. m.id \in DOMAIN thread /\ m.id \in Ids /\ thread[m.id].ask \in {"open", "closed"}
    BY <1>9, ThreadTyped DEF Says, TypeOK
  <2>2. d = [queue |-> Append(c.queue, m), received |-> c.received \union {m.id}, live |-> c.live \union {m.id}]
    BY <1>9 DEF Deliver
  <2>3. thread[m.id].ask = "closed" => In(Msg("resolved", m.id), Tail(w))
    <3>1. CardsOK(c.queue, w)
      BY DEF Arrived
    <3>2. thread[m.id].ask = "closed" => Later(Msg("resolved", w[1].id), w, 1)
      BY <1>2, <1>9, <2>1, <3>1 DEF CardsOK, Closed
    <3> QED
      BY <1>2, <3>2
  <2>4. LiveOK(Tail(w), c.received \union {m.id}, c.live \union {m.id})
    BY <1>7, <1>8, <1>9, <2>1, <2>3 DEF LiveOK
  <2>5. c.received \union {m.id} \subseteq Ids /\ c.live \union {m.id} \subseteq Ids
    BY <1>1, <2>1
  <2> QED
    BY <1>4, <1>5, <2>2, <2>4, <2>5, HeldMade
<1>10. CASE m.t = "request" /\ m.id \in c.received \ c.live
  <2>1. d = c
    BY <1>10 DEF Deliver
  <2>2. LiveOK(Tail(w), c.received, c.live)
    BY <1>7, <1>8, <1>10 DEF LiveOK
  <2> QED
    BY <1>1, <1>3, <1>6, <1>10, <2>1, <2>2 DEF Arrived
<1>11. CASE m.t = "resolved"
  <2>1. d = [c EXCEPT !.queue = Append(@, m), !.live = @ \ {m.id}]
    BY <1>11 DEF Deliver
  <2>2. d = [queue |-> Append(c.queue, m), received |-> c.received, live |-> c.live \ {m.id}]
    BY <1>1, <2>1
  <2>3. \A i \in c.live \ {m.id} : m # Msg("resolved", i)
    BY DEF Msg
  <2>4. LiveOK(Tail(w), c.received, c.live \ {m.id})
    BY <1>2, <1>7, <2>3 DEF LiveOK
  <2>5. c.live \ {m.id} \subseteq Ids
    BY <1>1
  <2> QED
    BY <1>1, <1>4, <1>5, <2>2, <2>4, <2>5, HeldMade
<1>12. CASE m.t # "resolved" /\ ~(m.t = "request" /\ m.id \notin c.received) /\ ~(m.t = "request" /\ m.id \in c.received \ c.live)
  <2>1. d = [c EXCEPT !.queue = Append(@, m)]
    BY <1>12 DEF Deliver
  <2>2. d = [queue |-> Append(c.queue, m), received |-> c.received, live |-> c.live]
    BY <1>1, <2>1
  <2>3. LiveOK(Tail(w), c.received, c.live)
    BY <1>7, <1>8, <1>12 DEF LiveOK
  <2> QED
    BY <1>1, <1>4, <1>5, <2>2, <2>3, HeldMade
<1> QED
  BY <1>9, <1>10, <1>11, <1>12

\* All that have arrived, one after the other.
LEMMA DeliveredIs ==
  ASSUME NEW c, NEW msgs, Len(msgs) \in Nat
  PROVE  \E g : /\ g[0] = c /\ \A n \in 1..Len(msgs) : g[n] = Deliver(g[n - 1], msgs[n])
                /\ Delivered(c, msgs) = g[Len(msgs)]
<1> DEFINE N == Len(msgs)
           Is(g, k) == g = [n \in 0..k |-> IF n = 0 THEN c ELSE Deliver(g[n - 1], msgs[n])]
           T == {k \in 0..N : \E g : Is(g, k)}
<1>1. 0 \in T
  <2> DEFINE g == [n \in 0..0 |-> c]
  <2>1. Is(g, 0)
    OBVIOUS
  <2> HIDE DEF g, Is
  <2> QED
    BY <2>1
<1>2. ASSUME NEW k \in 1..N, k - 1 \in T PROVE k \in T
  <2>1. PICK f : Is(f, k - 1)
    BY <1>2
  <2> DEFINE g == [n \in 0..k |-> IF n = k THEN Deliver(f[k - 1], msgs[k]) ELSE f[n]]
  <2>2. g[k] = Deliver(f[k - 1], msgs[k]) /\ \A n \in 0..(k - 1) : g[n] = f[n]
    OBVIOUS
  <2>3. \A n \in 0..(k - 1) : f[n] = IF n = 0 THEN c ELSE Deliver(f[n - 1], msgs[n])
    BY <2>1
  <2>4. DOMAIN g = 0..k /\ g = [n \in 0..k |-> g[n]]
    OBVIOUS
  <2> HIDE DEF g
  <2>5. \A n \in 0..k : g[n] = IF n = 0 THEN c ELSE Deliver(g[n - 1], msgs[n])
    <3> SUFFICES ASSUME NEW n \in 0..k PROVE g[n] = IF n = 0 THEN c ELSE Deliver(g[n - 1], msgs[n])
      OBVIOUS
    <3>1. CASE n = k
      <4>1. n # 0 /\ n - 1 \in 0..(k - 1)
        BY <3>1
      <4> QED
        BY <2>2, <3>1, <4>1
    <3>2. CASE n # k
      <4>1. n \in 0..(k - 1) /\ (n = 0 \/ n - 1 \in 0..(k - 1))
        BY <3>2
      <4> QED
        BY <2>2, <2>3, <4>1
    <3> QED
      BY <3>1, <3>2
  <2>6. Is(g, k)
    BY <2>4, <2>5
  <2> HIDE DEF Is
  <2> QED
    BY <2>6
<1>3. N \in T
  <2> HIDE DEF T, N
  <2>1. N \in Nat
    BY DEF N
  <2>2. \A n \in 0..N : n \in T
    BY <1>1, <1>2, <2>1, UpTo
  <2> QED
    BY <2>1, <2>2
<1>4. PICK f : Is(f, N)
  BY <1>3
<1>5. Is(CHOOSE g : Is(g, N), N)
  BY <1>4, Zenon
<1> DEFINE after == CHOOSE g : Is(g, N)
<1>6. Delivered(c, msgs) = after[N]
  BY Zenon DEF Delivered
<1> HIDE DEF after
<1>7. after = [n \in 0..N |-> IF n = 0 THEN c ELSE Deliver(after[n - 1], msgs[n])]
  BY <1>5 DEF after
<1>8. after[0] = c /\ \A n \in 1..N : after[n] = Deliver(after[n - 1], msgs[n])
  BY <1>7
<1> QED
  BY <1>6, <1>8

LEMMA DeliveredKept ==
  ASSUME TypeOK, ThreadOK, NEW c, NEW w \in Seq(WireMessages), Arrived(c, w), NEW n \in 0..Len(w),
         \A k \in 1..n : Says(w[k]) /\ w[k].t # "answer", NEW d, d = Delivered(c, SubSeq(w, 1, n))
  PROVE  Arrived(d, SubSeq(w, n + 1, Len(w)))
<1> DEFINE rest(k) == SubSeq(w, k + 1, Len(w))
<1>0. PICK s : s = SubSeq(w, 1, n)
  OBVIOUS
<1>1. /\ s \in Seq(WireMessages) /\ Len(s) = n /\ \A k \in 1..n : s[k] = w[k]
      /\ Len(w) \in Nat /\ n \in Nat /\ \A k \in 1..Len(w) : w[k] \in WireMessages
  <2>1. Len(w) \in Nat /\ n \in Nat /\ \A k \in 1..Len(w) : w[k] \in WireMessages
    OBVIOUS
  <2>2. s \in Seq(WireMessages) /\ Len(s) = (IF 1 <= n THEN n - 1 + 1 ELSE 0) /\ \A k \in 1..(n - 1 + 1) : s[k] = w[1 + k - 1]
    BY <1>0, <2>1, SubSeqProperties
  <2>3. Len(s) = n
    BY <2>1, <2>2
  <2>4. \A k \in 1..n : s[k] = w[k]
    BY <2>1, <2>2
  <2> QED
    BY <2>1, <2>2, <2>3, <2>4
<1>2. rest(0) = w
  BY SubSeqFull
<1>3. \A k \in 1..n : /\ rest(k - 1) \in Seq(WireMessages) /\ rest(k - 1) # <<>> /\ Head(rest(k - 1)) = w[k]
                      /\ Tail(rest(k - 1)) = rest(k)
  <2> SUFFICES ASSUME NEW k \in 1..n
               PROVE  /\ rest(k - 1) \in Seq(WireMessages) /\ rest(k - 1) # <<>> /\ Head(rest(k - 1)) = w[k]
                      /\ Tail(rest(k - 1)) = rest(k)
    OBVIOUS
  <2>1. k \in 1..Len(w) /\ Len(w) \in k..Len(w) /\ k - 1 + 1 = k
    BY <1>1
  <2>2. Head(SubSeq(w, k, Len(w))) = w[k] /\ Tail(SubSeq(w, k, Len(w))) = SubSeq(w, k + 1, Len(w))
    BY <2>1, HeadTailOfSubSeq
  <2>3. SubSeq(w, k, Len(w)) \in Seq(WireMessages) /\ Len(SubSeq(w, k, Len(w))) # 0
    <3>1. \A i \in k..Len(w) : w[i] \in WireMessages
      BY <1>1, <2>1
    <3>2. k \in Int /\ Len(w) \in Int /\ k <= Len(w)
      BY <1>1, <2>1
    <3>3. /\ SubSeq(w, k, Len(w)) \in Seq(WireMessages)
          /\ Len(SubSeq(w, k, Len(w))) = IF k <= Len(w) THEN Len(w) - k + 1 ELSE 0
      BY <3>1, <3>2, SubSeqProperties
    <3> QED
      BY <3>2, <3>3
  <2>4. SubSeq(w, k, Len(w)) # <<>>
    <3>1. PICK x : x = SubSeq(w, k, Len(w))
      OBVIOUS
    <3>2. x \in Seq(WireMessages) /\ Len(x) # 0
      BY <2>3, <3>1
    <3>3. x # <<>>
      BY ONLY <3>2
    <3> QED
      BY <3>1, <3>3
  <2> QED
    BY <2>1, <2>2, <2>3, <2>4
<1>4. PICK g : g[0] = c /\ (\A k \in 1..n : g[k] = Deliver(g[k - 1], s[k])) /\ Delivered(c, s) = g[n]
  <2>1. Len(s) \in Nat
    BY <1>1
  <2>2. PICK g : /\ g[0] = c /\ \A k \in 1..Len(s) : g[k] = Deliver(g[k - 1], s[k])
                 /\ Delivered(c, s) = g[Len(s)]
    BY <2>1, DeliveredIs
  <2>3. Len(s) = n
    BY <1>1
  <2> QED
    BY <2>2, <2>3
<1> HIDE DEF rest
<1> DEFINE T == {k \in 0..n : Arrived(g[k], rest(k))}
<1>5. 0 \in T
  BY <1>1, <1>2, <1>4
<1>6. ASSUME NEW k \in 1..n, k - 1 \in T PROVE k \in T
  <2>1. PICK a, b, m, v : a = g[k - 1] /\ b = g[k] /\ m = w[k] /\ v = rest(k - 1)
    OBVIOUS
  <2>2. /\ Arrived(a, v) /\ b = Deliver(a, m) /\ v \in Seq(WireMessages) /\ v # <<>> /\ m = Head(v)
        /\ Tail(v) = rest(k) /\ Says(m) /\ m.t # "answer"
    BY <1>1, <1>3, <1>4, <1>6, <2>1
  <2>3. Arrived(b, Tail(v))
    BY <2>2, DeliverKept
  <2>4. Arrived(b, rest(k))
    BY <2>2, <2>3
  <2>5. k \in 0..n /\ Arrived(g[k], rest(k))
    BY <2>1, <2>4
  <2> QED
    BY <2>5
<1> HIDE DEF T
<1>7. n \in T
  <2>1. n \in Nat /\ n \in 0..n
    BY <1>1
  <2>2. \A k \in 0..n : k \in T
    BY <1>5, <1>6, <2>1, UpTo
  <2> QED
    BY <2>1, <2>2
<1> QED
  BY <1>0, <1>4, <1>7 DEF T, rest

-----------------------------------------------------------------------------
(* What a step of the companion leaves alone                               *)

LEMMA ThreadSame ==
  ASSUME ThreadOK, thread' = thread, turn' = turn, status' = status
  PROVE  ThreadOK'
BY DEF ThreadOK, Users, Replies, Leads

LEMMA ShownSame ==
  ASSUME NEW r, ShownOK(r), thread' = thread, turn' = turn, status' = status, proj' = r
  PROVE  ShownOK(proj)'
BY DEF ShownOK, Users, Leads, Terminal

LEMMA ChannelSame ==
  ASSUME ChannelOK, UNCHANGED <<native, queue, wire, live>>, reading.at = "applied" => reading'.at = "applied",
         writer # NULL /\ writer.at = "applied" => writer' # NULL /\ writer'.at = "applied", Subscribed => Subscribed'
  PROVE  ChannelOK'
<1>1. thread' = thread /\ turn' = turn /\ status' = status /\ queue' = queue /\ wire' = wire /\ live' = live
  BY DEF native
<1>2. \A m : Says(m) => Says(m)'
  BY <1>1 DEF Says, Terminal
<1>3. PICK q, w, l : q = queue /\ w = wire /\ l = live
  OBVIOUS
<1>4. \A k \in DOMAIN q : Says(q[k])' /\ q[k].t # "answer"
  <2> SUFFICES ASSUME NEW k \in DOMAIN q, NEW m, m = q[k] PROVE Says(m)' /\ m.t # "answer"
    OBVIOUS
  <2> QED
    BY <1>2, <1>3 DEF ChannelOK
<1>5. \A k \in DOMAIN w : Says(w[k])'
  <2> SUFFICES ASSUME NEW k \in DOMAIN w, NEW m, m = w[k] PROVE Says(m)'
    OBVIOUS
  <2> QED
    BY <1>2, <1>3 DEF ChannelOK
<1>6. q = queue' /\ w = wire' /\ l = live'
  BY <1>1, <1>3
<1>7. /\ \A k \in DOMAIN w : w[k].t = "answer" /\ w[k].id = "reading" => reading'.at = "applied"
      /\ \A k \in DOMAIN w : w[k].t = "answer" /\ w[k].id = "writer" => writer' # NULL /\ writer'.at = "applied"
      /\ \A k, j \in DOMAIN w :
            w[k].t = "answer" /\ w[j].t = "answer" /\ w[j].id = w[k].id /\ w[k].id # "stop" => k = j
      /\ ~Subscribed' => w = <<>> /\ q = <<>> /\ l = {}
  BY <1>3 DEF ChannelOK
<1> QED
  BY <1>4, <1>5, <1>6, <1>7 DEF ChannelOK

LEMMA ReadingSame ==
  ASSUME ReadingOK, UNCHANGED <<native, reading, phase>>, proj'.cards = proj.cards \/ phase # "attach",
         proj'.ready = proj.ready
  PROVE  ReadingOK'
BY DEF ReadingOK, native, Terminal, NoRequest

LEMMA PageSame ==
  ASSUME TypeOK, ThreadOK, PageOK, UNCHANGED <<native, reading>>, \A i \in Ids : proj.seen[i] # 0 => proj'.seen[i] # 0
  PROVE  PageOK'
<1>1. PICK r, s : r = reading /\ s = proj'.seen
  OBVIOUS
<1>2. /\ thread' = thread /\ turn' = turn /\ status' = status /\ mode' = mode /\ r = reading'
      /\ (PageHere' <=> PageHere) /\ Users' = Users /\ Replies' = Replies
      /\ \A e : Final(e)' <=> Final(e)
  BY <1>1 DEF native, PageHere, Users, Replies, Final
<1>3. \A u \in Users : u \in Ids /\ (proj.seen[u] # 0 => s[u] # 0)
  BY <1>1, ThreadTyped DEF TypeOK
<1>4. ASSUME PageHere PROVE  r.got \in Seq(Entries) /\ \A k \in DOMAIN r.got : LET e == r.got[k] IN
          /\ e.id \in DOMAIN thread /\ e.turn = thread[e.id].turn
          /\ e.ver = 2 => thread[e.id].ver = 2
          /\ Final(e) => e.ver = thread[e.id].ver /\ Terminal(e.turn)
          /\ e.turn = r.turn => Final(e)
          /\ e.id \in Replies => \E u \in Users : Leads(u, e.id) /\ (s[u] # 0 \/ \E j \in 1..(k - 1) : r.got[j].id = u)
  <2>1. r.got \in Seq(Entries)
    BY <1>1, <1>4 DEF PageOK
  <2>2. ASSUME NEW k \in DOMAIN r.got, NEW e, e = r.got[k]
        PROVE /\ e.id \in DOMAIN thread /\ e.turn = thread[e.id].turn
              /\ e.ver = 2 => thread[e.id].ver = 2
              /\ Final(e) => e.ver = thread[e.id].ver /\ Terminal(e.turn)
              /\ e.turn = r.turn => Final(e)
              /\ e.id \in Replies => \E u \in Users : Leads(u, e.id) /\ (s[u] # 0 \/ \E j \in 1..(k - 1) : r.got[j].id = u)
    <3>1. /\ e.id \in DOMAIN thread /\ e.turn = thread[e.id].turn
          /\ e.ver = 2 => thread[e.id].ver = 2
          /\ Final(e) => e.ver = thread[e.id].ver /\ Terminal(e.turn)
          /\ e.turn = r.turn => Final(e)
          /\ e.id \in Replies => \E u \in Users :
                Leads(u, e.id) /\ (proj.seen[u] # 0 \/ \E j \in 1..(k - 1) : r.got[j].id = u)
      BY <1>1, <1>4, <2>2 DEF PageOK
    <3> QED
      BY <1>3, <3>1
  <2> QED
    BY <2>1, <2>2
<1>5. \A u, i : Leads(u, i) => Leads(u, i)'
  BY <1>2 DEF Leads
<1>6. \A t : Terminal(t) => Terminal(t)'
  BY <1>2 DEF Terminal
<1>7. mode = "paginated" /\ r.step = "page" =>
          \A u \in Users : u <= r.pos /\ (r.turn # 0 => thread[u].turn = r.turn)
             => s[u] # 0 \/ (PageHere /\ \E k \in DOMAIN r.got : r.got[k].id = u)
  BY <1>1, <1>3 DEF PageOK, Got
<1> QED
  BY <1>1, <1>2, <1>4, <1>5, <1>6, <1>7 DEF PageOK, Got

LEMMA KnownSame ==
  ASSUME TypeOK, ThreadOK, UNCHANGED <<native, reading, phase>>, \A i \in Ids : proj.seen[i] # 0 => proj'.seen[i] # 0
  PROVE  \A u \in Users : Known(u) => Known(u)'
<1>1. \A u \in Users : u \in Ids
  BY ThreadTyped DEF TypeOK
<1> QED
  BY <1>1 DEF Known, Covered, Beyond, PageHere, Got, native

LEMMA OrderSame ==
  ASSUME NEW q, NEW w, OrderOK(q, w), thread' = thread, queue' = q, wire' = w,
         \A u \in Users : Known(u) => Known(u)'
  PROVE  OrderOK(queue, wire)'
<1>1. Users' = Users
  BY DEF Users
<1> QED
  BY <1>1 DEF OrderOK

LEMMA CardsSame ==
  ASSUME NEW q, NEW w, CardsOK(q, w), thread' = thread, queue' = q, wire' = w,
         \A i \in Ids : proj'.cards[i] \in {"open", "submitted"} => proj.cards[i] \in {"open", "submitted"}
  PROVE  CardsOK(queue, wire)'
BY DEF CardsOK, Closed

LEMMA LiveSame ==
  ASSUME NEW w, NEW rc, NEW lv, LiveOK(w, rc, lv), thread' = thread, decisions' = decisions,
         wire' = w, received' = rc, live' = lv
  PROVE  LiveOK(wire, received, live)'
BY DEF LiveOK

LEMMA TextsSame ==
  ASSUME TextsOK, thread' = thread, UNCHANGED <<inbox, turns, writer, posted>>
  PROVE  TextsOK'
BY DEF TextsOK, Users

-----------------------------------------------------------------------------
(* The steps of the client                                                 *)

LEMMA ReceiveOthersKept ==
  ASSUME CodexInv, ReceiveOthers
  PROVE  CodexInv'
<1> USE DEF CodexInv
<1>0. PICK w, c : w = wire /\ c = [queue |-> queue, received |-> received, live |-> live]
  OBVIOUS
<1>1. w \in Seq(WireMessages) /\ w # <<>> /\ Len(w) \in Nat /\ DOMAIN w = 1..Len(w) /\ w[1].t # "answer" /\ ~over
  <2>1. w \in Seq(WireMessages) /\ w # <<>> /\ Head(w).t # "answer" /\ ~over
    BY <1>0 DEF ReceiveOthers, TypeOK
  <2> QED
    BY <2>1
<1>2. UNCHANGED <<native, decisions, reading, phase, gate, proj, inbound, writer, stop, lastStopped, over, ghosts>>
  BY DEF ReceiveOthers
<1> DEFINE answers == {k \in DOMAIN w : w[k].t = "answer"}
           first == CHOOSE k \in answers : \A l \in answers : k <= l
           n == IF answers = {} THEN Len(w) ELSE first - 1
           d == Delivered(c, SubSeq(w, 1, n))
<1>3. wire' = SubSeq(w, n + 1, Len(w)) /\ queue' = d.queue /\ received' = d.received /\ live' = d.live
  BY <1>0 DEF ReceiveOthers
<1>4. n \in 0..Len(w) /\ \A k \in 1..n : w[k].t # "answer"
  <2>1. CASE answers = {}
    BY <1>1, <2>1
  <2>2. CASE answers # {}
    <3>1. answers \in SUBSET Nat
      BY <1>1
    <3>2. \E k \in answers : \A l \in answers : k <= l
      BY <2>2, <3>1, LeastNatural
    <3>3. first \in answers /\ \A l \in answers : first <= l
      BY <3>2
    <3>4. n = first - 1
      BY <2>2
    <3> HIDE DEF n, first
    <3>5. first \in 1..Len(w) /\ first \in Nat
      BY <1>1, <3>3
    <3>6. n \in 0..Len(w)
      BY <1>1, <3>4, <3>5
    <3>7. ASSUME NEW k \in 1..n PROVE w[k].t # "answer"
      <4>1. k \in DOMAIN w /\ ~(first <= k)
        BY <1>1, <3>4, <3>5, <3>7
      <4> QED
        BY <3>3, <4>1
    <3> QED
      BY <3>6, <3>7
  <2> QED
    BY <2>1, <2>2
<1> HIDE DEF n, d
<1>5. \A k \in 1..Len(w) : Says(w[k])
  BY <1>0, <1>1 DEF ChannelOK
<1>6. Arrived(c, w)
  <2>1. queue \in Seq(WireMessages) /\ received \in SUBSET Ids /\ live \in SUBSET Ids
    BY DEF TypeOK
  <2>2. \A k \in DOMAIN queue : Says(queue[k]) /\ queue[k].t # "answer"
    BY DEF ChannelOK
  <2> QED
    BY <1>0, <2>1, <2>2, HeldMade
<1>7. Arrived(d, SubSeq(w, n + 1, Len(w)))
  <2>1. \A k \in 1..n : Says(w[k]) /\ w[k].t # "answer"
    BY <1>1, <1>4, <1>5
  <2> QED
    BY <1>1, <1>4, <1>6, <2>1, DeliveredKept DEF d
<1>8. PICK v : v = SubSeq(w, n + 1, Len(w))
  OBVIOUS
<1>9. /\ d.queue \in Seq(WireMessages) /\ d.received \subseteq Ids /\ d.live \subseteq Ids
      /\ \A k \in DOMAIN d.queue : Says(d.queue[k]) /\ d.queue[k].t # "answer"
      /\ OrderOK(d.queue, v) /\ CardsOK(d.queue, v) /\ LiveOK(v, d.received, d.live)
  BY <1>7, <1>8 DEF Arrived
<1>10. v \in Seq(WireMessages) /\ DOMAIN v = 1..(Len(w) - n) /\ \A k \in DOMAIN v : n + k \in DOMAIN w /\ v[k] = w[n + k]
  <2>1. n \in Nat /\ n <= Len(w) /\ n + 1 \in Int /\ Len(w) \in Int /\ \A k \in (n + 1)..Len(w) : w[k] \in WireMessages
    BY <1>1, <1>4
  <2>2. /\ v \in Seq(WireMessages) /\ Len(v) = (IF n + 1 <= Len(w) THEN Len(w) - (n + 1) + 1 ELSE 0)
        /\ \A k \in 1..(Len(w) - (n + 1) + 1) : v[k] = w[n + 1 + k - 1]
    BY <1>8, <2>1, SubSeqProperties
  <2>3. Len(v) = Len(w) - n /\ DOMAIN v = 1..Len(v)
    <3>0. n \in Nat /\ Len(w) \in Nat /\ n <= Len(w)
      BY <1>1, <2>1
    <3>1. (IF n + 1 <= Len(w) THEN Len(w) - (n + 1) + 1 ELSE 0) = Len(w) - n
      BY ONLY <3>0
    <3>2. DOMAIN v = 1..Len(v)
      BY <2>2
    <3> QED
      BY <2>2, <3>1, <3>2
  <2>4. ASSUME NEW k \in 1..(Len(w) - n) PROVE n + k \in 1..Len(w) /\ v[k] = w[n + k]
    <3>1. k \in 1..(Len(w) - (n + 1) + 1) /\ n + 1 + k - 1 = n + k /\ n + k \in 1..Len(w)
      BY <1>1, <2>1
    <3> QED
      BY <2>2, <3>1
  <2> QED
    BY <1>1, <2>2, <2>3, <2>4
<1>11. PICK q, lv : q = d.queue /\ lv = d.live
  OBVIOUS
<1>12. wire' = v /\ queue' = q /\ live' = lv
  BY <1>3, <1>8, <1>11
<1>13. ChannelOK'
  <2>1. thread' = thread /\ turn' = turn /\ status' = status
    BY <1>2 DEF native
  <2>2. \A m : Says(m) => Says(m)'
    BY <2>1 DEF Says, Terminal
  <2>3. ASSUME NEW k \in DOMAIN q PROVE Says(q[k])' /\ q[k].t # "answer"
    <3>1. PICK m : m = q[k]
      OBVIOUS
    <3>2. Says(m) /\ m.t # "answer"
      BY <1>9, <1>11, <2>3, <3>1
    <3> QED
      BY <2>2, <3>1, <3>2
  <2>4. ASSUME NEW k \in DOMAIN v PROVE Says(v[k])'
    <3>1. PICK m : m = v[k]
      OBVIOUS
    <3>2. Says(m)
      BY <1>1, <1>5, <1>10, <2>4, <3>1
    <3> QED
      BY <2>2, <3>1, <3>2
  <2>5. /\ \A k \in DOMAIN w : w[k].t = "answer" /\ w[k].id = "reading" => reading'.at = "applied"
        /\ \A k \in DOMAIN w : w[k].t = "answer" /\ w[k].id = "writer" => writer' # NULL /\ writer'.at = "applied"
        /\ \A k, j \in DOMAIN w :
              w[k].t = "answer" /\ w[j].t = "answer" /\ w[j].id = w[k].id /\ w[k].id # "stop" => k = j
    BY <1>0, <1>2 DEF ChannelOK
  <2>6. \A k \in DOMAIN v : v[k].t = "answer" /\ v[k].id = "reading" => reading'.at = "applied"
    BY <1>10, <2>5
  <2>7. \A k \in DOMAIN v : v[k].t = "answer" /\ v[k].id = "writer" => writer' # NULL /\ writer'.at = "applied"
    BY <1>10, <2>5
  <2>8. ASSUME NEW k \in DOMAIN v, NEW j \in DOMAIN v, v[k].t = "answer", v[j].t = "answer", v[j].id = v[k].id,
               v[k].id # "stop"
        PROVE  k = j
    <3>1. n + k = n + j
      BY <1>10, <2>5, <2>8
    <3> QED
      BY <1>1, <1>4, <1>10, <3>1
  <2>9. Subscribed'
    <3>1. Subscribed
      BY <1>0, <1>1 DEF ChannelOK
    <3> QED
      BY <1>2, <3>1 DEF Subscribed
  <2> QED
    BY <1>12, <2>3, <2>4, <2>6, <2>7, <2>8, <2>9 DEF ChannelOK
<1>14. TypeOK'
  <2>1. wire' \in Seq(WireMessages) /\ queue' \in Seq(WireMessages) /\ received' \subseteq Ids /\ live' \subseteq Ids
    BY <1>3, <1>9, <1>10, <1>12
  <2> QED
    BY <1>2, <2>1 DEF TypeOK, native, inbound, ghosts
<1>15. ThreadOK' /\ TextsOK' /\ ReadingOK' /\ PageOK' /\ ShownOK(proj)'
  BY <1>2, ThreadSame, TextsSame, ReadingSame, PageSame, ShownSame DEF native, inbound, ghosts
<1>16. OrderOK(queue, wire)'
  <2>1. \A u \in Users : Known(u) => Known(u)'
    BY <1>2, KnownSame
  <2> QED
    BY <1>2, <1>9, <1>11, <1>12, <2>1, OrderSame DEF native
<1>17. CardsOK(queue, wire)'
  BY <1>2, <1>9, <1>11, <1>12, CardsSame DEF native
<1>18. LiveOK(wire, received, live)'
  BY <1>2, <1>3, <1>9, <1>12, LiveSame DEF native
<1> QED
  BY <1>13, <1>14, <1>15, <1>16, <1>17, <1>18

LEMMA ReceiveAnswerKept ==
  ASSUME CodexInv, ReceiveAnswer
  PROVE  CodexInv'
<1> USE DEF CodexInv
<1>0. PICK w, v, r : w = wire /\ v = wire' /\ r = reading
  OBVIOUS
<1>1. w \in Seq(WireMessages) /\ w # <<>> /\ Head(w).t = "answer" /\ v = Tail(w)
  BY <1>0 DEF ReceiveAnswer, TypeOK
<1>2. UNCHANGED <<native, decisions, client, phase, gate, proj, inbound, lastStopped, over, ghosts>>
  BY DEF ReceiveAnswer
<1>a. PICK m : m = Head(w)
  OBVIOUS
<1>3. \A x : /\ v \in Seq(WireMessages) /\ m \in WireMessages /\ Len(w) \in Nat \ {0} /\ DOMAIN w = 1..Len(w) /\ m = w[1]
             /\ \A k \in DOMAIN v : k + 1 \in DOMAIN w /\ v[k] = w[k + 1]
             /\ In(x, w) => x = m \/ In(x, v)
             /\ \A k \in DOMAIN v : Precedes(x, w, k + 1) => x = m \/ Precedes(x, v, k)
             /\ \A k \in DOMAIN v : Later(x, w, k + 1) => Later(x, v, k)
  BY <1>1, <1>a, InTail
<1>4. m.t = "answer" /\ \A t, i : t # "answer" => m # Msg(t, i)
  BY <1>1, <1>a DEF Msg
<1>5. m.id \in {"reading", "writer", "stop"}
  BY <1>3, <1>4 DEF WireMessages, Notices
<1>6. \A k \in DOMAIN v : k + 1 # 1
  <2>1. DOMAIN v = 1..Len(v)
    BY <1>3
  <2> QED
    BY <2>1
<1>7. /\ m.id = "reading" => r.at = "applied" /\ \A k \in DOMAIN v : ~(v[k].t = "answer" /\ v[k].id = "reading")
      /\ m.id = "writer" => writer # NULL /\ writer.at = "applied" /\ \A k \in DOMAIN v : ~(v[k].t = "answer" /\ v[k].id = "writer")
  <2>1. 1 \in DOMAIN w
    BY <1>3
  <2>2. /\ \A k \in DOMAIN w : w[k].t = "answer" /\ w[k].id = "reading" => r.at = "applied"
        /\ \A k \in DOMAIN w : w[k].t = "answer" /\ w[k].id = "writer" => writer # NULL /\ writer.at = "applied"
        /\ \A k, j \in DOMAIN w :
              w[k].t = "answer" /\ w[j].t = "answer" /\ w[j].id = w[k].id /\ w[k].id # "stop" => k = j
    BY <1>0 DEF ChannelOK
  <2>3. ASSUME NEW k \in DOMAIN v, v[k].t = "answer", v[k].id = m.id, m.id # "stop" PROVE FALSE
    <3>1. k + 1 \in DOMAIN w /\ w[k + 1].t = "answer" /\ w[k + 1].id = w[1].id /\ w[1].t = "answer" /\ w[1].id # "stop"
      BY <1>3, <1>4, <2>3
    <3>2. k + 1 = 1
      BY <2>1, <2>2, <3>1
    <3> QED
      BY <1>6, <2>3, <3>2
  <2> QED
    BY <1>3, <1>4, <2>1, <2>2, <2>3
<1>8. /\ reading' = (IF m.id = "reading" THEN [r EXCEPT !.at = "answered"] ELSE r)
      /\ writer' = (IF m.id = "writer" THEN [writer EXCEPT !.at = "answered"] ELSE writer)
  BY <1>0, <1>a DEF ReceiveAnswer, Woken
<1>9. /\ reading'.step = r.step /\ reading'.turn = r.turn /\ reading'.pos = r.pos /\ reading'.terminal = r.terminal
      /\ reading'.got = r.got /\ reading'.more = r.more
      /\ reading'.at = (IF m.id = "reading" THEN "answered" ELSE r.at)
      /\ r.at = "sent" => reading' = r
  <2>1. r \in [step : {"none", "resume", "meta", "page"}, at : {"none", "sent", "applied", "answered"}, turn : Nat,
                    pos : Nat, terminal : SUBSET Nat, got : {r.got}, more : BOOLEAN]
    BY <1>0 DEF TypeOK
  <2> QED
    BY <1>7, <1>8, <2>1
<1>10. writer # NULL => writer' # NULL /\ writer' \in [of : Prompts, at : {"sent", "applied", "answered"}]
          /\ writer'.of = writer.of /\ writer'.at = (IF m.id = "writer" THEN "answered" ELSE writer.at)
  <2> SUFFICES ASSUME writer # NULL
               PROVE  writer' # NULL /\ writer' \in [of : Prompts, at : {"sent", "applied", "answered"}]
                      /\ writer'.of = writer.of /\ writer'.at = (IF m.id = "writer" THEN "answered" ELSE writer.at)
    OBVIOUS
  <2>1. writer \in [of : Prompts, at : {"sent", "applied", "answered"}]
    BY DEF TypeOK
  <2>2. PICK x : x = writer
    OBVIOUS
  <2>3. CASE m.id = "writer"
    <3>1. writer' = [x EXCEPT !.at = "answered"] /\ x.of \in Prompts
      BY <1>8, <2>1, <2>2, <2>3
    <3>2. writer' = [of |-> x.of, at |-> "answered"]
      BY <2>1, <2>2, <3>1
    <3>3. writer'.of = x.of /\ writer'.at = "answered" /\ writer' \in [of : Prompts, at : {"sent", "applied", "answered"}]
      BY <3>1, <3>2
    <3> QED
      BY <2>2, <2>3, <3>3, NamesAssumption
  <2>4. CASE m.id # "writer"
    BY <1>8, <2>1, <2>4
  <2> QED
    BY <2>3, <2>4
<1>b. UNCHANGED <<thread, turn, status, mode, queue, live, received, decisions, phase, proj>>
  BY <1>2 DEF native, client
<1>c. wire' = v
  BY <1>0
<1>d. \A u \in Users : Known(u) => Known(u)'
  <2>1. \A u : Got(u)' <=> Got(u)
    BY <1>0, <1>9 DEF Got
  <2>2. PageHere => PageHere'
    BY <1>0, <1>9 DEF PageHere
  <2>3. \A u : Beyond(u) => Beyond(u)'
    BY <1>0, <1>9, <1>b DEF Beyond
  <2>4. \A u : Covered(u) => Covered(u)'
    BY <1>0, <1>9, <1>b, <2>1, <2>2, <2>3 DEF Covered
  <2> QED
    BY <1>b, <2>4 DEF Known
<1>11. ThreadOK' /\ ShownOK(proj)'
  BY <1>b, ThreadSame, ShownSame
<1>12. TypeOK'
  <2>1. reading' \in [step : {"none", "resume", "meta", "page"}, at : {"none", "sent", "applied", "answered"}, turn : Nat,
                      pos : Nat, terminal : SUBSET Nat, got : {reading'.got}, more : BOOLEAN]
    <3>1. r \in [step : {"none", "resume", "meta", "page"}, at : {"none", "sent", "applied", "answered"}, turn : Nat,
                      pos : Nat, terminal : SUBSET Nat, got : {r.got}, more : BOOLEAN]
      BY <1>0 DEF TypeOK
    <3>2. r.got = reading'.got
      BY <1>9
    <3> QED
      BY <1>8, <3>1, <3>2
  <2>2. writer' # NULL => writer' \in [of : Prompts, at : {"sent", "applied", "answered"}]
    BY <1>7, <1>8, <1>10
  <2>3. wire' \in Seq(WireMessages)
    BY <1>3, <1>c
  <2> QED
    BY <1>2, <2>1, <2>2, <2>3 DEF TypeOK, native, client, inbound, ghosts
<1>13. TextsOK'
  <2>1. writer' # NULL => writer # NULL /\ writer'.of = writer.of /\ (writer'.at = "sent" => writer.at = "sent")
    BY <1>7, <1>8, <1>10
  <2>2. UNCHANGED <<thread, inbox, turns, posted>>
    BY <1>2 DEF native, inbound, ghosts
  <2> QED
    BY <2>1, <2>2 DEF TextsOK, Users
<1>14. ChannelOK'
  <2>1. \A x : Says(x) => Says(x)'
    BY <1>b DEF Says, Terminal
  <2>2. PICK q : q = queue
    OBVIOUS
  <2>3. ASSUME NEW k \in DOMAIN q PROVE Says(q[k])' /\ q[k].t # "answer"
    <3>1. PICK x : x = q[k]
      OBVIOUS
    <3>2. Says(x) /\ x.t # "answer"
      BY <2>2, <2>3, <3>1 DEF ChannelOK
    <3> QED
      BY <2>1, <3>1, <3>2
  <2>4. ASSUME NEW k \in DOMAIN v PROVE Says(v[k])'
    <3>1. PICK x : x = v[k]
      OBVIOUS
    <3>2. Says(x)
      BY <1>0, <1>3, <2>4, <3>1 DEF ChannelOK
    <3> QED
      BY <2>1, <3>1, <3>2
  <2>5. /\ \A k \in DOMAIN w : w[k].t = "answer" /\ w[k].id = "reading" => r.at = "applied"
        /\ \A k \in DOMAIN w : w[k].t = "answer" /\ w[k].id = "writer" => writer # NULL /\ writer.at = "applied"
        /\ \A k, j \in DOMAIN w :
              w[k].t = "answer" /\ w[j].t = "answer" /\ w[j].id = w[k].id /\ w[k].id # "stop" => k = j
    BY <1>0 DEF ChannelOK
  <2>6. ASSUME NEW k \in DOMAIN v, v[k].t = "answer", v[k].id = "reading" PROVE reading'.at = "applied"
    <3>1. m.id # "reading"
      BY <1>7, <2>6
    <3> QED
      BY <1>3, <1>9, <2>5, <2>6, <3>1
  <2>7. ASSUME NEW k \in DOMAIN v, v[k].t = "answer", v[k].id = "writer" PROVE writer' # NULL /\ writer'.at = "applied"
    <3>1. m.id # "writer"
      BY <1>7, <2>7
    <3> QED
      BY <1>3, <1>10, <2>5, <2>7, <3>1
  <2>8. ASSUME NEW k \in DOMAIN v, NEW j \in DOMAIN v, v[k].t = "answer", v[j].t = "answer", v[j].id = v[k].id,
               v[k].id # "stop"
        PROVE  k = j
    <3>1. k + 1 = j + 1
      BY <1>3, <2>5, <2>8
    <3>2. DOMAIN v = 1..Len(v)
      BY <1>3
    <3> QED
      BY <3>1, <3>2
  <2>9. Subscribed'
    <3>1. Subscribed
      BY <1>0, <1>1 DEF ChannelOK
    <3> QED
      BY <1>0, <1>9, <3>1 DEF Subscribed
  <2> QED
    BY <1>b, <1>c, <2>2, <2>3, <2>4, <2>6, <2>7, <2>8, <2>9 DEF ChannelOK
<1>15. ReadingOK'
  <2>1. NoRequest.at = "none" /\ NoRequest' = NoRequest
    BY DEF NoRequest
  <2>2. reading = NoRequest => reading' = NoRequest
    BY <1>0, <1>7, <1>8, <2>1
  <2>3. reading'.at = "none" => reading.at = "none"
    BY <1>0, <1>9
  <2>4. reading'.turn = reading.turn /\ reading'.step = reading.step /\ reading'.pos = reading.pos /\ reading'.terminal = reading.terminal
    BY <1>0, <1>9
  <2> QED
    BY <1>b, <2>1, <2>2, <2>3, <2>4 DEF ReadingOK, Terminal
<1>16. PageOK'
  <2>1. PageHere' => PageHere
    BY <1>0, <1>7, <1>9 DEF PageHere
  <2>2. PageHere => PageHere'
    BY <1>0, <1>9 DEF PageHere
  <2>3. PICK g, t, p, s : g = reading.got /\ t = reading.turn /\ p = reading.pos /\ s = proj.seen
    OBVIOUS
  <2>4. g = reading'.got /\ t = reading'.turn /\ p = reading'.pos /\ s = proj'.seen /\ reading'.step = reading.step
    BY <1>0, <1>9, <1>b, <2>3
  <2>5. \A e : Final(e)' <=> Final(e)
    BY <1>0, <1>9, <1>b DEF Final
  <2>6. Users' = Users /\ Replies' = Replies /\ (\A u, i : Leads(u, i)' <=> Leads(u, i)) /\ \A k : Terminal(k)' <=> Terminal(k)
    BY <1>b DEF Users, Replies, Leads, Terminal
  <2>7. PageHere => g \in Seq(Entries) /\ \A k \in DOMAIN g : LET e == g[k] IN
          /\ e.id \in DOMAIN thread /\ e.turn = thread[e.id].turn
          /\ e.ver = 2 => thread[e.id].ver = 2
          /\ Final(e) => e.ver = thread[e.id].ver /\ Terminal(e.turn)
          /\ e.turn = t => Final(e)
          /\ e.id \in Replies => \E u \in Users : Leads(u, e.id) /\ (s[u] # 0 \/ \E j \in 1..(k - 1) : g[j].id = u)
    BY <2>3 DEF PageOK
  <2>8. mode = "paginated" /\ reading.step = "page" =>
          \A u \in Users : u <= p /\ (t # 0 => thread[u].turn = t)
             => s[u] # 0 \/ (PageHere /\ \E k \in DOMAIN g : g[k].id = u)
    BY <2>3 DEF PageOK, Got
  <2> QED
    BY <1>b, <2>1, <2>2, <2>4, <2>5, <2>6, <2>7, <2>8 DEF PageOK, Got
<1>17. OrderOK(queue, wire)'
  <2>1. PICK q : q = queue
    OBVIOUS
  <2>2. OrderOK(q, w)
    BY <1>0, <2>1
  <2>3. OrderOK(q, v)
    <3>1. \A u : m # Msg("completed", u)
      BY <1>4
    <3>2. \A u \in Users : Known(u) \/ In(Msg("completed", u), q) \/ In(Msg("completed", u), v)
      BY <1>3, <2>2, <3>1 DEF OrderOK
    <3>3. \A k \in DOMAIN q : \A u \in Users :
             q[k].t \in {"started", "completed"} /\ u < q[k].id => Known(u) \/ Precedes(Msg("completed", u), q, k)
      BY <2>2 DEF OrderOK
    <3>4. \A k \in DOMAIN v : \A u \in Users :
             v[k].t \in {"started", "completed"} /\ u < v[k].id
                => Known(u) \/ In(Msg("completed", u), q) \/ Precedes(Msg("completed", u), v, k)
      BY <1>3, <2>2, <3>1 DEF OrderOK
    <3> QED
      BY <3>2, <3>3, <3>4 DEF OrderOK
  <2> QED
    BY <1>b, <1>c, <1>d, <2>1, <2>3, OrderSame
<1>18. CardsOK(queue, wire)'
  <2>1. PICK q : q = queue
    OBVIOUS
  <2>2. CardsOK(q, w)
    BY <1>0, <2>1
  <2>3. \A i : m # Msg("resolved", i)
    BY <1>4
  <2>4. CardsOK(q, v)
    BY <1>3, <2>2, <2>3 DEF CardsOK
  <2> QED
    BY <1>b, <1>c, <2>1, <2>4, CardsSame
<1>19. LiveOK(wire, received, live)'
  <2>1. PICK rc, lv : rc = received /\ lv = live
    OBVIOUS
  <2>2. LiveOK(w, rc, lv)
    BY <1>0, <2>1
  <2>3. \A i : m # Msg("resolved", i)
    BY <1>4
  <2>4. LiveOK(v, rc, lv)
    BY <1>3, <2>2, <2>3 DEF LiveOK
  <2> QED
    BY <1>b, <1>c, <2>1, <2>4, LiveSame
<1> QED
  BY <1>11, <1>12, <1>13, <1>14, <1>15, <1>16, <1>17, <1>18, <1>19

LEMMA TakeInboundKept ==
  ASSUME CodexInv, TakeInbound
  PROVE  CodexInv'
<1> USE DEF CodexInv
<1>0. PICK q, v, p, r : q = queue /\ v = queue' /\ p = proj /\ r = proj'
  OBVIOUS
<1>1. q \in Seq(WireMessages) /\ q # <<>> /\ v = Tail(q) /\ phase # "attach" /\ over' \in BOOLEAN /\ gate' \in BOOLEAN
  <2>1. gate' \in BOOLEAN
    BY Zenon DEF TakeInbound, TypeOK
  <2>2. over' \in BOOLEAN
    BY Zenon DEF TakeInbound
  <2> QED
    BY <1>0, <2>1, <2>2 DEF TakeInbound, TypeOK
<1>2. /\ UNCHANGED <<native, wire, decisions, received, live, reading, phase, inbound, writer, stop, lastStopped, ghosts>>
      /\ UNCHANGED <<thread, turn, status, mode>>
  BY DEF TakeInbound, native
<1>a. PICK m : m = Head(q)
  OBVIOUS
<1>3. \A x : /\ v \in Seq(WireMessages) /\ m \in WireMessages /\ Len(q) \in Nat \ {0} /\ DOMAIN q = 1..Len(q) /\ m = q[1]
             /\ \A k \in DOMAIN v : k + 1 \in DOMAIN q /\ v[k] = q[k + 1]
             /\ In(x, q) => x = m \/ In(x, v)
             /\ Later(x, q, 1) => In(x, v)
             /\ \A k \in DOMAIN v : Precedes(x, q, k + 1) => x = m \/ Precedes(x, v, k)
             /\ \A k \in DOMAIN v : Later(x, q, k + 1) => Later(x, v, k)
  BY <1>1, <1>a, InTail
<1>4. Says(m) /\ m.t # "answer" /\ 1 \in DOMAIN q
  BY <1>0, <1>3 DEF ChannelOK
<1>5. r = Inbound(p, m)
  BY <1>0, <1>a DEF TakeInbound
<1>6. p \in Projections /\ ShownOK(p)
  BY <1>0 DEF TypeOK
<1>7. \A u \in Users : Known(u) => p.seen[u] # 0
  BY <1>0, <1>1 DEF Known, Covered
<1>8. ASSUME m.t \in {"started", "completed"}, m.id \in Replies PROVE Led(p, m.id)
  <2>1. PICK u \in Users : Leads(u, m.id)
    BY <1>8 DEF ThreadOK
  <2>2. Known(u) \/ Precedes(Msg("completed", u), q, 1)
    BY <1>0, <1>3, <1>4, <1>8, <2>1 DEF OrderOK, Leads
  <2>3. ~Precedes(Msg("completed", u), q, 1)
    BY DEF Precedes
  <2> QED
    BY <1>7, <2>1, <2>2, <2>3 DEF Led
<1>9. /\ r \in Projections /\ ShownOK(r)
      /\ \A i \in Ids : p.seen[i] # 0 => r.seen[i] # 0
      /\ \A i \in Ids : r.cards[i] \in {"open", "submitted"} =>
            /\ p.cards[i] \in {"open", "submitted"} \/ (m.t = "request" /\ m.id = i)
            /\ ~(m.t = "resolved" /\ m.id = i)
      /\ r.ready = p.ready \/ (m.t = "turn" /\ r.ready = Append(p.ready, m.id))
      /\ m.t = "completed" /\ m.id \in Users => r.seen[m.id] # 0
  BY <1>3, <1>4, <1>5, <1>6, <1>8, InboundKept
<1>10. \A i \in Ids : proj.seen[i] # 0 => proj'.seen[i] # 0
  BY <1>0, <1>9
<1>11. ThreadOK' /\ TextsOK' /\ PageOK' /\ ShownOK(proj)' /\ LiveOK(wire, received, live)'
  <2>1. ShownOK(proj)'
    BY <1>0, <1>2, <1>9, ShownSame
  <2>2. LiveOK(wire, received, live)'
    BY <1>2, LiveSame
  <2> QED
    BY <1>2, <1>10, <2>1, <2>2, ThreadSame, TextsSame, PageSame DEF inbound, ghosts
<1>12. TypeOK'
  <2>1. queue' \in Seq(WireMessages) /\ proj' \in Projections
    BY <1>0, <1>3, <1>9
  <2> QED
    BY <1>1, <1>2, <2>1 DEF TypeOK, inbound, ghosts
<1>13. ChannelOK'
  <2>1. \A x : Says(x) => Says(x)'
    BY <1>2 DEF Says, Terminal
  <2>2. PICK w : w = wire
    OBVIOUS
  <2>3. ASSUME NEW k \in DOMAIN v PROVE Says(v[k])' /\ v[k].t # "answer"
    <3>1. PICK x : x = v[k]
      OBVIOUS
    <3>2. Says(x) /\ x.t # "answer"
      BY <1>0, <1>3, <2>3, <3>1 DEF ChannelOK
    <3> QED
      BY <2>1, <3>1, <3>2
  <2>4. ASSUME NEW k \in DOMAIN w PROVE Says(w[k])'
    <3>1. PICK x : x = w[k]
      OBVIOUS
    <3>2. Says(x)
      BY <2>2, <2>4, <3>1 DEF ChannelOK
    <3> QED
      BY <2>1, <3>1, <3>2
  <2>5. /\ \A k \in DOMAIN w : w[k].t = "answer" /\ w[k].id = "reading" => reading.at = "applied"
        /\ \A k \in DOMAIN w : w[k].t = "answer" /\ w[k].id = "writer" => writer # NULL /\ writer.at = "applied"
        /\ \A k, j \in DOMAIN w :
              w[k].t = "answer" /\ w[j].t = "answer" /\ w[j].id = w[k].id /\ w[k].id # "stop" => k = j
    BY <2>2 DEF ChannelOK
  <2>6. Subscribed'
    <3>1. Subscribed
      BY <1>0, <1>1 DEF ChannelOK
    <3> QED
      BY <1>2, <3>1 DEF Subscribed
  <2>7. queue' = v /\ wire' = w /\ reading' = reading /\ writer' = writer
    BY <1>0, <1>2, <2>2
  <2> QED
    BY <2>3, <2>4, <2>5, <2>6, <2>7 DEF ChannelOK
<1>14. ReadingOK'
  <2>1. ASSUME NEW k \in DOMAIN r.ready PROVE r.ready[k] \in 1..turn /\ Terminal(r.ready[k])
    <3>1. p.ready \in Seq(Nat) /\ \A j \in DOMAIN p.ready : p.ready[j] \in 1..turn /\ Terminal(p.ready[j])
      BY <1>0, <1>6 DEF ReadingOK, Projections
    <3>2. CASE r.ready = p.ready
      BY <2>1, <3>1, <3>2
    <3>3. CASE m.t = "turn" /\ r.ready = Append(p.ready, m.id)
      <4>1. m.id \in 1..turn /\ Terminal(m.id) /\ m.id \in Nat
        BY <1>4, <3>3 DEF Says
      <4>2. (k \in DOMAIN p.ready /\ r.ready[k] = p.ready[k]) \/ r.ready[k] = m.id
        BY <2>1, <3>1, <3>3, <4>1
      <4> QED
        BY <3>1, <4>1, <4>2
    <3> QED
      BY <1>9, <3>2, <3>3
  <2>2. proj' = r
    BY <1>0
  <2> QED
    BY <1>1, <1>2, <2>1, <2>2 DEF ReadingOK, Terminal, NoRequest
<1>15. OrderOK(queue, wire)'
  <2>1. PICK w : w = wire
    OBVIOUS
  <2>2. OrderOK(q, w)
    BY <1>0, <2>1
  <2>3. \A u \in Users : Known(u) => Known(u)'
    BY <1>2, <1>10, KnownSame
  <2>4. \A u \in Users : Msg("completed", u) = m => Known(u)'
    BY <1>0, <1>9 DEF Msg, Known
  <2>5. Users' = Users /\ queue' = v /\ wire' = w
    BY <1>0, <1>2, <2>1 DEF Users
  <2>6. \A u \in Users : Known(u)' \/ In(Msg("completed", u), v) \/ In(Msg("completed", u), w)
    BY <1>3, <2>2, <2>3, <2>4 DEF OrderOK
  <2>7. \A k \in DOMAIN v : \A u \in Users :
           v[k].t \in {"started", "completed"} /\ u < v[k].id => Known(u)' \/ Precedes(Msg("completed", u), v, k)
    BY <1>3, <2>2, <2>3, <2>4 DEF OrderOK
  <2>8. \A k \in DOMAIN w : \A u \in Users :
           w[k].t \in {"started", "completed"} /\ u < w[k].id
              => Known(u)' \/ In(Msg("completed", u), v) \/ Precedes(Msg("completed", u), w, k)
    BY <1>3, <2>2, <2>3, <2>4 DEF OrderOK
  <2> QED
    BY <2>5, <2>6, <2>7, <2>8 DEF OrderOK
<1>16. CardsOK(queue, wire)'
  <2>1. PICK w : w = wire
    OBVIOUS
  <2>2. CardsOK(q, w)
    BY <1>0, <2>1
  <2>3. queue' = v /\ wire' = w /\ \A i : Closed(i)' <=> Closed(i)
    BY <1>0, <1>2, <2>1 DEF Closed
  <2>4. ASSUME NEW i \in Ids, Closed(i), r.cards[i] \in {"open", "submitted"}
        PROVE  In(Msg("resolved", i), v) \/ In(Msg("resolved", i), w)
    <3>1. m # Msg("resolved", i)
      BY <1>9, <2>4 DEF Msg
    <3>2. CASE p.cards[i] \in {"open", "submitted"}
      BY <1>0, <1>3, <2>2, <2>4, <3>1, <3>2 DEF CardsOK
    <3>3. CASE m.t = "request" /\ m.id = i
      <4>1. Later(Msg("resolved", i), q, 1) \/ In(Msg("resolved", i), w)
        BY <1>3, <1>4, <2>2, <2>4, <3>3 DEF CardsOK
      <4> QED
        BY <1>3, <4>1
    <3> QED
      BY <1>9, <2>4, <3>2, <3>3
  <2>5. \A k \in DOMAIN v : v[k].t = "request" /\ Closed(v[k].id)
           => Later(Msg("resolved", v[k].id), v, k) \/ In(Msg("resolved", v[k].id), w)
    BY <1>3, <2>2 DEF CardsOK
  <2>6. \A k \in DOMAIN w : w[k].t = "request" /\ Closed(w[k].id) => Later(Msg("resolved", w[k].id), w, k)
    BY <2>2 DEF CardsOK
  <2> QED
    BY <1>0, <2>3, <2>4, <2>5, <2>6 DEF CardsOK
<1> QED
  BY <1>11, <1>12, <1>13, <1>14, <1>15, <1>16

-----------------------------------------------------------------------------
(* The steps of the startup and of the repair                              *)

Readings(r) ==
    r \in [step : {"none", "resume", "meta", "page"}, at : {"none", "sent", "applied", "answered"}, turn : Nat,
           pos : Nat, terminal : SUBSET Nat, got : {r.got}, more : BOOLEAN]

LEMMA RequestTyped ==
  ASSUME NEW step \in {"none", "resume", "meta", "page"}, NEW t \in Nat, NEW r, r = Request(step, t)
  PROVE  /\ Readings(r) /\ r.step = step /\ r.at = "sent" /\ r.turn = t /\ r.pos = 0 /\ r.terminal = {} /\ r.got = <<>>
         /\ r # NoRequest /\ Readings(NoRequest) /\ NoRequest.at = "none" /\ NoRequest.step = "none" /\ NoRequest.turn = 0
         /\ NoRequest.terminal = {} /\ NoRequest.pos = 0
<1>1. r = [step |-> step, at |-> "sent", turn |-> t, pos |-> 0, terminal |-> {}, got |-> <<>>, more |-> FALSE]
  BY DEF Request, NoRequest
<1>2. /\ r.step = step /\ r.at = "sent" /\ r.turn = t /\ r.pos = 0 /\ r.terminal = {} /\ r.got = <<>>
  BY <1>1
<1>3. /\ NoRequest.at = "none" /\ NoRequest.step = "none" /\ NoRequest.turn = 0 /\ NoRequest.terminal = {} /\ NoRequest.pos = 0
      /\ NoRequest.got = <<>>
  BY DEF NoRequest
<1>4. Readings(r)
  BY <1>1, <1>2 DEF Readings
<1>5. Readings(NoRequest)
  BY <1>3 DEF NoRequest, Readings
<1> QED
  BY <1>2, <1>3, <1>4, <1>5

LEMMA HistoryKept ==
  ASSUME CodexInv, HistoryFrame, Readings(reading'), phase' \in {"attach", "drain", "run"}, gate' \in BOOLEAN,
         over' \in BOOLEAN, proj' \in Projections, NEW r, r = proj', ShownOK(r),
         \A i \in Ids : proj.seen[i] # 0 => proj'.seen[i] # 0, proj'.cards = proj.cards,
         \A u \in Users : Known(u) => Known(u)', Subscribed => Subscribed', reading.at # "applied",
         ReadingOK', PageOK'
  PROVE  CodexInv'
<1> USE DEF CodexInv
<1>1. /\ UNCHANGED <<native, wire, decisions, client, inbound, writer, stop, lastStopped, ghosts>>
      /\ UNCHANGED <<thread, turn, status, mode, queue, received, live>>
  BY DEF HistoryFrame, native, client
<1>2. TypeOK'
  BY <1>1 DEF TypeOK, Readings, inbound, ghosts
<1>3. ThreadOK' /\ TextsOK' /\ ShownOK(proj)'
  BY <1>1, ThreadSame, TextsSame, ShownSame DEF inbound, ghosts
<1>4. ChannelOK'
  BY <1>1, ChannelSame
<1>5. PICK q, w, rc, lv : q = queue /\ w = wire /\ rc = received /\ lv = live
  OBVIOUS
<1>6. OrderOK(q, w) /\ CardsOK(q, w) /\ LiveOK(w, rc, lv)
  BY <1>5
<1>7. OrderOK(queue, wire)' /\ CardsOK(queue, wire)' /\ LiveOK(wire, received, live)'
  BY <1>1, <1>5, <1>6, OrderSame, CardsSame, LiveSame
<1> QED
  BY <1>2, <1>3, <1>4, <1>7

LEMMA ResumedKept ==
  ASSUME CodexInv, Resumed
  PROVE  CodexInv'
<1>0. TypeOK /\ ThreadOK /\ ReadingOK /\ PageOK /\ ShownOK(proj)
  BY DEF CodexInv
<1>1. /\ ~over /\ reading.at = "answered" /\ reading.step = "resume" /\ gate' \in BOOLEAN /\ over' \in BOOLEAN
      /\ reading' = FirstPage(0) /\ phase' = phase /\ proj' = proj /\ HistoryFrame
      /\ UNCHANGED <<thread, turn, status, mode>>
  BY DEF Resumed, Reads, HistoryFrame, native
<1>2. phase = "attach"
  BY <1>0, <1>1 DEF ReadingOK, NoRequest, TypeOK
<1>3. PICK r, s : r = reading' /\ s \in {"meta", "page"} /\ r = Request(s, 0) /\ s = (IF mode = "paginated" THEN "meta" ELSE "page")
  BY <1>1 DEF FirstPage
<1>4. Readings(r) /\ r.step = s /\ r.at = "sent" /\ r.turn = 0 /\ r.pos = 0 /\ r.terminal = {} /\ r # NoRequest
  BY <1>3, RequestTyped
<1>5. mode \in {"paginated", "legacy"} /\ Len(thread) \in Nat
  BY <1>0 DEF TypeOK
<1>6. \A u \in Users : Known(u) => Known(u)'
  <2>1. \A u \in Users : mode = "legacy" => Beyond(u)'
    BY <1>0, <1>1, <1>3, <1>4 DEF Beyond, Users, ThreadOK, TypeOK
  <2>2. \A u \in Users : Covered(u)'
    BY <1>1, <1>2, <1>3, <1>4, <1>5, <2>1 DEF Covered
  <2> QED
    BY <2>2 DEF Known
<1>7. ReadingOK'
  <2>1. NoRequest' = NoRequest
    BY DEF NoRequest
  <2> QED
    BY <1>0, <1>1, <1>2, <1>3, <1>4, <1>5, <2>1 DEF ReadingOK, Terminal
<1>8. PageOK'
  <2>1. ~PageHere' /\ ~(mode' = "paginated" /\ r.step = "page")
    BY <1>1, <1>3, <1>4 DEF PageHere
  <2> QED
    BY <1>3, <2>1 DEF PageOK
<1>9. Subscribed'
  BY <1>3, <1>4 DEF Subscribed
<1>10. phase' \in {"attach", "drain", "run"} /\ proj' \in Projections
  BY <1>0, <1>1, <1>2 DEF TypeOK
<1> QED
  BY <1>0, <1>1, <1>3, <1>4, <1>6, <1>7, <1>8, <1>9, <1>10, HistoryKept

LEMMA HaveMetadataKept ==
  ASSUME CodexInv, HaveMetadata
  PROVE  CodexInv'
<1>0. TypeOK /\ ThreadOK /\ ReadingOK /\ PageOK /\ ShownOK(proj)
  BY DEF CodexInv
<1>1. /\ ~over /\ reading.at = "answered" /\ reading.step = "meta"
      /\ reading' = [reading EXCEPT !.step = "page", !.at = "sent"]
      /\ phase' = phase /\ proj' = proj /\ gate' = gate /\ over' = over /\ HistoryFrame
      /\ UNCHANGED <<thread, turn, status, mode>>
  BY DEF HaveMetadata, Reads, HistoryFrame, native
<1>2. phase = "attach" /\ reading.pos = 0 /\ reading.turn = 0
  BY <1>0, <1>1 DEF ReadingOK, NoRequest, TypeOK
<1>3. PICK r, p : r = reading' /\ p = reading
  OBVIOUS
<1>4. Readings(p)
  BY <1>0, <1>3 DEF TypeOK, Readings
<1>5. /\ Readings(r) /\ r.step = "page" /\ r.at = "sent" /\ r.turn = 0 /\ r.pos = 0 /\ r.terminal = p.terminal
      /\ r # NoRequest
  <2>1. r = [p EXCEPT !.step = "page", !.at = "sent"]
    BY <1>1, <1>3
  <2>2. r.step = "page" /\ r.at = "sent" /\ r.turn = p.turn /\ r.pos = p.pos /\ r.terminal = p.terminal /\ r.got = p.got
    BY <1>4, <2>1 DEF Readings
  <2>3. Readings(r)
    BY <1>4, <2>1, <2>2 DEF Readings
  <2> QED
    BY <1>2, <1>3, <2>2, <2>3 DEF NoRequest
<1>6. \A u \in Users : Known(u) => Known(u)'
  <2>1. \A u \in Users : Beyond(u)'
    BY <1>0, <1>1, <1>3, <1>5 DEF Beyond, Users, ThreadOK, TypeOK
  <2>2. \A u \in Users : Covered(u)'
    BY <1>1, <1>2, <1>3, <1>5, <2>1 DEF Covered
  <2> QED
    BY <2>2 DEF Known
<1>7. ReadingOK'
  <2>1. NoRequest' = NoRequest /\ Len(thread) \in Nat
    BY <1>0 DEF NoRequest, TypeOK
  <2> QED
    BY <1>0, <1>1, <1>2, <1>3, <1>5, <2>1 DEF ReadingOK, Terminal
<1>8. PageOK'
  <2>1. ~PageHere'
    BY <1>3, <1>5 DEF PageHere
  <2>2. \A u \in Users' : ~(u <= r.pos)
    BY <1>0, <1>1, <1>5 DEF Users, TypeOK
  <2> QED
    BY <1>3, <2>1, <2>2 DEF PageOK
<1>9. Subscribed'
  BY <1>3, <1>5 DEF Subscribed
<1>10. phase' \in {"attach", "drain", "run"} /\ proj' \in Projections /\ gate' \in BOOLEAN /\ over' \in BOOLEAN
  <2>1. phase \in {"attach", "drain", "run"} /\ proj \in Projections
    BY <1>0 DEF TypeOK
  <2>2. gate \in BOOLEAN /\ over \in BOOLEAN
    BY <1>0 DEF TypeOK
  <2> QED
    BY <1>1, <2>1, <2>2
<1> QED
  BY <1>0, <1>1, <1>3, <1>5, <1>6, <1>7, <1>8, <1>9, <1>10, HistoryKept

LEMMA StartKept ==
  ASSUME CodexInv, Start
  PROVE  CodexInv'
<1>0. TypeOK /\ ThreadOK /\ ReadingOK /\ PageOK /\ ShownOK(proj)
  BY DEF CodexInv
<1>1. /\ ~over /\ phase = "drain" /\ phase' = "run" /\ HistoryFrame
      /\ UNCHANGED <<reading, gate, proj, over>> /\ UNCHANGED <<native, thread, turn, status, mode>>
  BY DEF Start, HistoryFrame, native
<1>2. reading = NoRequest
  BY <1>0, <1>1 DEF ReadingOK
<1>3. reading.at = "none" /\ reading.step = "none"
  BY <1>2 DEF NoRequest
<1>4. Readings(reading)
  BY <1>0 DEF TypeOK, Readings
<1>5. \A u \in Users : Known(u) => Known(u)'
  BY <1>1 DEF Known, Covered
<1>6. ReadingOK'
  <2>1. NoRequest' = NoRequest
    BY DEF NoRequest
  <2> QED
    BY <1>0, <1>1, <1>2, <2>1 DEF ReadingOK, Terminal
<1>7. PageOK'
  <2>1. \A i \in Ids : proj.seen[i] # 0 => proj'.seen[i] # 0
    BY <1>1
  <2> QED
    BY <1>0, <1>1, <2>1, PageSame
<1>8. phase' \in {"attach", "drain", "run"} /\ proj' \in Projections /\ gate' \in BOOLEAN /\ over' \in BOOLEAN
  <2>1. proj \in Projections /\ gate \in BOOLEAN /\ over \in BOOLEAN
    BY <1>0 DEF TypeOK
  <2> QED
    BY <1>1, <2>1
<1>9. Subscribed => Subscribed'
  BY <1>1 DEF Subscribed
<1>10. Readings(reading')
  BY <1>1, <1>4 DEF Readings
<1>11. reading.at # "applied" /\ proj'.cards = proj.cards /\ \A i \in Ids : proj.seen[i] # 0 => proj'.seen[i] # 0
  BY <1>1, <1>3
<1>12. PICK r : r = proj' /\ ShownOK(r)
  BY <1>0, <1>1
<1> QED
  BY <1>1, <1>5, <1>6, <1>7, <1>8, <1>9, <1>10, <1>11, <1>12, HistoryKept

LEMMA RepairKept ==
  ASSUME CodexInv, Repair
  PROVE  CodexInv'
<1>0. TypeOK /\ ThreadOK /\ ReadingOK /\ PageOK /\ ShownOK(proj)
  BY DEF CodexInv
<1>1. /\ ~over /\ phase = "run" /\ reading = NoRequest /\ proj.ready # <<>> /\ reading' = FirstPage(Head(proj.ready))
      /\ proj' = [proj EXCEPT !.ready = Tail(@)] /\ HistoryFrame
      /\ UNCHANGED <<phase, gate, over>> /\ UNCHANGED <<native, thread, turn, status, mode>>
  BY DEF Repair, HistoryFrame, native
<1>2. PICK p, q, t : p = proj /\ q = proj' /\ t = Head(proj.ready)
  OBVIOUS
<1>3. /\ p.ready \in Seq(Nat) /\ p \in Projections /\ ShownOK(p) /\ p.ready # <<>> /\ t = p.ready[1] /\ 1 \in DOMAIN p.ready
  <2>1. p \in Projections /\ ShownOK(p) /\ p.ready # <<>> /\ t = Head(p.ready)
    BY <1>0, <1>1, <1>2 DEF TypeOK
  <2>2. p.ready \in Seq(Nat)
    BY <2>1 DEF Projections
  <2> QED
    BY <2>1, <2>2
<1>4. \A k \in DOMAIN p.ready : p.ready[k] \in 1..turn /\ Terminal(p.ready[k])
  BY <1>0, <1>2 DEF ReadingOK
<1>5. t \in 1..turn /\ Terminal(t) /\ t # 0 /\ t \in Nat
  <2>1. t \in 1..turn /\ Terminal(t) /\ turn \in Nat
    BY <1>0, <1>3, <1>4 DEF TypeOK
  <2> QED
    BY <2>1
<1>6. /\ q \in Projections /\ ShownOK(q) /\ q.seen = p.seen /\ q.cards = p.cards /\ q.ready = Tail(p.ready)
      /\ \A k \in DOMAIN q.ready : q.ready[k] \in 1..turn /\ Terminal(q.ready[k])
  <2>1. Tail(p.ready) \in Seq(Nat)
    BY <1>3
  <2>2. q = [p EXCEPT !.ready = Tail(p.ready)]
    BY <1>1, <1>2
  <2>3. /\ q \in Projections /\ q.seen = p.seen /\ q.cards = p.cards /\ q.ready = Tail(p.ready)
        /\ q.up = p.up /\ q.starts = p.starts /\ q.bad = p.bad
    BY <1>3, <2>1, <2>2 DEF Projections
  <2>4. \A k \in DOMAIN Tail(p.ready) : k + 1 \in DOMAIN p.ready /\ Tail(p.ready)[k] = p.ready[k + 1]
    BY <1>3
  <2>5. ShownOK(q)
    BY <1>3, <2>3, SameLedger
  <2> QED
    BY <1>4, <2>3, <2>4, <2>5
<1>7. PICK r : r = reading' /\ r = Request("page", t)
  BY <1>1, <1>2, <1>5 DEF FirstPage
<1>8. /\ Readings(r) /\ r.step = "page" /\ r.at = "sent" /\ r.turn = t /\ r.pos = 0 /\ r.terminal = {} /\ r # NoRequest
      /\ NoRequest.at = "none" /\ NoRequest.step = "none"
  BY <1>5, <1>7, RequestTyped
<1>9. \A u \in Users : Known(u) => Known(u)'
  BY <1>1, <1>2, <1>6 DEF Known, Covered
<1>10. ReadingOK'
  <2>1. NoRequest' = NoRequest /\ Len(thread) \in Nat
    BY <1>0 DEF NoRequest, TypeOK
  <2> QED
    BY <1>1, <1>2, <1>5, <1>6, <1>7, <1>8, <2>1 DEF ReadingOK, Terminal
<1>11. PageOK'
  <2>1. ~PageHere'
    BY <1>7, <1>8 DEF PageHere
  <2>2. \A u \in Users' : ~(u <= r.pos)
    BY <1>0, <1>1, <1>8 DEF Users, TypeOK
  <2> QED
    BY <1>7, <2>1, <2>2 DEF PageOK
<1>12. Subscribed' /\ reading.at # "applied"
  BY <1>1, <1>7, <1>8 DEF Subscribed
<1>13. phase' \in {"attach", "drain", "run"} /\ gate' \in BOOLEAN /\ over' \in BOOLEAN
  <2>1. gate \in BOOLEAN /\ over \in BOOLEAN
    BY <1>0 DEF TypeOK
  <2> QED
    BY <1>1, <2>1
<1>14. Readings(reading') /\ proj' \in Projections /\ q = proj' /\ proj'.cards = proj.cards
       /\ \A i \in Ids : proj.seen[i] # 0 => proj'.seen[i] # 0
  BY <1>2, <1>6, <1>7, <1>8
<1> QED
  BY <1>1, <1>6, <1>9, <1>10, <1>11, <1>12, <1>13, <1>14, HistoryKept

LEMMA ReadPageKept ==
  ASSUME CodexInv, ReadPage
  PROVE  CodexInv'
<1>0. TypeOK /\ ThreadOK /\ ReadingOK /\ PageOK /\ ShownOK(proj)
  BY DEF CodexInv
<1>1. /\ ~over /\ reading.at = "answered" /\ reading.step = "page" /\ proj' = Reconcile(proj, reading.got)
      /\ over' = proj'.bad /\ gate' = gate /\ HistoryFrame /\ UNCHANGED <<native, thread, turn, status, mode>>
      /\ IF reading.more
         THEN reading' = [reading EXCEPT !.at = "sent"] /\ phase' = phase
         ELSE reading' = NoRequest /\ phase' = IF phase = "attach" THEN "drain" ELSE phase
  BY DEF ReadPage, Reads, HistoryFrame, native
<1>2. PICK p, q, a, b : p = proj /\ q = proj' /\ a = reading /\ b = reading'
  OBVIOUS
<1>3. PageHere
  BY <1>1 DEF PageHere
<1>4. /\ q \in Projections /\ ShownOK(q) /\ Onward(p, q)
      /\ \A k \in DOMAIN a.got : a.got[k].id \in Users /\ Relevant(a.got[k]) => q.seen[a.got[k].id] # 0
  BY <1>0, <1>1, <1>2, <1>3, ReconcileKept
<1>5. Readings(a) /\ a.at = "answered" /\ a.step = "page" /\ phase \in {"attach", "drain", "run"}
  BY <1>0, <1>1, <1>2 DEF TypeOK, Readings
<1>6. /\ Readings(NoRequest) /\ NoRequest.at = "none" /\ NoRequest.step = "none" /\ NoRequest.turn = 0
      /\ NoRequest.terminal = {} /\ NoRequest.pos = 0
  BY RequestTyped
<1>7. CASE a.more
  <2>1. b = [a EXCEPT !.at = "sent"] /\ phase' = phase
    BY <1>1, <1>2, <1>7
  <2>2. /\ Readings(b) /\ b.step = "page" /\ b.at = "sent" /\ b.turn = a.turn /\ b.pos = a.pos /\ b.terminal = a.terminal
    <3>1. b.step = "page" /\ b.at = "sent" /\ b.turn = a.turn /\ b.pos = a.pos /\ b.terminal = a.terminal /\ b.got = a.got
      BY <1>5, <2>1 DEF Readings
    <3>2. Readings(b)
      BY <1>5, <2>1, <3>1 DEF Readings
    <3> QED
      BY <3>1, <3>2
  <2>3. b # NoRequest /\ a # NoRequest
    BY <1>5, <1>6, <2>2
  <2>4. \A u \in Users : Got(u) /\ (a.turn # 0 => thread[u].turn = a.turn) => q.seen[u] # 0
    <3> SUFFICES ASSUME NEW u \in Users, NEW k \in DOMAIN a.got, a.got[k].id = u, a.turn # 0 => thread[u].turn = a.turn
                 PROVE  q.seen[u] # 0
      BY <1>2 DEF Got
    <3>1. a.got[k].turn = thread[u].turn
      BY <1>0, <1>2, <1>3 DEF PageOK
    <3>2. Relevant(a.got[k])
      BY <1>2, <3>1 DEF Relevant
    <3> QED
      BY <1>4, <3>2
  <2>5. \A u \in Users : p.seen[u] # 0 => q.seen[u] # 0
    BY <1>0, <1>4, ThreadTyped DEF Onward, TypeOK
  <2>6. ASSUME NEW u \in Users, Known(u) PROVE Known(u)'
    <3>1. CASE p.seen[u] # 0
      BY <1>2, <2>5, <3>1 DEF Known
    <3>2. CASE Covered(u)
      <4>1. phase = "attach" /\ (Got(u) \/ Beyond(u)) /\ a.turn = 0
        BY <1>0, <1>2, <1>5, <3>2 DEF Covered, ReadingOK
      <4>2. CASE Got(u)
        BY <1>2, <2>4, <4>1, <4>2 DEF Known
      <4>3. CASE Beyond(u)
        <5>1. Beyond(u)'
          BY <1>1, <1>2, <2>2, <4>3 DEF Beyond
        <5> QED
          BY <1>2, <2>1, <2>2, <4>1, <5>1 DEF Known, Covered
      <4> QED
        BY <4>1, <4>2, <4>3
    <3> QED
      BY <1>2, <2>6, <3>1, <3>2 DEF Known
  <2>7. ReadingOK'
    <3>1. NoRequest' = NoRequest /\ Len(thread) \in Nat /\ q.ready = p.ready /\ q.cards = p.cards
      BY <1>0, <1>4 DEF NoRequest, TypeOK, Onward
    <3> QED
      BY <1>0, <1>1, <1>2, <1>5, <2>1, <2>2, <2>3, <3>1 DEF ReadingOK, Terminal
  <2>8. PageOK'
    <3>1. ~PageHere'
      BY <1>2, <2>2 DEF PageHere
    <3>2. ASSUME mode = "paginated", NEW u \in Users, u <= b.pos, b.turn # 0 => thread[u].turn = b.turn
          PROVE  q.seen[u] # 0
      <4>1. p.seen[u] # 0 \/ Got(u)
        BY <1>0, <1>2, <1>5, <2>2, <3>2 DEF PageOK
      <4> QED
        BY <2>2, <2>4, <2>5, <3>2, <4>1
    <3>3. Users' = Users
      BY <1>1 DEF Users
    <3> QED
      BY <1>1, <1>2, <3>1, <3>2, <3>3 DEF PageOK
  <2>9. Subscribed'
    BY <1>2, <2>2 DEF Subscribed
  <2>10. \A u \in Users : Known(u) => Known(u)'
    BY <2>6
  <2>11. Readings(reading') /\ phase' \in {"attach", "drain", "run"} /\ proj' \in Projections /\ q = proj'
         /\ proj'.cards = proj.cards /\ (\A i \in Ids : proj.seen[i] # 0 => proj'.seen[i] # 0) /\ reading.at # "applied"
    BY <1>2, <1>4, <1>5, <2>1, <2>2 DEF Onward
  <2>12. gate' \in BOOLEAN /\ over' \in BOOLEAN
    <3>1. gate \in BOOLEAN /\ q.bad \in BOOLEAN
      BY <1>0, <1>4 DEF TypeOK, Projections
    <3> QED
      BY <1>1, <1>2, <3>1
  <2> QED
    BY <1>1, <1>4, <2>7, <2>8, <2>9, <2>10, <2>11, <2>12, HistoryKept
<1>8. CASE ~a.more
  <2>1. b = NoRequest /\ phase' = IF phase = "attach" THEN "drain" ELSE phase
    BY <1>1, <1>2, <1>8
  <2>2. a.at # "none" /\ a # NoRequest
    BY <1>5, <1>6
  <2>3. phase # "drain"
    BY <1>0, <1>2, <2>2 DEF ReadingOK
  <2>4. ASSUME NEW u \in Users, Known(u) PROVE Known(u)'
    <3>1. CASE p.seen[u] # 0
      <4>1. q.seen[u] # 0
        BY <1>0, <1>4, <3>1, ThreadTyped DEF Onward, TypeOK
      <4> QED
        BY <1>2, <4>1 DEF Known
    <3>2. CASE Covered(u)
      <4>1. phase = "attach" /\ a.turn = 0
        BY <1>0, <1>2, <3>2 DEF Covered, ReadingOK
      <4>2. Got(u)
        BY <1>2, <1>5, <1>8, <3>2 DEF Covered
      <4>3. PICK k \in DOMAIN a.got : a.got[k].id = u
        BY <1>2, <4>2 DEF Got
      <4>4. Relevant(a.got[k])
        BY <1>2, <4>1 DEF Relevant
      <4> QED
        BY <1>2, <1>4, <4>3, <4>4 DEF Known
    <3> QED
      BY <1>2, <2>4, <3>1, <3>2 DEF Known
  <2>5. ReadingOK'
    <3>1. NoRequest' = NoRequest /\ Len(thread) \in Nat /\ q.ready = p.ready /\ q.cards = p.cards
      BY <1>0, <1>4 DEF NoRequest, TypeOK, Onward
    <3> QED
      BY <1>0, <1>1, <1>2, <1>5, <1>6, <2>1, <2>3, <3>1 DEF ReadingOK, Terminal
  <2>6. PageOK'
    <3>1. ~PageHere' /\ reading'.step # "page"
      BY <1>2, <1>6, <2>1 DEF PageHere
    <3> QED
      BY <3>1 DEF PageOK
  <2>7. Subscribed'
    BY <1>2, <1>6, <2>1 DEF Subscribed
  <2>8. \A u \in Users : Known(u) => Known(u)'
    BY <2>4
  <2>9. Readings(reading') /\ phase' \in {"attach", "drain", "run"} /\ proj' \in Projections /\ q = proj'
        /\ proj'.cards = proj.cards /\ (\A i \in Ids : proj.seen[i] # 0 => proj'.seen[i] # 0) /\ reading.at # "applied"
    BY <1>2, <1>4, <1>5, <1>6, <2>1 DEF Onward
  <2>10. gate' \in BOOLEAN /\ over' \in BOOLEAN
    <3>1. gate \in BOOLEAN /\ q.bad \in BOOLEAN
      BY <1>0, <1>4 DEF TypeOK, Projections
    <3> QED
      BY <1>1, <1>2, <3>1
  <2> QED
    BY <1>1, <1>4, <2>5, <2>6, <2>7, <2>8, <2>9, <2>10, HistoryKept
<1> QED
  BY <1>7, <1>8

-----------------------------------------------------------------------------
(* The viewers' commands                                                   *)

LEMMA WriterKept ==
  ASSUME CodexInv, UNCHANGED <<native, wire, decisions, client, reading, phase, proj>>,
         inbox' \in Seq(Prompts \union Interrupts \union Ids), turns' \in Seq(Prompts), posted' \subseteq Prompts,
         writer' # NULL => writer' \in [of : Prompts, at : {"sent", "applied", "answered"}],
         gate' \in BOOLEAN, over' \in BOOLEAN, TextsOK',
         writer # NULL /\ writer.at = "applied" => writer' # NULL /\ writer'.at = "applied"
  PROVE  CodexInv'
<1> USE DEF CodexInv
<1>1. UNCHANGED <<thread, turn, status, mode, queue, received, live>>
  BY DEF native, client
<1>2. TypeOK'
  BY <1>1 DEF TypeOK
<1>3. ThreadOK' /\ ShownOK(proj)' /\ ReadingOK' /\ PageOK'
  BY <1>1, ThreadSame, ShownSame, ReadingSame, PageSame
<1>4. ChannelOK'
  BY <1>1, ChannelSame DEF Subscribed
<1>5. PICK q, w, rc, lv : q = queue /\ w = wire /\ rc = received /\ lv = live
  OBVIOUS
<1>6. OrderOK(q, w) /\ CardsOK(q, w) /\ LiveOK(w, rc, lv)
  BY <1>5
<1>7. \A u \in Users : Known(u) => Known(u)'
  BY <1>1, KnownSame
<1>8. OrderOK(queue, wire)' /\ CardsOK(queue, wire)' /\ LiveOK(wire, received, live)'
  BY <1>1, <1>5, <1>6, <1>7, OrderSame, CardsSame, LiveSame
<1> QED
  BY <1>2, <1>3, <1>4, <1>8

\* What waits in the inbox, when its head leaves it.
LEMMA InboxTail ==
  ASSUME TypeOK, TextsOK, inbox # <<>>, inbox' = Tail(inbox), NEW x, x = Head(inbox)
  PROVE  /\ inbox' \in Seq(Prompts \union Interrupts \union Ids)
         /\ \A k \in DOMAIN inbox' : inbox'[k] \in Prompts =>
              /\ inbox'[k] \notin posted /\ (\A l \in DOMAIN turns : turns[l] # inbox'[k])
              /\ \A l \in DOMAIN inbox' : inbox'[l] = inbox'[k] => l = k
         /\ x \in Prompts => /\ x \notin posted /\ (\A l \in DOMAIN turns : turns[l] # x)
                             /\ \A k \in DOMAIN inbox' : inbox'[k] # x
<1>1. PICK s, t : s = inbox /\ t = inbox'
  OBVIOUS
<1>2. /\ s \in Seq(Prompts \union Interrupts \union Ids) /\ s # <<>> /\ t = Tail(s) /\ x = Head(s)
      /\ \A k \in DOMAIN s : s[k] \in Prompts =>
          /\ s[k] \notin posted /\ \A l \in DOMAIN turns : turns[l] # s[k]
          /\ \A l \in DOMAIN s : s[l] = s[k] => l = k
  BY <1>1 DEF TypeOK, TextsOK
<1>3. /\ t \in Seq(Prompts \union Interrupts \union Ids) /\ x = s[1] /\ 1 \in DOMAIN s /\ DOMAIN t = 1..Len(t) /\ Len(t) \in Nat
      /\ \A k \in DOMAIN t : k + 1 \in DOMAIN s /\ t[k] = s[k + 1]
  BY <1>2
<1>4. \A k, l \in DOMAIN t : k + 1 = l + 1 => k = l
  BY <1>3
<1>5. \A k \in DOMAIN t : k + 1 # 1
  BY <1>3
<1>6. ASSUME NEW k \in DOMAIN t, t[k] \in Prompts
      PROVE  /\ t[k] \notin posted /\ (\A l \in DOMAIN turns : turns[l] # t[k])
             /\ \A l \in DOMAIN t : t[l] = t[k] => l = k
  BY <1>2, <1>3, <1>4, <1>6
<1>7. ASSUME x \in Prompts
      PROVE  /\ x \notin posted /\ (\A l \in DOMAIN turns : turns[l] # x)
             /\ \A k \in DOMAIN t : t[k] # x
  BY <1>2, <1>3, <1>5, <1>7
<1> QED
  BY <1>1, <1>3, <1>6, <1>7

LEMMA InboxAppend ==
  ASSUME TypeOK, TextsOK, NEW x \in Prompts \union Interrupts \union Ids, inbox' = Append(inbox, x),
         x \in Prompts => x \notin Asked, UNCHANGED <<turns, posted, writer>>, thread' = thread
  PROVE  inbox' \in Seq(Prompts \union Interrupts \union Ids) /\ TextsOK'
<1>1. PICK s, t : s = inbox /\ t = inbox'
  OBVIOUS
<1>2. s \in Seq(Prompts \union Interrupts \union Ids) /\ t = Append(s, x)
  BY <1>1 DEF TypeOK
<1>3. /\ t \in Seq(Prompts \union Interrupts \union Ids) /\ Len(s) \in Nat /\ DOMAIN s = 1..Len(s)
      /\ DOMAIN t = 1..(Len(s) + 1) /\ t[Len(s) + 1] = x /\ \A k \in 1..Len(s) : t[k] = s[k]
  BY <1>2
<1>4. \A k \in DOMAIN t : k \in DOMAIN s \/ k = Len(s) + 1
  BY <1>3
<1>5. x \in Prompts => /\ x \notin posted /\ (\A l \in DOMAIN turns : turns[l] # x)
                       /\ \A k \in DOMAIN s : s[k] # x
  BY <1>1 DEF Asked, ToSet
<1>6. \A k \in DOMAIN s : s[k] \in Prompts =>
          /\ s[k] \notin posted /\ (\A l \in DOMAIN turns : turns[l] # s[k])
          /\ \A l \in DOMAIN s : s[l] = s[k] => l = k
  BY <1>1 DEF TextsOK
<1>7. ASSUME NEW k \in DOMAIN t, t[k] \in Prompts
      PROVE  /\ t[k] \notin posted /\ (\A l \in DOMAIN turns : turns[l] # t[k])
             /\ \A l \in DOMAIN t : t[l] = t[k] => l = k
  <2>1. CASE k \in DOMAIN s
    BY <1>3, <1>4, <1>5, <1>6, <1>7, <2>1
  <2>2. CASE k = Len(s) + 1
    BY <1>3, <1>4, <1>5, <1>7, <2>2
  <2> QED
    BY <1>4, <2>1, <2>2
<1>8. Users' = Users
  BY DEF Users
<1>9. /\ \A u \in Users : thread[u].of \in Prompts => thread[u].of \in posted
      /\ writer # NULL => writer.of \in posted /\ (writer.at = "sent" => \A u \in Users : thread[u].of # writer.of)
      /\ \A k \in DOMAIN turns : turns[k] \notin posted /\ \A l \in DOMAIN turns : turns[l] = turns[k] => l = k
  BY DEF TextsOK
<1> QED
  BY <1>1, <1>3, <1>7, <1>8, <1>9 DEF TextsOK

LEMMA SendKept ==
  ASSUME CodexInv, NEW c \in Prompts \union Interrupts, Send(c)
  PROVE  CodexInv'
<1>1. TypeOK /\ TextsOK
  BY DEF CodexInv
<1>2. /\ inbox' = Append(inbox, c) /\ c \notin Asked /\ UNCHANGED <<native, wire, decisions, client, reading, phase, proj>>
      /\ UNCHANGED <<turns, posted, writer, gate, over>> /\ thread' = thread
  BY DEF Send, native, ghosts
<1>3. inbox' \in Seq(Prompts \union Interrupts \union Ids) /\ TextsOK'
  BY <1>1, <1>2, InboxAppend
<1> QED
  BY <1>1, <1>2, <1>3, WriterKept DEF TypeOK

LEMMA DecideKept ==
  ASSUME CodexInv, Decide
  PROVE  CodexInv'
<1>1. TypeOK /\ TextsOK /\ ThreadOK
  BY DEF CodexInv
<1>2. PICK i \in DOMAIN thread : inbox' = Append(inbox, i)
  BY DEF Decide
<1>3. /\ UNCHANGED <<native, wire, decisions, client, reading, phase, proj>>
      /\ UNCHANGED <<turns, posted, writer, gate, over>> /\ thread' = thread
  BY DEF Decide, native
<1>4. i \in Ids /\ i \in Nat
  BY <1>1, ThreadTyped DEF TypeOK
<1>5. inbox' \in Seq(Prompts \union Interrupts \union Ids) /\ TextsOK'
  BY <1>1, <1>2, <1>3, <1>4, NamesAssumption, InboxAppend
<1> QED
  BY <1>1, <1>3, <1>5, WriterKept DEF TypeOK

LEMMA QueueTextKept ==
  ASSUME CodexInv, QueueText
  PROVE  CodexInv'
<1>1. TypeOK /\ TextsOK
  BY DEF CodexInv
<1>2. /\ inbox # <<>> /\ Head(inbox) \in Prompts /\ inbox' = Tail(inbox) /\ turns' = Append(turns, Head(inbox))
      /\ UNCHANGED <<native, wire, decisions, client, reading, phase, proj>>
      /\ UNCHANGED <<posted, writer, gate, over>> /\ thread' = thread
  BY DEF QueueText, Next1, WriterFrame, native
<1>3. PICK x : x = Head(inbox)
  OBVIOUS
<1>4. /\ inbox' \in Seq(Prompts \union Interrupts \union Ids)
      /\ \A k \in DOMAIN inbox' : inbox'[k] \in Prompts =>
           /\ inbox'[k] \notin posted /\ (\A l \in DOMAIN turns : turns[l] # inbox'[k])
           /\ \A l \in DOMAIN inbox' : inbox'[l] = inbox'[k] => l = k
      /\ x \notin posted /\ (\A l \in DOMAIN turns : turns[l] # x) /\ \A k \in DOMAIN inbox' : inbox'[k] # x
  BY <1>1, <1>2, <1>3, InboxTail
<1>5. PICK s, t : s = turns /\ t = turns'
  OBVIOUS
<1>6. s \in Seq(Prompts) /\ x \in Prompts /\ t = Append(s, x)
  BY <1>1, <1>2, <1>3, <1>5 DEF TypeOK
<1>7. /\ t \in Seq(Prompts) /\ Len(s) \in Nat /\ DOMAIN s = 1..Len(s)
      /\ DOMAIN t = 1..(Len(s) + 1) /\ t[Len(s) + 1] = x /\ \A k \in 1..Len(s) : t[k] = s[k]
  BY <1>6
<1>8. \A k \in DOMAIN t : k \in DOMAIN s \/ k = Len(s) + 1
  BY <1>7
<1>9. /\ \A u \in Users : thread[u].of \in Prompts => thread[u].of \in posted
      /\ writer # NULL => writer.of \in posted /\ (writer.at = "sent" => \A u \in Users : thread[u].of # writer.of)
      /\ \A k \in DOMAIN s : s[k] \notin posted /\ \A l \in DOMAIN s : s[l] = s[k] => l = k
  BY <1>1, <1>5 DEF TextsOK
<1>10. \A k \in DOMAIN t : t[k] \notin posted /\ \A l \in DOMAIN t : t[l] = t[k] => l = k
  BY <1>4, <1>5, <1>7, <1>8, <1>9
<1>11. \A k \in DOMAIN inbox' : inbox'[k] \in Prompts => \A l \in DOMAIN t : t[l] # inbox'[k]
  BY <1>4, <1>5, <1>7, <1>8
<1>12. TextsOK'
  <2>1. Users' = Users
    BY <1>2 DEF Users
  <2> QED
    BY <1>2, <1>4, <1>5, <1>9, <1>10, <1>11, <2>1 DEF TextsOK
<1> QED
  BY <1>1, <1>2, <1>4, <1>5, <1>7, <1>12, WriterKept DEF TypeOK

LEMMA StartTextKept ==
  ASSUME CodexInv, StartText
  PROVE  CodexInv'
<1>1. TypeOK /\ TextsOK
  BY DEF CodexInv
<1>2. /\ writer = NULL /\ turns # <<>> /\ gate' = FALSE /\ writer' = [of |-> Head(turns), at |-> "sent"] /\ turns' = Tail(turns)
      /\ posted' = posted \union {Head(turns)}
      /\ UNCHANGED <<native, wire, decisions, client, reading, phase, proj>>
      /\ UNCHANGED <<inbox, over>> /\ thread' = thread
  BY DEF StartText, TextFrame, WriterFrame, native
<1>3. PICK x, s, t : x = Head(turns) /\ s = turns /\ t = turns'
  OBVIOUS
<1>4. s \in Seq(Prompts) /\ s # <<>> /\ t = Tail(s) /\ x = Head(s)
  BY <1>1, <1>2, <1>3 DEF TypeOK
<1>5. /\ t \in Seq(Prompts) /\ x \in Prompts /\ x = s[1] /\ 1 \in DOMAIN s /\ DOMAIN t = 1..Len(t) /\ Len(t) \in Nat
      /\ \A k \in DOMAIN t : k + 1 \in DOMAIN s /\ t[k] = s[k + 1]
  BY <1>4
<1>6. (\A k, l \in DOMAIN t : k + 1 = l + 1 => k = l) /\ \A k \in DOMAIN t : k + 1 # 1
  BY <1>5
<1>7. /\ \A u \in Users : thread[u].of \in Prompts => thread[u].of \in posted
      /\ \A k \in DOMAIN s : s[k] \notin posted /\ \A l \in DOMAIN s : s[l] = s[k] => l = k
      /\ \A k \in DOMAIN inbox : inbox[k] \in Prompts =>
          /\ inbox[k] \notin posted /\ \A l \in DOMAIN s : s[l] # inbox[k]
          /\ \A l \in DOMAIN inbox : inbox[l] = inbox[k] => l = k
  BY <1>1, <1>3 DEF TextsOK
<1>8. x \notin posted /\ \A u \in Users : thread[u].of # x
  BY <1>5, <1>7
<1>9. \A k \in DOMAIN t : t[k] \notin posted \union {x} /\ \A l \in DOMAIN t : t[l] = t[k] => l = k
  BY <1>5, <1>6, <1>7
<1>10. \A k \in DOMAIN inbox : inbox[k] \in Prompts =>
          /\ inbox[k] \notin posted \union {x} /\ \A l \in DOMAIN t : t[l] # inbox[k]
          /\ \A l \in DOMAIN inbox : inbox[l] = inbox[k] => l = k
  BY <1>5, <1>7
<1>11. writer'.of = x /\ writer'.at = "sent" /\ writer' \in [of : Prompts, at : {"sent", "applied", "answered"}]
  BY <1>2, <1>3, <1>5
<1>12. TextsOK'
  <2>1. Users' = Users /\ posted' = posted \union {x} /\ turns' = t
    BY <1>2, <1>3 DEF Users
  <2> QED
    BY <1>2, <1>7, <1>8, <1>9, <1>10, <1>11, <2>1 DEF TextsOK
<1>13. posted' \subseteq Prompts /\ turns' \in Seq(Prompts)
  BY <1>1, <1>2, <1>3, <1>5 DEF TypeOK
<1>14. gate' \in BOOLEAN
  BY <1>2
<1> QED
  BY <1>1, <1>2, <1>11, <1>12, <1>13, <1>14, WriterKept DEF TypeOK

\* An inbox that loses its head, and nothing else of the texts changes.
LEMMA InboxRead ==
  ASSUME TypeOK, TextsOK, inbox # <<>>, inbox' = Tail(inbox), UNCHANGED <<turns, posted, writer>>, thread' = thread
  PROVE  inbox' \in Seq(Prompts \union Interrupts \union Ids) /\ TextsOK'
<1>1. Users' = Users
  BY DEF Users
<1>2. PICK x : x = Head(inbox)
  OBVIOUS
<1>3. /\ inbox' \in Seq(Prompts \union Interrupts \union Ids)
      /\ \A k \in DOMAIN inbox' : inbox'[k] \in Prompts =>
           /\ inbox'[k] \notin posted /\ (\A l \in DOMAIN turns : turns[l] # inbox'[k])
           /\ \A l \in DOMAIN inbox' : inbox'[l] = inbox'[k] => l = k
  BY <1>2, InboxTail
<1> QED
  BY <1>1, <1>3 DEF TextsOK

LEMMA StopStepsKept ==
  ASSUME CodexInv, AskTurn \/ PostStop \/ AckStop
  PROVE  CodexInv'
<1>1. TypeOK /\ TextsOK
  BY DEF CodexInv
<1>2. /\ UNCHANGED <<native, wire, decisions, client, reading, phase, proj>>
      /\ UNCHANGED <<turns, posted, writer, gate, over>> /\ thread' = thread
  BY DEF AskTurn, PostStop, AckStop, StopFrame, WriterFrame, native
<1>3. inbox' = inbox \/ (inbox # <<>> /\ inbox' = Tail(inbox))
  BY DEF AskTurn, PostStop, AckStop, Next1
<1>4. inbox' \in Seq(Prompts \union Interrupts \union Ids) /\ TextsOK'
  BY <1>1, <1>2, <1>3, InboxRead, TextsSame DEF TypeOK
<1>5. turns' \in Seq(Prompts) /\ posted' \subseteq Prompts /\ gate' \in BOOLEAN /\ over' \in BOOLEAN
  <2>1. gate \in BOOLEAN /\ over \in BOOLEAN
    BY <1>1 DEF TypeOK
  <2>2. turns \in Seq(Prompts) /\ posted \subseteq Prompts
    BY <1>1 DEF TypeOK
  <2> QED
    BY <1>2, <2>1, <2>2
<1>6. writer' # NULL => writer' \in [of : Prompts, at : {"sent", "applied", "answered"}]
  BY <1>1, <1>2 DEF TypeOK
<1> QED
  BY <1>2, <1>4, <1>5, <1>6, WriterKept

LEMMA AckTextKept ==
  ASSUME CodexInv, AckText
  PROVE  CodexInv'
<1>1. TypeOK /\ TextsOK
  BY DEF CodexInv
<1>2. /\ UNCHANGED <<native, wire, decisions, client, reading, phase, proj>>
      /\ UNCHANGED <<inbox, turns, posted, gate, over>> /\ thread' = thread /\ writer' = NULL /\ writer.at = "answered"
  BY DEF AckText, TextFrame, WriterFrame, native
<1>3. TextsOK'
  BY <1>1, <1>2 DEF TextsOK, Users
<1>4. gate' \in BOOLEAN /\ over' \in BOOLEAN
  <2>1. gate \in BOOLEAN /\ over \in BOOLEAN
    BY <1>1 DEF TypeOK
  <2> QED
    BY <1>2, <2>1
<1>5. inbox' \in Seq(Prompts \union Interrupts \union Ids) /\ turns' \in Seq(Prompts) /\ posted' \subseteq Prompts
  BY <1>1, <1>2 DEF TypeOK
<1> QED
  BY <1>2, <1>3, <1>4, <1>5, WriterKept

LEMMA FailsKept ==
  ASSUME CodexInv, Fails
  PROVE  CodexInv'
<1>1. TypeOK /\ TextsOK
  BY DEF CodexInv
<1>2. /\ UNCHANGED <<native, wire, decisions, client, reading, phase, proj>>
      /\ UNCHANGED <<inbox, turns, posted, writer, gate>> /\ thread' = thread /\ over' = TRUE
  BY DEF Fails, native, inbound, ghosts
<1>3. TextsOK'
  BY <1>1, <1>2, TextsSame
<1>4. gate' \in BOOLEAN /\ over' \in BOOLEAN
  <2>1. gate \in BOOLEAN
    BY <1>1 DEF TypeOK
  <2> QED
    BY <1>2, <2>1
<1>5. inbox' \in Seq(Prompts \union Interrupts \union Ids) /\ turns' \in Seq(Prompts) /\ posted' \subseteq Prompts
      /\ (writer' # NULL => writer' \in [of : Prompts, at : {"sent", "applied", "answered"}])
  BY <1>1, <1>2 DEF TypeOK
<1> QED
  BY <1>2, <1>3, <1>4, <1>5, WriterKept

LEMMA StutterKept ==
  ASSUME CodexInv, UNCHANGED codexVars
  PROVE  CodexInv'
<1>1. TypeOK /\ TextsOK
  BY DEF CodexInv
<1>2. /\ UNCHANGED <<native, wire, decisions, client, reading, phase, proj>>
      /\ UNCHANGED <<inbox, turns, posted, writer, gate, over>> /\ thread' = thread
  BY DEF codexVars, native, inbound, ghosts
<1>3. TextsOK'
  BY <1>1, <1>2, TextsSame
<1>4. gate' \in BOOLEAN /\ over' \in BOOLEAN
  <2>1. gate \in BOOLEAN /\ over \in BOOLEAN
    BY <1>1 DEF TypeOK
  <2> QED
    BY <1>2, <2>1
<1>5. inbox' \in Seq(Prompts \union Interrupts \union Ids) /\ turns' \in Seq(Prompts) /\ posted' \subseteq Prompts
      /\ (writer' # NULL => writer' \in [of : Prompts, at : {"sent", "applied", "answered"}])
  BY <1>1, <1>2 DEF TypeOK
<1> QED
  BY <1>2, <1>3, <1>4, <1>5, WriterKept

\* A decision takes the request out of the live ones and its card out of the open ones.
LEMMA RespondKept ==
  ASSUME CodexInv, Respond
  PROVE  CodexInv'
<1> USE DEF CodexInv
<1>0. PICK i : i = Head(inbox)
  OBVIOUS
<1>1. /\ i \in Ids /\ inbox # <<>> /\ inbox' = Tail(inbox)
      /\ decisions' = (IF Answerable(i) THEN [decisions EXCEPT ![i] = "sent"] ELSE decisions)
      /\ live' = (IF Answerable(i) THEN live \ {i} ELSE live)
      /\ proj' = (IF proj.cards[i] = "open" THEN [proj EXCEPT !.cards[i] = "submitted"] ELSE proj)
      /\ UNCHANGED <<native, wire, queue, received, reading, phase, gate, turns, acked, writer, stop, lastStopped, over, ghosts>>
      /\ UNCHANGED <<thread, turn, status, mode, posted>>
  BY <1>0 DEF Respond, Next1, native, ghosts
<1>2. PICK p, r : p = proj /\ r = proj'
  OBVIOUS
<1>3. p \in Projections /\ ShownOK(p)
  BY <1>2 DEF TypeOK
<1>4. /\ r \in Projections /\ ShownOK(r) /\ r.seen = p.seen /\ r.ready = p.ready
      /\ \A j \in Ids : r.cards[j] \in {"open", "submitted"} => p.cards[j] \in {"open", "submitted"}
      /\ phase = "attach" => r.cards = p.cards
  <2>1. CASE p.cards[i] = "open"
    <3>1. r = [p EXCEPT !.cards[i] = "submitted"]
      BY <1>1, <1>2, <2>1
    <3>2. /\ r \in Projections /\ ShownOK(r) /\ r.seen = p.seen /\ r.ready = p.ready
          /\ r.cards[i] = "submitted" /\ \A j \in Ids : j # i => r.cards[j] = p.cards[j]
      BY <1>1, <1>3, <3>1, CardTyped
    <3>3. phase # "attach"
      BY <1>1, <1>2, <2>1 DEF ReadingOK
    <3> QED
      BY <2>1, <3>2, <3>3
  <2>2. CASE p.cards[i] # "open"
    <3>1. r = p
      BY <1>1, <1>2, <2>2
    <3> QED
      BY <1>3, <3>1
  <2> QED
    BY <2>1, <2>2
<1>5. \A j \in Ids : proj.seen[j] # 0 => proj'.seen[j] # 0
  BY <1>2, <1>4
<1>6. inbox' \in Seq(Prompts \union Interrupts \union Ids) /\ TextsOK'
  BY <1>1, InboxRead
<1>7. decisions' \in [Ids -> {"none", "sent", "applied"}] /\ live' \subseteq live
      /\ \A j \in Ids : j # i \/ ~Answerable(i) => decisions'[j] = decisions[j]
  BY <1>1 DEF TypeOK
<1>8. TypeOK'
  <2>1. live' \subseteq Ids /\ proj' \in Projections
    BY <1>2, <1>4, <1>7 DEF TypeOK
  <2> QED
    BY <1>1, <1>6, <1>7, <2>1 DEF TypeOK
<1>9. ThreadOK' /\ PageOK' /\ ShownOK(proj)' /\ ReadingOK'
  <2>1. ShownOK(proj)'
    BY <1>1, <1>2, <1>4, ShownSame
  <2>2. ReadingOK'
    BY <1>1, <1>2, <1>4, ReadingSame
  <2> QED
    BY <1>1, <1>5, <2>1, <2>2, ThreadSame, PageSame
<1>10. ChannelOK'
  <2>1. PICK q, w : q = queue /\ w = wire
    OBVIOUS
  <2>2. q = queue' /\ w = wire' /\ reading' = reading /\ writer' = writer
    BY <1>1, <2>1
  <2>3. \A m : Says(m) => Says(m)'
    BY <1>1 DEF Says, Terminal
  <2>4. \A k \in DOMAIN q : Says(q[k])' /\ q[k].t # "answer"
    <3> SUFFICES ASSUME NEW k \in DOMAIN q, NEW m, m = q[k] PROVE Says(m)' /\ m.t # "answer"
      OBVIOUS
    <3> QED
      BY <2>1, <2>3 DEF ChannelOK
  <2>5. \A k \in DOMAIN w : Says(w[k])'
    <3> SUFFICES ASSUME NEW k \in DOMAIN w, NEW m, m = w[k] PROVE Says(m)'
      OBVIOUS
    <3> QED
      BY <2>1, <2>3 DEF ChannelOK
  <2>6. /\ \A k \in DOMAIN w : w[k].t = "answer" /\ w[k].id = "reading" => reading.at = "applied"
        /\ \A k \in DOMAIN w : w[k].t = "answer" /\ w[k].id = "writer" => writer # NULL /\ writer.at = "applied"
        /\ \A k, j \in DOMAIN w :
              w[k].t = "answer" /\ w[j].t = "answer" /\ w[j].id = w[k].id /\ w[k].id # "stop" => k = j
        /\ ~Subscribed => w = <<>> /\ q = <<>> /\ live = {}
    BY <2>1 DEF ChannelOK
  <2>7. ~Subscribed' => w = <<>> /\ q = <<>> /\ live' = {}
    BY <1>7, <2>2, <2>6 DEF Subscribed
  <2> QED
    BY <2>2, <2>4, <2>5, <2>6, <2>7 DEF ChannelOK
<1>11. PICK q, w, rc, lv : q = queue /\ w = wire /\ rc = received /\ lv = live
  OBVIOUS
<1>12. OrderOK(q, w) /\ CardsOK(q, w) /\ LiveOK(w, rc, lv) /\ q = queue' /\ w = wire' /\ rc = received'
  BY <1>1, <1>11
<1>13. OrderOK(queue, wire)' /\ CardsOK(queue, wire)'
  <2>1. \A u \in Users : Known(u) => Known(u)'
    BY <1>1, <1>5, KnownSame
  <2>2. \A j \in Ids : proj'.cards[j] \in {"open", "submitted"} => proj.cards[j] \in {"open", "submitted"}
    BY <1>2, <1>4
  <2> QED
    BY <1>1, <1>12, <2>1, <2>2, OrderSame, CardsSame
<1>14. LiveOK(wire, received, live)'
  <2>1. /\ lv \subseteq rc
        /\ \A j \in lv : j \in DOMAIN thread /\ (thread[j].ask = "open" \/ In(Msg("resolved", j), w))
        /\ \A j \in Ids : j \in lv \/ j \notin rc => decisions[j] = "none"
    BY <1>12 DEF LiveOK
  <2>2. \A j \in Ids : j \in live' \/ j \notin rc => decisions'[j] = "none"
    BY <1>1, <1>7, <1>11, <2>1 DEF Answerable
  <2> QED
    BY <1>1, <1>7, <1>11, <1>12, <2>1, <2>2 DEF LiveOK
<1> QED
  BY <1>6, <1>8, <1>9, <1>10, <1>13, <1>14

-----------------------------------------------------------------------------
(* The steps of the app-server                                             *)

LEMMA ThreadFitsNext == thread' \in Seq(Items) /\ ThreadOK' => DOMAIN thread' \subseteq Ids
<1>1. thread \in Seq(Items) /\ ThreadOK => DOMAIN thread \subseteq Ids
  BY ThreadFits
<1>2. (thread \in Seq(Items) /\ ThreadOK => DOMAIN thread \subseteq Ids)'
  BY <1>1, PTL
<1> QED
  BY <1>2 DEF Ids

LEMMA NativeKept ==
  ASSUME CodexInv, Grown, ThreadOK', TextsOK', NEW msgs, Notified(msgs), AnswersOnce(msgs),
         UNCHANGED <<client, reading, phase, gate, proj, inbound, over, posted>>,
         status' \in {"idle", "active", "systemError"}, decisions' \in [Ids -> {"none", "sent", "applied"}],
         writer' # NULL => writer' \in [of : Prompts, at : {"sent", "applied", "answered"}],
         \A i \in Ids : decisions[i] = "none" => decisions'[i] = "none"
  PROVE  CodexInv'
<1> USE DEF CodexInv
<1>1. UNCHANGED <<queue, received, live, inbox, turns>>
  BY DEF client, inbound
<1>2. DOMAIN thread' \subseteq Ids
  BY ThreadFitsNext DEF Grown
<1>3. wire' \in Seq(WireMessages)
  <2>1. CASE Subscribed
    BY <2>1, WireGrown
  <2>2. CASE ~Subscribed
    BY <2>2 DEF Notified, TypeOK
  <2> QED
    BY <2>1, <2>2
<1>4. TypeOK'
  BY <1>1, <1>3 DEF TypeOK, Grown
<1>5. ShownOK(proj)' /\ PageOK' /\ ReadingOK'
  BY <1>2, ShownGrown, PageGrown, ReadingGrown
<1>6. \A u \in Users : Known(u) => Known(u)'
  BY KnownGrown
<1>7. OrderOK(queue, wire)'
  BY <1>1, <1>6, OrderSent
<1>8. CardsOK(queue, wire)' /\ LiveOK(wire, received, live)' /\ ChannelOK'
  BY <1>1, CardsSent, LiveSent, ChannelSent
<1> QED
  BY <1>4, <1>5, <1>7, <1>8

\* Two pieces of one dispatch.
LEMMA Pieces ==
  ASSUME NEW S, NEW s \in Seq(S), NEW t \in Seq(S)
  PROVE  /\ s \o t \in Seq(S)
         /\ \A k \in DOMAIN (s \o t) : (\E j \in DOMAIN s : k = j /\ (s \o t)[k] = s[j])
                                       \/ \E j \in DOMAIN t : k = Len(s) + j /\ (s \o t)[k] = t[j]
         /\ \A m : In(m, s \o t) <=> In(m, s) \/ In(m, t)
<1>1. PICK c : c = s \o t
  OBVIOUS
<1>2. /\ c \in Seq(S) /\ Len(s) \in Nat /\ DOMAIN s = 1..Len(s) /\ DOMAIN t = 1..Len(t) /\ DOMAIN c = 1..(Len(s) + Len(t))
      /\ Len(t) \in Nat
      /\ \A k \in 1..Len(s) : c[k] = s[k]
      /\ \A k \in (Len(s) + 1)..(Len(s) + Len(t)) : k - Len(s) \in 1..Len(t) /\ c[k] = t[k - Len(s)]
  BY <1>1, ConcatIs
<1>3. ASSUME NEW k \in DOMAIN c
      PROVE  (\E j \in DOMAIN s : k = j /\ c[k] = s[j]) \/ \E j \in DOMAIN t : k = Len(s) + j /\ c[k] = t[j]
  <2>1. k \in 1..Len(s) \/ (k \in (Len(s) + 1)..(Len(s) + Len(t)) /\ k = Len(s) + (k - Len(s)))
    BY <1>2
  <2> QED
    BY <1>2, <2>1
<1>4. \A m : In(m, c) <=> In(m, s) \/ In(m, t)
  BY <1>1, InConcat
<1> QED
  BY <1>1, <1>2, <1>3, <1>4

\* What a dispatch holds, and that it holds one answer at most.
Sends(msgs, M) == msgs \in Seq(WireMessages) /\ \A m : In(m, msgs) <=> m \in M
OneAnswer(msgs) == \A k, l \in DOMAIN msgs : msgs[k].t = "answer" /\ msgs[l].t = "answer" => k = l
NoAnswer(msgs) == \A k \in DOMAIN msgs : msgs[k].t # "answer"

LEMMA MsgTyped ==
  /\ \A t \in Notices, i \in Nat : Msg(t, i) \in WireMessages /\ Msg(t, i).t = t /\ Msg(t, i).id = i
  /\ \A i \in {"reading", "writer", "stop"} :
        Msg("answer", i) \in WireMessages /\ Msg("answer", i).t = "answer" /\ Msg("answer", i).id = i
BY DEF Msg, WireMessages

LEMMA SendsNone == Sends(<<>>, {}) /\ NoAnswer(<<>>) /\ OneAnswer(<<>>)
BY DEF Sends, In, NoAnswer, OneAnswer

LEMMA SendsFew ==
  ASSUME NEW m \in WireMessages, NEW n \in WireMessages
  PROVE  /\ Sends(<<m>>, {m}) /\ OneAnswer(<<m>>) /\ (m.t # "answer" => NoAnswer(<<m>>))
         /\ Sends(<<m, n>>, {m, n}) /\ (m.t # "answer" /\ n.t # "answer" => NoAnswer(<<m, n>>))
<1>2. PICK s, t : s = <<m>> /\ t = <<m, n>>
  OBVIOUS
<1>3. s \in Seq(WireMessages) /\ DOMAIN s = {1} /\ s[1] = m
  BY <1>2
<1>4. t \in Seq(WireMessages) /\ DOMAIN t = {1, 2} /\ t[1] = m /\ t[2] = n
  BY <1>2
<1>5. Sends(s, {m}) /\ OneAnswer(s) /\ (m.t # "answer" => NoAnswer(s))
  BY <1>3 DEF Sends, In, OneAnswer, NoAnswer
<1>6. Sends(t, {m, n}) /\ (m.t # "answer" /\ n.t # "answer" => NoAnswer(t))
  BY <1>4 DEF Sends, In, NoAnswer
<1> QED
  BY <1>2, <1>5, <1>6

LEMMA SendsBoth ==
  ASSUME NEW s, NEW t, NEW S, NEW T, Sends(s, S), Sends(t, T)
  PROVE  /\ Sends(s \o t, S \union T)
         /\ NoAnswer(s) /\ NoAnswer(t) => NoAnswer(s \o t)
         /\ (NoAnswer(s) /\ OneAnswer(t)) \/ (OneAnswer(s) /\ NoAnswer(t)) => OneAnswer(s \o t)
<1>1. s \in Seq(WireMessages) /\ t \in Seq(WireMessages)
  BY DEF Sends
<1>2. PICK c : c = s \o t
  OBVIOUS
<1>3. /\ c \in Seq(WireMessages)
      /\ \A k \in DOMAIN c : (\E j \in DOMAIN s : k = j /\ c[k] = s[j]) \/ \E j \in DOMAIN t : k = Len(s) + j /\ c[k] = t[j]
      /\ \A m : In(m, c) <=> In(m, s) \/ In(m, t)
  BY <1>1, <1>2, Pieces
<1>4. Sends(c, S \union T)
  BY <1>3 DEF Sends
<1>5. NoAnswer(s) /\ NoAnswer(t) => NoAnswer(c)
  BY <1>3 DEF NoAnswer
<1>6. (NoAnswer(s) /\ OneAnswer(t)) \/ (OneAnswer(s) /\ NoAnswer(t)) => OneAnswer(c)
  BY <1>3 DEF NoAnswer, OneAnswer
<1> QED
  BY <1>2, <1>4, <1>5, <1>6

LEMMA SetSent ==
  ASSUME NEW msgs, NEW M, Sends(msgs, M), Emit(msgs),
         \A m \in M :
            /\ m.t \in {"started", "completed", "request", "resolved"} => m.id \in DOMAIN thread'
            /\ m.t = "completed" => thread'[m.id].ver = 2
            /\ m.t = "request" => thread'[m.id].ask = "open"
            /\ m.t = "turn" => m.id \in 1..turn' /\ (m.id < turn' \/ (m.id = turn' /\ status' # "active")),
         \A u \in Users' : u \in DOMAIN thread \/ Msg("completed", u) \in M,
         \A i \in DOMAIN thread' : thread'[i].ask = "closed" =>
            (i \in DOMAIN thread /\ thread[i].ask = "closed") \/ Msg("resolved", i) \in M,
         \A i \in DOMAIN thread : thread[i].ask = "open" => thread'[i].ask = "open" \/ Msg("resolved", i) \in M
  PROVE  Notified(msgs)
<1>1. \A k \in DOMAIN msgs : msgs[k] \in M
  BY DEF Sends, In
<1>2. /\ msgs \in Seq(WireMessages) /\ wire' = IF Subscribed THEN wire \o msgs ELSE wire
      /\ \A m \in M : In(m, msgs)
  BY DEF Sends, Emit
<1>3. \A k \in DOMAIN msgs : LET m == msgs[k] IN
          /\ m.t \in {"started", "completed", "request", "resolved"} => m.id \in DOMAIN thread'
          /\ m.t = "completed" => thread'[m.id].ver = 2
          /\ m.t = "request" => thread'[m.id].ask = "open"
          /\ m.t = "turn" => m.id \in 1..turn' /\ (m.id < turn' \/ (m.id = turn' /\ status' # "active"))
  BY <1>1
<1> QED
  BY <1>2, <1>3 DEF Notified

\* One item more.
LEMMA OneMore ==
  ASSUME thread \in Seq(Items), NEW x \in Items, thread' = Append(thread, x)
  PROVE  /\ thread' \in Seq(Items) /\ Len(thread) \in Nat /\ Len(thread') = Len(thread) + 1
         /\ DOMAIN thread = 1..Len(thread) /\ Len(thread) + 1 \in DOMAIN thread' /\ Len(thread) + 1 \notin DOMAIN thread
         /\ (\A i \in DOMAIN thread : i \in DOMAIN thread' /\ thread'[i] = thread[i]) /\ thread'[Len(thread) + 1] = x
         /\ \A i \in DOMAIN thread' : i \in DOMAIN thread \/ i = Len(thread) + 1
         /\ x.kind = "user" => Users' = Users \union {Len(thread) + 1} /\ Replies' = Replies
         /\ x.kind # "user" => Users' = Users /\ Replies' = Replies \union {Len(thread) + 1}
<1>1. PICK s, t, n : s = thread /\ t = thread' /\ n = Len(thread)
  OBVIOUS
<1>2. s \in Seq(Items) /\ t = Append(s, x) /\ n = Len(s)
  BY <1>1
<1>3. /\ t \in Seq(Items) /\ n \in Nat /\ Len(t) = n + 1 /\ DOMAIN s = 1..n /\ DOMAIN t = 1..(n + 1)
      /\ t[n + 1] = x /\ \A i \in 1..n : t[i] = s[i]
  BY <1>2
<1>4. n + 1 \in DOMAIN t /\ n + 1 \notin DOMAIN s /\ \A i \in DOMAIN t : i \in DOMAIN s \/ i = n + 1
  BY <1>3
<1>5. \A i \in DOMAIN s : i \in DOMAIN t /\ t[i] = s[i]
  BY <1>3
<1>6. DOMAIN t = DOMAIN s \union {n + 1}
  BY <1>4, <1>5
<1>7. /\ Users = {i \in DOMAIN s : s[i].kind = "user"} /\ Replies = DOMAIN s \ {i \in DOMAIN s : s[i].kind = "user"}
      /\ Users' = {i \in DOMAIN t : t[i].kind = "user"} /\ Replies' = DOMAIN t \ {i \in DOMAIN t : t[i].kind = "user"}
  BY <1>1 DEF Users, Replies
<1>8. x.kind = "user" => Users' = Users \union {n + 1} /\ Replies' = Replies
  BY <1>3, <1>4, <1>5, <1>6, <1>7
<1>9. x.kind # "user" => Users' = Users /\ Replies' = Replies \union {n + 1}
  BY <1>3, <1>4, <1>5, <1>6, <1>7
<1> QED
  BY <1>1, <1>3, <1>4, <1>5, <1>8, <1>9

\* A text that the app-server accepts starts a turn or joins it, and its thread is in order.
LEMMA InputGrows ==
  ASSUME CodexInv, NEW text \in Prompts \union Locals, \A u \in Users : thread[u].of # text,
         turn' = (IF status = "active" THEN turn ELSE turn + 1), status' = "active",
         thread' = Append(thread, NewItem(turn', "user", text, 2)), mode' = mode
  PROVE  /\ Grown /\ ThreadOK' /\ turn' \in Nat
         /\ Len(thread) + 1 \in DOMAIN thread' /\ thread'[Len(thread) + 1].ver = 2
         /\ \A u \in Users' : u \in DOMAIN thread \/ u = Len(thread) + 1
         /\ \A i \in DOMAIN thread : i \in DOMAIN thread' /\ thread'[i] = thread[i] /\ (i \in Users' <=> i \in Users)
         /\ \A i \in DOMAIN thread' : i \in DOMAIN thread \/ thread'[i].ask = "none"
         /\ Len(thread) + 1 \in Users' /\ thread'[Len(thread) + 1].of = text
<1>1. TypeOK /\ ThreadOK
  BY DEF CodexInv
<1>2. PICK x, n, t : x = NewItem(turn', "user", text, 2) /\ n = Len(thread) + 1 /\ t = turn'
  OBVIOUS
<1>3. turn \in Nat /\ t \in Nat /\ turn <= t /\ t \in 1..t /\ (t = turn \/ t = turn + 1) /\ (t = turn => status = "active")
  <2>1. turn \in Nat
    BY <1>1 DEF TypeOK
  <2>2. t = turn \/ t = turn + 1
    BY <1>2
  <2>3. CASE status = "active"
    <3>1. \E u \in Users : thread[u].turn = turn
      BY <1>1, <2>3 DEF ThreadOK
    <3>2. turn \in 1..turn
      BY <1>1, <3>1 DEF ThreadOK, Users
    <3>3. t = turn
      BY <1>2, <2>3
    <3> QED
      BY <2>1, <2>3, <3>2, <3>3
  <2>4. CASE status # "active"
    <3>1. t = turn + 1
      BY <1>2, <2>4
    <3> QED
      BY <2>1, <3>1
  <2> QED
    BY <2>3, <2>4
<1>4. x \in Items /\ x.kind = "user" /\ x.of = text /\ x.ver = 2 /\ x.ask = "none" /\ x.turn = t
  BY <1>2, <1>3 DEF NewItem, Items
<1>5. /\ thread' \in Seq(Items) /\ Len(thread) \in Nat /\ Len(thread') = n /\ n = Len(thread) + 1
      /\ DOMAIN thread = 1..Len(thread) /\ n \in DOMAIN thread' /\ n \notin DOMAIN thread
      /\ (\A i \in DOMAIN thread : i \in DOMAIN thread' /\ thread'[i] = thread[i]) /\ thread'[n] = x
      /\ \A i \in DOMAIN thread' : i \in DOMAIN thread \/ i = n
      /\ Users' = Users \union {n} /\ Replies' = Replies
  BY <1>1, <1>2, <1>4, OneMore DEF TypeOK
<1>6. /\ \A i \in DOMAIN thread : thread[i].turn \in 1..turn
      /\ \A u \in Users : thread[u].ver = 2 /\ thread[u].of \in Prompts \union Locals
      /\ \A i \in Replies : \E u \in Users : Leads(u, i)
      /\ Cardinality(Replies) <= MaxReplies
      /\ \A u, v \in Users : thread[u].of = thread[v].of => u = v
      /\ Users \subseteq DOMAIN thread /\ Replies \subseteq DOMAIN thread
  BY <1>1 DEF ThreadOK, Users, Replies
<1>7. Grown
  <2>1. \A k \in 1..turn : Terminal(k) => (k < t \/ (k = t /\ status' # "active"))
    BY <1>3 DEF Terminal
  <2>2. Len(thread) <= Len(thread') /\ Len(thread') <= Len(thread) + 1
    BY <1>5
  <2> QED
    BY <1>2, <1>3, <1>5, <2>1, <2>2 DEF Grown
<1>8. ThreadOK'
  <2>1. \A i \in DOMAIN thread' : thread'[i].turn \in 1..t
    BY <1>3, <1>4, <1>5, <1>6
  <2>2. \A u \in Users' : thread'[u].ver = 2 /\ thread'[u].of \in Prompts \union Locals
    BY <1>4, <1>5, <1>6
  <2>3. \A i \in Replies' : \E u \in Users' : u < i /\ thread'[u].turn = thread'[i].turn
    BY <1>5, <1>6 DEF Leads
  <2>4. \E u \in Users' : thread'[u].turn = t
    BY <1>4, <1>5
  <2>5. Cardinality(Replies') <= MaxReplies
    BY <1>5, <1>6
  <2>6. \A u, v \in Users' : thread'[u].of = thread'[v].of => u = v
    BY <1>4, <1>5, <1>6
  <2>7. \A i \in Replies' : \E u \in Users' : Leads(u, i)'
    BY <2>3 DEF Leads
  <2> QED
    BY <1>2, <2>1, <2>2, <2>4, <2>5, <2>6, <2>7 DEF ThreadOK
<1> QED
  BY <1>2, <1>3, <1>4, <1>5, <1>6, <1>7, <1>8

\* Its notifications, with or without the answer to who asked for it.
LEMMA InputSent ==
  ASSUME CodexInv, NEW text \in Prompts \union Locals, \A u \in Users : thread[u].of # text,
         NEW before, NEW after, AcceptInput(text, before, after),
         NEW A, NEW B, A \in {{}, {Msg("answer", "writer")}}, B \in {{}, {Msg("answer", "writer")}},
         Sends(before, B), Sends(after, A), (NoAnswer(before) /\ OneAnswer(after)) \/ (OneAnswer(before) /\ NoAnswer(after))
  PROVE  \E msgs, M : /\ Notified(msgs) /\ Sends(msgs, M) /\ OneAnswer(msgs)
                      /\ \A m \in M : m.t = "answer" => m \in A \union B
<1>1. TypeOK
  BY DEF CodexInv
<1>2. PICK act, V : /\ act = (IF status = "active" THEN <<>> ELSE <<Msg("active", 0)>>)
                    /\ V = (IF status = "active" THEN {} ELSE {Msg("active", 0)})
  OBVIOUS
<1>3. PICK n, fin : n = Len(thread) + 1 /\ fin = Msg("completed", n)
  OBVIOUS
<1>4. /\ n \in Nat /\ n \in DOMAIN thread' /\ thread'[n].ver = 2 /\ (\A u \in Users' : u \in DOMAIN thread \/ u = n)
      /\ \A i \in DOMAIN thread : i \in DOMAIN thread' /\ thread'[i] = thread[i]
      /\ \A i \in DOMAIN thread' : i \in DOMAIN thread \/ thread'[i].ask = "none"
  <2>1. Len(thread) \in Nat
    BY <1>1 DEF TypeOK
  <2>2. n \in Nat
    BY <1>3, <2>1
  <2> QED
    BY <1>3, <2>2, InputGrows DEF AcceptInput
<1>5. /\ fin \in WireMessages /\ fin.t = "completed" /\ fin.id = n /\ Msg("active", 0) \in WireMessages
      /\ Msg("active", 0).t = "active" /\ Msg("answer", "writer").t = "answer"
  BY <1>3, <1>4 DEF Msg, WireMessages, Notices
<1>6. Sends(act, V) /\ NoAnswer(act)
  BY <1>2, <1>5, SendsFew, SendsNone
<1>7. Sends(<<fin>>, {fin}) /\ NoAnswer(<<fin>>)
  BY <1>5, SendsFew
<1>8. PICK one : one = before \o act
  OBVIOUS
<1>9. Sends(one, B \union V) /\ (NoAnswer(before) => NoAnswer(one)) /\ (OneAnswer(before) => OneAnswer(one))
  BY <1>6, <1>8, SendsBoth
<1>10. PICK two : two = one \o <<fin>>
  OBVIOUS
<1>11. Sends(two, B \union V \union {fin}) /\ (NoAnswer(before) => NoAnswer(two)) /\ (OneAnswer(before) => OneAnswer(two))
  BY <1>7, <1>9, <1>10, SendsBoth
<1>12. PICK msgs, M : msgs = two \o after /\ M = B \union V \union {fin} \union A
  OBVIOUS
<1>13. Sends(msgs, M) /\ OneAnswer(msgs)
  BY <1>11, <1>12, SendsBoth
<1>14. Emit(msgs)
  BY <1>2, <1>3, <1>8, <1>10, <1>12 DEF AcceptInput
<1>15. \A m \in M : m = fin \/ m.t = "active" \/ (m.t = "answer" /\ m \in A \union B)
  BY <1>2, <1>5, <1>12
<1>16. fin \in M
  BY <1>12
<1>17. Notified(msgs)
  <2>1. \A m \in M :
            /\ m.t \in {"started", "completed", "request", "resolved"} => m.id \in DOMAIN thread'
            /\ m.t = "completed" => thread'[m.id].ver = 2
            /\ m.t # "request" /\ m.t # "turn"
    BY <1>4, <1>5, <1>15
  <2>2. \A u \in Users' : u \in DOMAIN thread \/ Msg("completed", u) \in M
    BY <1>3, <1>4, <1>16
  <2>3. ASSUME NEW i \in DOMAIN thread', thread'[i].ask = "closed" PROVE i \in DOMAIN thread /\ thread[i].ask = "closed"
    <3>1. i \in DOMAIN thread
      BY <1>4, <2>3
    <3>2. thread'[i] = thread[i]
      BY <1>4, <3>1
    <3> QED
      BY <2>3, <3>1, <3>2
  <2>4. \A i \in DOMAIN thread : thread[i].ask = "open" => thread'[i].ask = "open"
    BY <1>4
  <2> QED
    BY <1>13, <1>14, <2>1, <2>2, <2>3, <2>4, SetSent
<1>18. \A m \in M : m.t = "answer" => m \in A \union B
  BY <1>5, <1>15
<1> QED
  BY <1>13, <1>17, <1>18

LEMMA LocalPromptKept ==
  ASSUME CodexInv, NEW l \in Locals, LocalPrompt(l)
  PROVE  CodexInv'
<1>1. TypeOK /\ TextsOK
  BY DEF CodexInv
<1>2. /\ AcceptInput(l, <<>>, <<>>) /\ \A u \in Users : thread[u].of # l
      /\ UNCHANGED <<client, reading, phase, gate, proj, inbound, over, posted>> /\ UNCHANGED <<inbox, turns>>
      /\ UNCHANGED <<writer, decisions, status>> \/ (UNCHANGED <<writer, decisions>> /\ status' = "active")
  BY DEF LocalPrompt, Companion, ghosts, inbound, AcceptInput
<1>3. Sends(<<>>, {}) /\ NoAnswer(<<>>) /\ OneAnswer(<<>>)
  BY SendsNone
<1>4. PICK msgs, M : Notified(msgs) /\ Sends(msgs, M) /\ OneAnswer(msgs) /\ \A m \in M : m.t # "answer"
  BY <1>2, <1>3, InputSent
<1>5. /\ Grown /\ ThreadOK'
      /\ \A u \in Users' : u \in DOMAIN thread \/ u = Len(thread) + 1
      /\ \A i \in DOMAIN thread : thread'[i] = thread[i] /\ (i \in Users' <=> i \in Users)
      /\ thread'[Len(thread) + 1].of = l
  BY <1>2, InputGrows DEF AcceptInput
<1>6. AnswersOnce(msgs)
  <2>1. \A k \in DOMAIN msgs : msgs[k].t # "answer"
    BY <1>4 DEF Sends, In
  <2> QED
    BY <1>2, <2>1 DEF AnswersOnce, Subscribed
<1>7. TextsOK'
  <2>1. \A u \in Users' : (u \in Users /\ thread'[u].of = thread[u].of) \/ thread'[u].of = l
    BY <1>5
  <2>2. l \notin Prompts
    BY NamesAssumption
  <2>3. writer # NULL => writer.of \in Prompts
    BY <1>1 DEF TypeOK
  <2> QED
    BY <1>1, <1>2, <2>1, <2>2, <2>3 DEF TextsOK
<1>8. /\ writer' # NULL => writer' \in [of : Prompts, at : {"sent", "applied", "answered"}]
      /\ decisions' \in [Ids -> {"none", "sent", "applied"}] /\ status' \in {"idle", "active", "systemError"}
  BY <1>1, <1>2 DEF TypeOK
<1> QED
  BY <1>2, <1>4, <1>5, <1>6, <1>7, <1>8, NativeKept

LEMMA ApplyStartKept ==
  ASSUME CodexInv, ApplyStart
  PROVE  CodexInv'
<1>1. TypeOK /\ TextsOK
  BY DEF CodexInv
<1>2. PICK x, ans : x = writer.of /\ ans = Msg("answer", "writer")
  OBVIOUS
<1>3. /\ AcceptInput(x, <<ans>>, <<>>) \/ AcceptInput(x, <<>>, <<ans>>)
      /\ UNCHANGED <<client, reading, phase, gate, proj, inbound, over, posted>> /\ UNCHANGED <<inbox, turns, decisions>>
      /\ writer # NULL /\ writer.at = "sent" /\ writer' = [writer EXCEPT !.at = "applied"] /\ status' = "active"
  BY <1>2 DEF ApplyStart, ghosts, inbound, AcceptInput
<1>4. x \in Prompts /\ x \in posted /\ \A u \in Users : thread[u].of # x
  BY <1>1, <1>2, <1>3 DEF TypeOK, TextsOK
<1>5. /\ Sends(<<>>, {}) /\ NoAnswer(<<>>) /\ OneAnswer(<<>>)
      /\ Sends(<<ans>>, {ans}) /\ OneAnswer(<<ans>>) /\ ans.t = "answer" /\ ans.id = "writer"
  <2>1. ans \in WireMessages /\ ans.t = "answer" /\ ans.id = "writer"
    BY <1>2 DEF Msg, WireMessages
  <2> QED
    BY <2>1, SendsFew, SendsNone
<1>6. PICK msgs, M : Notified(msgs) /\ Sends(msgs, M) /\ OneAnswer(msgs) /\ \A m \in M : m.t = "answer" => m = ans
  <2>1. CASE AcceptInput(x, <<ans>>, <<>>)
    BY <1>2, <1>4, <1>5, <2>1, InputSent
  <2>2. CASE AcceptInput(x, <<>>, <<ans>>)
    BY <1>2, <1>4, <1>5, <2>2, InputSent
  <2> QED
    BY <1>3, <2>1, <2>2
<1>7. /\ Grown /\ ThreadOK'
      /\ \A u \in Users' : u \in DOMAIN thread \/ u = Len(thread) + 1
      /\ \A i \in DOMAIN thread : thread'[i] = thread[i] /\ (i \in Users' <=> i \in Users)
      /\ thread'[Len(thread) + 1].of = x
  BY <1>3, <1>4, InputGrows DEF AcceptInput
<1>8. writer' # NULL /\ writer'.at = "applied" /\ writer'.of = x /\ writer' \in [of : Prompts, at : {"sent", "applied", "answered"}]
  <2>1. writer \in [of : Prompts, at : {"sent", "applied", "answered"}]
    BY <1>1, <1>3 DEF TypeOK
  <2>2. writer' \in [of : Prompts, at : {"sent", "applied", "answered"}] /\ writer'.at = "applied" /\ writer'.of = x
    BY <1>2, <1>3, <2>1
  <2> QED
    BY <2>2, NamesAssumption
<1>9. AnswersOnce(msgs)
  <2>1. \A k \in DOMAIN msgs : msgs[k].t = "answer" => msgs[k].id = "writer"
    BY <1>5, <1>6 DEF Sends, In
  <2>2. \A k, l \in DOMAIN msgs : msgs[k].t = "answer" /\ msgs[l].t = "answer" => k = l
    BY <1>6 DEF OneAnswer
  <2> QED
    BY <1>3, <1>8, <2>1, <2>2 DEF AnswersOnce, Subscribed
<1>10. TextsOK'
  <2>1. \A u \in Users' : (u \in Users /\ thread'[u].of = thread[u].of) \/ thread'[u].of = x
    BY <1>7
  <2>2. \A u \in Users' : thread'[u].of \in Prompts => thread'[u].of \in posted
    BY <1>1, <1>4, <2>1 DEF TextsOK
  <2> QED
    BY <1>1, <1>3, <1>4, <1>8, <2>2 DEF TextsOK
<1>11. decisions' \in [Ids -> {"none", "sent", "applied"}] /\ status' \in {"idle", "active", "systemError"}
  BY <1>1, <1>3 DEF TypeOK
<1> QED
  BY <1>3, <1>6, <1>7, <1>8, <1>9, <1>10, <1>11, NativeKept

\* A step of the app-server that accepts no text and answers no read and no start.
LEMMA QuietKept ==
  ASSUME CodexInv, Grown, ThreadOK', Users' = Users, NEW msgs, NEW M, Sends(msgs, M), OneAnswer(msgs), Notified(msgs),
         \A m \in M : m.t = "answer" => m.id = "stop",
         UNCHANGED <<client, reading, phase, gate, proj, inbound, over, posted, writer>>,
         status' \in {"idle", "active", "systemError"}, decisions' \in [Ids -> {"none", "sent", "applied"}],
         \A i \in Ids : decisions[i] = "none" => decisions'[i] = "none"
  PROVE  CodexInv'
<1>1. TypeOK /\ TextsOK
  BY DEF CodexInv
<1>2. UNCHANGED <<inbox, turns>>
  BY DEF inbound
<1>3. \A u \in Users : thread'[u].of = thread[u].of
  BY DEF Grown, Users
<1>4. TextsOK'
  BY <1>1, <1>2, <1>3 DEF TextsOK
<1>5. AnswersOnce(msgs)
  <2>1. \A k \in DOMAIN msgs : msgs[k].t = "answer" => msgs[k].id = "stop"
    BY DEF Sends, In
  <2>2. \A k, l \in DOMAIN msgs : msgs[k].t = "answer" /\ msgs[l].t = "answer" => k = l
    BY DEF OneAnswer
  <2> QED
    BY <2>1, <2>2 DEF AnswersOnce, Subscribed
<1>6. writer' # NULL => writer' \in [of : Prompts, at : {"sent", "applied", "answered"}]
  BY <1>1 DEF TypeOK
<1> QED
  BY <1>4, <1>5, <1>6, NativeKept

LEMMA BeginItemKept ==
  ASSUME CodexInv, NEW kind \in Kinds, BeginItem(kind)
  PROVE  CodexInv'
<1>1. TypeOK /\ ThreadOK
  BY DEF CodexInv
<1>2. PICK x, n : /\ x = [NewItem(turn, kind, NULL, 1) EXCEPT !.ask = IF Asks(kind) THEN "open" ELSE "none"]
                  /\ n = Len(thread) + 1
  OBVIOUS
<1>3. /\ status = "active" /\ Cardinality(Replies) < MaxReplies /\ thread' = Append(thread, x)
      /\ Emit(IF Asks(kind) THEN <<Msg("started", n), Msg("request", n)>> ELSE <<Msg("started", n)>>)
      /\ UNCHANGED <<turn, status, mode, decisions>>
      /\ UNCHANGED <<client, reading, phase, gate, proj, inbound, over, posted, writer>>
  BY <1>2 DEF BeginItem, Companion, ghosts
<1>4. turn \in Nat /\ MaxReplies \in Nat /\ kind \in {"agent", "cmd", "patch"}
  BY <1>1, BoundsAssumption DEF TypeOK
<1>5. x \in Items /\ x.kind = kind /\ x.kind # "user" /\ x.turn = turn /\ x.ver = 1
      /\ x.ask = (IF Asks(kind) THEN "open" ELSE "none")
  BY <1>2, <1>4 DEF NewItem, Items
<1>6. /\ thread' \in Seq(Items) /\ Len(thread) \in Nat /\ Len(thread') = n /\ n = Len(thread) + 1
      /\ DOMAIN thread = 1..Len(thread) /\ n \in DOMAIN thread' /\ n \notin DOMAIN thread
      /\ (\A i \in DOMAIN thread : i \in DOMAIN thread' /\ thread'[i] = thread[i]) /\ thread'[n] = x
      /\ \A i \in DOMAIN thread' : i \in DOMAIN thread \/ i = n
      /\ Users' = Users /\ Replies' = Replies \union {n}
  BY <1>1, <1>2, <1>3, <1>5, OneMore DEF TypeOK
<1>7. /\ \A i \in DOMAIN thread : thread[i].turn \in 1..turn
      /\ \A u \in Users : thread[u].ver = 2 /\ thread[u].of \in Prompts \union Locals
      /\ \A i \in Replies : \E u \in Users : Leads(u, i)
      /\ \E u \in Users : thread[u].turn = turn
      /\ \A u, v \in Users : thread[u].of = thread[v].of => u = v
      /\ Users \subseteq DOMAIN thread /\ Replies \subseteq DOMAIN thread
  BY <1>1, <1>3 DEF ThreadOK, Users, Replies
<1>8. Grown
  <2>1. \A k \in 1..turn : Terminal(k) => (k < turn' \/ (k = turn' /\ status' # "active"))
    BY <1>3 DEF Terminal
  <2>2. Len(thread) <= Len(thread') /\ Len(thread') <= Len(thread) + 1
    BY <1>6
  <2>3. turn' \in Nat /\ turn <= turn'
    BY <1>3, <1>4
  <2> QED
    BY <1>3, <1>6, <2>1, <2>2, <2>3 DEF Grown
<1>9. ThreadOK'
  <2>1. \A i \in DOMAIN thread' : thread'[i].turn \in 1..turn
    BY <1>4, <1>5, <1>6, <1>7
  <2>2. \A u \in Users' : thread'[u].ver = 2 /\ thread'[u].of \in Prompts \union Locals
    BY <1>6, <1>7
  <2>3. \A i \in Replies : \E u \in Users' : u < i /\ thread'[u].turn = thread'[i].turn
    BY <1>6, <1>7 DEF Leads
  <2>4. \E u \in Users' : thread'[u].turn = turn /\ u < n
    <3>1. PICK u \in Users : thread[u].turn = turn
      BY <1>7
    <3>2. u \in 1..Len(thread)
      BY <1>6, <1>7
    <3>3. u < n
      BY <1>6, <3>2
    <3> QED
      BY <1>6, <1>7, <3>1, <3>3
  <2>5. \A i \in Replies' : \E u \in Users' : Leads(u, i)'
    BY <1>5, <1>6, <2>3, <2>4 DEF Leads
  <2>6. Cardinality(Replies') <= MaxReplies
    <3>1. IsFiniteSet(Replies)
      <4>1. IsFiniteSet(1..Len(thread)) /\ Replies \subseteq 1..Len(thread)
        BY <1>6, <1>7, FS_Interval
      <4> QED
        BY <4>1, FS_Subset
    <3>2. n \notin Replies
      BY <1>6, <1>7
    <3>3. Cardinality(Replies') = Cardinality(Replies) + 1
      BY <1>6, <3>1, <3>2, FS_AddElement
    <3>4. Cardinality(Replies) \in Nat
      BY <3>1, FS_CardinalityType
    <3> QED
      BY <1>3, <1>4, <3>3, <3>4
  <2>7. \A u, v \in Users' : thread'[u].of = thread'[v].of => u = v
    BY <1>6, <1>7
  <2>8. \E u \in Users' : thread'[u].turn = turn
    BY <2>4
  <2> QED
    BY <1>3, <2>1, <2>2, <2>5, <2>6, <2>7, <2>8 DEF ThreadOK
<1>10. PICK a, b : a = Msg("started", n) /\ b = Msg("request", n)
  OBVIOUS
<1>11. /\ a \in WireMessages /\ b \in WireMessages /\ a.t = "started" /\ b.t = "request" /\ a.id = n /\ b.id = n
  <2>1. n \in Nat
    BY <1>6
  <2> QED
    BY <1>10, <2>1 DEF Msg, WireMessages, Notices
<1>12. PICK msgs, M : /\ msgs = (IF Asks(kind) THEN <<a, b>> ELSE <<a>>)
                      /\ M = (IF Asks(kind) THEN {a, b} ELSE {a})
  OBVIOUS
<1>13. Sends(msgs, M) /\ NoAnswer(msgs) /\ OneAnswer(msgs) /\ Emit(msgs)
  <2>1. Sends(msgs, M) /\ NoAnswer(msgs)
    BY <1>11, <1>12, SendsFew
  <2>2. OneAnswer(msgs)
    BY <2>1 DEF OneAnswer, NoAnswer
  <2> QED
    BY <1>3, <1>10, <1>12, <2>1, <2>2
<1>14. Notified(msgs)
  <2>1. \A m \in M :
            /\ m.t \in {"started", "completed", "request", "resolved"} => m.id \in DOMAIN thread'
            /\ m.t # "completed" /\ m.t # "turn"
            /\ m.t = "request" => thread'[m.id].ask = "open"
    BY <1>5, <1>6, <1>11, <1>12
  <2>2. \A u \in Users' : u \in DOMAIN thread
    BY <1>6, <1>7
  <2>3. \A i \in DOMAIN thread' : thread'[i].ask = "closed" => i \in DOMAIN thread /\ thread[i].ask = "closed"
    <3> SUFFICES ASSUME NEW i \in DOMAIN thread', thread'[i].ask = "closed", i = n PROVE FALSE
      BY <1>6
    <3> QED
      BY <1>5, <1>6
  <2>4. \A i \in DOMAIN thread : thread[i].ask = "open" => thread'[i].ask = "open"
    BY <1>6
  <2> QED
    BY <1>13, <2>1, <2>2, <2>3, <2>4, SetSent
<1>15. /\ status' \in {"idle", "active", "systemError"} /\ decisions' \in [Ids -> {"none", "sent", "applied"}]
       /\ \A i \in Ids : decisions[i] = "none" => decisions'[i] = "none"
  BY <1>1, <1>3 DEF TypeOK
<1>16. \A m \in M : m.t # "answer"
  BY <1>11, <1>12
<1> QED
  BY <1>3, <1>6, <1>8, <1>9, <1>13, <1>14, <1>15, <1>16, QuietKept

\* No item more: contents are finished and requests are closed.
LEMMA TouchGrows ==
  ASSUME TypeOK, ThreadOK, thread' \in Seq(Items), DOMAIN thread' = DOMAIN thread,
         \A i \in DOMAIN thread :
            /\ thread'[i].turn = thread[i].turn /\ thread'[i].kind = thread[i].kind /\ thread'[i].of = thread[i].of
            /\ thread[i].ver = 2 \/ Terminal(thread[i].turn) => thread'[i].ver = thread[i].ver
            /\ thread[i].ask # "none" => thread'[i].ask # "none",
         turn' = turn, mode' = mode, status' = "active" => status = "active"
  PROVE  Grown /\ ThreadOK' /\ Users' = Users
<1>1. /\ \A i \in DOMAIN thread : thread[i].turn \in 1..turn
      /\ \A u \in Users : thread[u].ver = 2 /\ thread[u].of \in Prompts \union Locals
      /\ \A i \in Replies : \E u \in Users : Leads(u, i)
      /\ status = "active" => \E u \in Users : thread[u].turn = turn
      /\ Cardinality(Replies) <= MaxReplies
      /\ \A u, v \in Users : thread[u].of = thread[v].of => u = v
      /\ Users \subseteq DOMAIN thread /\ Replies \subseteq DOMAIN thread
  BY DEF ThreadOK, Users, Replies
<1>2. Users' = Users /\ Replies' = Replies
  BY DEF Users, Replies
<1>3. Grown
  <2>1. turn \in Nat /\ thread \in Seq(Items)
    BY DEF TypeOK
  <2>2. Len(thread') = Len(thread) /\ Len(thread) \in Nat
    <3>1. PICK s, t : s = thread /\ t = thread'
      OBVIOUS
    <3>2. s \in Seq(Items) /\ t \in Seq(Items) /\ DOMAIN s = DOMAIN t
      BY <2>1, <3>1
    <3>3. Len(s) = Len(t) /\ Len(s) \in Nat
      BY <3>2, LenProperties
    <3> QED
      BY <3>1, <3>3
  <2>3. \A k \in 1..turn : Terminal(k) => (k < turn' \/ (k = turn' /\ status' # "active"))
    BY DEF Terminal
  <2>4. Len(thread) <= Len(thread') /\ Len(thread') <= Len(thread) + 1 /\ turn <= turn'
    BY <2>1, <2>2
  <2> QED
    BY <2>1, <2>3, <2>4 DEF Grown
<1>4. ThreadOK'
  <2>1. \A i \in Replies' : \E u \in Users' : Leads(u, i)'
    BY <1>1, <1>2 DEF Leads
  <2>2. \A u \in Users' : thread'[u].ver = 2
    BY <1>1, <1>2
  <2>3. status' = "active" => \E u \in Users' : thread'[u].turn = turn'
    BY <1>1, <1>2
  <2>4. \A u, v \in Users' : thread'[u].of = thread'[v].of => u = v
    BY <1>1, <1>2
  <2>5. \A i \in DOMAIN thread' : thread'[i].turn \in 1..turn'
    BY <1>1
  <2>6. \A u \in Users' : thread'[u].of \in Prompts \union Locals
    BY <1>1, <1>2
  <2> QED
    BY <1>1, <1>2, <2>1, <2>2, <2>3, <2>4, <2>5, <2>6 DEF ThreadOK
<1> QED
  BY <1>2, <1>3, <1>4

\* A request that is resolved, with the step around it.
LEMMA ResolveGrows ==
  ASSUME CodexInv, NEW i \in DOMAIN thread, Resolve(i)
  PROVE  /\ Grown /\ ThreadOK' /\ Users' = Users
         /\ Sends(<<Msg("resolved", i)>>, {Msg("resolved", i)}) /\ OneAnswer(<<Msg("resolved", i)>>)
         /\ Notified(<<Msg("resolved", i)>>) /\ Msg("resolved", i).t # "answer"
<1>1. TypeOK /\ ThreadOK
  BY DEF CodexInv
<1>2. PICK s, t : s = thread /\ t = thread'
  OBVIOUS
<1>3. s[i].ask = "open" /\ t = [s EXCEPT ![i].ask = "closed"] /\ s \in Seq(Items) /\ i \in DOMAIN s
  BY <1>1, <1>2 DEF Resolve, TypeOK
<1>4. s[i] \in Items /\ DOMAIN t = DOMAIN s /\ DOMAIN s = 1..Len(s) /\ Len(s) \in Nat
  BY <1>3
<1>5. PICK x : x = [s[i] EXCEPT !.ask = "closed"]
  OBVIOUS
<1>6. /\ x \in Items /\ x.turn = s[i].turn /\ x.kind = s[i].kind /\ x.of = s[i].of /\ x.ver = s[i].ver /\ x.ask = "closed"
  BY <1>4, <1>5 DEF Items
<1>7. t = [s EXCEPT ![i] = x]
  BY <1>3, <1>5
<1>8. t \in Seq(Items) /\ t[i] = x /\ \A j \in DOMAIN s : j # i => t[j] = s[j]
  BY <1>3, <1>4, <1>6, <1>7
<1>9. UNCHANGED <<turn, status, mode>> /\ Emit(<<Msg("resolved", i)>>)
  BY DEF Resolve
<1>10. /\ \A j \in DOMAIN thread : thread'[j].turn = thread[j].turn /\ thread'[j].kind = thread[j].kind
             /\ thread'[j].of = thread[j].of /\ thread'[j].ver = thread[j].ver
             /\ (thread[j].ask # "none" => thread'[j].ask # "none")
       /\ thread' \in Seq(Items) /\ DOMAIN thread' = DOMAIN thread
  BY <1>2, <1>4, <1>6, <1>8
<1>11. Grown /\ ThreadOK' /\ Users' = Users
  BY <1>1, <1>9, <1>10, TouchGrows
<1>12. PICK m : m = Msg("resolved", i)
  OBVIOUS
<1>13. m \in WireMessages /\ m.t = "resolved" /\ m.id = i
  <2>1. i \in Nat
    BY <1>2, <1>3, <1>4
  <2> QED
    BY <1>12, <2>1 DEF Msg, WireMessages, Notices
<1>14. Sends(<<m>>, {m}) /\ OneAnswer(<<m>>)
  BY <1>13, SendsFew
<1>15. Notified(<<m>>)
  <2>1. \A u \in Users' : u \in DOMAIN thread
    BY <1>11 DEF Users
  <2>2. \A j \in DOMAIN thread' : thread'[j].ask = "closed" =>
            (j \in DOMAIN thread /\ thread[j].ask = "closed") \/ Msg("resolved", j) \in {m}
    BY <1>2, <1>4, <1>8, <1>12
  <2>3. \A j \in DOMAIN thread : thread[j].ask = "open" => thread'[j].ask = "open" \/ Msg("resolved", j) \in {m}
    BY <1>2, <1>8, <1>12
  <2>4. m.id \in DOMAIN thread'
    BY <1>10, <1>13
  <2> QED
    BY <1>9, <1>12, <1>13, <1>14, <2>1, <2>2, <2>3, <2>4, SetSent
<1> QED
  BY <1>11, <1>12, <1>13, <1>14, <1>15

LEMMA AnswerLocallyKept ==
  ASSUME CodexInv, AnswerLocally
  PROVE  CodexInv'
<1>1. TypeOK
  BY DEF CodexInv
<1>2. PICK i \in DOMAIN thread : Resolve(i)
  BY DEF AnswerLocally
<1>3. UNCHANGED <<client, reading, phase, gate, proj, inbound, over, posted, writer>> /\ UNCHANGED decisions /\ status' = status
  BY <1>2 DEF AnswerLocally, Companion, ghosts, Resolve
<1>4. status' \in {"idle", "active", "systemError"} /\ decisions' \in [Ids -> {"none", "sent", "applied"}]
      /\ \A j \in Ids : decisions[j] = "none" => decisions'[j] = "none"
  BY <1>1, <1>3 DEF TypeOK
<1>5. PICK m : m = Msg("resolved", i)
  OBVIOUS
<1>6. Sends(<<m>>, {m}) /\ OneAnswer(<<m>>) /\ Notified(<<m>>) /\ Grown /\ ThreadOK' /\ Users' = Users /\ m.t # "answer"
  BY <1>2, <1>5, ResolveGrows
<1> QED
  BY <1>3, <1>4, <1>6, QuietKept

LEMMA CompleteItemKept ==
  ASSUME CodexInv, CompleteItem
  PROVE  CodexInv'
<1>1. TypeOK /\ ThreadOK
  BY DEF CodexInv
<1>2. PICK i \in OpenItems : thread' = [thread EXCEPT ![i].ver = 2] /\ Emit(<<Msg("completed", i)>>)
  BY DEF CompleteItem
<1>3. UNCHANGED <<client, reading, phase, gate, proj, inbound, over, posted, writer>> /\ UNCHANGED <<decisions, turn, status, mode>>
  BY DEF CompleteItem, Companion, ghosts
<1>4. PICK s, t : s = thread /\ t = thread'
  OBVIOUS
<1>5. t = [s EXCEPT ![i].ver = 2] /\ s \in Seq(Items) /\ i \in DOMAIN s /\ s[i].ver = 1 /\ s[i].turn = turn /\ status = "active"
  BY <1>1, <1>2, <1>4 DEF OpenItems, TypeOK
<1>6. s[i] \in Items /\ DOMAIN t = DOMAIN s /\ DOMAIN s = 1..Len(s) /\ Len(s) \in Nat
  BY <1>5
<1>7. PICK x : x = [s[i] EXCEPT !.ver = 2]
  OBVIOUS
<1>8. /\ x \in Items /\ x.turn = s[i].turn /\ x.kind = s[i].kind /\ x.of = s[i].of /\ x.ver = 2 /\ x.ask = s[i].ask
  BY <1>6, <1>7 DEF Items
<1>9. t = [s EXCEPT ![i] = x]
  BY <1>5, <1>7
<1>10. t \in Seq(Items) /\ t[i] = x /\ \A j \in DOMAIN s : j # i => t[j] = s[j]
  BY <1>5, <1>6, <1>8, <1>9
<1>11. ~Terminal(s[i].turn)
  <2>1. turn \in Nat
    BY <1>1 DEF TypeOK
  <2> QED
    BY <1>5, <2>1 DEF Terminal
<1>12. /\ \A j \in DOMAIN thread : thread'[j].turn = thread[j].turn /\ thread'[j].kind = thread[j].kind
             /\ thread'[j].of = thread[j].of
             /\ (thread[j].ver = 2 \/ Terminal(thread[j].turn) => thread'[j].ver = thread[j].ver)
             /\ thread'[j].ask = thread[j].ask
       /\ thread' \in Seq(Items) /\ DOMAIN thread' = DOMAIN thread
  BY <1>4, <1>5, <1>6, <1>8, <1>10, <1>11
<1>13. Grown /\ ThreadOK' /\ Users' = Users
  BY <1>1, <1>3, <1>12, TouchGrows
<1>14. PICK m : m = Msg("completed", i)
  OBVIOUS
<1>15. m \in WireMessages /\ m.t = "completed" /\ m.id = i
  <2>1. i \in Nat
    BY <1>5, <1>6
  <2> QED
    BY <1>14, <2>1 DEF Msg, WireMessages, Notices
<1>16. Sends(<<m>>, {m}) /\ OneAnswer(<<m>>)
  BY <1>15, SendsFew
<1>17. Notified(<<m>>)
  <2>1. \A u \in Users' : u \in DOMAIN thread
    BY <1>13 DEF Users
  <2>2. \A j \in DOMAIN thread' : thread'[j].ask = "closed" => j \in DOMAIN thread /\ thread[j].ask = "closed"
    BY <1>12
  <2>3. \A j \in DOMAIN thread : thread[j].ask = "open" => thread'[j].ask = "open"
    BY <1>12
  <2>4. m.id \in DOMAIN thread' /\ thread'[m.id].ver = 2
    BY <1>4, <1>5, <1>8, <1>10, <1>12, <1>15
  <2> QED
    BY <1>2, <1>14, <1>15, <1>16, <2>1, <2>2, <2>3, <2>4, SetSent
<1>18. status' \in {"idle", "active", "systemError"} /\ decisions' \in [Ids -> {"none", "sent", "applied"}]
      /\ \A j \in Ids : decisions[j] = "none" => decisions'[j] = "none"
  BY <1>1, <1>3 DEF TypeOK
<1>19. \A y \in {m} : y.t # "answer"
  BY <1>15
<1> QED
  BY <1>3, <1>13, <1>16, <1>17, <1>18, <1>19, QuietKept

\* The items of a set, one after the other.
Longer(S, s, n) == IF n \in S THEN Append(s, n) ELSE s
LEMMA InOrderIs ==
  ASSUME NEW S, Len(thread) \in Nat
  PROVE  \E g : /\ g[0] = <<>> /\ \A n \in 1..Len(thread) : g[n] = Longer(S, g[n - 1], n)
                /\ InOrder(S) = g[Len(thread)]
<1> DEFINE N == Len(thread)
           Is(g, k) == g = [n \in 0..k |-> IF n = 0 THEN <<>> ELSE Longer(S, g[n - 1], n)]
           T == {k \in 0..N : \E g : Is(g, k)}
<1>1. 0 \in T
  <2> DEFINE g == [n \in 0..0 |-> <<>>]
  <2>1. Is(g, 0)
    OBVIOUS
  <2> HIDE DEF g, Is
  <2> QED
    BY <2>1
<1>2. ASSUME NEW k \in 1..N, k - 1 \in T PROVE k \in T
  <2>1. PICK f : Is(f, k - 1)
    BY <1>2
  <2> DEFINE g == [n \in 0..k |-> IF n = k THEN Longer(S, f[k - 1], k) ELSE f[n]]
  <2>2. g[k] = Longer(S, f[k - 1], k) /\ \A n \in 0..(k - 1) : g[n] = f[n]
    OBVIOUS
  <2>3. \A n \in 0..(k - 1) : f[n] = IF n = 0 THEN <<>> ELSE Longer(S, f[n - 1], n)
    BY <2>1
  <2>4. DOMAIN g = 0..k /\ g = [n \in 0..k |-> g[n]]
    OBVIOUS
  <2> HIDE DEF g
  <2>5. \A n \in 0..k : g[n] = IF n = 0 THEN <<>> ELSE Longer(S, g[n - 1], n)
    <3> SUFFICES ASSUME NEW n \in 0..k PROVE g[n] = IF n = 0 THEN <<>> ELSE Longer(S, g[n - 1], n)
      OBVIOUS
    <3>1. CASE n = k
      <4>1. n # 0 /\ n - 1 \in 0..(k - 1)
        BY <3>1
      <4> QED
        BY <2>2, <3>1, <4>1
    <3>2. CASE n # k
      <4>1. n \in 0..(k - 1) /\ (n = 0 \/ n - 1 \in 0..(k - 1))
        BY <3>2
      <4> QED
        BY <2>2, <2>3, <4>1
    <3> QED
      BY <3>1, <3>2
  <2>6. Is(g, k)
    BY <2>4, <2>5
  <2> HIDE DEF Is
  <2> QED
    BY <2>6
<1>3. N \in T
  <2> HIDE DEF T, N
  <2>1. N \in Nat
    BY DEF N
  <2>2. \A n \in 0..N : n \in T
    BY <1>1, <1>2, <2>1, UpTo
  <2> QED
    BY <2>1, <2>2
<1>4. PICK f : Is(f, N)
  BY <1>3
<1>5. Is(CHOOSE g : Is(g, N), N)
  BY <1>4, Zenon
<1> DEFINE after == CHOOSE g : Is(g, N)
<1>6. InOrder(S) = after[N]
  BY Zenon DEF InOrder, Longer
<1> HIDE DEF after
<1>7. after = [n \in 0..N |-> IF n = 0 THEN <<>> ELSE Longer(S, after[n - 1], n)]
  BY <1>5 DEF after
<1>8. after[0] = <<>> /\ \A n \in 1..N : after[n] = Longer(S, after[n - 1], n)
  BY <1>7
<1> QED
  BY <1>6, <1>8

LEMMA InOrderHolds ==
  ASSUME NEW S, Len(thread) \in Nat, NEW s, s = InOrder(S)
  PROVE  /\ s \in Seq(Nat) /\ \A k \in DOMAIN s : s[k] \in S /\ s[k] \in 1..Len(thread)
         /\ \A i \in S : i \in 1..Len(thread) => \E k \in DOMAIN s : s[k] = i
         /\ \A j, k \in DOMAIN s : j < k => s[j] < s[k]
<1>1. PICK g : /\ g[0] = <<>> /\ \A n \in 1..Len(thread) : g[n] = Longer(S, g[n - 1], n)
               /\ s = g[Len(thread)]
  BY InOrderIs
<1>2. PICK N : N = Len(thread) /\ N \in Nat
  OBVIOUS
<1> DEFINE Is(n) == /\ g[n] \in Seq(Nat) /\ \A k \in DOMAIN g[n] : g[n][k] \in S /\ g[n][k] \in 1..n
                    /\ \A i \in S : i \in 1..n => \E k \in DOMAIN g[n] : g[n][k] = i
                    /\ \A j, k \in DOMAIN g[n] : j < k => g[n][j] < g[n][k]
           T == {n \in 0..N : Is(n)}
<1>3. 0 \in T
  <2>1. PICK a : a = g[0]
    OBVIOUS
  <2>2. a = <<>>
    BY <1>1, <2>1
  <2>3. a \in Seq(Nat) /\ DOMAIN a = {}
    BY <2>2
  <2>4. Is(0)
    BY <2>1, <2>3
  <2> QED
    BY <1>2, <2>4
<1>4. ASSUME NEW n \in 1..N, n - 1 \in T PROVE n \in T
  <2>1. PICK a, b : a = g[n - 1] /\ b = g[n]
    OBVIOUS
  <2>2. /\ a \in Seq(Nat) /\ \A k \in DOMAIN a : a[k] \in S /\ a[k] \in 1..(n - 1)
        /\ \A i \in S : i \in 1..(n - 1) => \E k \in DOMAIN a : a[k] = i
        /\ \A j, k \in DOMAIN a : j < k => a[j] < a[k]
    BY <1>4, <2>1
  <2>3. b = IF n \in S THEN Append(a, n) ELSE a
    BY <1>1, <1>2, <2>1 DEF Longer
  <2>4. n \in Nat /\ (\A i \in 1..(n - 1) : i \in 1..n /\ i < n) /\ \A i \in 1..n : i \in 1..(n - 1) \/ i = n
    BY <1>2
  <2>5. /\ b \in Seq(Nat) /\ \A k \in DOMAIN b : b[k] \in S /\ b[k] \in 1..n
        /\ \A i \in S : i \in 1..n => \E k \in DOMAIN b : b[k] = i
        /\ \A j, k \in DOMAIN b : j < k => b[j] < b[k]
    <3>1. CASE n \notin S
      BY <2>2, <2>3, <2>4, <3>1
    <3>2. CASE n \in S
      <4>1. b = Append(a, n)
        BY <2>3, <3>2
      <4>2. /\ b \in Seq(Nat) /\ Len(a) \in Nat /\ DOMAIN a = 1..Len(a) /\ DOMAIN b = 1..(Len(a) + 1)
            /\ b[Len(a) + 1] = n /\ \A k \in 1..Len(a) : b[k] = a[k]
        BY <2>2, <2>4, <4>1
      <4>3. \A k \in DOMAIN b : k \in DOMAIN a \/ k = Len(a) + 1
        BY <4>2
      <4>4. \A k \in DOMAIN b : b[k] \in S /\ b[k] \in 1..n
        <5> SUFFICES ASSUME NEW k \in DOMAIN b PROVE b[k] \in S /\ b[k] \in 1..n
          OBVIOUS
        <5>1. CASE k \in DOMAIN a
          BY <2>2, <2>4, <4>2, <5>1
        <5>2. CASE k = Len(a) + 1
          BY <1>2, <3>2, <4>2, <5>2
        <5> QED
          BY <4>3, <5>1, <5>2
      <4>5. \A i \in S : i \in 1..n => \E k \in DOMAIN b : b[k] = i
        <5> SUFFICES ASSUME NEW i \in S, i \in 1..n PROVE \E k \in DOMAIN b : b[k] = i
          OBVIOUS
        <5>1. CASE i = n
          <6>1. Len(a) + 1 \in DOMAIN b
            BY <4>2
          <6> QED
            BY <4>2, <5>1, <6>1
        <5>2. CASE i # n
          <6>1. PICK k \in DOMAIN a : a[k] = i
            BY <2>2, <2>4, <5>2
          <6>2. k \in DOMAIN b
            BY <4>2
          <6> QED
            BY <4>2, <6>1, <6>2
        <5> QED
          BY <5>1, <5>2
      <4>6. \A j, k \in DOMAIN b : j < k => b[j] < b[k]
        <5> SUFFICES ASSUME NEW j \in DOMAIN b, NEW k \in DOMAIN b, j < k PROVE b[j] < b[k]
          OBVIOUS
        <5>1. j \in DOMAIN a
          BY <4>2
        <5>2. b[j] = a[j]
          BY <4>2, <5>1
        <5>3. CASE k \in DOMAIN a
          <6>1. b[k] = a[k] /\ a[j] < a[k]
            BY <2>2, <4>2, <5>1, <5>3
          <6> QED
            BY <5>2, <6>1
        <5>4. CASE k = Len(a) + 1
          <6>1. b[k] = n /\ a[j] < n
            BY <2>2, <2>4, <4>2, <5>1, <5>4
          <6> QED
            BY <5>2, <6>1
        <5> QED
          BY <4>3, <5>3, <5>4
      <4> QED
        BY <4>2, <4>4, <4>5, <4>6
    <3> QED
      BY <3>1, <3>2
  <2>6. Is(n)
    BY <2>1, <2>5
  <2> QED
    BY <2>6
<1>5. Is(N)
  <2> HIDE DEF T
  <2>1. \A n \in 0..N : n \in T
    BY <1>2, <1>3, <1>4, UpTo
  <2>2. N \in T
    BY <1>2, <2>1
  <2> QED
    BY <2>2 DEF T
<1>6. s = g[N]
  BY <1>1, <1>2
<1> QED
  BY <1>2, <1>5, <1>6

LEMMA EachSends ==
  ASSUME NEW S, Len(thread) \in Nat, \A i \in S : i \in 1..Len(thread), NEW t \in Notices
  PROVE  Sends(Each(t, S), {Msg(t, i) : i \in S}) /\ NoAnswer(Each(t, S))
<1>1. PICK s, e : s = InOrder(S) /\ e = Each(t, S)
  OBVIOUS
<1>2. s \in Seq(Nat) /\ (\A k \in DOMAIN s : s[k] \in S /\ s[k] \in Nat) /\ \A i \in S : \E k \in DOMAIN s : s[k] = i
  <2>1. s \in Seq(Nat) /\ (\A k \in DOMAIN s : s[k] \in S) /\ \A i \in S : \E k \in DOMAIN s : s[k] = i
    BY <1>1, InOrderHolds
  <2> QED
    BY <2>1
<1>3. e = [k \in DOMAIN s |-> Msg(t, s[k])]
  BY <1>1 DEF Each
<1>4. \A i \in Nat : Msg(t, i) \in WireMessages /\ Msg(t, i).t # "answer"
  BY DEF Msg, WireMessages, Notices
<1>5. e \in Seq(WireMessages)
  <2>1. DOMAIN s = 1..Len(s) /\ Len(s) \in Nat
    BY <1>2
  <2>2. e \in [1..Len(s) -> WireMessages]
    BY <1>2, <1>3, <1>4, <2>1
  <2> QED
    BY <2>1, <2>2, SeqDef
<1>6. NoAnswer(e)
  BY <1>2, <1>3, <1>4 DEF NoAnswer
<1>7. \A m : In(m, e) <=> m \in {Msg(t, i) : i \in S}
  BY <1>2, <1>3 DEF In
<1> QED
  BY <1>1, <1>5, <1>6, <1>7 DEF Sends

\* The thread stays as it is; its turn may end.
LEMMA StillGrows ==
  ASSUME CodexInv, UNCHANGED <<thread, turn, mode>>, status' = "active" => status = "active"
  PROVE  Grown /\ ThreadOK' /\ Users' = Users
<1>1. TypeOK /\ ThreadOK
  BY DEF CodexInv
<1>2. thread' \in Seq(Items)
  BY <1>1 DEF TypeOK
<1> QED
  BY <1>1, <1>2, TouchGrows

LEMMA StillSent ==
  ASSUME CodexInv, UNCHANGED thread, NEW msgs, NEW M, Sends(msgs, M), Emit(msgs),
         \A m \in M : \/ m.t \in {"answer", "active", "idle", "systemError"}
                      \/ m.t = "request" /\ m.id \in DOMAIN thread /\ thread[m.id].ask = "open"
                      \/ m.t = "turn" /\ m.id \in 1..turn' /\ (m.id < turn' \/ (m.id = turn' /\ status' # "active"))
  PROVE  Notified(msgs)
<1>1. \A m \in M :
            /\ m.t \in {"started", "completed", "request", "resolved"} => m.id \in DOMAIN thread'
            /\ m.t # "completed"
            /\ m.t = "request" => thread'[m.id].ask = "open"
            /\ m.t = "turn" => m.id \in 1..turn' /\ (m.id < turn' \/ (m.id = turn' /\ status' # "active"))
  <2> SUFFICES ASSUME NEW m \in M PROVE 
            /\ m.t \in {"started", "completed", "request", "resolved"} => m.id \in DOMAIN thread'
            /\ m.t # "completed"
            /\ m.t = "request" => thread'[m.id].ask = "open"
            /\ m.t = "turn" => m.id \in 1..turn' /\ (m.id < turn' \/ (m.id = turn' /\ status' # "active"))
    OBVIOUS
  <2>1. CASE m.t \in {"answer", "active", "idle", "systemError"}
    BY <2>1
  <2>2. CASE m.t = "request" /\ m.id \in DOMAIN thread /\ thread[m.id].ask = "open"
    BY <2>2
  <2>3. CASE m.t = "turn" /\ m.id \in 1..turn' /\ (m.id < turn' \/ (m.id = turn' /\ status' # "active"))
    BY <2>3
  <2> QED
    BY <2>1, <2>2, <2>3
<1>2. \A u \in Users' : u \in DOMAIN thread
  BY DEF Users
<1> QED
  BY <1>1, <1>2, SetSent

LEMMA ApplyDecisionKept ==
  ASSUME CodexInv, ApplyDecision
  PROVE  CodexInv'
<1>1. TypeOK
  BY DEF CodexInv
<1>2. PICK i \in DOMAIN thread :
        /\ decisions[i] = "sent" /\ decisions' = [decisions EXCEPT ![i] = "applied"]
        /\ IF thread[i].ask = "open" THEN Resolve(i) ELSE UNCHANGED <<native, wire>>
  BY DEF ApplyDecision
<1>3. UNCHANGED <<client, reading, phase, gate, proj, inbound, over, posted, writer>>
  BY DEF ApplyDecision, Companion, ghosts
<1>4. decisions' \in [Ids -> {"none", "sent", "applied"}] /\ \A j \in Ids : decisions[j] = "none" => decisions'[j] = "none"
  <2>1. decisions \in [Ids -> {"none", "sent", "applied"}]
    BY <1>1 DEF TypeOK
  <2>2. PICK d, e : d = decisions /\ e = decisions'
    OBVIOUS
  <2>3. d \in [Ids -> {"none", "sent", "applied"}] /\ e = [d EXCEPT ![i] = "applied"] /\ d[i] = "sent"
    BY <1>2, <2>1, <2>2
  <2>4. e \in [Ids -> {"none", "sent", "applied"}] /\ \A j \in Ids : j # i => e[j] = d[j]
    BY <2>3
  <2> QED
    BY <2>2, <2>3, <2>4
<1>5. CASE thread[i].ask = "open"
  <2>1. Resolve(i) /\ status' = status
    BY <1>2, <1>5 DEF Resolve
  <2>2. PICK m : m = Msg("resolved", i)
    OBVIOUS
  <2>3. Sends(<<m>>, {m}) /\ OneAnswer(<<m>>) /\ Notified(<<m>>) /\ Grown /\ ThreadOK' /\ Users' = Users /\ m.t # "answer"
    BY <2>1, <2>2, ResolveGrows
  <2>4. status' \in {"idle", "active", "systemError"}
    BY <1>1, <2>1 DEF TypeOK
  <2> QED
    BY <1>3, <1>4, <2>3, <2>4, QuietKept
<1>6. CASE thread[i].ask # "open"
  <2>1. UNCHANGED <<thread, turn, status, mode>> /\ wire' = wire
    BY <1>2, <1>6 DEF native
  <2>2. Emit(<<>>)
    <3>1. wire \in Seq(WireMessages)
      BY <1>1 DEF TypeOK
    <3>2. wire \o <<>> = wire
      BY <3>1
    <3> QED
      BY <2>1, <3>2 DEF Emit
  <2>3. Notified(<<>>)
    BY <2>1, <2>2, SendsNone, StillSent
  <2>4. status' \in {"idle", "active", "systemError"}
    BY <1>1, <2>1 DEF TypeOK
  <2> QED
    BY <1>3, <1>4, <2>1, <2>3, <2>4, SendsNone, StillGrows, QuietKept
<1> QED
  BY <1>5, <1>6

LEMMA EndTurnKept ==
  ASSUME CodexInv, EndTurn
  PROVE  CodexInv'
<1>1. TypeOK /\ ThreadOK
  BY DEF CodexInv
<1>2. PICK a, b : a = Msg("turn", turn) /\ b = Msg("idle", 0)
  OBVIOUS
<1>3. /\ status = "active" /\ status' = "idle" /\ Emit(<<a, b>>) /\ UNCHANGED <<thread, turn, mode, decisions>>
      /\ UNCHANGED <<client, reading, phase, gate, proj, inbound, over, posted, writer>>
  BY <1>2 DEF EndTurn, Companion, ghosts
<1>4. turn \in Nat /\ turn \in 1..turn
  <2>1. \E u \in Users : thread[u].turn = turn
    BY <1>1, <1>3 DEF ThreadOK
  <2> QED
    BY <1>1, <2>1 DEF ThreadOK, Users, TypeOK
<1>5. a \in WireMessages /\ b \in WireMessages /\ a.t = "turn" /\ a.id = turn /\ b.t = "idle"
  BY <1>2, <1>4 DEF Msg, WireMessages, Notices
<1>6. Sends(<<a, b>>, {a, b}) /\ NoAnswer(<<a, b>>)
  BY <1>5, SendsFew
<1>7. OneAnswer(<<a, b>>)
  BY <1>6 DEF OneAnswer, NoAnswer
<1>8. Notified(<<a, b>>)
  <2>1. \A m \in {a, b} : m.t \in {"answer", "active", "idle", "systemError"} \/
            (m.t = "turn" /\ m.id \in 1..turn' /\ (m.id < turn' \/ (m.id = turn' /\ status' # "active")))
    BY <1>3, <1>4, <1>5
  <2> QED
    BY <1>3, <1>6, <2>1, StillSent
<1>9. \A m \in {a, b} : m.t # "answer"
  BY <1>5
<1>10. /\ status' \in {"idle", "active", "systemError"} /\ decisions' \in [Ids -> {"none", "sent", "applied"}]
       /\ \A i \in Ids : decisions[i] = "none" => decisions'[i] = "none"
  BY <1>1, <1>3 DEF TypeOK
<1>11. Grown /\ ThreadOK' /\ Users' = Users
  BY <1>3, StillGrows
<1> QED
  BY <1>3, <1>6, <1>7, <1>8, <1>9, <1>10, <1>11, QuietKept

LEMMA ReplayRequestKept ==
  ASSUME CodexInv, ReplayRequest
  PROVE  CodexInv'
<1>1. TypeOK
  BY DEF CodexInv
<1>2. PICK i \in DOMAIN thread : thread[i].ask = "open" /\ Emit(<<Msg("request", i)>>)
  BY DEF ReplayRequest
<1>3. PICK m : m = Msg("request", i)
  OBVIOUS
<1>4. /\ UNCHANGED <<thread, turn, status, mode, decisions>>
      /\ UNCHANGED <<client, reading, phase, gate, proj, inbound, over, posted, writer>>
  BY DEF ReplayRequest, Companion, native
<1>5. m \in WireMessages /\ m.t = "request" /\ m.id = i
  <2>1. i \in Nat
    BY <1>1 DEF TypeOK
  <2> QED
    BY <1>3, <2>1 DEF Msg, WireMessages, Notices
<1>6. Sends(<<m>>, {m}) /\ OneAnswer(<<m>>)
  BY <1>5, SendsFew
<1>7. Notified(<<m>>)
  BY <1>2, <1>3, <1>4, <1>5, <1>6, StillSent
<1>8. /\ status' \in {"idle", "active", "systemError"} /\ decisions' \in [Ids -> {"none", "sent", "applied"}]
      /\ (\A j \in Ids : decisions[j] = "none" => decisions'[j] = "none") /\ \A y \in {m} : y.t # "answer"
  BY <1>1, <1>4, <1>5 DEF TypeOK
<1>9. Grown /\ ThreadOK' /\ Users' = Users
  BY <1>4, StillGrows
<1> QED
  BY <1>4, <1>6, <1>7, <1>8, <1>9, QuietKept

LEMMA CutTurnKept ==
  ASSUME CodexInv, NEW first, NEW F, NEW last \in {"idle", "systemError"}, CutTurn(first, last), status' = last,
         Sends(first, F), OneAnswer(first), \A m \in F : m.t = "answer" /\ m.id = "stop",
         UNCHANGED <<client, reading, phase, gate, proj, inbound, over, posted, writer>>, UNCHANGED decisions
  PROVE  CodexInv'
<1>1. TypeOK /\ ThreadOK
  BY DEF CodexInv
<1>2. PICK s, t : s = thread /\ t = thread'
  OBVIOUS
<1>3. PICK P, C : P = Pending /\ C = {i \in DOMAIN s : s[i].turn = turn /\ s[i].ask # "none"}
  OBVIOUS
<1>4. /\ status = "active" /\ UNCHANGED <<turn, mode>>
      /\ t = [i \in DOMAIN s |-> IF i \in C THEN [s[i] EXCEPT !.ask = "closed"] ELSE s[i]]
      /\ P = {i \in DOMAIN s : s[i].ask = "open"}
  BY <1>2, <1>3 DEF CutTurn, Pending
<1>5. s \in Seq(Items) /\ DOMAIN s = 1..Len(s) /\ Len(s) \in Nat /\ turn \in Nat /\ turn \in 1..turn
  <2>1. \E u \in Users : thread[u].turn = turn
    BY <1>1, <1>4 DEF ThreadOK
  <2>2. turn \in Nat /\ turn \in 1..turn
    BY <1>1, <2>1 DEF ThreadOK, Users, TypeOK
  <2>3. s \in Seq(Items)
    BY <1>1, <1>2 DEF TypeOK
  <2> QED
    BY <2>2, <2>3
<1>6. DOMAIN t = DOMAIN s /\ \A i \in DOMAIN s :
         /\ t[i] \in Items /\ t[i].turn = s[i].turn /\ t[i].kind = s[i].kind /\ t[i].of = s[i].of /\ t[i].ver = s[i].ver
         /\ t[i].ask = (IF i \in C THEN "closed" ELSE s[i].ask)
  <2>1. DOMAIN t = DOMAIN s
    BY <1>4
  <2> SUFFICES ASSUME NEW i \in DOMAIN s PROVE
         /\ t[i] \in Items /\ t[i].turn = s[i].turn /\ t[i].kind = s[i].kind /\ t[i].of = s[i].of /\ t[i].ver = s[i].ver
         /\ t[i].ask = (IF i \in C THEN "closed" ELSE s[i].ask)
    BY <2>1
  <2>2. PICK x : x = s[i]
    OBVIOUS
  <2>3. x \in Items
    BY <1>5, <2>2
  <2>4. t[i] = IF i \in C THEN [x EXCEPT !.ask = "closed"] ELSE x
    BY <1>4, <2>2
  <2> QED
    BY <2>2, <2>3, <2>4 DEF Items
<1>7. t \in Seq(Items)
  <2>1. t \in [1..Len(s) -> Items]
    BY <1>4, <1>5, <1>6
  <2> QED
    BY <1>5, <2>1, SeqDef
<1>8. Grown /\ ThreadOK' /\ Users' = Users
  <2>1. \A i \in DOMAIN thread : thread[i].ask # "none" => thread'[i].ask # "none"
    BY <1>2, <1>6
  <2>2. status' # "active"
    OBVIOUS
  <2> QED
    BY <1>1, <1>2, <1>4, <1>6, <1>7, <2>1, <2>2, TouchGrows
<1>9. PICK each, E : each = Each("resolved", P) /\ E = {Msg("resolved", i) : i \in P}
  OBVIOUS
<1>10. Sends(each, E) /\ NoAnswer(each)
  <2>1. Len(thread) \in Nat /\ (\A i \in P : i \in 1..Len(thread)) /\ "resolved" \in Notices
    BY <1>2, <1>4, <1>5 DEF Notices
  <2> QED
    BY <1>9, <2>1, EachSends
<1>11. PICK a, b : a = Msg("turn", turn) /\ b = Msg(last, 0)
  OBVIOUS
<1>12. a \in WireMessages /\ b \in WireMessages /\ a.t = "turn" /\ a.id = turn /\ b.t = last /\ b.t # "answer"
  BY <1>5, <1>11 DEF Msg, WireMessages, Notices
<1>13. Sends(<<a, b>>, {a, b}) /\ NoAnswer(<<a, b>>)
  BY <1>12, SendsFew
<1>14. PICK one, msgs, M : one = first \o each /\ msgs = one \o <<a, b>> /\ M = F \union E \union {a, b}
  OBVIOUS
<1>15. Sends(one, F \union E) /\ OneAnswer(one)
  BY <1>10, <1>14, SendsBoth
<1>16. Sends(msgs, M) /\ OneAnswer(msgs)
  BY <1>13, <1>14, <1>15, SendsBoth
<1>17. Emit(msgs)
  BY <1>3, <1>9, <1>11, <1>14 DEF CutTurn
<1>18. Notified(msgs)
  <2>1. ASSUME NEW m \in M
        PROVE  /\ m.t \in {"started", "completed", "request", "resolved"} => m.id \in DOMAIN thread'
               /\ m.t # "completed" /\ m.t # "request"
               /\ m.t = "turn" => m.id \in 1..turn' /\ (m.id < turn' \/ (m.id = turn' /\ status' # "active"))
    <3>1. CASE m \in F
      BY <3>1
    <3>2. CASE m \in E
      <4>1. PICK i \in P : m = Msg("resolved", i)
        BY <1>9, <3>2
      <4>2. m.t = "resolved" /\ m.id \in DOMAIN thread'
        BY <1>2, <1>4, <1>6, <4>1 DEF Msg
      <4> QED
        BY <4>2
    <3>3. CASE m = a
      BY <1>4, <1>5, <1>12, <3>3
    <3>4. CASE m = b
      BY <1>12, <3>4
    <3> QED
      BY <1>14, <3>1, <3>2, <3>3, <3>4
  <2>2. \A u \in Users' : u \in DOMAIN thread
    BY <1>8 DEF Users
  <2>3. \A i \in P : Msg("resolved", i) \in M
    BY <1>9, <1>14
  <2>4. \A i \in DOMAIN s : s[i].ask \in {"none", "open", "closed"}
    <3> SUFFICES ASSUME NEW i \in DOMAIN s, NEW x, x = s[i] PROVE x.ask \in {"none", "open", "closed"}
      OBVIOUS
    <3>1. x \in Items
      BY <1>5
    <3> QED
      BY <3>1 DEF Items
  <2>5. \A i \in DOMAIN s : s[i].ask = "open" => Msg("resolved", i) \in M
    BY <1>4, <2>3
  <2>6. \A i \in DOMAIN s : t[i].ask = "closed" => s[i].ask = "closed" \/ Msg("resolved", i) \in M
    BY <1>3, <1>6, <2>4, <2>5
  <2> QED
    BY <1>2, <1>6, <1>16, <1>17, <2>1, <2>2, <2>5, <2>6, SetSent
<1>19. \A m \in M : m.t = "answer" => m.id = "stop"
  <2>1. \A m \in E : m.t # "answer"
    BY <1>9 DEF Msg
  <2> QED
    BY <1>12, <1>14, <2>1
<1>20. /\ status' \in {"idle", "active", "systemError"} /\ decisions' \in [Ids -> {"none", "sent", "applied"}]
       /\ \A i \in Ids : decisions[i] = "none" => decisions'[i] = "none"
  BY <1>1 DEF TypeOK
<1> QED
  BY <1>8, <1>16, <1>18, <1>19, <1>20, QuietKept

LEMMA FailTurnKept ==
  ASSUME CodexInv, FailTurn
  PROVE  CodexInv'
<1>1. CutTurn(<<>>, "systemError") /\ status' = "systemError"
      /\ UNCHANGED <<client, reading, phase, gate, proj, inbound, over, posted, writer>> /\ UNCHANGED decisions
  BY DEF FailTurn, Companion
<1> QED
  BY <1>1, SendsNone, CutTurnKept

LEMMA AnswerStopKept ==
  ASSUME CodexInv, AnswerStop
  PROVE  CodexInv'
<1>1. TypeOK
  BY DEF CodexInv
<1>2. PICK m : m = Msg("answer", "stop")
  OBVIOUS
<1>3. UNCHANGED <<client, reading, phase, gate, proj, inbound, over, posted, writer>> /\ UNCHANGED decisions
  BY DEF AnswerStop, ghosts
<1>4. m \in WireMessages /\ m.t = "answer" /\ m.id = "stop"
  BY <1>2 DEF Msg, WireMessages
<1>5. Sends(<<m>>, {m}) /\ OneAnswer(<<m>>)
  BY <1>4, SendsFew
<1>6. CASE status' = "idle" /\ CutTurn(<<m>>, "idle")
  BY <1>3, <1>4, <1>5, <1>6, CutTurnKept
<1>7. CASE Emit(<<m>>) /\ UNCHANGED native
  <2>1. UNCHANGED <<thread, turn, status, mode>>
    BY <1>7 DEF native
  <2>2. Notified(<<m>>)
    BY <1>4, <1>5, <1>7, <2>1, StillSent
  <2>3. /\ status' \in {"idle", "active", "systemError"} /\ decisions' \in [Ids -> {"none", "sent", "applied"}]
        /\ \A i \in Ids : decisions[i] = "none" => decisions'[i] = "none"
    BY <1>1, <1>3, <2>1 DEF TypeOK
  <2>4. Grown /\ ThreadOK' /\ Users' = Users
    BY <2>1, StillGrows
  <2> QED
    BY <1>3, <1>4, <1>5, <2>1, <2>2, <2>3, <2>4, QuietKept
<1> QED
  BY <1>2, <1>6, <1>7 DEF AnswerStop

\* A page is what is left of the history, up to one turn or one item.
Rest == IF mode = "legacy" THEN {t \in 1..turn : t > reading.pos}
        ELSE {i \in DOMAIN thread : i > reading.pos /\ (reading.turn # 0 => thread[i].turn = reading.turn)}
EntryOf(i) == [id |-> i, turn |-> thread[i].turn, ver |-> thread[i].ver, ended |-> Terminal(thread[i].turn)]
ItemsOf(k) == IF mode = "legacy" THEN InOrder({i \in DOMAIN thread : thread[i].turn = k}) ELSE <<k>>
EntriesOf(items) == [j \in DOMAIN items |-> EntryOf(items[j])]

LEMMA NextPageIs ==
  ASSUME TypeOK, NEW slice, slice = NextPage
  PROVE  /\ DOMAIN slice = {"got", "pos", "more"} /\ Rest \subseteq Nat \ {0} /\ slice.more \in BOOLEAN
         /\ Rest = {} => slice.got = <<>> /\ slice.pos = reading.pos /\ ~slice.more
         /\ Rest # {} => \E k \in Rest : \E items :
               /\ \A m \in Rest : k <= m
               /\ slice.pos = k /\ (slice.more <=> \E n \in Rest : n > k)
               /\ items = ItemsOf(k) /\ slice.got = EntriesOf(items)
<1> DEFINE rest == IF mode = "legacy" THEN {t \in 1..turn : t > reading.pos}
                   ELSE {i \in DOMAIN thread : i > reading.pos /\ (reading.turn # 0 => thread[i].turn = reading.turn)}
           k == CHOOSE n \in rest \union {0} : n # 0 /\ \A m \in rest : n <= m
           items == IF rest = {} THEN <<>>
                    ELSE IF mode = "legacy" THEN InOrder({i \in DOMAIN thread : thread[i].turn = k}) ELSE <<k>>
<1>1. slice = [got |-> [j \in DOMAIN items |-> EntryOf(items[j])], pos |-> IF rest = {} THEN reading.pos ELSE k,
              more |-> \E n \in rest : n > k]
  BY DEF NextPage, EntryOf
<1>2. rest = Rest
  BY DEF Rest
<1> DEFINE P(n) == n # 0 /\ \A m \in rest : n <= m
<1>3. k = CHOOSE n \in rest \union {0} : P(n)
  OBVIOUS
<1>4. items = IF rest = {} THEN <<>> ELSE ItemsOf(k)
  BY DEF ItemsOf
<1> HIDE DEF k, items, rest
<1>5. reading.pos \in Nat /\ turn \in Nat /\ DOMAIN thread \subseteq Nat
  BY DEF TypeOK
<1>6. rest \subseteq Nat \ {0}
  <2>1. CASE mode = "legacy"
    BY <1>2, <1>5, <2>1 DEF Rest
  <2>2. CASE mode # "legacy"
    <3>1. \A i \in rest : i \in Nat /\ i > reading.pos
      BY <1>2, <1>5, <2>2 DEF Rest
    <3> QED
      BY <1>5, <3>1
  <2> QED
    BY <2>1, <2>2
<1>7. /\ DOMAIN slice = {"got", "pos", "more"} /\ slice.got = [j \in DOMAIN items |-> EntryOf(items[j])]
      /\ slice.pos = (IF rest = {} THEN reading.pos ELSE k) /\ (slice.more <=> \E n \in rest : n > k)
      /\ slice.more \in BOOLEAN
  BY <1>1
<1>8. CASE rest = {}
  <2>1. items = <<>>
    BY <1>4, <1>8
  <2>2. slice.got = <<>>
    BY <1>7, <2>1
  <2> QED
    BY <1>2, <1>7, <1>8, <2>2
<1>9. CASE rest # {}
  <2>1. PICK x \in rest : \A m \in rest : x <= m
    BY <1>6, <1>9, LeastNatural
  <2>2. x \in rest \union {0} /\ P(x)
    BY <1>6, <2>1
  <2>3. k \in rest \union {0} /\ P(k)
    BY <1>3, <2>2, Zenon
  <2>4. k \in rest /\ \A m \in rest : k <= m
    BY <2>3
  <2>5. items = ItemsOf(k)
    BY <1>4, <1>9
  <2> QED
    BY <1>2, <1>6, <1>7, <1>9, <2>4, <2>5 DEF EntriesOf
<1> QED
  BY <1>2, <1>6, <1>7, <1>8, <1>9

\* What a page holds, entry by entry.
LEMMA PageEntries ==
  ASSUME CodexInv, reading.step = "page", reading.at = "sent", NEW slice, slice = NextPage
  PROVE  /\ slice.got \in Seq(Entries) /\ slice.pos \in Nat /\ slice.more \in BOOLEAN
         /\ mode = "paginated" => slice.pos <= Len(thread)
         /\ Rest # {} => \E k \in Rest : \E items \in Seq(Nat) :
               /\ items = ItemsOf(k) /\ slice.pos = k /\ (\A m \in Rest : k <= m) /\ (slice.more <=> \E n \in Rest : n > k)
               /\ DOMAIN slice.got = DOMAIN items
               /\ \A j \in DOMAIN items : items[j] \in DOMAIN thread /\ slice.got[j] = EntryOf(items[j])
         /\ Rest = {} => slice.got = <<>> /\ slice.pos = reading.pos
<1>1. TypeOK /\ ThreadOK /\ ReadingOK
  BY DEF CodexInv
<1>2. /\ Len(thread) \in Nat /\ DOMAIN thread = 1..Len(thread) /\ turn \in Nat /\ reading.pos \in Nat
      /\ \A i \in DOMAIN thread : thread[i].turn \in Nat /\ thread[i].ver \in {1, 2}
  <2>1. turn \in Nat /\ reading.pos \in Nat /\ thread \in Seq(Items)
    BY <1>1 DEF TypeOK
  <2> QED
    BY <1>1, <2>1, ThreadTyped
<1>3. \A i \in DOMAIN thread : EntryOf(i) \in Entries
  <2> SUFFICES ASSUME NEW i \in DOMAIN thread PROVE EntryOf(i) \in Entries
    OBVIOUS
  <2>1. Terminal(thread[i].turn) \in BOOLEAN
    BY DEF Terminal
  <2>2. i \in Nat /\ thread[i].turn \in Nat /\ thread[i].ver \in {1, 2}
    BY <1>2
  <2> QED
    BY <2>1, <2>2 DEF EntryOf, Entries
<1>4. /\ Rest \subseteq Nat \ {0} /\ slice.more \in BOOLEAN
      /\ Rest = {} => slice.got = <<>> /\ slice.pos = reading.pos
  BY <1>1, NextPageIs
<1>5. Rest # {} => \E k \in Rest : \E items :
               /\ \A m \in Rest : k <= m
               /\ slice.pos = k /\ (slice.more <=> \E n \in Rest : n > k)
               /\ items = ItemsOf(k) /\ slice.got = EntriesOf(items)
  BY <1>1, NextPageIs
<1>6. CASE Rest = {}
  <2>1. slice.got = <<>> /\ slice.pos = reading.pos
    BY <1>4, <1>6
  <2>2. mode = "paginated" => reading.pos <= Len(thread)
    BY <1>1 DEF ReadingOK
  <2>3. slice.got \in Seq(Entries)
    BY <2>1
  <2> QED
    BY <1>2, <1>4, <1>6, <2>1, <2>2, <2>3
<1>7. CASE Rest # {}
  <2>1. PICK k, items :
               /\ k \in Rest /\ \A m \in Rest : k <= m
               /\ slice.pos = k /\ (slice.more <=> \E n \in Rest : n > k)
               /\ items = ItemsOf(k) /\ slice.got = EntriesOf(items)
    BY <1>5, <1>7
  <2>2. k \in Nat
    BY <1>4, <2>1
  <2>3. items \in Seq(Nat) /\ \A j \in DOMAIN items : items[j] \in DOMAIN thread
    <3>1. CASE mode = "legacy"
      <4>1. items = InOrder({i \in DOMAIN thread : thread[i].turn = k})
        BY <2>1, <3>1 DEF ItemsOf
      <4> QED
        BY <1>2, <4>1, InOrderHolds
    <3>2. CASE mode # "legacy"
      <4>1. items = <<k>> /\ k \in DOMAIN thread
        BY <2>1, <3>2 DEF ItemsOf, Rest
      <4>2. items \in Seq(Nat) /\ DOMAIN items = {1} /\ items[1] = k
        BY <2>2, <4>1
      <4> QED
        BY <4>1, <4>2
    <3> QED
      BY <3>1, <3>2
  <2>4. DOMAIN slice.got = DOMAIN items /\ \A j \in DOMAIN items : slice.got[j] = EntryOf(items[j])
    BY <2>1 DEF EntriesOf
  <2>5. slice.got \in Seq(Entries)
    <3>1. DOMAIN items = 1..Len(items) /\ Len(items) \in Nat
      BY <2>3
    <3>2. slice.got \in [1..Len(items) -> Entries]
      BY <1>3, <2>1, <2>3, <3>1 DEF EntriesOf
    <3> QED
      BY <3>1, <3>2, SeqDef
  <2>6. mode = "paginated" => k <= Len(thread)
    <3> SUFFICES ASSUME mode = "paginated" PROVE k <= Len(thread)
      OBVIOUS
    <3>1. k \in DOMAIN thread
      BY <2>1 DEF Rest
    <3> QED
      BY <1>2, <3>1
  <2> QED
    BY <1>4, <1>7, <2>1, <2>2, <2>3, <2>4, <2>5, <2>6
<1> QED
  BY <1>6, <1>7

LEMMA PageHolds ==
  ASSUME CodexInv, reading.step = "page", reading.at = "sent", NEW slice, slice = NextPage
  PROVE  /\ \A j \in DOMAIN slice.got : LET e == slice.got[j] IN
            /\ e.id \in DOMAIN thread /\ e.turn = thread[e.id].turn /\ e.ver = thread[e.id].ver
            /\ Final(e) => Terminal(e.turn)
            /\ e.turn = reading.turn => Final(e)
            /\ e.id \in Replies => \E u \in Users :
                  Leads(u, e.id) /\ (proj.seen[u] # 0 \/ \E i \in 1..(j - 1) : slice.got[i].id = u)
         /\ mode = "paginated" => \A u \in Users :
               u <= slice.pos /\ (reading.turn # 0 => thread[u].turn = reading.turn)
                  => proj.seen[u] # 0 \/ \E j \in DOMAIN slice.got : slice.got[j].id = u
         /\ \A u \in Users : Beyond(u) /\ reading.turn = 0 =>
               \/ \E j \in DOMAIN slice.got : slice.got[j].id = u
               \/ slice.more /\ (IF mode = "legacy" THEN thread[u].turn > slice.pos ELSE u > slice.pos)
<1>1. TypeOK /\ ThreadOK /\ ReadingOK /\ PageOK
  BY DEF CodexInv
<1>2. /\ Len(thread) \in Nat /\ DOMAIN thread = 1..Len(thread) /\ turn \in Nat /\ reading.pos \in Nat
      /\ (\A i \in DOMAIN thread : thread[i].turn \in 1..turn) /\ reading.turn \in Nat
      /\ Users \subseteq DOMAIN thread /\ Replies \subseteq DOMAIN thread
  <2>1. turn \in Nat /\ reading.pos \in Nat /\ thread \in Seq(Items) /\ reading.turn \in Nat
    BY <1>1 DEF TypeOK
  <2> QED
    BY <1>1, <2>1, ThreadTyped DEF ThreadOK
<1>3. mode \in {"paginated", "legacy"}
  BY <1>1 DEF TypeOK
<1>4. /\ Rest # {} => \E k \in Rest : \E items \in Seq(Nat) :
               /\ items = ItemsOf(k) /\ slice.pos = k /\ (\A m \in Rest : k <= m) /\ (slice.more <=> \E n \in Rest : n > k)
               /\ DOMAIN slice.got = DOMAIN items
               /\ \A j \in DOMAIN items : items[j] \in DOMAIN thread /\ slice.got[j] = EntryOf(items[j])
      /\ Rest = {} => slice.got = <<>> /\ slice.pos = reading.pos
  BY PageEntries
<1>5. /\ reading.turn # 0 => Terminal(reading.turn)
      /\ \A t \in reading.terminal : Terminal(t)
      /\ mode = "paginated" => \A u \in Users : u <= reading.pos /\ (reading.turn # 0 => thread[u].turn = reading.turn)
             => proj.seen[u] # 0
      /\ \A i \in Replies : \E u \in Users : Leads(u, i)
  BY <1>1 DEF ReadingOK, PageOK, PageHere, ThreadOK
<1>6. mode = "legacy" => Rest = {t \in 1..turn : t > reading.pos}
  BY DEF Rest
<1>7. mode = "paginated" =>
         Rest = {i \in DOMAIN thread : i > reading.pos /\ (reading.turn # 0 => thread[i].turn = reading.turn)}
  BY DEF Rest
<1>8. CASE Rest = {}
  <2>1. slice.got = <<>> /\ slice.pos = reading.pos
    BY <1>4, <1>8
  <2>2. \A u \in Users : ~(Beyond(u) /\ reading.turn = 0)
    <3> SUFFICES ASSUME NEW u \in Users, Beyond(u), reading.turn = 0 PROVE FALSE
      OBVIOUS
    <3>1. u \in DOMAIN thread /\ thread[u].turn \in 1..turn
      BY <1>2
    <3>2. CASE mode = "legacy"
      BY <1>6, <1>8, <3>1, <3>2 DEF Beyond
    <3>3. CASE mode = "paginated"
      BY <1>7, <1>8, <3>1, <3>3 DEF Beyond
    <3> QED
      BY <1>3, <3>2, <3>3
  <2>3. DOMAIN slice.got = {}
    BY <2>1
  <2> QED
    BY <1>5, <2>1, <2>2, <2>3
<1>9. CASE Rest # {}
  <2>1. PICK k \in Rest, items \in Seq(Nat) :
               /\ items = ItemsOf(k) /\ slice.pos = k /\ (\A m \in Rest : k <= m) /\ (slice.more <=> \E n \in Rest : n > k)
               /\ DOMAIN slice.got = DOMAIN items
               /\ \A j \in DOMAIN items : items[j] \in DOMAIN thread /\ slice.got[j] = EntryOf(items[j])
    BY <1>4, <1>9
  <2>2. \A i \in DOMAIN thread : /\ EntryOf(i).id = i /\ EntryOf(i).turn = thread[i].turn /\ EntryOf(i).ver = thread[i].ver
                                 /\ (EntryOf(i).ended <=> Terminal(thread[i].turn))
    BY DEF EntryOf, Terminal
  <2>3. \A j \in DOMAIN items : LET e == slice.got[j] IN
           /\ e.id = items[j] /\ e.turn = thread[e.id].turn /\ e.ver = thread[e.id].ver /\ (e.ended <=> Terminal(e.turn))
           /\ e.id \in DOMAIN thread /\ e.turn \in 1..turn
    BY <1>2, <2>1, <2>2
  <2>4. k \in Nat /\ DOMAIN items = 1..Len(items) /\ Len(items) \in Nat
    <3>1. DOMAIN items = 1..Len(items) /\ Len(items) \in Nat
      BY <2>1
    <3>2. CASE mode = "legacy"
      BY <1>6, <2>1, <3>1, <3>2
    <3>3. CASE mode = "paginated"
      BY <1>2, <1>7, <2>1, <3>1, <3>3
    <3> QED
      BY <1>3, <3>2, <3>3
  <2>5. CASE mode = "legacy"
    <3>1. PICK S : S = {i \in DOMAIN thread : thread[i].turn = k}
      OBVIOUS
    <3>2. /\ \A j \in DOMAIN items : items[j] \in S
          /\ \A i \in S : \E j \in DOMAIN items : items[j] = i
          /\ \A j, l \in DOMAIN items : j < l => items[j] < items[l]
      <4>1. items = InOrder(S) /\ \A i \in S : i \in 1..Len(thread)
        BY <1>2, <2>1, <2>5, <3>1 DEF ItemsOf
      <4> QED
        BY <1>2, <4>1, InOrderHolds
    <3>3. ASSUME NEW j \in DOMAIN items, NEW e, e = slice.got[j]
          PROVE  /\ Final(e) => Terminal(e.turn)
                 /\ e.turn = reading.turn => Final(e)
                 /\ e.id \in Replies => \E u \in Users :
                       Leads(u, e.id) /\ (proj.seen[u] # 0 \/ \E i \in 1..(j - 1) : slice.got[i].id = u)
      <4>1. Final(e) <=> e.ended
        BY <2>5 DEF Final
      <4>2. /\ e.id = items[j] /\ (e.ended <=> Terminal(e.turn)) /\ e.turn \in 1..turn /\ e.turn = thread[e.id].turn
            /\ e.id \in DOMAIN thread
        BY <2>3, <3>3
      <4>3. e.turn = reading.turn => Terminal(e.turn)
        BY <1>2, <1>5, <4>2
      <4>4. ASSUME e.id \in Replies
            PROVE  \E u \in Users : Leads(u, e.id) /\ \E i \in 1..(j - 1) : slice.got[i].id = u
        <5>1. PICK u \in Users : Leads(u, e.id)
          BY <1>5, <4>4
        <5>2. u \in S
          BY <1>2, <3>1, <3>2, <4>2, <5>1 DEF Leads
        <5>3. PICK i \in DOMAIN items : items[i] = u
          BY <3>2, <5>2
        <5>4. u < e.id
          BY <5>1 DEF Leads
        <5>5. i < j
          <6> SUFFICES ASSUME ~(i < j) PROVE FALSE
            OBVIOUS
          <6>1. i \in Nat /\ j \in Nat
            BY <2>4
          <6>2. CASE i = j
            BY <1>2, <4>2, <5>3, <5>4, <6>2
          <6>3. CASE j < i
            <7>1. items[j] < items[i]
              BY <3>2, <6>3
            <7> QED
              BY <1>2, <4>2, <5>3, <5>4, <7>1
          <6> QED
            BY <6>1, <6>2, <6>3
        <5>6. i \in 1..(j - 1)
          BY <2>4, <5>5
        <5>7. slice.got[i].id = u
          BY <2>3, <5>3
        <5> QED
          BY <5>1, <5>6, <5>7
      <4> QED
        BY <4>1, <4>2, <4>3, <4>4
    <3>4. ASSUME NEW u \in Users, Beyond(u), reading.turn = 0
          PROVE  \/ \E j \in DOMAIN slice.got : slice.got[j].id = u
                 \/ slice.more /\ thread[u].turn > slice.pos
      <4>1. u \in DOMAIN thread /\ thread[u].turn \in Rest
        BY <1>2, <1>6, <2>5, <3>4 DEF Beyond
      <4>2. k <= thread[u].turn /\ thread[u].turn \in Nat
        BY <1>2, <2>1, <4>1
      <4>3. CASE thread[u].turn = k
        <5>1. PICK j \in DOMAIN items : items[j] = u
          BY <3>1, <3>2, <4>1, <4>3
        <5> QED
          BY <2>1, <2>3, <5>1
      <4>4. CASE thread[u].turn # k
        <5>1. thread[u].turn > k
          BY <2>4, <4>2, <4>4
        <5> QED
          BY <2>1, <4>1, <5>1
      <4> QED
        BY <4>3, <4>4
    <3> QED
      BY <2>1, <2>3, <2>5, <3>3, <3>4
  <2>6. CASE mode = "paginated"
    <3>1. items = <<k>>
      BY <2>1, <2>6 DEF ItemsOf
    <3>2. DOMAIN items = {1} /\ items[1] = k
      BY <3>1
    <3>3. k \in DOMAIN thread /\ k > reading.pos /\ (reading.turn # 0 => thread[k].turn = reading.turn)
      BY <1>7, <2>1, <2>6
    <3>4. PICK e : e = slice.got[1]
      OBVIOUS
    <3>5. /\ e.id = k /\ e.turn = thread[e.id].turn /\ e.ver = thread[e.id].ver /\ e.id \in DOMAIN thread /\ e.turn \in 1..turn
      BY <2>3, <3>2, <3>4
    <3>6. /\ Final(e) => Terminal(e.turn)
          /\ e.turn = reading.turn => Final(e)
      <4>1. Final(e) <=> reading.turn # 0 \/ e.turn \in reading.terminal
        BY <2>6 DEF Final
      <4> QED
        BY <1>2, <1>5, <3>3, <3>5, <4>1
    <3>7. ASSUME NEW u \in Users, u < k, reading.turn # 0 => thread[u].turn = reading.turn PROVE proj.seen[u] # 0
      <4>1. u \in DOMAIN thread /\ u \in Nat
        BY <1>2
      <4>2. ~(u > reading.pos)
        <5> SUFFICES ASSUME u > reading.pos PROVE FALSE
          OBVIOUS
        <5>1. u \in Rest
          BY <1>7, <2>6, <3>7, <4>1
        <5>2. k <= u
          BY <2>1, <5>1
        <5> QED
          BY <2>4, <3>7, <4>1, <5>2
      <4>3. u <= reading.pos
        BY <1>2, <4>1, <4>2
      <4> QED
        BY <1>5, <2>6, <3>7, <4>3
    <3>8. e.id \in Replies => \E u \in Users : Leads(u, e.id) /\ proj.seen[u] # 0
      <4> SUFFICES ASSUME e.id \in Replies PROVE \E u \in Users : Leads(u, e.id) /\ proj.seen[u] # 0
        OBVIOUS
      <4>1. PICK u \in Users : Leads(u, e.id)
        BY <1>5
      <4>2. u < k /\ thread[u].turn = thread[k].turn
        BY <3>5, <4>1 DEF Leads
      <4>3. reading.turn # 0 => thread[u].turn = reading.turn
        BY <3>3, <4>2
      <4> QED
        BY <3>7, <4>1, <4>2, <4>3
    <3>9. ASSUME NEW u \in Users, u <= slice.pos, reading.turn # 0 => thread[u].turn = reading.turn
          PROVE  proj.seen[u] # 0 \/ \E j \in DOMAIN slice.got : slice.got[j].id = u
      <4>1. u \in Nat /\ u <= k
        BY <1>2, <2>1, <3>9
      <4>2. CASE u = k
        BY <2>1, <3>2, <3>4, <3>5, <4>2
      <4>3. CASE u < k
        BY <3>7, <3>9, <4>3
      <4> QED
        BY <2>4, <4>1, <4>2, <4>3
    <3>10. ASSUME NEW u \in Users, Beyond(u), reading.turn = 0
           PROVE  \/ \E j \in DOMAIN slice.got : slice.got[j].id = u
                  \/ slice.more /\ u > slice.pos
      <4>1. u \in DOMAIN thread /\ u > reading.pos
        BY <1>2, <2>6, <3>10 DEF Beyond
      <4>2. u \in Rest /\ u \in Nat
        BY <1>2, <1>7, <2>6, <3>10, <4>1
      <4>3. CASE u = k
        BY <2>1, <3>2, <3>4, <3>5, <4>3
      <4>4. CASE u # k
        <5>1. k <= u
          BY <2>1, <4>2
        <5>2. u > k
          BY <2>4, <4>2, <4>4, <5>1
        <5> QED
          BY <2>1, <4>2, <5>2
      <4> QED
        BY <4>3, <4>4
    <3>11. \A j \in DOMAIN slice.got : j = 1 /\ slice.got[j] = e
      BY <2>1, <3>2, <3>4
    <3> QED
      BY <2>6, <3>5, <3>6, <3>8, <3>9, <3>10, <3>11
  <2> QED
    BY <1>3, <2>5, <2>6
<1> QED
  BY <1>8, <1>9

\* The answer to the companion's read is on its way.
Answers(r) == /\ reading.at = "sent" /\ reading' = r /\ r.at = "applied" /\ r.step = reading.step /\ r.turn = reading.turn
              /\ UNCHANGED <<native, decisions, client, phase, gate, proj, inbound, writer, over, posted>>

LEMMA AnswersSame ==
  ASSUME CodexInv, NEW r, Answers(r)
  PROVE  /\ UNCHANGED <<thread, turn, status, mode, queue, received, live, inbox, turns>> /\ Users' = Users
         /\ Grown /\ ThreadOK' /\ TextsOK' /\ ShownOK(proj)' /\ \A m : Says(m) => Says(m)'
<1>1. TypeOK /\ ThreadOK /\ TextsOK /\ ShownOK(proj)
  BY DEF CodexInv
<1>2. /\ UNCHANGED <<thread, turn, status, mode, queue, received, live, inbox, turns>>
      /\ UNCHANGED <<proj, writer, posted>>
  BY DEF Answers, native, client, inbound
<1>3. Grown /\ ThreadOK' /\ Users' = Users
  BY <1>2, StillGrows
<1>4. TextsOK'
  BY <1>1, <1>2, TextsSame
<1>5. ShownOK(proj)'
  BY <1>1, <1>2, ShownSame
<1>6. \A m : Says(m) => Says(m)'
  BY <1>2 DEF Says, Terminal
<1> QED
  BY <1>2, <1>3, <1>4, <1>5, <1>6

LEMMA AnswersReading ==
  ASSUME CodexInv, NEW r, Answers(r), mode = "paginated" => r.pos <= Len(thread),
         r.step \in {"resume", "meta"} => r.pos = 0, \A t \in r.terminal : t \in 1..turn /\ Terminal(t)
  PROVE  ReadingOK'
<1>1. ReadingOK
  BY DEF CodexInv
<1>2. UNCHANGED <<thread, turn, status, mode>> /\ proj' = proj /\ phase' = phase
  BY DEF Answers, native
<1>3. /\ reading.at = "sent" /\ r.at = "applied" /\ r.step = reading.step /\ r.turn = reading.turn /\ reading' = r
      /\ NoRequest.at = "none"
  BY DEF Answers, NoRequest
<1>4. reading # NoRequest /\ \A t : Terminal(t) <=> Terminal(t)'
  BY <1>2, <1>3 DEF Terminal
<1>5. /\ phase = "attach" => reading.turn = 0 /\ reading.step # "none" /\ \A i \in Ids : proj.cards[i] = "none"
      /\ phase # "drain"
      /\ phase = "run" => reading.turn # 0 /\ reading.step = "page"
      /\ reading.turn # 0 => reading.turn \in 1..turn /\ Terminal(reading.turn)
      /\ \A k \in DOMAIN proj.ready : proj.ready[k] \in 1..turn /\ Terminal(proj.ready[k])
  BY <1>1, <1>4 DEF ReadingOK
<1>6. Ids' = Ids
  BY DEF Ids
<1> QED
  BY <1>2, <1>3, <1>4, <1>5, <1>6 DEF ReadingOK

LEMMA HeardKept ==
  ASSUME CodexInv, NEW r, Answers(r), reading.step # "resume", Readings(r), Emit(<<Msg("answer", "reading")>>),
         PageOK', ReadingOK', \A u \in Users : Known(u) => Known(u)'
  PROVE  CodexInv'
<1> USE DEF CodexInv
<1>1. /\ UNCHANGED <<thread, turn, status, mode, queue, received, live, inbox, turns>> /\ Users' = Users
      /\ Grown /\ ThreadOK' /\ TextsOK' /\ ShownOK(proj)'
  BY AnswersSame
<1>2. /\ reading.at = "sent" /\ reading' = r /\ r.at = "applied" /\ r.step = reading.step
      /\ UNCHANGED <<decisions, phase, gate, proj, writer, over, posted>>
  BY DEF Answers
<1>3. PICK m : m = Msg("answer", "reading")
  OBVIOUS
<1>4. m \in WireMessages /\ m.t = "answer" /\ m.id = "reading"
  BY <1>3 DEF Msg, WireMessages
<1>5. Sends(<<m>>, {m}) /\ OneAnswer(<<m>>)
  BY <1>4, SendsFew
<1>6. Notified(<<m>>)
  BY <1>1, <1>3, <1>4, <1>5, StillSent
<1>7. PICK msgs : msgs = <<m>>
  OBVIOUS
<1>8. AnswersOnce(msgs)
  <2>1. \A k \in DOMAIN msgs : msgs[k].id = "reading"
    BY <1>4, <1>5, <1>7 DEF Sends, In
  <2>2. \A k, l \in DOMAIN msgs : msgs[k].t = "answer" /\ msgs[l].t = "answer" => k = l
    BY <1>5, <1>7 DEF OneAnswer
  <2> QED
    BY <1>2, <2>1, <2>2 DEF AnswersOnce, Subscribed
<1>9. Subscribed
  BY DEF Subscribed
<1>10. OrderOK(queue, wire)' /\ CardsOK(queue, wire)' /\ LiveOK(wire, received, live)' /\ ChannelOK'
  <2>1. OrderOK(queue, wire)'
    BY <1>1, <1>6, <1>9, OrderSent
  <2>2. CardsOK(queue, wire)'
    BY <1>1, <1>2, <1>6, CardsSent
  <2>3. LiveOK(wire, received, live)'
    BY <1>1, <1>2, <1>6, LiveSent
  <2>4. ChannelOK'
    BY <1>1, <1>6, <1>7, <1>8, ChannelSent
  <2> QED
    BY <2>1, <2>2, <2>3, <2>4
<1>11. TypeOK'
  <2>1. wire' \in Seq(WireMessages)
    BY <1>6, <1>9, WireGrown
  <2> QED
    BY <1>1, <1>2, <2>1 DEF TypeOK, Readings
<1> QED
  BY <1>1, <1>10, <1>11

\* With the subscription come the requests that are pending, and nothing before them.
LEMMA ResumeHeardKept ==
  ASSUME CodexInv, NEW r, Answers(r), reading.step = "resume", Readings(r), ReadingOK',
         wire' = <<Msg("answer", "reading")>> \o Each("request", Pending)
  PROVE  CodexInv'
<1> USE DEF CodexInv
<1>1. /\ UNCHANGED <<thread, turn, status, mode, queue, received, live, inbox, turns>> /\ Users' = Users
      /\ ThreadOK' /\ TextsOK' /\ ShownOK(proj)'
  BY AnswersSame
<1>2. /\ reading.at = "sent" /\ reading' = r /\ r.at = "applied" /\ r.step = "resume"
      /\ UNCHANGED <<decisions, phase, gate, proj, writer, over, posted>>
  BY DEF Answers
<1>3. queue = <<>> /\ live = {} /\ phase = "attach" /\ \A i \in Ids : proj.cards[i] = "none"
  BY <1>2, Unsubscribed DEF Subscribed
<1>4. PICK m, each, P, E : /\ m = Msg("answer", "reading") /\ each = Each("request", Pending) /\ P = Pending
                           /\ E = {Msg("request", i) : i \in P}
  OBVIOUS
<1>5. m \in WireMessages /\ m.t = "answer" /\ m.id = "reading"
  BY <1>4 DEF Msg, WireMessages
<1>6. Sends(<<m>>, {m}) /\ OneAnswer(<<m>>)
  BY <1>5, SendsFew
<1>7. \A i \in P : i \in DOMAIN thread /\ thread[i].ask = "open" /\ i \in 1..Len(thread)
  <2>1. DOMAIN thread = 1..Len(thread)
    BY ThreadTyped DEF TypeOK
  <2> QED
    BY <1>4, <2>1 DEF Pending
<1>8. Sends(each, E) /\ NoAnswer(each)
  <2>1. Len(thread) \in Nat /\ "request" \in Notices
    BY ThreadTyped DEF TypeOK, Notices
  <2> QED
    BY <1>4, <1>7, <2>1, EachSends
<1>9. PICK w, M : w = wire' /\ M = {m} \union E
  OBVIOUS
<1>10. Sends(w, M) /\ OneAnswer(w)
  <2>1. PICK s : s = <<m>>
    OBVIOUS
  <2>2. w = s \o each
    BY <1>4, <1>9, <2>1
  <2>3. Sends(s, {m}) /\ OneAnswer(s) /\ Sends(each, E) /\ NoAnswer(each)
    BY <1>6, <1>8, <2>1
  <2>4. Sends(s \o each, {m} \union E) /\ OneAnswer(s \o each)
    BY <2>3, SendsBoth
  <2> QED
    BY <1>9, <2>2, <2>4
<1>11. w \in Seq(WireMessages) /\ \A k \in DOMAIN w : w[k] = m \/ w[k] \in E
  BY <1>9, <1>10 DEF Sends, In
<1>12. \A x \in E : x.t = "request" /\ x.id \in DOMAIN thread /\ thread[x.id].ask = "open"
  BY <1>4, <1>7 DEF Msg
<1>13. TypeOK'
  BY <1>1, <1>2, <1>9, <1>11 DEF TypeOK, Readings
<1>14. PageOK'
  BY <1>2 DEF PageOK, PageHere
<1>15. ChannelOK'
  <2>1. ASSUME NEW k \in DOMAIN w PROVE Says(w[k])' /\ (w[k].t = "answer" => w[k].id = "reading")
    <3>1. PICK x : x = w[k]
      OBVIOUS
    <3>2. CASE x = m
      BY <1>5, <3>1, <3>2 DEF Says
    <3>3. CASE x \in E
      BY <1>1, <1>12, <3>1, <3>3 DEF Says
    <3> QED
      BY <1>11, <3>1, <3>2, <3>3
  <2>2. \A k, l \in DOMAIN w : w[k].t = "answer" /\ w[l].t = "answer" => k = l
    BY <1>10 DEF OneAnswer
  <2>3. queue' = <<>> /\ Subscribed'
    BY <1>1, <1>2, <1>3 DEF Subscribed
  <2>4. w = wire' /\ reading'.at = "applied"
    BY <1>2, <1>9
  <2> QED
    BY <2>1, <2>2, <2>3, <2>4 DEF ChannelOK
<1>16. OrderOK(queue, wire)'
  <2>1. \A u : Known(u)'
    BY <1>2, <1>3 DEF Known, Covered
  <2> QED
    BY <2>1 DEF OrderOK
<1>17. CardsOK(queue, wire)'
  <2>1. \A k \in DOMAIN w : w[k].t = "request" => ~Closed(w[k].id)'
    <3> SUFFICES ASSUME NEW k \in DOMAIN w, w[k].t = "request" PROVE ~Closed(w[k].id)'
      OBVIOUS
    <3>1. PICK x : x = w[k]
      OBVIOUS
    <3>2. x \in E
      BY <1>5, <1>11, <3>1
    <3> QED
      BY <1>1, <1>12, <3>1, <3>2 DEF Closed
  <2>2. queue' = <<>> /\ \A i \in Ids : proj'.cards[i] = "none"
    BY <1>1, <1>2, <1>3
  <2> QED
    BY <1>9, <2>1, <2>2 DEF CardsOK
<1>18. LiveOK(wire, received, live)'
  BY <1>1, <1>2, <1>3 DEF LiveOK
<1> QED
  BY <1>1, <1>13, <1>14, <1>15, <1>16, <1>17, <1>18

LEMMA AnswerReadKept ==
  ASSUME CodexInv, AnswerRead
  PROVE  CodexInv'
<1>1. TypeOK /\ ThreadOK /\ ReadingOK /\ PageOK
  BY DEF CodexInv
<1>2. PICK o, r : o = reading /\ r = reading'
  OBVIOUS
<1>3. Readings(o) /\ o.at = "sent"
  BY <1>1, <1>2 DEF AnswerRead, TypeOK, Readings
<1>4. /\ mode = "paginated" => o.pos <= Len(thread)
      /\ o.step \in {"resume", "meta"} => o.pos = 0
      /\ \A t \in o.terminal : t \in 1..turn /\ Terminal(t)
  BY <1>1, <1>2 DEF ReadingOK
<1>5. UNCHANGED <<native, decisions, client, phase, gate, proj, inbound, writer, over, posted>>
  BY DEF AnswerRead, ghosts
<1>6. UNCHANGED <<thread, turn, status, mode>> /\ proj' = proj /\ phase' = phase
  BY <1>5 DEF native
<1>7. CASE /\ o.step = "resume" /\ r = [o EXCEPT !.at = "applied", !.got = status]
           /\ wire' = <<Msg("answer", "reading")>> \o Each("request", Pending)
  <2>1. /\ Readings(r) /\ r.at = "applied" /\ r.step = o.step /\ r.turn = o.turn /\ r.pos = o.pos /\ r.terminal = o.terminal
    BY <1>3, <1>7 DEF Readings
  <2>2. Answers(r)
    BY <1>2, <1>3, <1>5, <2>1 DEF Answers
  <2>3. ReadingOK'
    BY <1>4, <2>1, <2>2, AnswersReading
  <2> QED
    BY <1>2, <1>7, <2>1, <2>2, <2>3, ResumeHeardKept
<1>8. CASE /\ o.step = "meta" /\ r = [o EXCEPT !.at = "applied", !.terminal = {t \in 1..turn : Terminal(t)}]
           /\ Emit(<<Msg("answer", "reading")>>)
  <2>1. /\ Readings(r) /\ r.at = "applied" /\ r.step = o.step /\ r.turn = o.turn /\ r.pos = o.pos
        /\ r.terminal = {t \in 1..turn : Terminal(t)}
    <3>1. {t \in 1..turn : Terminal(t)} \in SUBSET Nat
      BY <1>1 DEF TypeOK
    <3> QED
      BY <1>3, <1>8, <3>1 DEF Readings
  <2>2. Answers(r)
    BY <1>2, <1>3, <1>5, <2>1 DEF Answers
  <2>3. ReadingOK'
    BY <1>4, <1>8, <2>1, <2>2, AnswersReading
  <2>4. PageOK'
    BY <1>2, <1>8, <2>1 DEF PageOK, PageHere
  <2>5. \A u \in Users : Known(u) => Known(u)'
    BY <1>2, <1>6, <1>8, <2>1 DEF Known, Covered, PageHere
  <2> QED
    BY <1>2, <1>8, <2>1, <2>2, <2>3, <2>4, <2>5, HeardKept
<1>9. CASE /\ o.step = "page" /\ Emit(<<Msg("answer", "reading")>>)
           /\ r = [o EXCEPT !.at = "applied", !.got = NextPage.got, !.pos = NextPage.pos, !.more = NextPage.more]
  <2>1. PICK slice : slice = NextPage
    OBVIOUS
  <2>2. /\ slice.got \in Seq(Entries) /\ slice.pos \in Nat /\ slice.more \in BOOLEAN
        /\ mode = "paginated" => slice.pos <= Len(thread)
    BY <1>2, <1>3, <1>9, <2>1, PageEntries
  <2>3. /\ Readings(r) /\ r.at = "applied" /\ r.step = "page" /\ r.turn = o.turn /\ r.pos = slice.pos /\ r.got = slice.got
        /\ r.terminal = o.terminal /\ r.more = slice.more
    <3>1. r = [o EXCEPT !.at = "applied", !.got = slice.got, !.pos = slice.pos, !.more = slice.more]
      BY <1>9, <2>1
    <3>2. PICK more : more = slice.more /\ more \in BOOLEAN
      BY <2>2
    <3>3. r = [o EXCEPT !.at = "applied", !.got = slice.got, !.pos = slice.pos, !.more = more]
      BY <3>1, <3>2
    <3>4. /\ r.at = "applied" /\ r.step = "page" /\ r.turn = o.turn /\ r.pos = slice.pos /\ r.got = slice.got
          /\ r.terminal = o.terminal /\ r.more = more
      BY <1>3, <1>9, <3>3 DEF Readings
    <3>5. Readings(r)
      BY <1>3, <2>2, <3>2, <3>3, <3>4 DEF Readings
    <3> QED
      BY <3>2, <3>4, <3>5
  <2>4. Answers(r)
    BY <1>2, <1>3, <1>5, <1>9, <2>3 DEF Answers
  <2>5. ReadingOK'
    BY <1>4, <2>2, <2>3, <2>4, AnswersReading
  <2>6. /\ \A j \in DOMAIN slice.got : LET e == slice.got[j] IN
            /\ e.id \in DOMAIN thread /\ e.turn = thread[e.id].turn /\ e.ver = thread[e.id].ver
            /\ Final(e) => Terminal(e.turn)
            /\ e.turn = o.turn => Final(e)
            /\ e.id \in Replies => \E u \in Users :
                  Leads(u, e.id) /\ (proj.seen[u] # 0 \/ \E i \in 1..(j - 1) : slice.got[i].id = u)
        /\ mode = "paginated" => \A u \in Users :
               u <= slice.pos /\ (o.turn # 0 => thread[u].turn = o.turn)
                  => proj.seen[u] # 0 \/ \E j \in DOMAIN slice.got : slice.got[j].id = u
        /\ \A u \in Users : Beyond(u) /\ o.turn = 0 =>
               \/ \E j \in DOMAIN slice.got : slice.got[j].id = u
               \/ slice.more /\ (IF mode = "legacy" THEN thread[u].turn > slice.pos ELSE u > slice.pos)
    BY <1>2, <1>3, <1>9, <2>1, PageHolds
  <2>7. /\ Users' = Users /\ Replies' = Replies /\ (\A e : Final(e)' <=> Final(e)) /\ (\A t : Terminal(t)' <=> Terminal(t))
        /\ (\A u, i : Leads(u, i)' <=> Leads(u, i)) /\ PageHere' /\ ~PageHere
    BY <1>2, <1>3, <1>6, <2>3 DEF Users, Replies, Final, Terminal, Leads, PageHere
  <2>8. PageOK'
    <3>1. reading'.got = slice.got /\ reading'.turn = o.turn /\ reading'.pos = slice.pos
      BY <1>2, <2>3
    <3> QED
      BY <1>6, <2>2, <2>6, <2>7, <3>1 DEF PageOK, Got
  <2>9. \A u \in Users : Known(u) => Known(u)'
    <3> SUFFICES ASSUME NEW u \in Users, Known(u), proj.seen[u] = 0 PROVE Covered(u)'
      BY <1>6 DEF Known
    <3>1. phase = "attach" /\ Beyond(u)
      BY <1>2, <1>3, <1>9, <2>7 DEF Known, Covered
    <3>2. o.turn = 0
      BY <1>1, <1>2, <3>1 DEF ReadingOK
    <3>3. reading'.got = slice.got /\ reading'.more = slice.more /\ reading'.pos = slice.pos
      BY <1>2, <2>3
    <3>4. \/ \E j \in DOMAIN slice.got : slice.got[j].id = u
          \/ slice.more /\ (IF mode = "legacy" THEN thread[u].turn > slice.pos ELSE u > slice.pos)
      BY <2>6, <3>1, <3>2
    <3> QED
      BY <1>6, <2>7, <3>1, <3>3, <3>4 DEF Covered, Got, Beyond
  <2> QED
    BY <1>2, <1>9, <2>3, <2>4, <2>5, <2>8, <2>9, HeardKept
<1> QED
  BY <1>2, <1>7, <1>8, <1>9 DEF AnswerRead

-----------------------------------------------------------------------------
(* The theorems                                                            *)

LEMMA InitHolds ==
  ASSUME CodexInit
  PROVE  CodexInv
<1>1. /\ thread = <<>> /\ turn = 0 /\ status = "idle" /\ mode \in {"paginated", "legacy"}
      /\ wire = <<>> /\ decisions = [i \in Ids |-> "none"] /\ queue = <<>> /\ received = {} /\ live = {}
      /\ phase = "attach" /\ inbox = <<>> /\ turns = <<>> /\ writer = NULL
      /\ posted = {}
  BY DEF CodexInit
<1>2. gate \in BOOLEAN /\ over \in BOOLEAN
  <2>1. gate = FALSE
    BY DEF CodexInit
  <2>2. over = FALSE
    BY DEF CodexInit
  <2> QED
    BY <2>1, <2>2
<1>3. Readings(reading) /\ reading.step = "resume" /\ reading.at = "sent" /\ reading.turn = 0 /\ reading.pos = 0 /\ reading.terminal = {}
  <2>1. reading = Request("resume", 0)
    BY DEF CodexInit
  <2> QED
    BY <2>1, RequestTyped
<1>4. DOMAIN thread = {} /\ Users = {} /\ Replies = {} /\ DOMAIN wire = {} /\ DOMAIN queue = {} /\ DOMAIN turns = {} /\ DOMAIN inbox = {}
  BY <1>1 DEF Users, Replies
<1>5. PICK none, zero : none = [i \in Ids |-> "none"] /\ zero = [i \in Ids |-> 0]
  OBVIOUS
<1>6. proj = [seen |-> zero, up |-> <<>>, deferred |-> {}, ready |-> <<>>, starts |-> {},
              draft |-> 0, overlap |-> FALSE, bound |-> {}, fresh |-> {}, cards |-> none, bad |-> FALSE]
  BY <1>5 DEF CodexInit
<1>7. zero \in [Ids -> 0..2] /\ none \in [Ids -> {"none", "open", "submitted", "closed"}]
  BY <1>5
<1>8. proj \in Projections
  BY <1>6, <1>7 DEF Projections
<1>9. /\ proj.seen = zero /\ proj.up = <<>> /\ proj.ready = <<>> /\ proj.starts = {} /\ proj.cards = none
  BY <1>6
<1>10. proj.bad = FALSE
  BY <1>6
<1>11. (\A i \in Ids : zero[i] = 0 /\ none[i] = "none") /\ DOMAIN proj.up = {} /\ DOMAIN proj.ready = {}
  BY <1>5, <1>9
<1>12. TypeOK
  <2>1. decisions \in [Ids -> {"none", "sent", "applied"}]
    BY <1>1
  <2>2. thread \in Seq(Items) /\ wire \in Seq(WireMessages) /\ queue \in Seq(WireMessages)
        /\ inbox \in Seq(Prompts \union Interrupts \union Ids) /\ turns \in Seq(Prompts)
    BY <1>1
  <2> QED
    BY <1>1, <1>2, <1>3, <1>8, <2>1, <2>2 DEF TypeOK, Readings
<1>13. ThreadOK
  <2>1. Cardinality(Replies) <= MaxReplies
    BY <1>4, BoundsAssumption, FS_EmptySet
  <2> QED
    BY <1>1, <1>4, <2>1 DEF ThreadOK
<1>14. TextsOK /\ ChannelOK
  BY <1>1, <1>4 DEF TextsOK, ChannelOK
<1>15. ReadingOK
  BY <1>1, <1>3, <1>4, <1>9, <1>11 DEF ReadingOK, TypeOK
<1>16. PageOK
  BY <1>3, <1>4 DEF PageOK, PageHere
<1>17. OrderOK(queue, wire)
  BY <1>4 DEF OrderOK
<1>18. CardsOK(queue, wire)
  BY <1>4, <1>9, <1>11 DEF CardsOK, Closed
<1>19. LiveOK(wire, received, live)
  BY <1>1 DEF LiveOK
<1>20. ShownOK(proj)
  BY <1>4, <1>9, <1>10, <1>11 DEF ShownOK
<1> QED
  BY <1>12, <1>13, <1>14, <1>15, <1>16, <1>17, <1>18, <1>19, <1>20 DEF CodexInv

LEMMA StepHolds ==
  ASSUME CodexInv, [CodexNext]_codexVars
  PROVE  CodexInv'
<1>1. CASE NativeStep
  BY <1>1, BeginItemKept, ApplyDecisionKept, CompleteItemKept, EndTurnKept DEF NativeStep
<1>2. CASE Server
  BY <1>2, ApplyStartKept, AnswerReadKept, AnswerStopKept DEF Server
<1>3. CASE AnswerLocally \/ FailTurn \/ ReplayRequest
  BY <1>3, AnswerLocallyKept, FailTurnKept, ReplayRequestKept
<1>4. CASE \E l \in Locals : LocalPrompt(l)
  BY <1>4, LocalPromptKept
<1>5. CASE Pumps
  BY <1>5, ReceiveAnswerKept, ReceiveOthersKept, ResumedKept, HaveMetadataKept, ReadPageKept, RepairKept, StartKept,
     TakeInboundKept DEF Pumps
<1>6. CASE \E c \in Prompts \union Interrupts : Send(c)
  BY <1>6, SendKept
<1>7. CASE Decide
  BY <1>7, DecideKept
<1>8. CASE WriterStep
  BY <1>8, QueueTextKept, RespondKept, StopStepsKept, StartTextKept, AckTextKept DEF WriterStep
<1>9. CASE Fails
  BY <1>9, FailsKept
<1>10. CASE UNCHANGED codexVars
  BY <1>10, StutterKept
<1> QED
  BY <1>1, <1>2, <1>3, <1>4, <1>5, <1>6, <1>7, <1>8, <1>9, <1>10 DEF CodexNext

\* The inductive invariant: the projection, the requests, the thread and all that is on its
\* way between them agree in every state.
THEOREM CodexInvariant == CodexSpec => []CodexInv
<1>1. CodexInit => CodexInv
  BY InitHolds
<1>2. CodexInv /\ [CodexNext]_codexVars => CodexInv'
  BY StepHolds
<1> QED
  BY <1>1, <1>2, PTL DEF CodexSpec

\* Every variable has its type.
THEOREM CodexTyped == CodexSpec => []TypeOK
<1>1. CodexInv => TypeOK
  BY DEF CodexInv
<1> QED
  BY <1>1, CodexInvariant, PTL

\* However the history, its repair and the live items overlap, and whatever the order of the
\* answers and the notifications on the socket, an item is shown once, after the text it answers,
\* a result after its call, and a reply's text only in its final form: #admit never throws.
THEOREM TranscriptIsFaithful == CodexSpec => []TranscriptFaithful
<1>1. ASSUME CodexInv PROVE TranscriptFaithful
  <2>1. TypeOK /\ ThreadOK /\ ShownOK(proj)
    BY <1>1 DEF CodexInv
  <2>2. PICK p : p = proj
    OBVIOUS
  <2>3. p \in Projections /\ ShownOK(p)
    BY <2>1, <2>2 DEF TypeOK
  <2>4. \A i \in DOMAIN thread : i \in Ids
    BY <2>1, ThreadTyped DEF TypeOK
  <2>5. ASSUME NEW i \in DOMAIN p.up, NEW e, e = p.up[i]
        PROVE  /\ \A j \in DOMAIN p.up : p.up[j] = e => i = j
               /\ e.what = "result" => Before(i, e.id, "call")
               /\ e.what # "user" => \E u \in Users : thread[u].turn = thread[e.id].turn /\ u < e.id /\ Before(i, u, "user")
               /\ e.what = "text" => p.seen[e.id] = thread[e.id].ver /\ (thread[e.id].ver = 2 \/ Terminal(thread[e.id].turn))
    <3>1. /\ e.id \in DOMAIN thread /\ (p.seen[e.id] # 0 \/ (e.what = "call" /\ e.id \in p.starts))
          /\ thread[e.id].kind = CASE e.what = "user" -> "user" [] e.what = "text" -> "agent" [] OTHER -> "cmd"
          /\ \A j \in DOMAIN p.up : p.up[j] = e => j = i
          /\ e.what = "result" => Precedes(Row(e.id, "call"), p.up, i)
          /\ e.what # "user" => \E u \in Users : Leads(u, e.id) /\ Precedes(Row(u, "user"), p.up, i)
      BY <2>3, <2>5 DEF ShownOK
    <3>2. e.what = "result" => Before(i, e.id, "call")
      BY <2>2, <3>1 DEF Before, Precedes
    <3>3. e.what # "user" => \E u \in Users : thread[u].turn = thread[e.id].turn /\ u < e.id /\ Before(i, u, "user")
      BY <2>2, <3>1 DEF Before, Precedes, Leads
    <3>4. e.what = "text" => p.seen[e.id] = thread[e.id].ver /\ (thread[e.id].ver = 2 \/ Terminal(thread[e.id].turn))
      <4> SUFFICES ASSUME e.what = "text"
                   PROVE  p.seen[e.id] = thread[e.id].ver /\ (thread[e.id].ver = 2 \/ Terminal(thread[e.id].turn))
        OBVIOUS
      <4>1. e.id \in Ids /\ p.seen[e.id] # 0 /\ thread[e.id].kind = "agent"
        BY <2>4, <3>1
      <4> QED
        BY <2>3, <4>1 DEF ShownOK
    <3> QED
      BY <3>1, <3>2, <3>3, <3>4
  <2>6. ~proj.bad
    BY <2>1 DEF ShownOK
  <2> QED
    BY <2>2, <2>5, <2>6 DEF TranscriptFaithful
<1> QED
  BY <1>1, CodexInvariant, PTL

\* A card that can still be answered is for a request that is open, or the resolution that closes
\* it is on its way: no card stays open for a request that the terminal user has answered.
THEOREM CardsAreTruthful == CodexSpec => []CardsTruthful
<1>1. ASSUME CodexInv PROVE CardsTruthful
  <2>1. TypeOK /\ ThreadOK /\ CardsOK(queue, wire)
    BY <1>1 DEF CodexInv
  <2> SUFFICES ASSUME NEW i \in DOMAIN thread, proj.cards[i] \in {"open", "submitted"}, thread[i].ask = "closed"
               PROVE  Msg("resolved", i) \in ToSet(wire) \union ToSet(queue)
    BY DEF CardsTruthful
  <2>2. i \in Ids /\ Closed(i)
    BY <2>1, ThreadTyped DEF TypeOK, Closed
  <2>3. In(Msg("resolved", i), queue) \/ In(Msg("resolved", i), wire)
    BY <2>1, <2>2 DEF CardsOK
  <2> QED
    BY <2>3 DEF In, ToSet
<1> QED
  BY <1>1, CodexInvariant, PTL

\* The companion sends one decision for a request, however often it is replayed and however many
\* viewers decide, and none for a request whose resolution has arrived.
THEOREM DecisionsAreOnce == CodexSpec => DecisionsOnce
<1>1. ASSUME CodexInv, [CodexNext]_codexVars, NEW i \in DOMAIN thread, decisions'[i] = "sent", decisions[i] # "sent"
      PROVE  decisions[i] = "none" /\ Unresolved(i)
  <2>1. TypeOK /\ ThreadOK /\ LiveOK(wire, received, live)
    BY <1>1 DEF CodexInv
  <2>2. decisions' # decisions
    BY <1>1
  <2>3. ~ApplyDecision
    <3> SUFFICES ASSUME ApplyDecision PROVE FALSE
      OBVIOUS
    <3>1. PICK j \in DOMAIN thread : decisions[j] = "sent" /\ decisions' = [decisions EXCEPT ![j] = "applied"]
      BY DEF ApplyDecision
    <3>2. PICK d, e : d = decisions /\ e = decisions'
      OBVIOUS
    <3>3. d \in [Ids -> {"none", "sent", "applied"}] /\ e = [d EXCEPT ![j] = "applied"] /\ d[j] = "sent"
      BY <2>1, <3>1, <3>2 DEF TypeOK
    <3>4. i \in Ids /\ j \in Ids
      BY <2>1, ThreadTyped DEF TypeOK
    <3>5. i # j => e[i] = d[i]
      BY <3>3, <3>4
    <3>6. i = j => d[i] = "sent"
      BY <3>3
    <3> QED
      BY <1>1, <3>2, <3>5, <3>6
  <2>4. Respond
    <3>1. ~(NativeStep \/ Server \/ AnswerLocally \/ FailTurn \/ ReplayRequest)
      BY <2>2, <2>3 DEF NativeStep, Server, AnswerLocally, FailTurn, ReplayRequest, BeginItem, CompleteItem, EndTurn,
         ApplyStart, AnswerRead, AnswerStop
    <3>2. ~Pumps
      BY <2>2 DEF Pumps, ReceiveAnswer, ReceiveOthers, Resumed, HaveMetadata, ReadPage, Repair, Start, TakeInbound, HistoryFrame
    <3>3. ~Decide /\ ~Fails /\ (\A l \in Locals : ~LocalPrompt(l)) /\ \A c \in Prompts \union Interrupts : ~Send(c)
      BY <2>2 DEF Decide, Fails, LocalPrompt, Send
    <3>4. ~(QueueText \/ AskTurn \/ PostStop \/ AckStop \/ StartText \/ AckText)
      BY <2>2 DEF QueueText, AskTurn, PostStop, AckStop, StartText, AckText, StopFrame, TextFrame
    <3>5. ~UNCHANGED codexVars
      BY <2>2 DEF codexVars
    <3> QED
      BY <1>1, <3>1, <3>2, <3>3, <3>4, <3>5 DEF CodexNext, WriterStep
  <2>5. PICK j : j = Head(inbox)
    OBVIOUS
  <2>6. j \in Ids /\ decisions' = IF Answerable(j) THEN [decisions EXCEPT ![j] = "sent"] ELSE decisions
    BY <2>4, <2>5 DEF Respond, Next1
  <2>7. Answerable(j) /\ decisions' = [decisions EXCEPT ![j] = "sent"]
    BY <2>2, <2>6
  <2>8. i = j
    <3>1. PICK d, e : d = decisions /\ e = decisions'
      OBVIOUS
    <3>2. d \in [Ids -> {"none", "sent", "applied"}] /\ e = [d EXCEPT ![j] = "sent"]
      BY <2>1, <2>7, <3>1 DEF TypeOK
    <3>3. i \in Ids
      BY <2>1, ThreadTyped DEF TypeOK
    <3>4. i # j => e[i] = d[i]
      BY <3>2, <3>3
    <3> QED
      BY <1>1, <3>1, <3>4
  <2>9. i \in live
    BY <2>7, <2>8 DEF Answerable
  <2>10. decisions[i] = "none" /\ (thread[i].ask = "open" \/ In(Msg("resolved", i), wire))
    BY <2>1, <2>6, <2>8, <2>9 DEF LiveOK
  <2> QED
    BY <2>10 DEF Unresolved, In, ToSet
<1>2. CodexInv /\ [CodexNext]_codexVars =>
        [\A i \in DOMAIN thread : decisions'[i] = "sent" /\ decisions[i] # "sent" => decisions[i] = "none" /\ Unresolved(i)]_codexVars
  BY <1>1
<1> QED
  BY <1>2, CodexInvariant, PTL DEF CodexSpec, DecisionsOnce

-----------------------------------------------------------------------------
(* The list                                                                *)

\* An opened frame either leaves the page dead without a row, or found it alive.
LEMMA OpenedStep ==
  ASSUME DeadStaysDead, NEW f, Opened(f)
  PROVE  DeadStaysDead'
<1>1. CASE f.kind = "terminal" /\ dead
  BY <1>1 DEF Opened, OpenedTerminal, DeadStaysDead
<1>2. CASE f.kind = "terminal" /\ ~dead
  BY <1>2 DEF Opened, OpenedTerminal, DeadStaysDead
<1>3. CASE f.kind # "terminal" /\ (dead \/ ~Accepts(known, f))
  BY <1>3 DEF Opened, OpenedAnnounce, DeadStaysDead
<1>4. CASE f.kind # "terminal" /\ ~(dead \/ ~Accepts(known, f))
  <2>1. ~dead /\ dead' = dead
    BY <1>4 DEF Opened, OpenedAnnounce
  <2> QED
    BY <2>1 DEF DeadStaysDead
<1> QED
  BY <1>1, <1>2, <1>3, <1>4

\* The steps that open no frame leave what the page knows of the session alone.
LEMMA NothingOpened ==
  ASSUME [Next]_vars, ~Open, ~OpenLate
  PROVE  UNCHANGED <<dead, known, row>>
<1>1. CASE Announce \/ Heartbeat \/ Keepalive \/ HandleCatchUp
  BY <1>1 DEF Announce, Heartbeat, Keepalive, HandleCatchUp, page
<1>2. ASSUME NEW p \in posts, Commit(p) \/ Answer(p) \/ Fail(p) PROVE UNCHANGED <<dead, known, row>>
  BY <1>2 DEF Commit, Answer, Fail, page
<1>3. ASSUME NEW v \in Values, Change(v) \/ PickSetting(v) PROVE UNCHANGED <<dead, known, row>>
  BY <1>3 DEF Change, PickSetting, page
<1>4. ASSUME NEW c \in Catalogs, ChangeCatalog(c) PROVE UNCHANGED <<dead, known, row>>
  BY <1>4 DEF ChangeCatalog, page
<1>5. CASE Apply \/ Refuse \/ Close \/ TombCommit \/ TombAnswer \/ TombFail
  BY <1>5 DEF Apply, Refuse, Close, TombCommit, TombAnswer, TombFail, page
<1>6. CASE Take \/ Break \/ Revive \/ Load \/ OpenTranscript \/ Unconfirmed
  BY <1>6 DEF Take, Break, Revive, Load, OpenTranscript, Unconfirmed
<1>7. CASE UNCHANGED vars
  BY <1>7 DEF vars, page
<1> QED
  BY <1>1, <1>2, <1>3, <1>4, <1>5, <1>6, <1>7 DEF Next

\* However the generators of the page interleave, and whatever the store delivers late or
\* twice: a session whose tombstone was opened has no row and is not known again.
THEOREM OnceDeadNoRow == Spec => []DeadStaysDead
<1>1. Init => DeadStaysDead
  BY DEF Init, DeadStaysDead
<1>2. DeadStaysDead /\ [Next]_vars => DeadStaysDead'
  <2> SUFFICES ASSUME DeadStaysDead, [Next]_vars PROVE DeadStaysDead'
    OBVIOUS
  <2>1. CASE Open
    BY <2>1, OpenedStep DEF Open
  <2>2. CASE OpenLate
    BY <2>2, OpenedStep DEF OpenLate
  <2>3. CASE ~Open /\ ~OpenLate
    BY <2>3, NothingOpened DEF DeadStaysDead
  <2> QED
    BY <2>1, <2>2, <2>3
<1> QED
  BY <1>1, <1>2, PTL DEF Spec

-----------------------------------------------------------------------------
(* The preview                                                             *)

LEMMA LeastMessage == ASSUME NEW S \in SUBSET Nat, S # {} PROVE \E n \in S : \A m \in S : n <= m
<1>1. PICK x \in S : \A y \in S : ~(<<y, x>> \in OpToRel(<, Nat))
  BY NatLessThanWellFounded, WFMin
<1>2. \A y \in S : <<y, x>> \in OpToRel(<, Nat) <=> y < x
  BY DEF OpToRel
<1>3. \A y \in S : ~(y < x)
  BY <1>1, <1>2, Zenon
<1> QED
  BY <1>3

\* While a message is left to be written, one of them is the first.
LEMMA CurrentIs ==
  ASSUME Messages \ finals # {}
  PROVE  Current \in Messages
<1>1. Messages \ finals \in SUBSET Nat
  BY RevisionsAssumption DEF Messages
<1>2. PICK m \in Messages \ finals : \A k \in Messages \ finals : m <= k
  BY <1>1, LeastMessage
<1>3. \A k \in 1..(m - 1) : k \in finals
  BY <1>2, RevisionsAssumption DEF Messages
<1> QED
  BY <1>2, <1>3 DEF Current

\* The store replaces the cell by newer revisions only.
LEMMA WrittenNewer ==
  ASSUME PreviewTypeOK, NEW p, p.rev \in Nat, p.msg \in Messages \union {NoItem}
  PROVE  Written(p) \in Item /\ cell.rev <= Written(p).rev
<1>1. CASE Replaces(p)
  BY <1>1 DEF Written, Replaces, PreviewTypeOK, Item
<1>2. CASE ~Replaces(p)
  BY <1>2 DEF Written, PreviewTypeOK, Item
<1> QED
  BY <1>1, <1>2

\* The host and the store move: the cell grows or stays, and time only hides a preview.
LEMMA HostStep ==
  ASSUME PreviewInv, NEW c \in Item, cell' = c, cell.rev <= c.rev, aged' \in Nat, aged <= aged',
         UNCHANGED previewPage
  PROVE  CellNewest' /\ PollFresh' /\ VisibleIsPeak'
<1>1. /\ UNCHANGED <<read, latest, shown, messages, reloads, peak>>
      /\ peak \in Nat /\ read.rev \in Nat /\ latest.rev \in Nat /\ shown.rev \in Nat /\ cell.rev \in Nat
      /\ c.rev \in Nat /\ aged \in Nat
  BY DEF previewPage, PreviewInv, PreviewTypeOK, Item
<1>2. CellNewest'
  BY <1>1 DEF PreviewInv, CellNewest
<1>3. PollFresh'
  BY <1>1 DEF PreviewInv, PollFresh
<1>4. Visible' => Visible
  BY <1>1 DEF Visible
<1> QED
  BY <1>1, <1>2, <1>3, <1>4 DEF PreviewInv, VisibleIsPeak

LEMMA WriterSteps ==
  ASSUME PreviewInv,
         \/ Grow \/ Finalize \/ Establish \/ Put \/ Answered \/ PutFails \/ PutTimesOut \/ Age
  PROVE  PreviewInv'
<1>1. PreviewTypeOK /\ liveOutput.rev \in Nat /\ liveOutput.msg \in Messages \union {NoItem} /\ cell.rev \in Nat
  BY DEF PreviewInv, PreviewTypeOK, Item
<1>2. /\ UNCHANGED previewPage /\ cell' = cell /\ aged' \in Nat /\ aged <= aged'
  BY <1>1 DEF Grow, Finalize, Establish, Put, Answered, PutFails, PutTimesOut, Age, PreviewTypeOK
<1>3. CellNewest' /\ PollFresh' /\ VisibleIsPeak'
  BY <1>1, <1>2, HostStep DEF PreviewTypeOK
<1>4. UNCHANGED <<read, latest, shown, messages, reloads, peak>>
  BY <1>2 DEF previewPage
<1>5. put.rev \in Nat /\ put.msg \in Messages \union {NoItem} /\ NoPut \in PutState
  BY <1>1 DEF PreviewTypeOK, PutState, NoPut
<1>6. Abandoned \subseteq Item
  BY <1>1, <1>5 DEF Abandoned, PreviewTypeOK, Item
<1>7. CASE Grow
  <2>1. liveOutput' \in Item
    BY <1>1, <1>7, CurrentIs DEF Grow, Item
  <2> QED
    BY <1>1, <1>2, <1>3, <1>4, <1>7, <2>1 DEF Grow, pump, PreviewTypeOK, PreviewInv
<1>8. CASE Finalize
  <2>1. liveOutput' \in Item /\ finals' \subseteq Messages
    BY <1>1, <1>8 DEF Finalize, Item, PreviewTypeOK
  <2> QED
    BY <1>1, <1>2, <1>3, <1>4, <1>8, <2>1 DEF Finalize, pump, PreviewTypeOK, PreviewInv
<1>9. CASE Establish \/ Age
  BY <1>1, <1>2, <1>3, <1>4, <1>9 DEF Establish, Age, pump, PreviewTypeOK, PreviewInv
<1>10. CASE Put
  <2>1. put' \in PutState
    BY <1>1, <1>10 DEF Put, PutState
  <2> QED
    BY <1>1, <1>2, <1>3, <1>4, <1>10, <2>1 DEF Put, PreviewTypeOK, PreviewInv
<1>11. CASE Answered \/ PutFails \/ PutTimesOut
  <2>1. put' = NoPut /\ published' \in Nat /\ late' \subseteq Item /\ stopped' \in BOOLEAN
    BY <1>1, <1>5, <1>6, <1>11 DEF Answered, PutFails, PutTimesOut, PreviewTypeOK
  <2>2. UNCHANGED <<liveOutput, finals, exists>>
    BY <1>11 DEF Answered, PutFails, PutTimesOut
  <2> QED
    BY <1>1, <1>2, <1>3, <1>4, <1>5, <2>1, <2>2 DEF PreviewTypeOK, PreviewInv
<1> QED
  BY <1>7, <1>8, <1>9, <1>10, <1>11

LEMMA StoreSteps ==
  ASSUME PreviewInv, Store \/ \E p \in late : StoreLate(p)
  PROVE  PreviewInv'
<1>1. PreviewTypeOK /\ cell.rev \in Nat /\ put \in PutState
  BY DEF PreviewInv, PreviewTypeOK, Item
<1>2. CASE Store
  <2>1. cell' = Written(put) /\ UNCHANGED <<liveOutput, finals, published, late, stopped, exists, aged, previewPage>>
    BY <1>2 DEF Store
  <2>2. Written(put) \in Item /\ cell.rev <= Written(put).rev
    BY <1>1, WrittenNewer DEF PutState
  <2>3. CellNewest' /\ PollFresh' /\ VisibleIsPeak'
    BY <1>1, <2>1, <2>2, HostStep DEF PreviewTypeOK
  <2>4. put' \in PutState
    BY <1>1, <1>2 DEF Store, PutState
  <2> QED
    BY <1>1, <2>1, <2>2, <2>3, <2>4 DEF PreviewInv, PreviewTypeOK, previewPage
<1>3. ASSUME NEW p \in late, StoreLate(p) PROVE PreviewInv'
  <2>1. /\ cell' = Written(p) /\ late' \subseteq late
        /\ UNCHANGED <<liveOutput, finals, published, put, stopped, exists, aged, previewPage>>
    BY <1>3 DEF StoreLate
  <2>2. Written(p) \in Item /\ cell.rev <= Written(p).rev
    BY <1>1, WrittenNewer DEF Item, PreviewTypeOK
  <2>3. CellNewest' /\ PollFresh' /\ VisibleIsPeak'
    BY <1>1, <2>1, <2>2, HostStep DEF PreviewTypeOK
  <2> QED
    BY <1>1, <2>1, <2>2, <2>3 DEF PreviewInv, PreviewTypeOK, previewPage
<1> QED
  BY <1>2, <1>3

\* The page moves, and the host and the store do not.
LEMMA PageSteps ==
  ASSUME PreviewInv, Poll \/ ReadOpened \/ Hide \/ Reload \/ \E m \in finals : Receive(m)
  PROVE  PreviewInv'
<1>1. /\ PreviewTypeOK /\ cell.rev \in Nat /\ aged \in Nat /\ peak \in Nat
      /\ cell \in Item /\ read \in Item /\ latest \in Item /\ shown \in Item
      /\ read.rev \in Nat /\ latest.rev \in Nat /\ shown.rev \in Nat
      /\ peak <= cell.rev /\ read.rev <= cell.rev /\ latest.rev <= cell.rev
      /\ read # Nothing => read.rev >= peak
  BY DEF PreviewInv, PreviewTypeOK, Item, CellNewest, PollFresh
<1>2. Nothing \in Item /\ Nothing.rev = 0
  BY DEF Nothing, Item
<1>3. UNCHANGED <<liveOutput, finals, pump, exists, cell, aged>>
  BY DEF Poll, ReadOpened, Hide, Reload, Receive
<1>4. UNCHANGED <<liveOutput, finals, published, put, late, stopped, exists, cell, aged>>
  BY <1>3 DEF pump
<1>5. CASE Poll
  <2>1. read' = cell /\ UNCHANGED <<latest, shown, messages, reloads, peak>>
    BY <1>5 DEF Poll
  <2>2. Visible' = Visible
    BY <1>4, <2>1 DEF Visible
  <2> QED
    BY <1>1, <1>4, <2>1, <2>2 DEF PreviewInv, PreviewTypeOK, CellNewest, PollFresh, VisibleIsPeak
<1>6. CASE ReadOpened
  <2>1. /\ read # Nothing /\ latest' = Newer /\ read' = Nothing /\ UNCHANGED <<messages, reloads>>
        /\ shown' = IF Newer.rev <= aged THEN Nothing ELSE Newer
        /\ Rendered
    BY <1>6 DEF ReadOpened
  <2>2. Newer \in Item /\ Newer.rev \in Nat /\ peak <= Newer.rev /\ Newer.rev <= cell.rev
    BY <1>1, <2>1 DEF Newer
  <2>3. shown' \in Item /\ (shown' = Nothing \/ shown' = Newer)
    BY <1>2, <2>1, <2>2
  <2>4. shown'.rev \in Nat /\ (Visible' => shown'.rev >= peak /\ shown'.rev <= cell.rev)
    BY <1>1, <1>2, <1>4, <2>2, <2>3 DEF Visible
  <2>5. /\ Visible' => peak' = shown'.rev
        /\ ~Visible' => peak' = peak
        /\ peak' \in Nat /\ peak' <= cell.rev
    <3>1. CASE Visible' /\ shown'.rev > peak
      BY <1>1, <2>1, <2>4, <3>1 DEF Rendered
    <3>2. CASE ~(Visible' /\ shown'.rev > peak)
      BY <1>1, <2>1, <2>4, <3>2 DEF Rendered
    <3> QED
      BY <3>1, <3>2
  <2> QED
    BY <1>1, <1>2, <1>4, <2>1, <2>2, <2>3, <2>5 DEF PreviewInv, PreviewTypeOK, CellNewest, PollFresh, VisibleIsPeak
<1>7. CASE Hide \/ Reload
  <2>1. /\ read' = Nothing /\ shown' = Nothing /\ latest' \in {latest, Nothing} /\ messages' \in {messages, {}}
        /\ peak' = peak /\ reloads' \in {reloads, reloads + 1}
    BY <1>7 DEF Hide, Reload
  <2>2. ~Visible'
    BY <1>1, <1>2, <1>4, <2>1 DEF Visible
  <2> QED
    BY <1>1, <1>2, <1>4, <2>1, <2>2 DEF PreviewInv, PreviewTypeOK, CellNewest, PollFresh, VisibleIsPeak
<1>8. ASSUME NEW m \in finals, Receive(m) PROVE PreviewInv'
  <2>1. messages' = messages \union {m} /\ UNCHANGED <<read, latest, shown, reloads>> /\ Rendered
    BY <1>8 DEF Receive
  <2>2. Visible' => Visible
    BY <1>4, <2>1 DEF Visible
  <2>3. peak' = peak
    BY <1>1, <2>1, <2>2 DEF Rendered, PreviewInv, VisibleIsPeak
  <2> QED
    BY <1>1, <1>4, <2>1, <2>2, <2>3 DEF PreviewInv, PreviewTypeOK, CellNewest, PollFresh, VisibleIsPeak
<1> QED
  BY <1>5, <1>6, <1>7, <1>8

\* The invariant of the preview holds in every reachable state.
THEOREM PreviewInvariant == PreviewSpec => []PreviewInv
<1>1. PreviewInit => PreviewInv
  <2> SUFFICES ASSUME PreviewInit PROVE PreviewInv
    OBVIOUS
  <2>1. Nothing \in Item /\ Nothing.rev = 0 /\ NoPut \in PutState
    BY DEF Nothing, NoPut, Item, PutState
  <2>2. PreviewTypeOK
    BY <2>1 DEF PreviewInit, PreviewTypeOK
  <2>3. ~Visible
    BY <2>1 DEF PreviewInit, Visible
  <2> QED
    BY <2>1, <2>2, <2>3 DEF PreviewInit, PreviewInv, CellNewest, PollFresh, VisibleIsPeak
<1>2. PreviewInv /\ [PreviewNext]_previewVars => PreviewInv'
  <2> SUFFICES ASSUME PreviewInv, [PreviewNext]_previewVars PROVE PreviewInv'
    OBVIOUS
  <2>1. CASE UNCHANGED previewVars
    BY <2>1 DEF previewVars, PreviewInv, PreviewTypeOK, CellNewest, PollFresh, VisibleIsPeak, Visible
  <2>2. CASE PreviewNext
    BY <2>2, WriterSteps, StoreSteps, PageSteps DEF PreviewNext
  <2> QED
    BY <2>1, <2>2
<1> QED
  BY <1>1, <1>2, PTL DEF PreviewSpec

\* For any number of revisions, late puts and reloads: a preview that a page renders is never
\* older than one that was rendered before.
THEOREM NeverGoesBack == PreviewSpec => []PreviewForward
<1>1. PreviewInv => PreviewForward
  BY DEF PreviewInv, PreviewTypeOK, Item, VisibleIsPeak, PreviewForward
<1> QED
  BY <1>1, PreviewInvariant, PTL
=============================================================================
