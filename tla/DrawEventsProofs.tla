-------------------------- MODULE DrawEventsProofs --------------------------
(***************************************************************************)
(* Proofs about DrawEvents, for any finite or infinite set of events whose *)
(* numbers are bounded: what the traversal of get_active_events computes.  *)
(***************************************************************************)
EXTENDS DrawEvents, WellFoundedInduction, TLAPS

-----------------------------------------------------------------------------
(* Undo is erasure.  The traversal of get_active_events is a recursive       *)
(* function on the numbers of the events, from the last one down; two sets   *)
(* of events are compared by the last number at which their traversals       *)
(* differ.                                                                   *)

\* A set of numbers has a smallest one.
LEMMA Smallest == ASSUME NEW S \in SUBSET Nat, S # {} PROVE \E i \in S : \A k \in S : i <= k
<1> DEFINE R == OpToRel(<, Nat)
<1>1. IsWellFoundedOn(R, Nat)
  BY NatLessThanWellFounded
<1>2. \A x, y \in Nat : x < y => <<x, y>> \in R
  BY DEF OpToRel
<1> HIDE DEF R
<1>3. PICK i \in S : \A y \in S : ~ (<<y, i>> \in R)
  BY <1>1, WFMin
<1>4. ASSUME NEW k \in S PROVE i <= k
  <2>1. i \in Nat /\ k \in Nat
    OBVIOUS
  <2>2. ~ (<<k, i>> \in R)
    BY <1>3
  <2>3. ~ (k < i)
    BY <1>2, <2>1, <2>2
  <2> QED
    BY <2>1, <2>3
<1> QED
  BY <1>4

\* A bounded one has a largest.
LEMMA Largest ==
    ASSUME NEW S \in SUBSET Nat, S # {}, NEW N \in Nat, \A i \in S : i <= N
    PROVE  \E i \in S : \A k \in S : k <= i
<1> DEFINE T == {j \in Nat : N - j \in S}
<1>1. PICK i \in S : TRUE
  OBVIOUS
<1>2. N - i \in Nat /\ N - (N - i) = i
  OBVIOUS
<1>3. N - i \in T
  BY <1>1, <1>2
<1>4. T \in SUBSET Nat /\ T # {}
  BY <1>3
<1>5. PICK j \in T : \A k \in T : j <= k
  BY <1>4, Smallest
<1>6. j \in Nat /\ N - j \in S
  OBVIOUS
<1>7. ASSUME NEW k \in S PROVE k <= N - j
  <2>1. k \in Nat /\ N - k \in Nat /\ N - (N - k) = k
    OBVIOUS
  <2>2. N - k \in T
    BY <2>1
  <2>3. j <= N - k
    BY <1>5, <2>2
  <2> QED
    BY <1>6, <2>1, <2>3
<1> QED
  BY <1>6, <1>7

\* An undo of E that the traversal skip leaves alone aims at n.
Hit(E, skip, n) == \E u \in Undos(E) : u.seq > n /\ u.target = n /\ ~skip[u.seq]

\* skip is the traversal of E down to the number after N - k.
Traversal(E, N, k, skip) == skip = [n \in {m \in Seqs(E) : m + k > N} |-> Hit(E, skip, n)]

\* One more number is traversed.
LEMMA TraversalStep ==
    ASSUME NEW E, \A e \in E : e.seq \in Nat, NEW N \in Nat, NEW k \in Nat, NEW skip, Traversal(E, N, k, skip)
    PROVE  \E more : Traversal(E, N, k + 1, more)
<1> DEFINE D == {m \in Seqs(E) : m + k > N}
           C == {m \in Seqs(E) : m + (k + 1) > N}
           more == [n \in C |-> Hit(E, skip, n)]
<1>1. \A m \in Seqs(E) : m \in Nat
  BY DEF Seqs
<1>2. D \subseteq C /\ \A n \in C : \A m \in Seqs(E) : m > n => m \in D
  BY <1>1
<1>3. \A n \in D : skip[n] = Hit(E, skip, n)
  BY DEF Traversal
<1> HIDE DEF C, D
<1>4. \A n \in D : more[n] = skip[n]
  BY <1>2, <1>3
<1>5. \A u \in Undos(E) : u.seq \in Seqs(E)
  BY DEF Undos, Seqs
<1> HIDE DEF more
<1>6. \A n \in C : Hit(E, more, n) = Hit(E, skip, n)
  BY <1>2, <1>4, <1>5 DEF Hit
<1>7. more = [n \in C |-> Hit(E, more, n)]
  BY <1>6 DEF more
<1> QED
  BY <1>7 DEF Traversal, C

\* The numbers of a set of events that is bounded can be traversed.
LEMMA TraversalExists ==
    ASSUME NEW E, \A e \in E : e.seq \in Nat, NEW N \in Nat, \A e \in E : e.seq <= N
    PROVE  \E skip : skip = [n \in Seqs(E) |-> Hit(E, skip, n)]
<1> DEFINE Fails == {k \in Nat : ~ \E skip : Traversal(E, N, k, skip)}
<1>1. \A m \in Seqs(E) : m \in Nat /\ m <= N
  BY DEF Seqs
<1>2. Fails = {}
  <2> SUFFICES ASSUME Fails # {} PROVE FALSE
    OBVIOUS
  <2>1. PICK i \in Fails : \A k \in Fails : i <= k
    <3>1. Fails \in SUBSET Nat
      OBVIOUS
    <3> QED
      BY <3>1, Smallest
  <2>2. CASE i = 0
    <3>1. {m \in Seqs(E) : m + 0 > N} = {}
      BY <1>1
    <3> DEFINE none == [n \in {} |-> TRUE]
    <3>2. none = [n \in {m \in Seqs(E) : m + 0 > N} |-> Hit(E, none, n)]
      BY <3>1
    <3> QED
      BY <2>2, <3>2 DEF Traversal
  <2>3. CASE i # 0
    <3>1. PICK k \in Nat : i = k + 1
      <4>1. i - 1 \in Nat /\ i = (i - 1) + 1
        BY <2>3
      <4> QED
        BY <4>1
    <3>2. k \notin Fails
      BY <2>1, <3>1
    <3>3. PICK skip : Traversal(E, N, k, skip)
      BY <3>2
    <3> QED
      BY <3>1, <3>3, TraversalStep
  <2> QED
    BY <2>2, <2>3
<1>3. PICK skip : Traversal(E, N, N + 1, skip)
  <2> DEFINE k == N + 1
  <2>1. k \in Nat
    OBVIOUS
  <2> HIDE DEF k
  <2>2. k \notin Fails
    BY <1>2
  <2>3. \E skip : Traversal(E, N, k, skip)
    BY <2>1, <2>2
  <2> QED
    BY <2>3 DEF k
<1>4. {m \in Seqs(E) : m + (N + 1) > N} = Seqs(E)
  BY <1>1
<1> QED
  BY <1>3, <1>4 DEF Traversal

\* Skipped is that traversal: an undo is skipped when one that is not skipped
\* aims at it.
LEMMA SkippedIs ==
    ASSUME NEW E, \A e \in E : e.seq \in Nat, NEW N \in Nat, \A e \in E : e.seq <= N
    PROVE  \A n \in Seqs(E) : Skipped(E)[n] <=> Hit(E, Skipped(E), n)
<1> DEFINE F(f) == [n \in Seqs(E) |-> \E u \in Undos(E) : u.seq > n /\ u.target = n /\ ~f[u.seq]]
<1>1. \E skip : skip = F(skip)
  BY TraversalExists DEF Hit
<1>2. Skipped(E) = CHOOSE skip : skip = F(skip)
  BY DEF Skipped
<1> HIDE DEF F
<1>3. Skipped(E) = F(Skipped(E))
  BY <1>1, <1>2
<1> QED
  BY <1>3 DEF F, Hit

\* Two traversals agree on the numbers D if they agree at each of them once they
\* agree at all that are larger.
LEMMA SkipsAgree ==
    ASSUME NEW D \in SUBSET Nat, NEW N \in Nat, \A n \in D : n <= N, NEW s, NEW t,
           \A n \in D : (\A m \in D : m > n => (s[m] <=> t[m])) => (s[n] <=> t[n])
    PROVE  \A n \in D : s[n] <=> t[n]
<1> DEFINE Differ == {n \in D : ~ (s[n] <=> t[n])}
<1>1. Differ \in SUBSET Nat /\ \A n \in Differ : n <= N
  OBVIOUS
<1> SUFFICES ASSUME Differ # {} PROVE FALSE
  OBVIOUS
<1>2. PICK n \in Differ : \A k \in Differ : k <= n
  BY <1>1, Largest
<1>3. n \in D /\ n \in Nat /\ ~ (s[n] <=> t[n])
  OBVIOUS
<1>4. ASSUME NEW m \in D, m > n PROVE s[m] <=> t[m]
  <2>1. ~ (m <= n)
    BY <1>3, <1>4
  <2>2. m \notin Differ
    BY <1>2, <2>1
  <2> QED
    BY <2>2
<1> QED
  BY <1>3, <1>4

\* A drawing with a number that no undo aims at joins the active ones.
LEMMA DrawingJoins ==
    ASSUME NEW E, NEW e, \A f \in E \cup {e} : f.seq \in Nat, NEW N \in Nat, \A f \in E \cup {e} : f.seq <= N,
           e.target = 0, \A f \in E : f.target # e.seq
    PROVE  Active(E \cup {e}) = Active(E) \cup {e}
<1> DEFINE F == E \cup {e}
<1>1. Undos(F) = Undos(E) /\ Seqs(E) \subseteq Seqs(F)
  BY DEF Undos, Seqs
<1>2. \A n \in Seqs(E) : Skipped(E)[n] <=> Hit(E, Skipped(E), n)
  BY SkippedIs
<1>3. \A n \in Seqs(F) : Skipped(F)[n] <=> Hit(F, Skipped(F), n)
  BY <1>1, SkippedIs
<1>4. Drawings(F) = Drawings(E) \cup {e}
  BY DEF Drawings
<1> HIDE DEF F
<1>5. \A u \in Undos(E) : u.seq \in Seqs(E)
  BY DEF Undos, Seqs
<1>6. \A n \in Seqs(E) : Skipped(E)[n] <=> Skipped(F)[n]
  <2>1. \A n \in Seqs(E) : n \in Nat /\ n <= N
    BY DEF Seqs
  <2>2. ASSUME NEW n \in Seqs(E), \A m \in Seqs(E) : m > n => (Skipped(E)[m] <=> Skipped(F)[m])
        PROVE  Skipped(E)[n] <=> Skipped(F)[n]
    <3>1. Hit(E, Skipped(E), n) <=> Hit(F, Skipped(F), n)
      BY <1>1, <1>5, <2>2 DEF Hit
    <3> QED
      BY <1>1, <1>2, <1>3, <3>1
  <2> QED
    BY <2>1, <2>2, SkipsAgree
<1>7. UndoneSeqs(F) = UndoneSeqs(E)
  BY <1>1, <1>5, <1>6 DEF UndoneSeqs
<1>8. e.seq \notin UndoneSeqs(E)
  BY DEF UndoneSeqs, Undos
<1> QED
  BY <1>4, <1>7, <1>8 DEF Active, F

\* An undo with a number above all others takes what it aims at off the board as
\* if that had never been there, be it a drawing or an undo.
LEMMA UndoErases ==
    ASSUME NEW E, NEW e, \A f \in E \cup {e} : f.seq \in Nat, \A f \in E : f.seq < e.seq,
           e.target # 0, e.target < e.seq
    PROVE  Active(E \cup {e}) = Active({f \in E : f.seq # e.target})
<1> DEFINE F == E \cup {e}
           G == {f \in E : f.seq # e.target}
           N == e.seq
<1>1. /\ N \in Nat
      /\ \A f \in F : f.seq <= N /\ f.seq \in Nat
      /\ \A f \in G : f.seq < N
  OBVIOUS
<1>2. \A n \in Seqs(F) : Skipped(F)[n] <=> Hit(F, Skipped(F), n)
  BY <1>1, SkippedIs
<1>3. \A n \in Seqs(G) : Skipped(G)[n] <=> Hit(G, Skipped(G), n)
  <2>1. \A f \in G : f.seq \in Nat /\ f.seq <= N
    BY <1>1
  <2> HIDE DEF G, N
  <2> QED
    BY <1>1, <2>1, SkippedIs
<1>4. /\ e \in Undos(F) /\ N \in Seqs(F)
      /\ \A u \in Undos(F) : u \in F /\ u.seq \in Seqs(F) /\ u.target # 0
      /\ \A u \in Undos(G) : u \in G /\ u.seq \in Seqs(G) /\ u \in Undos(F)
      /\ \A u \in Undos(F) : u = e \/ u.seq = e.target \/ u \in Undos(G)
      /\ \A n \in Seqs(G) : n \in Seqs(F) /\ n \in Nat /\ n <= N /\ n # e.target
  BY <1>1 DEF Undos, Seqs
<1>5. ~Skipped(F)[N]
  <2> HIDE DEF F, N
  <2>1. ~Hit(F, Skipped(F), N)
    BY <1>1, <1>4 DEF Hit
  <2> QED
    BY <1>2, <1>4, <2>1
<1>6. \A u \in Undos(F) : u.seq = e.target => Skipped(F)[u.seq]
  BY <1>2, <1>4, <1>5 DEF Hit
<1> HIDE DEF F, G
<1>7. \A n \in Seqs(G) : Skipped(G)[n] <=> Skipped(F)[n]
  <2>1. ASSUME NEW n \in Seqs(G), \A m \in Seqs(G) : m > n => (Skipped(G)[m] <=> Skipped(F)[m])
        PROVE  Skipped(G)[n] <=> Skipped(F)[n]
    <3>1. Hit(G, Skipped(G), n) <=> Hit(F, Skipped(F), n)
      BY <1>4, <1>6, <2>1 DEF Hit
    <3> QED
      BY <1>2, <1>3, <1>4, <3>1
  <2>2. Seqs(G) \in SUBSET Nat /\ \A n \in Seqs(G) : n <= N
    BY <1>4
  <2> HIDE DEF N
  <2> QED
    BY <1>1, <2>1, <2>2, SkipsAgree
<1>8. UndoneSeqs(F) = UndoneSeqs(G) \cup {e.target}
  BY <1>4, <1>5, <1>6, <1>7 DEF UndoneSeqs
<1>9. /\ \A f : f \in Drawings(F) <=> f \in Drawings(E)
      /\ \A f : f \in Drawings(G) <=> f \in Drawings(E) /\ f.seq # e.target
  BY DEF Drawings, F, G
<1> QED
  BY <1>8, <1>9 DEF Active, F, G

\* When the events up to a number are gone the others are shown as before: what
\* can skip an undo comes after it, and an undo aims at what came before it.
LEMMA PruneKeepsActive ==
    ASSUME NEW E, \A e \in E : e.seq \in Nat /\ e.target \in Nat /\ e.target < e.seq,
           NEW N \in Nat, \A e \in E : e.seq <= N, NEW n \in Nat
    PROVE  Active(AfterSeq(E, n)) = {e \in Active(E) : e.seq > n}
<1> DEFINE F == AfterSeq(E, n)
<1>1. /\ \A e : e \in F <=> e \in E /\ e.seq > n
      /\ \A e : e \in Undos(F) <=> e \in Undos(E) /\ e.seq > n
      /\ \A e : e \in Drawings(F) <=> e \in Drawings(E) /\ e.seq > n
  BY DEF AfterSeq, Undos, Drawings
<1>2. /\ \A e \in Undos(E) : e \in E /\ e.seq \in Seqs(E)
      /\ \A e \in Undos(F) : e \in F /\ e.seq \in Seqs(F)
      /\ \A e \in Drawings(E) : e \in E
  BY DEF Undos, Drawings, Seqs
<1>3. \A m \in Seqs(F) : m \in Seqs(E) /\ m \in Nat /\ m <= N /\ m > n
  BY <1>1 DEF Seqs
<1>4. \A m \in Seqs(E) : Skipped(E)[m] <=> Hit(E, Skipped(E), m)
  BY SkippedIs
<1>5. \A m \in Seqs(F) : Skipped(F)[m] <=> Hit(F, Skipped(F), m)
  <2>1. \A e \in F : e.seq \in Nat /\ e.seq <= N
    BY <1>1
  <2> HIDE DEF F
  <2> QED
    BY <2>1, SkippedIs
<1> HIDE DEF F
<1>6. \A m \in Seqs(F) : Skipped(E)[m] <=> Skipped(F)[m]
  <2>1. ASSUME NEW m \in Seqs(F), \A k \in Seqs(F) : k > m => (Skipped(E)[k] <=> Skipped(F)[k])
        PROVE  Skipped(E)[m] <=> Skipped(F)[m]
    <3>1. \A u \in Undos(E) : u.seq > m => u \in Undos(F)
      BY <1>1, <1>2, <1>3
    <3>2. Hit(E, Skipped(E), m) <=> Hit(F, Skipped(F), m)
      BY <1>1, <1>2, <2>1, <3>1 DEF Hit
    <3> QED
      BY <1>3, <1>4, <1>5, <3>2
  <2>2. Seqs(F) \in SUBSET Nat /\ \A m \in Seqs(F) : m <= N
    BY <1>3
  <2> QED
    BY <2>1, <2>2, SkipsAgree
<1>7. \A m \in UndoneSeqs(F) : m \in UndoneSeqs(E)
  BY <1>1, <1>2, <1>6 DEF UndoneSeqs
<1>8. \A m \in UndoneSeqs(E) : m > n => m \in UndoneSeqs(F)
  <2>1. SUFFICES ASSUME NEW u \in Undos(E), ~Skipped(E)[u.seq], u.target > n
                 PROVE  u.target \in UndoneSeqs(F)
    BY DEF UndoneSeqs
  <2>2. u \in Undos(F)
    BY <1>1, <1>2, <2>1
  <2> QED
    BY <1>2, <1>6, <2>1, <2>2 DEF UndoneSeqs
<1> QED
  BY <1>1, <1>2, <1>7, <1>8 DEF Active, F
=============================================================================
