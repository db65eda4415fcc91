---------------------------- MODULE SequenceLemmas ----------------------------
(***************************************************************************)
(* Facts about sequences that the proofs about captures rest on: induction *)
(* over the natural numbers in a form that needs no operator as parameter, *)
(* and FlattenSeq, which joins a sequence of sequences.                    *)
(***************************************************************************)
EXTENDS SequencesExt, SequenceTheorems, WellFoundedInduction, TLAPS

-------------------------------------------------------------------------------
(* Induction                                                               *)

(* A set of natural numbers that has an element has a least one. *)
LEMMA LeastNatural ==
  ASSUME NEW T \in SUBSET Nat, T # {}
  PROVE  \E m \in T : \A k \in T : m <= k
<1> DEFINE R == OpToRel(<, Nat)
<1>1. IsWellFoundedOn(R, Nat)
  BY NatLessThanWellFounded
<1> HIDE DEF R
<1>2. PICK m \in T : \A k \in T : << k, m >> \notin R
  BY <1>1, WFMin
<1>3. \A k \in T : ~(k < m)
  BY <1>2 DEF R, OpToRel
<1> QED
  BY <1>2, <1>3

(* P, a set, holds up to n when it holds of 0 and is handed on.             *)
LEMMA InductionUpTo ==
  ASSUME NEW n \in Nat, NEW P, 0 \in P, \A k \in 0..n-1 : k \in P => k + 1 \in P
  PROVE  \A k \in 0..n : k \in P
<1> DEFINE Bad == { k \in 0..n : k \notin P }
<1> SUFFICES ASSUME Bad # {} PROVE FALSE
  OBVIOUS
<1>1. PICK m \in Bad : \A k \in Bad : m <= k
  <2>1. Bad \in SUBSET Nat
    OBVIOUS
  <2> HIDE DEF Bad
  <2> QED
    BY <2>1, LeastNatural
<1>2. m # 0 /\ m - 1 \in 0..n-1 /\ m - 1 \notin Bad
  BY <1>1
<1>3. m - 1 \in P /\ (m - 1) + 1 = m
  BY <1>2
<1> QED
  BY <1>1, <1>2, <1>3

-------------------------------------------------------------------------------
(* FlattenSeq                                                              *)

(* f[i] is what the first i sequences of ss amount to.                      *)
Joins(f, ss, S) ==
  /\ f \in [0..Len(ss) -> Seq(S)]
  /\ f[0] = << >>
  /\ \A i \in 1..Len(ss) : f[i] = f[i-1] \o ss[i]

(* The recursion of FlattenSeq, up to m. *)
Joining(g, ss, m) ==
  g = [i \in 1..m |-> IF i = 1 THEN ss[i] ELSE g[i-1] \o ss[i]]

(* The definition of FlattenSeq, element by element. *)
LEMMA JoiningPointwise ==
  ASSUME NEW g, NEW ss, NEW m \in Nat,
         g = [i \in 1..m |-> g[i]],
         \A i \in 1..m : g[i] = IF i = 1 THEN ss[i] ELSE g[i-1] \o ss[i]
  PROVE  Joining(g, ss, m)
  BY DEF Joining

(* A function that joins the first n sequences one after another exists. *)
LEMMA FlattenDefined ==
  ASSUME NEW ss, NEW n \in Nat
  PROVE  \E g : Joining(g, ss, n)
<1> DEFINE P == { m \in 0..n : \E g : Joining(g, ss, m) }
<1>1. \E g : Joining(g, ss, 0)
  <2> DEFINE h == [i \in 1..0 |-> << >>]
  <2>1. h = [i \in 1..0 |-> h[i]] /\ \A i \in 1..0 : FALSE
    OBVIOUS
  <2> HIDE DEF h
  <2>2. Joining(h, ss, 0)
    BY <2>1, JoiningPointwise
  <2> QED
    BY <2>2
<1>2. ASSUME NEW k \in 0..n-1, NEW g, Joining(g, ss, k)
      PROVE  \E h : Joining(h, ss, k + 1)
  <2> DEFINE h == [i \in 1..k+1 |-> IF i <= k THEN g[i]
                                    ELSE IF k = 0 THEN ss[i] ELSE g[k] \o ss[i]]
  <2>0. h = [i \in 1..k+1 |-> h[i]]
    OBVIOUS
  <2>1. \A i \in 1..k : g[i] = IF i = 1 THEN ss[i] ELSE g[i-1] \o ss[i]
    BY <1>2 DEF Joining
  <2>2. \A i \in 1..k : h[i] = g[i]
    OBVIOUS
  <2>3. h[k+1] = IF k = 0 THEN ss[k+1] ELSE g[k] \o ss[k+1]
    OBVIOUS
  <2> HIDE DEF h
  <2>4. \A i \in 1..k+1 : h[i] = IF i = 1 THEN ss[i] ELSE h[i-1] \o ss[i]
    <3> SUFFICES ASSUME NEW i \in 1..k+1
                 PROVE  h[i] = IF i = 1 THEN ss[i] ELSE h[i-1] \o ss[i]
      OBVIOUS
    <3>1. CASE i <= k /\ i = 1
      BY <2>1, <2>2, <3>1
    <3>2. CASE i <= k /\ i # 1
      <4>1. i - 1 \in 1..k /\ i \in 1..k
        BY <3>2
      <4> QED
        BY <2>1, <2>2, <3>2, <4>1
    <3>3. CASE i = k + 1 /\ k = 0
      BY <2>3, <3>3
    <3>4. CASE i = k + 1 /\ k # 0
      <4>1. k \in 1..k /\ i - 1 = k /\ i # 1
        BY <3>4
      <4> QED
        BY <2>2, <2>3, <3>4, <4>1
    <3> QED
      BY <3>1, <3>2, <3>3, <3>4
  <2>5. k + 1 \in Nat
    OBVIOUS
  <2>6. Joining(h, ss, k + 1)
    BY <2>0, <2>4, <2>5, JoiningPointwise
  <2> QED
    BY <2>6
<1>3. 0 \in P /\ \A k \in 0..n-1 : k \in P => k + 1 \in P
  BY <1>1, <1>2
<1>4. \A k \in 0..n : k \in P
  <2> HIDE DEF P
  <2> QED
    BY <1>3, InductionUpTo
<1> QED
  BY <1>4

(* FlattenSeq is the last value of such a function. *)
LEMMA FlattenJoins ==
  ASSUME NEW S, NEW ss \in Seq(Seq(S))
  PROVE  \E f : Joins(f, ss, S) /\ FlattenSeq(ss) = f[Len(ss)]
<1> DEFINE n == Len(ss)
<1>0. n \in Nat /\ \A i \in 1..n : ss[i] \in Seq(S)
  OBVIOUS
<1> DEFINE g == CHOOSE g : g = [i \in 1..n |-> IF i = 1 THEN ss[i] ELSE g[i-1] \o ss[i]]
           f == [i \in 0..n |-> IF i = 0 THEN << >> ELSE g[i]]
<1>1. Joining(g, ss, n)
  BY <1>0, FlattenDefined DEF Joining
<1>2. n # 0 => FlattenSeq(ss) = g[n]
  BY DEF FlattenSeq
<1>3. n = 0 => FlattenSeq(ss) = << >>
  BY DEF FlattenSeq
<1> HIDE DEF g
<1>r. \A i \in 1..n : g[i] = IF i = 1 THEN ss[i] ELSE g[i-1] \o ss[i]
  BY <1>1 DEF Joining
<1>4. \A k \in 0..n : k \in { m \in 0..n : m # 0 => g[m] \in Seq(S) }
  <2> DEFINE P == { m \in 0..n : m # 0 => g[m] \in Seq(S) }
  <2>1. 0 \in P
    BY <1>0
  <2>2. \A k \in 0..n-1 : k \in P => k + 1 \in P
    <3> SUFFICES ASSUME NEW k \in 0..n-1, k \in P PROVE g[k+1] \in Seq(S)
      OBVIOUS
    <3>1. k + 1 \in 1..n /\ (k + 1) - 1 = k
      BY <1>0
    <3>2. g[k+1] = IF k = 0 THEN ss[k+1] ELSE g[k] \o ss[k+1]
      BY <1>r, <3>1
    <3> QED
      BY <1>0, <3>1, <3>2
  <2> HIDE DEF P
  <2>3. \A k \in 0..n : k \in P
    BY <1>0, <2>1, <2>2, InductionUpTo
  <2> QED
    BY <2>3 DEF P
<1>5. Joins(f, ss, S)
  <2>1. f \in [0..n -> Seq(S)] /\ f[0] = << >>
    BY <1>0, <1>4
  <2>2. ASSUME NEW i \in 1..n PROVE f[i] = f[i-1] \o ss[i]
    <3>1. g[i] = IF i = 1 THEN ss[i] ELSE g[i-1] \o ss[i]
      BY <1>r
    <3>2. f[i] = g[i] /\ (i # 1 => f[i-1] = g[i-1]) /\ (i = 1 => f[i-1] = << >>)
      BY <1>0
    <3>3. << >> \o ss[i] = ss[i]
      BY <1>0
    <3> QED
      BY <3>1, <3>2, <3>3
  <2> QED
    BY <2>1, <2>2 DEF Joins
<1>6. FlattenSeq(ss) = f[n]
  BY <1>0, <1>2, <1>3
<1> QED
  BY <1>5, <1>6, SMTT(30)

(* There is one way to join. *)
SamePrefix(ss, tt, n) ==
  n <= Len(ss) /\ n <= Len(tt) /\ \A i \in 1..n : ss[i] = tt[i]

(* Such functions agree where their sequences do. *)
LEMMA JoinsAgree ==
  ASSUME NEW S, NEW ss \in Seq(Seq(S)), NEW tt \in Seq(Seq(S)), NEW n \in Nat,
         SamePrefix(ss, tt, n),
         NEW f, Joins(f, ss, S), NEW g, Joins(g, tt, S)
  PROVE  f[n] = g[n]
<1> DEFINE P == { m \in 0..n : f[m] = g[m] }
<1>0. Len(ss) \in Nat /\ Len(tt) \in Nat
  OBVIOUS
<1>1. 0 \in P
  BY DEF Joins
<1>2. \A k \in 0..n-1 : k \in P => k + 1 \in P
  <2> SUFFICES ASSUME NEW k \in 0..n-1, f[k] = g[k] PROVE f[k+1] = g[k+1]
    OBVIOUS
  <2>1. /\ k + 1 \in 1..Len(ss) /\ k + 1 \in 1..Len(tt) /\ (k + 1) - 1 = k
        /\ ss[k+1] = tt[k+1]
    BY <1>0 DEF SamePrefix
  <2>2. f[k+1] = f[k] \o ss[k+1]
    BY <2>1 DEF Joins
  <2>3. g[k+1] = g[k] \o tt[k+1]
    BY <2>1 DEF Joins
  <2> QED
    BY <2>1, <2>2, <2>3
<1> HIDE DEF P
<1>3. \A k \in 0..n : k \in P
  BY <1>1, <1>2, InductionUpTo
<1> QED
  BY <1>3 DEF P

(* The parts of a sequence joined are of its elements. *)
LEMMA FlattenType ==
  ASSUME NEW S, NEW ss \in Seq(Seq(S))
  PROVE  FlattenSeq(ss) \in Seq(S)
<1>1. PICK f : Joins(f, ss, S) /\ FlattenSeq(ss) = f[Len(ss)]
  BY FlattenJoins
<1>2. Len(ss) \in Nat
  OBVIOUS
<1> QED
  BY <1>1, <1>2 DEF Joins

(* Nothing joined. *)
LEMMA FlattenEmpty == FlattenSeq(<< >>) = << >>
  BY DEF FlattenSeq

(* One sequence more is joined behind the others. *)
LEMMA FlattenAppend ==
  ASSUME NEW S, NEW ss \in Seq(Seq(S)), NEW s \in Seq(S)
  PROVE  FlattenSeq(Append(ss, s)) = FlattenSeq(ss) \o s
<1> DEFINE tt == Append(ss, s)
           n  == Len(ss)
<1>1. /\ n \in Nat /\ tt \in Seq(Seq(S)) /\ Len(tt) = n + 1
      /\ \A i \in 1..n : ss[i] = tt[i]
      /\ tt[n+1] = s
  OBVIOUS
<1> HIDE DEF tt
<1>2. PICK f : Joins(f, ss, S) /\ FlattenSeq(ss) = f[n]
  BY FlattenJoins
<1>3. PICK g : Joins(g, tt, S) /\ FlattenSeq(tt) = g[n+1]
  BY <1>1, FlattenJoins
<1>4. f[n] = g[n]
  <2>1. n <= Len(ss) /\ n <= Len(tt)
    BY <1>1
  <2>2. SamePrefix(ss, tt, n)
    BY <1>1, <2>1 DEF SamePrefix
  <2> QED
    BY <1>1, <1>2, <1>3, <2>2, JoinsAgree
<1>5. g[n+1] = g[n] \o s
  <2>1. n + 1 \in 1..Len(tt) /\ (n + 1) - 1 = n
    BY <1>1
  <2>2. g[n+1] = g[(n+1)-1] \o tt[n+1]
    BY <1>3, <2>1 DEF Joins
  <2> QED
    BY <1>1, <2>1, <2>2
<1> QED
  BY <1>2, <1>3, <1>4, <1>5 DEF tt

(* One sequence joined is itself. *)
LEMMA FlattenSingle ==
  ASSUME NEW S, NEW s \in Seq(S)
  PROVE  FlattenSeq(<< s >>) = s
<1>1. << >> \in Seq(Seq(S)) /\ Append(<< >>, s) = << s >> /\ << >> \o s = s
  OBVIOUS
<1> QED
  BY <1>1, FlattenAppend, FlattenEmpty

(* Appending to the second of two sequences. *)
LEMMA ConcatAppend ==
  ASSUME NEW S, NEW s \in Seq(S), NEW t \in Seq(S), NEW e \in S
  PROVE  s \o Append(t, e) = Append(s \o t, e)
  OBVIOUS

(* One step of FlattenConcat. *)
LEMMA FlattenConcatStep ==
  ASSUME NEW S, NEW ss \in Seq(Seq(S)), NEW u \in Seq(Seq(S)), NEW e \in Seq(S),
         FlattenSeq(ss \o u) = FlattenSeq(ss) \o FlattenSeq(u)
  PROVE  FlattenSeq(ss \o Append(u, e)) = FlattenSeq(ss) \o FlattenSeq(Append(u, e))
<1>1. ss \o Append(u, e) = Append(ss \o u, e)
  BY ConcatAppend, SMTT(30)
<1>2. ss \o u \in Seq(Seq(S))
  OBVIOUS
<1>3. FlattenSeq(Append(ss \o u, e)) = FlattenSeq(ss \o u) \o e
  BY <1>2, FlattenAppend
<1>4. FlattenSeq(Append(u, e)) = FlattenSeq(u) \o e
  BY FlattenAppend
<1>5. FlattenSeq(ss) \in Seq(S) /\ FlattenSeq(u) \in Seq(S)
  BY FlattenType
<1>6. (FlattenSeq(ss) \o FlattenSeq(u)) \o e = FlattenSeq(ss) \o (FlattenSeq(u) \o e)
  BY <1>5, SMTT(30)
<1> QED
  BY <1>1, <1>2, <1>3, <1>4, <1>6

(* Joining distributes over concatenation. *)
LEMMA FlattenConcat ==
  ASSUME NEW S, NEW ss \in Seq(Seq(S)), NEW tt \in Seq(Seq(S))
  PROVE  FlattenSeq(ss \o tt) = FlattenSeq(ss) \o FlattenSeq(tt)
<1> DEFINE n == Len(tt)
           Upto(k) == SubSeq(tt, 1, k)
           Same(k) == FlattenSeq(ss \o Upto(k)) = FlattenSeq(ss) \o FlattenSeq(Upto(k))
           P == { k \in 0..n : Same(k) }
<1>0. n \in Nat /\ FlattenSeq(ss) \in Seq(S)
  BY FlattenType
<1>1. Same(0)
  <2>1. Upto(0) = << >>
    OBVIOUS
  <2>2. ss \o << >> = ss
    OBVIOUS
  <2>3. FlattenSeq(ss) \o << >> = FlattenSeq(ss)
    BY <1>0
  <2> HIDE DEF Upto
  <2> QED
    BY <2>1, <2>2, <2>3, FlattenEmpty
<1>2. ASSUME NEW k \in 0..n-1, Same(k) PROVE Same(k+1)
  <2>1. /\ Upto(k) \in Seq(Seq(S)) /\ tt[k+1] \in Seq(S)
        /\ Upto(k+1) = Append(Upto(k), tt[k+1])
    BY <1>0
  <2>2. FlattenSeq(ss \o Append(Upto(k), tt[k+1])) =
          FlattenSeq(ss) \o FlattenSeq(Append(Upto(k), tt[k+1]))
    <3> HIDE DEF Upto
    <3> QED
      BY <1>2, <2>1, FlattenConcatStep
  <2> QED
    BY <2>1, <2>2
<1> HIDE DEF Same
<1>3. 0 \in P /\ \A k \in 0..n-1 : k \in P => k + 1 \in P
  <2>1. \A k \in 0..n-1 : k \in 0..n /\ k + 1 \in 0..n
    BY <1>0
  <2>2. 0 \in P
    BY <1>0, <1>1
  <2> QED
    BY <1>2, <2>1, <2>2
<1>4. n \in P
  <2> HIDE DEF P
  <2>1. \A k \in 0..n : k \in P
    BY <1>0, <1>3, InductionUpTo
  <2> QED
    BY <1>0, <2>1
<1>5. Upto(n) = tt
  OBVIOUS
<1>6. Same(n)
  BY <1>4
<1> QED
  BY <1>5, <1>6 DEF Same

(* The first sequence comes first. *)
LEMMA FlattenHead ==
  ASSUME NEW S, NEW ss \in Seq(Seq(S)), ss # << >>
  PROVE  FlattenSeq(ss) = Head(ss) \o FlattenSeq(Tail(ss))
<1> DEFINE h == Head(ss)
           r == Tail(ss)
<1>1. h \in Seq(S) /\ r \in Seq(Seq(S))
  OBVIOUS
<1>2. ss = << h >> \o r
  OBVIOUS
<1> HIDE DEF h, r
<1>3. << h >> \in Seq(Seq(S))
  BY <1>1
<1>4. FlattenSeq(<< h >> \o r) = FlattenSeq(<< h >>) \o FlattenSeq(r)
  BY <1>1, <1>3, FlattenConcat
<1>5. FlattenSeq(<< h >>) = h
  BY <1>1, FlattenSingle
<1> QED
  BY <1>2, <1>4, <1>5 DEF h, r

-------------------------------------------------------------------------------
(* What the elements of s stand for, one by one and joined.                *)
Mapped(F, s) == [i \in DOMAIN s |-> F[s[i]]]
Spread(F, s) == FlattenSeq(Mapped(F, s))

OnSet(F, X, W) == F \in [X -> W]

(* A mapped sequence has the length of the original. *)
LEMMA MappedType ==
  ASSUME NEW X, NEW W, NEW F, OnSet(F, X, W), NEW s \in Seq(X)
  PROVE  /\ Mapped(F, s) \in Seq(W)
         /\ Len(Mapped(F, s)) = Len(s)
         /\ \A i \in 1..Len(s) : Mapped(F, s)[i] = F[s[i]]
  BY DEF Mapped, OnSet

(* Mapping distributes over concatenation. *)
LEMMA MappedConcat ==
  ASSUME NEW X, NEW W, NEW F, OnSet(F, X, W), NEW s \in Seq(X), NEW r \in Seq(X)
  PROVE  Mapped(F, s \o r) = Mapped(F, s) \o Mapped(F, r)
<1> DEFINE p == Mapped(F, s)
           q == Mapped(F, r)
           all == Mapped(F, s \o r)
<1>0. s \o r \in Seq(X) /\ Len(s \o r) = Len(s) + Len(r)
  OBVIOUS
<1>1. p \in Seq(W) /\ Len(p) = Len(s) /\ \A i \in 1..Len(s) : p[i] = F[s[i]]
  BY DEF Mapped, OnSet
<1>2. q \in Seq(W) /\ Len(q) = Len(r) /\ \A i \in 1..Len(r) : q[i] = F[r[i]]
  BY DEF Mapped, OnSet
<1>3. /\ all \in Seq(W) /\ Len(all) = Len(s \o r)
      /\ \A i \in 1..Len(s \o r) : all[i] = F[(s \o r)[i]]
  <2> DEFINE sr == s \o r
  <2> HIDE DEF sr
  <2>1. sr \in Seq(X)
    BY <1>0 DEF sr
  <2>2. /\ Mapped(F, sr) \in Seq(W) /\ Len(Mapped(F, sr)) = Len(sr)
        /\ \A i \in 1..Len(sr) : Mapped(F, sr)[i] = F[sr[i]]
    BY <2>1, MappedType
  <2> QED
    BY <2>2 DEF sr
<1> HIDE DEF p, q, all
<1>4. p \o q \in Seq(W) /\ Len(p \o q) = Len(p) + Len(q)
  <2>1. p \in Seq(W) /\ q \in Seq(W)
    BY <1>1, <1>2
  <2> QED
    BY <2>1
<1>5. ASSUME NEW i \in 1..Len(p) + Len(q) PROVE all[i] = (p \o q)[i]
  <2>0. p \in Seq(W) /\ q \in Seq(W)
    BY <1>1, <1>2
  <2>1. CASE i <= Len(s)
    <3>1. i \in 1..Len(s) /\ i \in 1..Len(p) /\ i \in 1..Len(s \o r)
      BY <1>0, <1>1, <1>2, <2>1
    <3>2. (s \o r)[i] = s[i]
      BY <3>1
    <3>3. (p \o q)[i] = p[i]
      BY <2>0, <3>1
    <3>4. p[i] = F[s[i]]
      BY <1>1, <3>1
    <3>5. all[i] = F[(s \o r)[i]]
      BY <1>3, <3>1
    <3> QED
      BY <3>2, <3>3, <3>4, <3>5
  <2>2. CASE i > Len(s)
    <3>1. i - Len(s) \in 1..Len(r) /\ i - Len(s) = i - Len(p)
          /\ i - Len(p) \in 1..Len(q) /\ i \in 1..Len(s \o r)
      BY <1>0, <1>1, <1>2, <2>2
    <3>2. (s \o r)[i] = r[i - Len(s)]
      BY <3>1
    <3>3. (p \o q)[i] = q[i - Len(p)]
      BY <2>0, <3>1
    <3>4. q[i - Len(s)] = F[r[i - Len(s)]]
      BY <1>2, <3>1
    <3>5. all[i] = F[(s \o r)[i]]
      BY <1>3, <3>1
    <3> QED
      BY <3>1, <3>2, <3>3, <3>4, <3>5
  <2>3. i <= Len(s) \/ i > Len(s)
    OBVIOUS
  <2> QED
    BY <2>1, <2>2, <2>3
<1>6. all = p \o q
  <2> DEFINE pq == p \o q
  <2>1. Len(all) = Len(p) + Len(q)
    BY <1>0, <1>1, <1>2, <1>3
  <2>2. pq \in Seq(W) /\ Len(pq) = Len(all) /\ \A i \in 1..Len(all) : all[i] = pq[i]
    BY <1>4, <1>5, <2>1
  <2>3. all \in Seq(W)
    BY <1>3
  <2> HIDE DEF pq
  <2>4. all = pq
    BY <2>2, <2>3, SeqEqual
  <2> QED
    BY <2>4 DEF pq
<1> QED
  BY <1>6 DEF p, q, all

(* A spread sequence is of the elements of its images. *)
LEMMA SpreadType ==
  ASSUME NEW X, NEW S, NEW F, OnSet(F, X, Seq(S)), NEW s \in Seq(X)
  PROVE  /\ Spread(F, s) \in Seq(S)
         /\ Spread(F, << >>) = << >>
<1>1. Mapped(F, s) \in Seq(Seq(S))
  BY MappedType
<1>2. Mapped(F, << >>) = << >>
  BY DEF Mapped, OnSet
<1> QED
  BY <1>1, <1>2, FlattenType, FlattenEmpty DEF Spread

(* Spreading distributes over concatenation. *)
LEMMA SpreadConcat ==
  ASSUME NEW X, NEW S, NEW F, OnSet(F, X, Seq(S)), NEW s \in Seq(X), NEW r \in Seq(X)
  PROVE  Spread(F, s \o r) = Spread(F, s) \o Spread(F, r)
<1> DEFINE W == Seq(S)
           p == Mapped(F, s)
           q == Mapped(F, r)
           all == Mapped(F, s \o r)
<1>0. OnSet(F, X, W)
  OBVIOUS
<1>1. p \in Seq(W) /\ q \in Seq(W)
  <2> HIDE DEF W
  <2> QED
    BY <1>0, MappedType
<1>2. all = p \o q
  <2> HIDE DEF W
  <2>1. Mapped(F, s \o r) = Mapped(F, s) \o Mapped(F, r)
    BY ONLY <1>0, s \in Seq(X), r \in Seq(X), MappedConcat
  <2> QED
    BY <2>1
<1> HIDE DEF p, q, all
<1>3. FlattenSeq(p \o q) = FlattenSeq(p) \o FlattenSeq(q)
  BY <1>1, FlattenConcat
<1>4. FlattenSeq(all) = FlattenSeq(p) \o FlattenSeq(q)
  BY <1>2, <1>3
<1> QED
  BY <1>4 DEF Spread, p, q, all

(* One element spreads to its image. *)
LEMMA SpreadSingle ==
  ASSUME NEW X, NEW S, NEW F, OnSet(F, X, Seq(S)), NEW e \in X
  PROVE  Spread(F, << e >>) = F[e]
<1>1. Mapped(F, << e >>) = << F[e] >>
  BY DEF Mapped, OnSet
<1>2. F[e] \in Seq(S)
  BY DEF OnSet
<1>3. FlattenSeq(<< F[e] >>) = F[e]
  BY <1>2, FlattenSingle
<1> QED
  BY <1>1, <1>3 DEF Spread

(* One element more adds its image at the end. *)
LEMMA SpreadAppend ==
  ASSUME NEW X, NEW S, NEW F, OnSet(F, X, Seq(S)), NEW s \in Seq(X), NEW e \in X
  PROVE  Spread(F, Append(s, e)) = Spread(F, s) \o F[e]
<1>1. Append(s, e) = s \o << e >>
  OBVIOUS
<1> DEFINE one == << e >>
<1>2. one \in Seq(X)
  OBVIOUS
<1>3. Spread(F, s \o one) = Spread(F, s) \o Spread(F, one)
  <2> HIDE DEF one
  <2> QED
    BY <1>2, SpreadConcat
<1>4. Spread(F, << e >>) = F[e]
  BY SpreadSingle
<1> QED
  BY <1>1, <1>3, <1>4

(* The image of the head comes first. *)
LEMMA SpreadHead ==
  ASSUME NEW X, NEW S, NEW F, OnSet(F, X, Seq(S)), NEW s \in Seq(X), s # << >>
  PROVE  Spread(F, s) = F[Head(s)] \o Spread(F, Tail(s))
<1> DEFINE h == Head(s)
           r == Tail(s)
           one == << h >>
<1>1. h \in X /\ r \in Seq(X) /\ one \in Seq(X)
  OBVIOUS
<1>2. s = one \o r
  OBVIOUS
<1> HIDE DEF r
<1>3. Spread(F, one) = F[h]
  BY <1>1, SpreadSingle
<1> HIDE DEF one
<1>4. Spread(F, one \o r) = Spread(F, one) \o Spread(F, r)
  BY <1>1, SpreadConcat
<1> QED
  BY <1>2, <1>3, <1>4 DEF r

(* v[i] is what the first i elements of s stand for. *)
Accumulates(v, F, s, S) ==
  /\ v \in [0..Len(s) -> Seq(S)]
  /\ v[0] = << >>
  /\ \A i \in 1..Len(s) : v[i] = v[i-1] \o F[s[i]]

(* Spreading is what adding image after image comes to. *)
LEMMA SpreadAccumulated ==
  ASSUME NEW X, NEW S, NEW F, OnSet(F, X, Seq(S)), NEW s \in Seq(X),
         NEW v, Accumulates(v, F, s, S)
  PROVE  Spread(F, s) = v[Len(s)]
<1> DEFINE n == Len(s)
           upto(i) == SubSeq(s, 1, i)
           P == { i \in 0..n : Spread(F, upto(i)) = v[i] }
<1>0. n \in Nat
  OBVIOUS
<1>1. 0 \in P
  <2>1. upto(0) = << >>
    OBVIOUS
  <2>2. Spread(F, << >>) = << >>
    BY SpreadType
  <2> QED
    BY <1>0, <2>1, <2>2 DEF Accumulates
<1>2. ASSUME NEW k \in 0..n-1, k \in P PROVE k + 1 \in P
  <2>1. upto(k) \in Seq(X) /\ s[k+1] \in X /\ upto(k+1) = Append(upto(k), s[k+1])
        /\ k + 1 \in 1..n /\ (k + 1) - 1 = k
    BY <1>0
  <2>2. Spread(F, upto(k)) = v[k]
    BY <1>2
  <2> HIDE DEF upto
  <2>3. Spread(F, Append(upto(k), s[k+1])) = Spread(F, upto(k)) \o F[s[k+1]]
    BY <2>1, SpreadAppend, SMTT(30)
  <2>4. v[k+1] = v[k] \o F[s[k+1]]
    BY <2>1 DEF Accumulates
  <2>5. Spread(F, upto(k+1)) = v[k+1]
    BY <2>1, <2>2, <2>3, <2>4
  <2> QED
    BY <2>1, <2>5
<1>3. n \in P
  <2> HIDE DEF P, n
  <2>1. \A k \in 0..n : k \in P
    BY <1>0, <1>1, <1>2, InductionUpTo
  <2> QED
    BY <1>0, <2>1
<1>4. upto(n) = s
  OBVIOUS
<1> QED
  BY <1>3, <1>4

-------------------------------------------------------------------------------
(* A quantity that only ever grows and ends where it began never grew.     *)
LEMMA NeverGrew ==
  ASSUME NEW n \in Nat, NEW d \in [0..n -> Int],
         \A i \in 1..n : d[i-1] <= d[i],
         d[n] = d[0]
  PROVE  \A i \in 0..n : d[i] = d[0]
<1> DEFINE P == { i \in 0..n : d[0] <= d[i] }
           R == { j \in 0..n : d[n-j] <= d[n] }
<1>1. \A k \in 0..n : k \in P
  <2>1. 0 \in P
    OBVIOUS
  <2>2. ASSUME NEW k \in 0..n-1, k \in P PROVE k + 1 \in P
    <3>1. k + 1 \in 1..n /\ (k + 1) - 1 = k /\ k \in 0..n /\ k + 1 \in 0..n
      OBVIOUS
    <3>2. d[k] <= d[k+1] /\ d[0] <= d[k]
      BY <2>2, <3>1
    <3>3. d[k] \in Int /\ d[k+1] \in Int /\ d[0] \in Int
      BY <3>1
    <3> QED
      BY <3>1, <3>2, <3>3
  <2> HIDE DEF P
  <2> QED
    BY <2>1, <2>2, InductionUpTo
<1>2. \A k \in 0..n : k \in R
  <2>1. 0 \in R
    OBVIOUS
  <2>2. ASSUME NEW k \in 0..n-1, k \in R PROVE k + 1 \in R
    <3>1. n - k \in 1..n /\ (n - k) - 1 = n - (k + 1) /\ n - (k + 1) \in 0..n
          /\ n - k \in 0..n /\ k + 1 \in 0..n /\ n \in 0..n
      OBVIOUS
    <3>2. d[n - (k + 1)] <= d[n - k] /\ d[n - k] <= d[n]
      BY <2>2, <3>1
    <3>3. d[n - (k + 1)] \in Int /\ d[n - k] \in Int /\ d[n] \in Int
      BY <3>1
    <3> QED
      BY <3>1, <3>2, <3>3
  <2> HIDE DEF R
  <2> QED
    BY <2>1, <2>2, InductionUpTo
<1>3. ASSUME NEW i \in 0..n PROVE d[i] = d[0]
  <2>1. i \in P /\ n - i \in 0..n /\ n - (n - i) = i
    BY <1>1
  <2>2. n - i \in R
    BY <1>2, <2>1
  <2>3. d[0] <= d[i] /\ d[i] <= d[n]
    BY <2>1, <2>2
  <2> QED
    BY <2>3
<1> QED
  BY <1>3

-------------------------------------------------------------------------------
(* Sorting                                                                  *)

(* p brings the first k elements of r into ascending order. *)
Orders(p, r, k) ==
  /\ p \in Bijection(1..k, 1..k)
  /\ \A i, j \in 1..k : i < j => r[p[i]] <= r[p[j]]

(* One element more takes its place before the first that is greater. *)
LEMMA OrdersOneMore ==
  ASSUME NEW n \in Nat, NEW r \in [1..n -> Int], NEW k \in 0..n-1, NEW p, Orders(p, r, k)
  PROVE  \E q : Orders(q, r, k + 1)
<1> DEFINE m == k + 1
           T == { i \in 1..m : i = m \/ r[p[i]] > r[m] }
<1>0. /\ k \in Nat /\ m \in 1..n /\ p \in [1..k -> 1..k]
      /\ \A i, j \in 1..k : p[i] = p[j] => i = j
      /\ \A v \in 1..k : \E i \in 1..k : p[i] = v
      /\ \A i, j \in 1..k : i < j => r[p[i]] <= r[p[j]]
      /\ \A i \in 1..n : r[i] \in Int
  <2>1. k \in Nat /\ m \in 1..n /\ \A i \in 1..n : r[i] \in Int
    OBVIOUS
  <2>2. p \in [1..k -> 1..k] /\ IsInjective(p) /\ \A v \in 1..k : \E i \in 1..k : p[i] = v
    BY DEF Orders, Bijection, Injection, Surjection
  <2>3. \A i, j \in 1..k : p[i] = p[j] => i = j
    BY <2>2 DEF IsInjective
  <2>4. \A i, j \in 1..k : i < j => r[p[i]] <= r[p[j]]
    BY DEF Orders
  <2> HIDE DEF m
  <2> QED
    BY <2>1, <2>2, <2>3, <2>4
<1>1. PICK e \in T : \A i \in T : e <= i
  <2>1. T \in SUBSET Nat /\ m \in T
    BY <1>0
  <2> HIDE DEF T
  <2> QED
    BY <2>1, LeastNatural
<1>2. e \in 1..m /\ (e = m \/ r[p[e]] > r[m])
  BY <1>1
<1>3. ASSUME NEW i \in 1..k, i < e PROVE r[p[i]] <= r[m]
  <2>1. i \notin T /\ i \in 1..m /\ i # m /\ p[i] \in 1..n
    BY <1>0, <1>1, <1>2, <1>3
  <2> QED
    BY <1>0, <2>1, SMTT(30)
<1>4. ASSUME NEW i \in 1..k, e <= i PROVE r[m] <= r[p[i]]
  <2>0. e # m /\ e \in 1..k
    BY <1>0, <1>2, <1>4
  <2>1. p[i] \in 1..n /\ p[e] \in 1..n
    <3>1. p[i] \in 1..k /\ p[e] \in 1..k
      BY <1>0, <2>0
    <3>2. 1..k \subseteq 1..n
      BY <1>0
    <3> QED
      BY <3>1, <3>2
  <2>2. r[p[e]] <= r[p[i]]
    <3>1. CASE e = i
      <4>1. r[p[i]] \in Int
        BY <1>0, <2>1
      <4> QED
        BY <3>1, <4>1
    <3>2. CASE e # i
      <4>1. e < i
        BY <1>2, <1>4, <3>2
      <4> QED
        BY <1>0, <2>0, <4>1
    <3> QED
      BY <3>1, <3>2
  <2>3. r[p[e]] \in Int /\ r[p[i]] \in Int /\ r[m] \in Int
    BY <1>0, <2>1
  <2> QED
    BY <1>2, <2>0, <2>1, <2>2, <2>3
<1> DEFINE q == [i \in 1..m |-> IF i < e THEN p[i] ELSE IF i = e THEN m ELSE p[i-1]]
<1> HIDE DEF T
<1>5. ASSUME NEW i \in 1..m
      PROVE  \/ i < e /\ i \in 1..k /\ q[i] = p[i]
             \/ i = e /\ q[i] = m
             \/ i > e /\ i - 1 \in 1..k /\ q[i] = p[i-1] /\ i - 1 >= e
  BY <1>0, <1>2
<1> HIDE DEF q
<1>6. q \in [1..m -> 1..m]
  <2>1. ASSUME NEW i \in 1..m PROVE q[i] \in 1..m
    <3>1. \A x \in 1..k : p[x] \in 1..k
      BY <1>0
    <3>2. 1..k \subseteq 1..m /\ m \in 1..m
      BY <1>0
    <3> HIDE DEF m
    <3> QED
      BY <1>5, <3>1, <3>2
  <2> QED
    BY <2>1 DEF q
<1>7. ASSUME NEW i \in 1..m, NEW j \in 1..m, q[i] = q[j] PROVE i = j
  <2>1. \A x \in 1..k : p[x] # m
    <3>1. \A x \in 1..k : p[x] \in 1..k
      BY <1>0
    <3> QED
      BY <1>0, <3>1
  <2>2. i = e => j = e
    BY <1>2, <1>5, <1>7, <2>1
  <2>3. j = e => i = e
    BY <1>2, <1>5, <1>7, <2>1
  <2>4. CASE i < e /\ j < e
    <3>1. i \in 1..k /\ j \in 1..k /\ p[i] = p[j]
      BY <1>2, <1>5, <1>7, <2>4
    <3> QED
      BY <1>0, <3>1
  <2>5. CASE i > e /\ j > e
    <3>1. i - 1 \in 1..k /\ j - 1 \in 1..k /\ p[i-1] = p[j-1]
      BY <1>2, <1>5, <1>7, <2>5
    <3>2. i - 1 = j - 1
      BY <1>0, <3>1
    <3> QED
      BY <3>2
  <2>6. ~(i < e /\ j > e)
    <3> SUFFICES ASSUME i < e, j > e PROVE FALSE
      OBVIOUS
    <3>1. i \in 1..k /\ j - 1 \in 1..k /\ p[i] = p[j-1] /\ i # j - 1
      BY <1>2, <1>5, <1>7
    <3> QED
      BY <1>0, <3>1
  <2>7. ~(j < e /\ i > e)
    <3> SUFFICES ASSUME j < e, i > e PROVE FALSE
      OBVIOUS
    <3>1. j \in 1..k /\ i - 1 \in 1..k /\ p[j] = p[i-1] /\ j # i - 1
      BY <1>2, <1>5, <1>7
    <3> QED
      BY <1>0, <3>1
  <2> QED
    BY <1>2, <2>2, <2>3, <2>4, <2>5, <2>6, <2>7
<1>8. ASSUME NEW v \in 1..m PROVE \E i \in 1..m : q[i] = v
  <2>1. CASE v = m
    BY <1>2, <1>5, <2>1
  <2>2. CASE v # m
    <3>1. PICK i \in 1..k : p[i] = v
      BY <1>0, <2>2
    <3>2. i < e => q[i] = v /\ i \in 1..m
      BY <1>0, <1>2, <3>1 DEF q
    <3>3. i >= e => q[i+1] = v /\ i + 1 \in 1..m
      BY <1>0, <1>2, <3>1 DEF q
    <3> QED
      BY <1>0, <1>2, <3>2, <3>3
  <2> QED
    BY <2>1, <2>2
<1>9. ASSUME NEW i \in 1..m, NEW j \in 1..m, i < j PROVE r[q[i]] <= r[q[j]]
  <2>1. CASE i < e /\ j < e
    <3>1. q[i] = p[i] /\ q[j] = p[j] /\ i \in 1..k /\ j \in 1..k
      BY <1>2, <1>5, <2>1
    <3> QED
      BY <1>0, <1>9, <3>1
  <2>2. CASE i < e /\ j = e
    <3>1. q[i] = p[i] /\ q[j] = m /\ i \in 1..k
      BY <1>2, <1>5, <2>2
    <3> QED
      BY <1>3, <2>2, <3>1
  <2>3. CASE i < e /\ j > e
    <3>1. /\ q[i] = p[i] /\ q[j] = p[j-1] /\ i \in 1..k /\ j - 1 \in 1..k
          /\ i < e /\ e <= j - 1
      BY <1>2, <1>5, <2>3
    <3>2. r[p[i]] <= r[m] /\ r[m] <= r[p[j-1]]
      BY <1>3, <1>4, <3>1
    <3>3. p[i] \in 1..n /\ p[j-1] \in 1..n
      <4>1. p[i] \in 1..k /\ p[j-1] \in 1..k /\ 1..k \subseteq 1..n
        BY <1>0, <3>1
      <4> QED
        BY <4>1
    <3>4. r[p[i]] \in Int /\ r[p[j-1]] \in Int /\ r[m] \in Int
      BY <1>0, <3>3
    <3> QED
      BY <3>1, <3>2, <3>4, SMTT(30)
  <2>4. CASE i = e
    <3>1. q[i] = m /\ q[j] = p[j-1] /\ j - 1 \in 1..k /\ e <= j - 1
      BY <1>2, <1>5, <1>9, <2>4
    <3> QED
      BY <1>4, <3>1
  <2>5. CASE i > e
    <3>1. q[i] = p[i-1] /\ q[j] = p[j-1] /\ i - 1 \in 1..k /\ j - 1 \in 1..k /\ i - 1 < j - 1
      BY <1>2, <1>5, <1>9, <2>5, SMTT(30)
    <3> QED
      BY <1>0, <3>1
  <2> QED
    BY <1>2, <1>9, <2>1, <2>2, <2>3, <2>4, <2>5
<1>10. q \in Bijection(1..m, 1..m)
  BY <1>6, <1>7, <1>8 DEF Bijection, Injection, Surjection, IsInjective
<1>11. Orders(q, r, m)
  BY <1>9, <1>10 DEF Orders
<1> QED
  BY <1>11

(* Integers can be put in ascending order. *)
LEMMA OrderExists ==
  ASSUME NEW n \in Nat, NEW r \in [1..n -> Int]
  PROVE  \E p : Orders(p, r, n)
<1> DEFINE P == { k \in 0..n : \E p : Orders(p, r, k) }
<1>1. 0 \in P
  <2> DEFINE p == [i \in 1..0 |-> i]
  <2>1. Orders(p, r, 0)
    BY DEF Orders, Bijection, Injection, Surjection, IsInjective
  <2> QED
    BY <2>1
<1>2. \A k \in 0..n-1 : k \in P => k + 1 \in P
  <2> SUFFICES ASSUME NEW k \in 0..n-1, k \in P PROVE k + 1 \in P
    OBVIOUS
  <2>1. PICK p : Orders(p, r, k)
    OBVIOUS
  <2>2. \E q : Orders(q, r, k + 1)
    BY <2>1, OrdersOneMore
  <2> QED
    BY <2>2
<1>3. n \in P
  <2> HIDE DEF P
  <2>1. \A k \in 0..n : k \in P
    BY <1>1, <1>2, InductionUpTo
  <2> QED
    BY <2>1
<1> QED
  BY <1>3

StrictlyAscends(r, n) == \A i, j \in 1..n : i < j => r[i] < r[j]

(* r holds at each place what u holds where f says. *)
Picks(r, u, f, n) == \A i \in 1..n : r[i] = u[f[i]]

(* Of two strictly ascending sequences of one length, one that holds       *)
(* nothing the other does not is the other.                                *)
LEMMA AscendingUnique ==
  ASSUME NEW n \in Nat,
         NEW r \in [1..n -> Int], StrictlyAscends(r, n),
         NEW u \in [1..n -> Int], StrictlyAscends(u, n),
         NEW f \in [1..n -> 1..n], Picks(r, u, f, n)
  PROVE  \A i \in 1..n : f[i] = i
<1>0. \A i \in 1..n : f[i] \in Int
  OBVIOUS
<1>1. ASSUME NEW i \in 1..n, NEW j \in 1..n, i < j PROVE f[i] < f[j]
  <2>1. r[i] < r[j] /\ r[i] = u[f[i]] /\ r[j] = u[f[j]] /\ f[i] \in 1..n /\ f[j] \in 1..n
        /\ f[i] \in Int /\ f[j] \in Int
    BY <1>1 DEF StrictlyAscends, Picks
  <2>2. u[f[i]] < u[f[j]] /\ u[f[i]] \in Int /\ u[f[j]] \in Int
    BY <2>1
  <2>3. f[j] < f[i] => u[f[j]] < u[f[i]]
    BY <2>1 DEF StrictlyAscends
  <2>4. f[j] # f[i]
    BY <2>2
  <2>5. ~(f[j] < f[i])
    BY <2>2, <2>3
  <2> QED
    BY <2>1, <2>4, <2>5
<1> DEFINE m == n + 1
           d == [i \in 0..m |-> IF i = 0 \/ i = m THEN 0 ELSE f[i] - i]
<1>2. m \in Nat /\ d \in [0..m -> Int]
  <2>1. ASSUME NEW i \in 0..m PROVE d[i] \in Int
    <3>1. CASE i = 0 \/ i = m
      BY <3>1
    <3>2. CASE i # 0 /\ i # m
      <4>1. i \in 1..n /\ f[i] \in Int /\ d[i] = f[i] - i
        BY <3>2
      <4> QED
        BY <4>1
    <3> QED
      BY <3>1, <3>2
  <2>2. d \in [0..m -> Int]
    <3> DEFINE v(i) == IF i = 0 \/ i = m THEN 0 ELSE f[i] - i
    <3>1. \A i \in 0..m : v(i) \in Int
      BY <2>1
    <3> HIDE DEF v, m
    <3>2. [i \in 0..m |-> v(i)] \in [0..m -> Int]
      BY <3>1
    <3> QED
      BY <3>2 DEF v
  <2>3. m \in Nat
    OBVIOUS
  <2> QED
    BY <2>2, <2>3
<1>3. ASSUME NEW i \in 1..m PROVE d[i-1] <= d[i]
  <2>1. i - 1 \in 0..m /\ i \in 0..m
    OBVIOUS
  <2>2. CASE i = 1 /\ i # m
    BY <2>1, <2>2
  <2>3. CASE i = m
    BY <2>1, <2>3
  <2>4. CASE i # 1 /\ i # m
    <3>0. i - 1 \in 1..n /\ i \in 1..n /\ i - 1 < i
      BY <2>4
    <3>1. f[i-1] \in Int /\ f[i] \in Int
      BY <1>0, <3>0
    <3>2. f[i-1] < f[i]
      BY <1>1, <3>0
    <3>3. d[i] = f[i] - i
      BY <2>1, <2>4
    <3>4. d[i-1] = f[i-1] - (i - 1)
      <4>1. i - 1 # 0 /\ i - 1 # m
        BY <2>4
      <4> QED
        BY <2>1, <4>1
    <3> QED
      BY <3>0, <3>1, <3>2, <3>3, <3>4
  <2> QED
    BY <2>2, <2>3, <2>4
<1>4. d[m] = d[0] /\ d[0] = 0
  BY <1>2
<1>5. \A i \in 0..m : d[i] = d[0]
  <2> HIDE DEF d, m
  <2> QED
    BY <1>2, <1>3, <1>4, NeverGrew
<1> HIDE DEF d
<1>6. ASSUME NEW i \in 1..n PROVE f[i] = i
  <2>1. i \in 0..m /\ i # 0 /\ i # m /\ i \in Int
    OBVIOUS
  <2>2. d[i] = f[i] - i
    BY <2>1 DEF d
  <2>3. d[i] = 0
    BY <1>4, <1>5, <2>1
  <2>4. f[i] \in Int
    BY <1>0
  <2>5. \A x \in Int : x - i = 0 => x = i
    BY <2>1
  <2>6. f[i] - i = 0
    BY <2>2, <2>3
  <2> QED
    BY <2>4, <2>5, <2>6
<1> QED
  BY <1>6
==============================================================================
