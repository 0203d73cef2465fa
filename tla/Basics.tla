------------------------------- MODULE Basics -------------------------------
(***************************************************************************)
(* What the proofs of several modules need: induction over the numbers in  *)
(* a form the provers can use, for no fact here has an operator for a      *)
(* parameter (a set of numbers has a least element, and so a function      *)
(* defined by recursion on its argument exists; facts about what it        *)
(* computes follow from the least argument for which they would be false); *)
(* the members of a sequence that are selected; sequences that grow at     *)
(* their end; numbers in increasing order; and counting.                   *)
(***************************************************************************)
EXTENDS Naturals, Sequences, FiniteSets, Selecting, TLAPS, WellFoundedInduction,
        NaturalsInduction, FiniteSetTheorems

(* A set of numbers that is not empty has a least element. *)
LEMMA LeastElement ==
  ASSUME NEW T, T \subseteq Nat, T # {}
  PROVE  \E x \in T : \A y \in T : x <= y
<1> DEFINE R == OpToRel(<, Nat)
<1>1. IsWellFoundedOn(R, Nat)
  BY NatLessThanWellFounded, Zenon
<1>2. \A x, y \in Nat : <<y, x>> \in R <=> y < x
  BY DEF OpToRel
<1> HIDE DEF R
<1>3. PICK x \in T : \A y \in T : ~ (<<y, x>> \in R)
  BY <1>1, WFMin, Zenon
<1>4. x \in Nat /\ \A y \in T : y \in Nat /\ ~ (y < x)
  BY <1>2, <1>3
<1>5. \A y \in T : x <= y
  BY <1>4
<1> QED
  BY <1>5

(* A set that holds 0, and n + 1 with every n, holds every number. *)
LEMMA InductionOnSet ==
  ASSUME NEW T, T \subseteq Nat, 0 \in T, \A n \in Nat : n \in T => n + 1 \in T
  PROVE  T = Nat
<1> DEFINE Rest == Nat \ T
<1> SUFFICES ASSUME Rest # {} PROVE FALSE
  OBVIOUS
<1>1. PICK x \in Rest : \A y \in Rest : x <= y
  BY LeastElement
<1>2. x \in Nat /\ x # 0
  OBVIOUS
<1>3. x - 1 \in Nat /\ ~ (x <= x - 1) /\ (x - 1) + 1 = x
  BY <1>2
<1>4. x - 1 \in T
  BY <1>1, <1>3
<1> QED
  BY <1>3, <1>4

(* f is defined on 0..N from f0 on, each value by G from the one before.    *)
Follows(f, f0, G, N) ==
  /\ f = [n \in 0..N |-> f[n]]
  /\ f[0] = f0
  /\ \A n \in 1..N : f[n] = G[<<n, f[n - 1]>>]

(* The recursion on the numbers up to N with first value f0 and step G has  *)
(* a solution.                                                              *)
LEMMA RecursionExists ==
  ASSUME NEW f0, NEW G, NEW N \in Nat
  PROVE  \E f : Follows(f, f0, G, N)
<1> USE DEF Follows
<1> DEFINE Solves(f, M) == Follows(f, f0, G, M)
           T == {M \in Nat : \E f : Solves(f, M)}
<1>1. 0 \in T
  <2> DEFINE f == [n \in 0..0 |-> f0]
  <2>1. Solves(f, 0)
    OBVIOUS
  <2> HIDE DEF f
  <2> QED
    BY <2>1
<1>2. ASSUME NEW M \in Nat, M \in T
      PROVE  M + 1 \in T
  <2>1. PICK f : Solves(f, M)
    BY <1>2
  <2> DEFINE g == [n \in 0..(M + 1) |-> IF n = M + 1 THEN G[<<n, f[M]>>] ELSE f[n]]
  <2>2. /\ g[M + 1] = G[<<M + 1, f[M]>>]
        /\ \A n \in 0..M : g[n] = f[n]
        /\ g = [n \in 0..(M + 1) |-> g[n]]
    OBVIOUS
  <2> HIDE DEF g
  <2>3. ASSUME NEW n \in 1..(M + 1)
        PROVE  g[n] = G[<<n, g[n - 1]>>]
    <3>1. CASE n = M + 1
      <4>1. n - 1 = M /\ M \in 0..M
        BY <3>1
      <4> QED
        BY <2>2, <3>1, <4>1, Zenon
    <3>2. CASE n # M + 1
      <4>1. n \in 1..M /\ n \in 0..M /\ n - 1 \in 0..M
        BY <3>2
      <4> QED
        BY <2>1, <2>2, <4>1, Zenon
    <3> QED
      BY <3>1, <3>2
  <2>4. g[0] = f0
    <3>1. 0 \in 0..M
      OBVIOUS
    <3> QED
      BY <2>1, <2>2, <3>1
  <2>5. Solves(g, M + 1)
    BY <2>2, <2>3, <2>4
  <2> HIDE DEF Solves
  <2> QED
    BY <2>5
<1> HIDE DEF Solves
<1>3. T = Nat
  BY <1>1, <1>2, InductionOnSet
<1> QED
  BY <1>3 DEF Solves

-----------------------------------------------------------------------------
(* A sequence and one more member at its end. *)
LEMMA AppendElements ==
  ASSUME NEW S, NEW q \in Seq(S), NEW e \in S
  PROVE  /\ Append(q, e) \in Seq(S)
         /\ DOMAIN Append(q, e) = DOMAIN q \cup {Len(q) + 1}
         /\ Append(q, e)[Len(q) + 1] = e
         /\ \A i \in DOMAIN q : Append(q, e)[i] = q[i]
OBVIOUS

(* The members of t are those of s at the places at lists, in that order.   *)
Lists(t, s, at) ==
  /\ DOMAIN t = DOMAIN at
  /\ \A k \in DOMAIN at : t[k] = s[at[k]]
  /\ \A j, k \in DOMAIN at : j < k => at[j] < at[k]

(* Select keeps the members at the indices in I, each once, in their order. *)
LEMMA SelectKeeps ==
  ASSUME NEW S, NEW s \in Seq(S), NEW I
  PROVE  /\ Select(s, I) \in Seq(S)
         /\ \E at \in Seq(Nat) :
              /\ Lists(Select(s, I), s, at)
              /\ {at[k] : k \in DOMAIN at} = I \cap DOMAIN s
<1> DEFINE N == Len(s)
           Solves(f) == f = [n \in 0..N |-> IF n = 0 THEN <<>>
                                            ELSE IF n \in I THEN Append(f[n - 1], s[n])
                                            ELSE f[n - 1]]
<1>1. N \in Nat /\ DOMAIN s = 1..N /\ \A n \in 1..N : s[n] \in S
  OBVIOUS
<1>2. \E f : Solves(f)
  <2> DEFINE G == [p \in Nat \X Seq(S) |-> IF p[1] \in I THEN Append(p[2], s[p[1]]) ELSE p[2]]
  <2> HIDE DEF G
  <2>1. PICK f : /\ f = [n \in 0..N |-> f[n]]
                 /\ f[0] = <<>>
                 /\ \A n \in 1..N : f[n] = G[<<n, f[n - 1]>>]
    <3>1. N \in Nat
      BY <1>1
    <3> HIDE DEF N
    <3>2. \E f : Follows(f, <<>>, G, N)
      BY <3>1, RecursionExists
    <3> QED
      BY <3>2 DEF Follows
  <2>2. ASSUME NEW n \in 1..N, f[n - 1] \in Seq(S)
        PROVE  /\ f[n] = IF n \in I THEN Append(f[n - 1], s[n]) ELSE f[n - 1]
               /\ f[n] \in Seq(S)
    <3>1. n \in Nat /\ s[n] \in S
      BY <1>1
    <3>2. f[n] = G[<<n, f[n - 1]>>]
      BY <2>1
    <3>3. G[<<n, f[n - 1]>>] = IF n \in I THEN Append(f[n - 1], s[n]) ELSE f[n - 1]
      BY <2>2, <3>1 DEF G
    <3> QED
      BY <2>2, <3>1, <3>2, <3>3, AppendElements
  <2> DEFINE T == {n \in Nat : n <= N => f[n] \in Seq(S)}
  <2>3. 0 \in T
    BY <2>1
  <2>4. ASSUME NEW n \in Nat, n \in T PROVE n + 1 \in T
    <3> SUFFICES ASSUME n + 1 <= N PROVE f[n + 1] \in Seq(S)
      OBVIOUS
    <3>1. n + 1 \in 1..N /\ (n + 1) - 1 = n /\ n <= N
      BY <1>1
    <3> QED
      BY <2>2, <2>4, <3>1
  <2>5. T = Nat
    BY <2>3, <2>4, InductionOnSet
  <2>6. \A n \in 1..N : f[n - 1] \in Seq(S)
    BY <1>1, <2>5
  <2>7. \A n \in 0..N : f[n] = IF n = 0 THEN <<>> ELSE IF n \in I THEN Append(f[n - 1], s[n])
                               ELSE f[n - 1]
    BY <1>1, <2>1, <2>2, <2>6
  <2> QED
    BY <2>1, <2>7
<1> DEFINE taken == CHOOSE f : Solves(f)
<1>3. Solves(taken)
  BY <1>2
<1>4. Select(s, I) = taken[N]
  BY DEF Select
<1> HIDE DEF taken
<1>5. taken[0] = <<>>
  BY <1>1, <1>3
<1>6. ASSUME NEW n \in 1..N
      PROVE  taken[n] = IF n \in I THEN Append(taken[n - 1], s[n]) ELSE taken[n - 1]
  <2>1. n \in 0..N /\ n # 0
    BY <1>1
  <2> QED
    BY <1>3, <2>1, Zenon
<1> HIDE DEF Solves
<1> DEFINE Kept(n) == /\ taken[n] \in Seq(S)
                      /\ \E at \in Seq(Nat) :
                           /\ Lists(taken[n], s, at)
                           /\ {at[k] : k \in DOMAIN at} = I \cap 1..n
           T == {n \in Nat : n <= N => Kept(n)}
<1>7. Kept(0)
  <2>1. <<>> \in Seq(Nat) /\ DOMAIN <<>> = {} /\ <<>> \in Seq(S) /\ 1..0 = {}
    OBVIOUS
  <2>2. Lists(<<>>, s, <<>>)
    BY <2>1 DEF Lists
  <2>3. {<<>>[k] : k \in {}} = {}
    OBVIOUS
  <2> QED
    BY <1>5, <2>1, <2>2, <2>3
<1>8. ASSUME NEW n \in Nat, n + 1 <= N, Kept(n)
      PROVE  Kept(n + 1)
  <2>1. /\ n + 1 \in 1..N /\ s[n + 1] \in S
        /\ taken[n + 1] = IF n + 1 \in I THEN Append(taken[n], s[n + 1]) ELSE taken[n]
    BY <1>1, <1>6, <1>8
  <2>2. PICK at \in Seq(Nat) : /\ Lists(taken[n], s, at)
                               /\ {at[k] : k \in DOMAIN at} = I \cap 1..n
    BY <1>8
  <2>3. taken[n] \in Seq(S) /\ Len(at) = Len(taken[n]) /\ Len(at) \in Nat /\ DOMAIN at =
     1..Len(at)
    BY <1>8, <2>2 DEF Lists
  <2>4. CASE n + 1 \notin I
    <3>1. I \cap 1..(n + 1) = I \cap 1..n
      BY <2>4
    <3> QED
      BY <2>1, <2>2, <2>3, <2>4, <3>1
  <2>5. CASE n + 1 \in I
    <3> DEFINE t == Append(taken[n], s[n + 1])
               b == Append(at, n + 1)
               m == Len(at) + 1
    <3>1. /\ t \in Seq(S) /\ b \in Seq(Nat)
          /\ DOMAIN t = DOMAIN at \cup {m} /\ DOMAIN b = DOMAIN at \cup {m}
          /\ t[m] = s[n + 1] /\ b[m] = n + 1
          /\ \A k \in DOMAIN at : t[k] = taken[n][k] /\ b[k] = at[k]
      BY <2>1, <2>2, <2>3, AppendElements
    <3> HIDE DEF t, b
    <3>2. \A k \in DOMAIN at : at[k] \in I /\ at[k] \in 1..n
      BY <2>2
    <3>3. \A j, k \in DOMAIN b : j < k => b[j] < b[k]
      <4> SUFFICES ASSUME NEW j \in DOMAIN b, NEW k \in DOMAIN b, j < k PROVE b[j] < b[k]
        OBVIOUS
      <4>1. j \in DOMAIN at
        BY <2>3, <3>1
      <4>2. CASE k \in DOMAIN at
        BY <2>2, <3>1, <4>1, <4>2 DEF Lists
      <4>3. CASE k = m
        BY <3>1, <3>2, <4>1, <4>3
      <4> QED
        BY <3>1, <4>2, <4>3
    <3>4. Lists(t, s, b)
      BY <2>2, <3>1, <3>3 DEF Lists
    <3>5. {b[k] : k \in DOMAIN b} = {at[k] : k \in DOMAIN at} \cup {n + 1}
      BY <3>1
    <3>6. I \cap 1..(n + 1) = (I \cap 1..n) \cup {n + 1}
      BY <2>5
    <3>7. taken[n + 1] = t
      BY <2>1, <2>5 DEF t
    <3> QED
      BY <2>2, <3>1, <3>4, <3>5, <3>6, <3>7
  <2> QED
    BY <2>4, <2>5
<1>9. T = Nat
  <2> HIDE DEF Kept
  <2>1. 0 \in T
    BY <1>7
  <2>2. ASSUME NEW n \in Nat, n \in T PROVE n + 1 \in T
    BY <1>1, <1>8, <2>2
  <2>3. T \subseteq Nat
    OBVIOUS
  <2> HIDE DEF T
  <2> QED
    BY <2>1, <2>2, <2>3, InductionOnSet
<1>10. Kept(N)
  <2>1. N \in T
    <3> HIDE DEF T
    <3> QED
      BY <1>1, <1>9
  <2>2. N <= N
    BY <1>1
  <2> HIDE DEF Kept, N
  <2> QED
    BY <2>1, <2>2
<1> QED
  BY <1>1, <1>4, <1>10

(* Its members, in short. *)
LEMMA SelectType ==
  ASSUME NEW S, NEW s \in Seq(S), NEW I
  PROVE  /\ Select(s, I) \in Seq(S)
         /\ \A k \in DOMAIN Select(s, I) : \E i \in I \cap DOMAIN s : Select(s, I)[k] = s[i]
<1>1. PICK at \in Seq(Nat) : /\ Lists(Select(s, I), s, at)
                             /\ {at[k] : k \in DOMAIN at} = I \cap DOMAIN s
  BY SelectKeeps
<1>2. \A k \in DOMAIN at : at[k] \in I \cap DOMAIN s
  BY <1>1
<1> QED
  BY <1>1, <1>2, SelectKeeps DEF Lists

-----------------------------------------------------------------------------
(* Numbers in increasing order *)

(* The head and the rest of a non-empty sequence, element by element. *)
LEMMA TailElements ==
  ASSUME NEW S, NEW q \in Seq(S), q # <<>>
  PROVE  /\ 1 \in DOMAIN q /\ Head(q) = q[1]
         /\ Tail(q) \in Seq(S)
         /\ \A i \in DOMAIN Tail(q) : i + 1 \in DOMAIN q /\ Tail(q)[i] = q[i + 1]
         /\ \A i \in DOMAIN q : i = 1 \/ (i - 1 \in DOMAIN Tail(q) /\ Tail(q)[i - 1] = q[i])
OBVIOUS

(* A number greater than all those of an increasing sequence may be added. *)
LEMMA AppendKeepsOrder ==
  ASSUME NEW q \in Seq(Nat), NEW e \in Nat,
         \A i, j \in DOMAIN q : i < j => q[i] < q[j],
         \A i \in DOMAIN q : q[i] < e
  PROVE  \A i, j \in DOMAIN Append(q, e) :
           i < j => Append(q, e)[i] < Append(q, e)[j]
<1> DEFINE qq == Append(q, e)
<1>1. /\ \A i \in DOMAIN q : i \in DOMAIN qq /\ qq[i] = q[i]
      /\ \A i \in DOMAIN qq : i \in DOMAIN q \/ i = Len(q) + 1
      /\ qq[Len(q) + 1] = e
  BY AppendElements
<1>2. Len(q) \in Nat /\ \A i \in DOMAIN q : i \in Nat /\ i <= Len(q)
  OBVIOUS
<1> HIDE DEF qq
<1>3. SUFFICES ASSUME NEW i \in DOMAIN qq, NEW j \in DOMAIN qq, i < j
               PROVE  qq[i] < qq[j]
  BY DEF qq
<1>4. i \in DOMAIN q
  BY <1>1, <1>2, <1>3
<1>5. CASE j \in DOMAIN q
  BY <1>1, <1>3, <1>4, <1>5
<1>6. CASE j = Len(q) + 1
  BY <1>1, <1>4, <1>6
<1> QED
  BY <1>1, <1>5, <1>6

(* The numbers of S, in increasing order. *)
Listing(q, S) ==
  /\ q \in Seq(Nat)
  /\ {q[i] : i \in DOMAIN q} = S
  /\ \A i, j \in DOMAIN q : i < j => q[i] < q[j]

(* Two listings of a set agree at a place if they agree before it.          *)
LEMMA ListingsAgree ==
  ASSUME NEW S, NEW p, NEW q, Listing(p, S), Listing(q, S), NEW k \in DOMAIN p,
         \A i \in DOMAIN p : i < k => i \in DOMAIN q /\ p[i] = q[i]
  PROVE  k \in DOMAIN q /\ q[k] <= p[k]
<1>1. /\ DOMAIN p = 1..Len(p) /\ DOMAIN q = 1..Len(q) /\ Len(p) \in Nat /\ Len(q) \in Nat
      /\ \A i \in DOMAIN p : p[i] \in Nat
      /\ \A i \in DOMAIN q : q[i] \in Nat
  BY DEF Listing
<1>2. PICK j \in DOMAIN q : q[j] = p[k]
  <2>1. p[k] \in S
    BY DEF Listing
  <2> QED
    BY <2>1 DEF Listing
<1>3. ~ (j < k)
  <2> SUFFICES ASSUME j < k PROVE FALSE
    OBVIOUS
  <2>1. j \in DOMAIN p /\ p[j] = q[j]
    BY <1>1
  <2>2. p[j] < p[k] /\ p[j] \in Nat /\ p[k] \in Nat
    BY <1>1, <2>1 DEF Listing
  <2> QED
    BY <1>2, <2>1, <2>2
<1>4. k \in DOMAIN q /\ (k = j \/ k < j)
  BY <1>1, <1>3
<1>5. k = j \/ q[k] < q[j]
  BY <1>4 DEF Listing
<1> QED
  BY <1>1, <1>2, <1>4, <1>5

(* A set of numbers has one listing. *)
LEMMA ListingUnique ==
  ASSUME NEW S, NEW p, NEW q, Listing(p, S), Listing(q, S)
  PROVE  p = q
<1>1. /\ DOMAIN p = 1..Len(p) /\ DOMAIN q = 1..Len(q) /\ Len(p) \in Nat /\ Len(q) \in Nat
      /\ \A i \in DOMAIN p : p[i] \in Nat
      /\ \A i \in DOMAIN q : q[i] \in Nat
      /\ p \in Seq(Nat) /\ q \in Seq(Nat)
  BY DEF Listing
<1>d. DOMAIN p \subseteq Nat /\ DOMAIN q \subseteq Nat
  BY <1>1
<1> DEFINE Differ(k) == ~ (k \in DOMAIN p <=> k \in DOMAIN q) \/ (k \in DOMAIN p /\ p[k] # q[k])
           T == {k \in Nat : Differ(k)}
<1>2. T = {}
  <2> SUFFICES ASSUME T # {} PROVE FALSE
    OBVIOUS
  <2>1. PICK k \in T : \A i \in T : k <= i
    <3> HIDE DEF T
    <3>1. T \subseteq Nat
      BY DEF T
    <3> QED
      BY <3>1, LeastElement
  <2>2. k \in Nat /\ Differ(k) /\ \A i \in Nat : i < k => ~ Differ(i)
    <3> HIDE DEF Differ
    <3>1. k \in Nat /\ Differ(k) /\ \A i \in Nat : Differ(i) => k <= i
      BY <2>1
    <3> QED
      BY <3>1
  <2>3. /\ \A i \in DOMAIN p : i < k => i \in DOMAIN q /\ p[i] = q[i]
        /\ \A i \in DOMAIN q : i < k => i \in DOMAIN p /\ q[i] = p[i]
    BY <1>d, <2>2
  <2>4. k \in DOMAIN p => k \in DOMAIN q /\ q[k] <= p[k]
    <3> HIDE DEF T
    <3> QED
      BY <2>3, ListingsAgree
  <2>5. k \in DOMAIN q => k \in DOMAIN p /\ p[k] <= q[k]
    <3> HIDE DEF T
    <3> QED
      BY <2>3, ListingsAgree
  <2>6. k \in DOMAIN p /\ k \in DOMAIN q
    BY <2>2, <2>4, <2>5
  <2>7. p[k] = q[k]
    BY <1>1, <2>4, <2>5, <2>6
  <2> QED
    BY <2>2, <2>6, <2>7
<1>e. \A k \in Nat : ~ Differ(k)
  <2> HIDE DEF Differ
  <2> QED
    BY <1>2
<1>3. DOMAIN p = DOMAIN q /\ \A k \in DOMAIN p : p[k] = q[k]
  BY <1>d, <1>e
<1> QED
  BY <1>1, <1>3

(* The listing of a set with a greatest number more. *)
LEMMA ListingAppend ==
  ASSUME NEW S, NEW p, Listing(p, S), NEW e \in Nat, \A x \in S : x < e
  PROVE  Listing(Append(p, e), S \cup {e})
<1>1. p \in Seq(Nat) /\ \A i \in DOMAIN p : p[i] \in S /\ p[i] < e
  BY DEF Listing
<1> DEFINE q == Append(p, e)
<1>2. /\ q \in Seq(Nat) /\ DOMAIN q = DOMAIN p \cup {Len(p) + 1} /\ q[Len(p) + 1] = e
      /\ \A i \in DOMAIN p : q[i] = p[i]
  BY <1>1, AppendElements
<1>3. \A i, j \in DOMAIN q : i < j => q[i] < q[j]
  <2>1. \A i, j \in DOMAIN p : i < j => p[i] < p[j]
    BY DEF Listing
  <2> QED
    BY <1>1, <2>1, AppendKeepsOrder
<1> HIDE DEF q
<1>4. {q[i] : i \in DOMAIN q} = {p[i] : i \in DOMAIN p} \cup {e}
  BY <1>2
<1>5. Listing(q, S \cup {e})
  BY <1>2, <1>3, <1>4 DEF Listing
<1> QED
  BY <1>5 DEF q

(* The listing of a set without its least number. *)
LEMMA ListingTail ==
  ASSUME NEW S, NEW p, Listing(p, S), NEW e \in S, \A x \in S : e <= x
  PROVE  p # <<>> /\ Listing(Tail(p), S \ {e})
<1>1. /\ p \in Seq(Nat) /\ \A i \in DOMAIN p : p[i] \in S /\ p[i] \in Nat
      /\ DOMAIN p = 1..Len(p) /\ Len(p) \in Nat
  BY DEF Listing
<1>2. PICK k \in DOMAIN p : p[k] = e
  BY DEF Listing
<1>3. p # <<>>
  BY <1>1, <1>2
<1> DEFINE q == Tail(p)
<1>4. /\ 1 \in DOMAIN p /\ q \in Seq(Nat)
      /\ \A i \in DOMAIN q : i + 1 \in DOMAIN p /\ q[i] = p[i + 1]
      /\ \A i \in DOMAIN p : i = 1 \/ (i - 1 \in DOMAIN q /\ q[i - 1] = p[i])
  BY <1>1, <1>3, TailElements
<1>5. DOMAIN q \subseteq Nat \ {0}
  <2>1. DOMAIN q = 1..Len(q)
    BY <1>4
  <2> QED
    BY <2>1
<1> HIDE DEF q
<1>6. p[1] = e
  <2>0. k = 1 \/ 1 < k
    BY <1>1
  <2>1. k = 1 \/ p[1] < p[k]
    BY <1>4, <2>0 DEF Listing
  <2>2. p[1] \in Nat /\ p[k] \in Nat /\ e <= p[1]
    BY <1>1, <1>4
  <2> QED
    BY <1>2, <2>1, <2>2
<1>7. \A i, j \in DOMAIN q : i < j => q[i] < q[j]
  <2> SUFFICES ASSUME NEW i \in DOMAIN q, NEW j \in DOMAIN q, i < j PROVE q[i] < q[j]
    OBVIOUS
  <2>1. i + 1 < j + 1
    BY <1>5
  <2>2. p[i + 1] < p[j + 1]
    BY <1>4, <2>1 DEF Listing
  <2> QED
    BY <1>4, <2>2
<1>8. {q[i] : i \in DOMAIN q} = S \ {e}
  <2>1. ASSUME NEW i \in DOMAIN q PROVE q[i] \in S \ {e}
    <3>1. 1 < i + 1 /\ i + 1 \in DOMAIN p
      BY <1>4, <1>5
    <3>2. p[1] < p[i + 1] /\ p[i + 1] \in S /\ p[1] \in Nat /\ p[i + 1] \in Nat
      BY <1>1, <1>4, <3>1 DEF Listing
    <3> QED
      BY <1>4, <1>6, <3>2
  <2>2. ASSUME NEW x \in S \ {e} PROVE \E i \in DOMAIN q : q[i] = x
    <3>1. PICK i \in DOMAIN p : p[i] = x
      BY DEF Listing
    <3>2. i # 1
      BY <1>6, <3>1
    <3> QED
      BY <1>4, <3>1, <3>2
  <2> QED
    BY <2>1, <2>2
<1>9. Listing(q, S \ {e})
  BY <1>4, <1>7, <1>8 DEF Listing
<1> QED
  BY <1>3, <1>9 DEF q

(* Selecting numbers from all those up to n lists them. *)
LEMMA SelectLists ==
  ASSUME NEW n \in Nat, NEW I, I \subseteq 1..n
  PROVE  Listing(Select([i \in 1..n |-> i], I), I)
<1> DEFINE ids == [i \in 1..n |-> i]
           p   == Select(ids, I)
<1>1. ids \in Seq(Nat) /\ DOMAIN ids = 1..n /\ \A i \in 1..n : ids[i] = i
  OBVIOUS
<1> HIDE DEF ids
<1>2. PICK at \in Seq(Nat) : /\ Lists(p, ids, at)
                             /\ {at[k] : k \in DOMAIN at} = I \cap DOMAIN ids
  BY <1>1, SelectKeeps
<1>3. p \in Seq(Nat)
  BY <1>1, SelectKeeps
<1>4. \A k \in DOMAIN at : at[k] \in 1..n /\ p[k] = at[k]
  BY <1>1, <1>2 DEF Lists
<1> HIDE DEF p
<1>5. DOMAIN p = DOMAIN at /\ \A j, k \in DOMAIN p : j < k => p[j] < p[k]
  BY <1>2, <1>4 DEF Lists
<1>6. {p[k] : k \in DOMAIN p} = {at[k] : k \in DOMAIN at}
  BY <1>4, <1>5
<1>7. I \cap DOMAIN ids = I
  BY <1>1
<1>8. {p[k] : k \in DOMAIN p} = I
  BY <1>2, <1>6, <1>7, Zenon
<1> QED
  BY <1>3, <1>5, <1>8 DEF Listing, p, ids

-----------------------------------------------------------------------------
(* How often a sequence holds a value. *)
CountOf(q, x) == Cardinality({k \in DOMAIN q : q[k] = x})

(* With a member at its end it holds that member once more. *)
LEMMA AppendCounts ==
  ASSUME NEW S, NEW q \in Seq(S), NEW e \in S, NEW x
  PROVE  /\ CountOf(q, x) \in Nat
         /\ CountOf(Append(q, e), x) = IF e = x THEN CountOf(q, x) + 1 ELSE CountOf(q, x)
<1> DEFINE r == Append(q, e)
           n == Len(q) + 1
           A == {k \in DOMAIN q : q[k] = x}
           B == {k \in DOMAIN r : r[k] = x}
<1>1. /\ DOMAIN r = DOMAIN q \cup {n} /\ r[n] = e /\ \A i \in DOMAIN q : r[i] = q[i]
      /\ DOMAIN q = 1..Len(q) /\ Len(q) \in Nat /\ n \notin DOMAIN q
  BY AppendElements
<1> HIDE DEF r, n
<1>2. IsFiniteSet(A) /\ n \notin A
  <2>1. IsFiniteSet(1..Len(q))
    BY <1>1, FS_Interval
  <2>2. A \subseteq 1..Len(q)
    BY <1>1
  <2> QED
    BY <1>1, <2>1, <2>2, FS_Subset
<1>3. B = IF e = x THEN A \cup {n} ELSE A
  BY <1>1
<1> HIDE DEF A, B
<1>4. Cardinality(A) \in Nat /\ Cardinality(A \cup {n}) = Cardinality(A) + 1
  BY <1>2, FS_CardinalityType, FS_AddElement
<1> QED
  BY <1>2, <1>3, <1>4, FS_CardinalityType DEF A, B, r, CountOf

(* A finite set that loses members, and gains one at most. *)
LEMMA GainsOne ==
  ASSUME NEW A, NEW B, IsFiniteSet(A), NEW e, B \subseteq A \cup {e}
  PROVE  /\ IsFiniteSet(B) /\ Cardinality(A) \in Nat /\ Cardinality(B) \in Nat
         /\ Cardinality(B) <= Cardinality(A) + 1
         /\ B \subseteq A => Cardinality(B) <= Cardinality(A)
<1>1. IsFiniteSet(A \cup {e}) /\ Cardinality(A) \in Nat
  BY FS_AddElement, FS_CardinalityType
<1>2. Cardinality(A \cup {e}) <= Cardinality(A) + 1
  <2>1. Cardinality(A \cup {e}) = IF e \in A THEN Cardinality(A) ELSE Cardinality(A) + 1
    BY FS_AddElement
  <2> QED
    BY <1>1, <2>1
<1>3. IsFiniteSet(B) /\ Cardinality(B) \in Nat /\ Cardinality(B) <= Cardinality(A \cup {e})
  BY <1>1, FS_Subset, FS_CardinalityType
<1>4. B \subseteq A => Cardinality(B) <= Cardinality(A)
  BY FS_Subset
<1>5. Cardinality(A \cup {e}) \in Nat
  BY <1>1, FS_CardinalityType
<1> QED
  BY <1>1, <1>2, <1>3, <1>4, <1>5

(* The values of a function on a finite set. *)
LEMMA ImageFinite ==
  ASSUME NEW S, IsFiniteSet(S), NEW f, f = [x \in S |-> f[x]]
  PROVE  IsFiniteSet({f[x] : x \in S})
<1> DEFINE T == {f[x] : x \in S}
<1>1. f \in Surjection(S, T)
  BY DEF Surjection
<1> HIDE DEF T
<1>2. IsFiniteSet(T)
  BY <1>1, FS_Surjection
<1> QED
  BY <1>2 DEF T
=============================================================================
