----------------------------- MODULE ListProofs -----------------------------
(***************************************************************************)
(* What the list operators of Plan and Patch return, for all lists:        *)
(* filters, the concatenation of a list of lists, and what a patch makes   *)
(* of one array.  Filters and concatenation are recursive functions, whose *)
(* equations are proved first (Unfolding); an element of the result is     *)
(* then traced to its place in the arguments.                              *)
(***************************************************************************)
EXTENDS Patch, ResolveProofs

\* Induction up to n, for a property given as the set of numbers that have it.
LEMMA SetInduction ==
  ASSUME NEW n \in Nat, NEW Good, 0 \in Good, \A i \in 1 .. n : i - 1 \in Good => i \in Good
  PROVE  0 .. n \subseteq Good
<1> DEFINE bad == {i \in 0 .. n : i \notin Good}
<1>1. SUFFICES ASSUME bad # {} PROVE FALSE
  OBVIOUS
<1>2. bad \subseteq Nat
  OBVIOUS
<1>3. Min(bad) \in bad /\ \A y \in bad : Min(bad) =< y
  <2> HIDE DEF bad
  <2> QED BY <1>1, <1>2, MinInSet
<1> DEFINE m == Min(bad)
<1> HIDE DEF m
<1>4. m \in 0 .. n /\ m \notin Good /\ \A y \in bad : m =< y
  BY <1>3 DEF m
<1>5. m \in 1 .. n
  BY <1>4
<1>6. m - 1 \in 0 .. n /\ m - 1 \notin bad
  BY <1>4, <1>5
<1> QED BY <1>4, <1>5, <1>6

\* The solution of a recursion over 0 .. n in the set S, from x0 by steps G.
IsRecursion(G, n, S) == G \in [1 .. n -> [S -> S]]
Solution(f, n, S, x0, G) ==
  f \in [0 .. n -> S] /\ f[0] = x0 /\ \A i \in 1 .. n : f[i] = G[i][f[i - 1]]

\* There is one.
LEMMA Unfolding ==
  ASSUME NEW S, NEW x0 \in S, NEW n \in Nat, NEW G, IsRecursion(G, n, S)
  PROVE  \E f : Solution(f, n, S, x0, G)
<1> USE DEF IsRecursion
<1> DEFINE Solves(f, m) == f[0] = x0 /\ \A i \in 1 .. m : f[i] = G[i][f[i - 1]]
           Good == {m \in 0 .. n : \E f \in [0 .. m -> S] : Solves(f, m)}
<1>1. 0 \in Good
  <2> DEFINE f == [i \in 0 .. 0 |-> x0]
  <2>1. f \in [0 .. 0 -> S] /\ f[0] = x0
    OBVIOUS
  <2>2. Solves(f, 0)
    BY <2>1
  <2>3. 0 \in 0 .. n
    OBVIOUS
  <2> HIDE DEF f, Solves
  <2> QED BY <2>1, <2>2, <2>3
<1>2. ASSUME NEW m \in 1 .. n, m - 1 \in Good PROVE m \in Good
  <2>1. PICK f \in [0 .. m - 1 -> S] : Solves(f, m - 1)
    BY <1>2
  <2> DEFINE g == [i \in 0 .. m |-> IF i = m THEN G[m][f[m - 1]] ELSE f[i]]
  <2>2. f[m - 1] \in S /\ G[m][f[m - 1]] \in S
    OBVIOUS
  <2>3. g \in [0 .. m -> S]
    BY <2>2
  <2>4. g[m] = G[m][f[m - 1]] /\ \A i \in 0 .. m - 1 : g[i] = f[i]
    OBVIOUS
  <2> HIDE DEF g
  <2>5. Solves(g, m)
    <3>1. g[0] = x0
      BY <2>1, <2>4
    <3>2. ASSUME NEW i \in 1 .. m PROVE g[i] = G[i][g[i - 1]]
      <4>1. i - 1 \in 0 .. m - 1 /\ (i = m \/ (i \in 1 .. m - 1 /\ i \in 0 .. m - 1))
        OBVIOUS
      <4> QED BY <2>1, <2>4, <4>1
    <3> QED BY <3>1, <3>2
  <2>6. m \in 0 .. n
    OBVIOUS
  <2> HIDE DEF Solves
  <2> QED BY <2>3, <2>5, <2>6
<1>3. 0 .. n \subseteq Good
  <2> HIDE DEF Good
  <2> QED BY <1>1, <1>2, SetInduction
<1>4. n \in Good
  BY <1>3
<1> QED BY <1>4 DEF Solution

-----------------------------------------------------------------------------
(* Filtered.                                                               *)

\* The steps of a filter.
Filters(f, list, kept) ==
  /\ f[0] = << >>
  /\ \A i \in 1 .. Len(list) :
       f[i] = IF i \in kept THEN Append(f[i - 1], list[i]) ELSE f[i - 1]

\* Filtered returns the last of them (patch.rs:24-33).
LEMMA FilteredUnfolds ==
  ASSUME NEW S, NEW list \in Seq(S), NEW kept
  PROVE  \E f \in [0 .. Len(list) -> Seq(S)] :
           Filters(f, list, kept) /\ Filtered(list, kept) = f[Len(list)]
<1> DEFINE n == Len(list)
           Step(f, i) == IF i = 0 THEN << >>
                         ELSE IF i \in kept THEN Append(f[i - 1], list[i]) ELSE f[i - 1]
           G == [i \in 1 .. n |-> [s \in Seq(S) |->
                   IF i \in kept THEN Append(s, list[i]) ELSE s]]
           upto == CHOOSE u : u = [i \in 0 .. n |-> Step(u, i)]
<1>0. n \in Nat
  OBVIOUS
<1>1. G \in [1 .. n -> [Seq(S) -> Seq(S)]]
  <2> SUFFICES ASSUME NEW i \in 1 .. n, NEW s \in Seq(S)
               PROVE  (IF i \in kept THEN Append(s, list[i]) ELSE s) \in Seq(S)
    OBVIOUS
  <2>1. list[i] \in S
    OBVIOUS
  <2> QED BY <2>1
<1>3. PICK f \in [0 .. n -> Seq(S)] :
        f[0] = << >> /\ \A i \in 1 .. n : f[i] = G[i][f[i - 1]]
  <2>1. n \in Nat /\ << >> \in Seq(S) /\ IsRecursion(G, n, Seq(S))
    BY <1>0, <1>1 DEF IsRecursion
  <2> HIDE DEF G, n
  <2>2. \E f : Solution(f, n, Seq(S), << >>, G)
    BY <2>1, Unfolding
  <2> QED BY <2>2 DEF Solution
<1>4. \A i \in 1 .. n : f[i] = IF i \in kept THEN Append(f[i - 1], list[i]) ELSE f[i - 1]
  <2> SUFFICES ASSUME NEW i \in 1 .. n
               PROVE  G[i][f[i - 1]] = IF i \in kept THEN Append(f[i - 1], list[i]) ELSE f[i - 1]
    BY <1>3
  <2>1. f[i - 1] \in Seq(S)
    OBVIOUS
  <2> QED BY <2>1
<1> HIDE DEF G, n
<1>5. f = [i \in 0 .. n |-> Step(f, i)]
  <2>1. \A i \in 0 .. n : f[i] = Step(f, i)
    <3> SUFFICES ASSUME NEW i \in 0 .. n PROVE f[i] = Step(f, i)
      OBVIOUS
    <3>1. i = 0 \/ i \in 1 .. n
      BY <1>0
    <3> QED BY <1>3, <1>4, <3>1
  <2> QED BY <2>1
<1>6. upto = [i \in 0 .. n |-> Step(upto, i)]
  <2> HIDE DEF Step
  <2> QED BY <1>5
<1>7. upto[n] = f[n]
  <2> DEFINE Good == {i \in 0 .. n : upto[i] = f[i]}
  <2> HIDE DEF upto
  <2>1. 0 \in Good
    BY <1>0, <1>3, <1>6
  <2>2. ASSUME NEW i \in 1 .. n, i - 1 \in Good PROVE i \in Good
    <3>1. i \in 0 .. n /\ i # 0 /\ upto[i - 1] = f[i - 1]
      BY <1>0, <2>2
    <3>2. upto[i] = Step(upto, i)
      <4> HIDE DEF Step
      <4> QED BY <1>6, <3>1
    <3> QED BY <1>4, <3>1, <3>2
  <2>3. 0 .. n \subseteq Good
    <3> HIDE DEF Good
    <3> QED BY <1>0, <2>1, <2>2, SetInduction
  <2> QED BY <1>0, <2>3
<1>8. Filtered(list, kept) = upto[n]
  BY DEF Filtered, n
<1> QED BY <1>3, <1>4, <1>7, <1>8 DEF Filters, n

\* Traces(h, result, list, kept): position j of the result is position h[j] of
\* the list, one of those kept; none is lost, and the order is theirs.
Traces(h, result, list, kept) ==
  /\ h \in [1 .. Len(result) -> kept \intersect DOMAIN list]
  /\ \A j \in 1 .. Len(result) : result[j] = list[h[j]]
  /\ \A i, j \in 1 .. Len(result) : i < j => h[i] < h[j]
  /\ \A k \in kept \intersect DOMAIN list : \E j \in 1 .. Len(result) : h[j] = k

\* A filter returns the items kept, in their order (patch.rs:24-33).
LEMMA FilteredTraces ==
  ASSUME NEW S, NEW list \in Seq(S), NEW kept
  PROVE  /\ Filtered(list, kept) \in Seq(S)
         /\ \E h : Traces(h, Filtered(list, kept), list, kept)
<1> DEFINE n == Len(list)
<1>0. n \in Nat /\ DOMAIN list = 1 .. n
  OBVIOUS
<1>1. PICK f \in [0 .. n -> Seq(S)] : Filters(f, list, kept) /\ Filtered(list, kept) = f[n]
  BY FilteredUnfolds
<1> DEFINE Upto(m) == kept \intersect (1 .. m)
           Good == {m \in 0 .. n : \E h :
             /\ h \in [1 .. Len(f[m]) -> Upto(m)]
             /\ \A j \in 1 .. Len(f[m]) : f[m][j] = list[h[j]]
             /\ \A i, j \in 1 .. Len(f[m]) : i < j => h[i] < h[j]
             /\ \A k \in Upto(m) : \E j \in 1 .. Len(f[m]) : h[j] = k}
<1> HIDE DEF n
<1>2. 0 \in Good
  <2>1. f[0] = << >> /\ Len(f[0]) = 0 /\ Upto(0) = {}
    BY <1>1 DEF Filters
  <2> DEFINE h == [j \in 1 .. Len(f[0]) |-> 0]
  <2>2. h \in [1 .. Len(f[0]) -> Upto(0)]
    BY <2>1
  <2>3. 1 .. Len(f[0]) = {} /\ 0 \in 0 .. n
    BY <1>0, <2>1
  <2> HIDE DEF h, Upto
  <2> QED BY <2>1, <2>2, <2>3
<1>3. ASSUME NEW m \in 1 .. n, m - 1 \in Good PROVE m \in Good
  <2> DEFINE old == f[m - 1]
  <2>0. m \in Nat /\ m \in 0 .. n /\ m - 1 \in 0 .. n /\ old \in Seq(S) /\ Len(old) \in Nat
    BY <1>0
  <2>1. PICK h :
          /\ h \in [1 .. Len(old) -> Upto(m - 1)]
          /\ \A j \in 1 .. Len(old) : old[j] = list[h[j]]
          /\ \A i, j \in 1 .. Len(old) : i < j => h[i] < h[j]
          /\ \A k \in Upto(m - 1) : \E j \in 1 .. Len(old) : h[j] = k
    BY <1>3
  <2>2. CASE m \notin kept
    <3>1. f[m] = old /\ Upto(m) = Upto(m - 1)
      BY <1>0, <1>1, <2>0, <2>2 DEF Filters, n
    <3> QED BY <2>0, <2>1, <3>1
  <2>3. CASE m \in kept
    <3> DEFINE g == [j \in 1 .. Len(old) + 1 |-> IF j = Len(old) + 1 THEN m ELSE h[j]]
    <3>0. list[m] \in S
      BY <1>0
    <3>1. f[m] = Append(old, list[m])
      BY <1>1, <2>3 DEF Filters, n
    <3>2. /\ Len(f[m]) = Len(old) + 1
          /\ f[m][Len(old) + 1] = list[m]
          /\ \A j \in 1 .. Len(old) : f[m][j] = old[j]
      BY <2>0, <3>0, <3>1
    <3>3. \A j \in 1 .. Len(old) : h[j] \in kept /\ h[j] \in 1 .. m - 1
      BY <2>1
    <3>4. g \in [1 .. Len(f[m]) -> Upto(m)]
      BY <2>0, <2>3, <3>2, <3>3
    <3>5. g[Len(old) + 1] = m /\ \A j \in 1 .. Len(old) : g[j] = h[j]
      BY <2>0
    <3> HIDE DEF g, old
    <3>6. \A j \in 1 .. Len(f[m]) : j = Len(old) + 1 \/ j \in 1 .. Len(old)
      BY <2>0, <3>2
    <3>7. \A j \in 1 .. Len(f[m]) : f[m][j] = list[g[j]]
      BY <2>1, <3>2, <3>5, <3>6
    <3>8. \A i, j \in 1 .. Len(f[m]) : i < j => g[i] < g[j]
      <4> SUFFICES ASSUME NEW i \in 1 .. Len(f[m]), NEW j \in 1 .. Len(f[m]), i < j
                   PROVE  g[i] < g[j]
        OBVIOUS
      <4>1. i \in 1 .. Len(old)
        BY <2>0, <3>2
      <4>2. CASE j = Len(old) + 1
        BY <2>0, <3>3, <3>5, <4>1, <4>2
      <4>3. CASE j \in 1 .. Len(old)
        BY <2>1, <3>5, <4>1, <4>3
      <4> QED BY <3>6, <4>2, <4>3
    <3>9. \A k \in Upto(m) : \E j \in 1 .. Len(f[m]) : g[j] = k
      <4> SUFFICES ASSUME NEW k \in Upto(m) PROVE \E j \in 1 .. Len(f[m]) : g[j] = k
        OBVIOUS
      <4>1. CASE k = m
        BY <2>0, <3>2, <3>5, <4>1
      <4>2. CASE k # m
        <5>1. k \in Upto(m - 1)
          BY <2>0, <4>2
        <5>2. PICK j \in 1 .. Len(old) : h[j] = k
          BY <2>1, <5>1
        <5> QED BY <2>0, <3>2, <3>5, <5>2
      <4> QED BY <4>1, <4>2
    <3> QED BY <2>0, <3>4, <3>7, <3>8, <3>9
  <2> QED BY <2>2, <2>3
<1>4. n \in Good
  <2> HIDE DEF Good
  <2>1. 0 .. n \subseteq Good
    BY <1>0, <1>2, <1>3, SetInduction
  <2> QED BY <1>0, <2>1
<1>5. f[n] \in Seq(S)
  BY <1>0
<1>6. Upto(n) = kept \intersect DOMAIN list
  BY <1>0
<1> QED BY <1>1, <1>4, <1>5, <1>6 DEF Traces
-----------------------------------------------------------------------------
(* FlattenSeq.                                                             *)

\* The steps of a concatenation.
Joins(f, lists) ==
  f[0] = << >> /\ \A i \in 1 .. Len(lists) : f[i] = f[i - 1] \o lists[i]

\* FlattenSeq returns the last of them (plan.rs:331-347).
LEMMA FlattenUnfolds ==
  ASSUME NEW S, NEW lists \in Seq(Seq(S))
  PROVE  \E f \in [0 .. Len(lists) -> Seq(S)] :
           Joins(f, lists) /\ FlattenSeq(lists) = f[Len(lists)]
<1> DEFINE n == Len(lists)
           Step(f, i) == IF i = 1 THEN lists[i] ELSE f[i - 1] \o lists[i]
           G == [i \in 1 .. n |-> [s \in Seq(S) |-> s \o lists[i]]]
           flatten == CHOOSE u : u = [i \in 1 .. n |-> Step(u, i)]
<1>0. n \in Nat /\ \A i \in 1 .. n : lists[i] \in Seq(S)
  OBVIOUS
<1>1. G \in [1 .. n -> [Seq(S) -> Seq(S)]]
  BY <1>0
<1>3. PICK f \in [0 .. n -> Seq(S)] :
        f[0] = << >> /\ \A i \in 1 .. n : f[i] = G[i][f[i - 1]]
  <2>1. n \in Nat /\ << >> \in Seq(S) /\ IsRecursion(G, n, Seq(S))
    BY <1>0, <1>1 DEF IsRecursion
  <2> HIDE DEF G, n
  <2>2. \E f : Solution(f, n, Seq(S), << >>, G)
    BY <2>1, Unfolding
  <2> QED BY <2>2 DEF Solution
<1>4. \A i \in 1 .. n : f[i] = f[i - 1] \o lists[i]
  <2> SUFFICES ASSUME NEW i \in 1 .. n PROVE G[i][f[i - 1]] = f[i - 1] \o lists[i]
    BY <1>3
  <2>1. f[i - 1] \in Seq(S)
    OBVIOUS
  <2> QED BY <2>1
<1>5. Joins(f, lists)
  BY <1>3, <1>4 DEF Joins
<1> HIDE DEF G
<1>6. CASE n = 0
  <2>1. FlattenSeq(lists) = lists /\ lists = << >>
    BY <1>6 DEF FlattenSeq
  <2> QED BY <1>3, <1>5, <1>6, <2>1
<1>7. CASE n # 0
  <2>0. 1 \in 1 .. n /\ f[1] = lists[1]
    <3>1. 1 \in 1 .. n /\ 1 - 1 = 0 /\ lists[1] \in Seq(S)
      BY <1>0, <1>7
    <3>2. f[1] = f[1 - 1] \o lists[1]
      BY <1>4, <3>1
    <3>3. f[1] = << >> \o lists[1]
      BY <1>3, <3>1, <3>2
    <3> QED BY <3>1, <3>3
  <2>1. FlattenSeq(lists) = flatten[n]
    BY <1>7 DEF FlattenSeq
  <2> HIDE DEF n
  <2> DEFINE g == [i \in 1 .. n |-> f[i]]
  <2>2. g = [i \in 1 .. n |-> Step(g, i)]
    <3>1. ASSUME NEW i \in 1 .. n PROVE g[i] = Step(g, i)
      <4>1. CASE i = 1
        BY <2>0, <4>1
      <4>2. CASE i # 1
        <5>1. i - 1 \in 1 .. n
          BY <1>0, <4>2
        <5> QED BY <1>4, <4>2, <5>1
      <4> QED BY <4>1, <4>2
    <3> HIDE DEF Step
    <3>2. \A i \in 1 .. n : g[i] = Step(g, i)
      BY <3>1
    <3>3. g = [i \in 1 .. n |-> g[i]]
      OBVIOUS
    <3> HIDE DEF g
    <3> QED BY <3>2, <3>3
  <2>3. flatten = [i \in 1 .. n |-> Step(flatten, i)]
    <3> HIDE DEF Step, g
    <3> QED BY <2>2
  <2>4. flatten[n] = f[n]
    <3> HIDE DEF flatten
    <3> DEFINE Good == {i \in 0 .. n : i # 0 => flatten[i] = f[i]}
    <3>1. 0 \in Good
      BY <1>0
    <3>2. ASSUME NEW i \in 1 .. n, i - 1 \in Good PROVE i \in Good
      <4>0. i \in 0 .. n
        BY <1>0
      <4>1. flatten[i] = Step(flatten, i)
        <5> HIDE DEF Step
        <5> QED BY <2>3
      <4>2. CASE i = 1
        BY <2>0, <4>0, <4>1, <4>2
      <4>3. CASE i # 1
        <5>1. flatten[i - 1] = f[i - 1]
          BY <1>0, <3>2, <4>3
        <5> QED BY <1>4, <4>0, <4>1, <4>3, <5>1
      <4> QED BY <4>2, <4>3
    <3>3. 0 .. n \subseteq Good
      <4> HIDE DEF Good
      <4> QED BY <1>0, <3>1, <3>2, SetInduction
    <3> QED BY <1>0, <1>7, <3>3
  <2> QED BY <1>5, <2>1, <2>4 DEF n
<1> QED BY <1>6, <1>7

\* Where the items of a concatenation are.
LEMMA Concatenation ==
  ASSUME NEW S, NEW s \in Seq(S), NEW t \in Seq(S)
  PROVE  /\ s \o t \in Seq(S)
         /\ Len(s \o t) = Len(s) + Len(t)
         /\ \A j \in 1 .. Len(s) : (s \o t)[j] = s[j]
         /\ \A j \in 1 .. Len(t) : (s \o t)[Len(s) + j] = t[j]
OBVIOUS

\* The parts of a pair.
LEMMA Pairs ==
  \A x, y : <<x, y>>[1] = x /\ <<x, y>>[2] = y
OBVIOUS

\* Places(lists): where the items of a list of lists are.
Places(lists) == UNION {{<<k, i>> : i \in DOMAIN lists[k]} : k \in DOMAIN lists}

\* Locates(h, result, lists): position j of the result is item h[j][2] of list
\* h[j][1]; no item is lost, and none comes twice.
Locates(h, result, lists) ==
  /\ h \in [1 .. Len(result) -> Places(lists)]
  /\ \A j \in 1 .. Len(result) : result[j] = lists[h[j][1]][h[j][2]]
  /\ \A i, j \in 1 .. Len(result) : h[i] = h[j] => i = j
  /\ \A p \in Places(lists) : \E j \in 1 .. Len(result) : h[j] = p

\* The concatenation has every item once (plan.rs:331-347).
LEMMA FlattenLocates ==
  ASSUME NEW S, NEW lists \in Seq(Seq(S))
  PROVE  /\ FlattenSeq(lists) \in Seq(S)
         /\ \E h : Locates(h, FlattenSeq(lists), lists)
<1> DEFINE n == Len(lists)
<1>0. n \in Nat /\ DOMAIN lists = 1 .. n /\ \A i \in 1 .. n : lists[i] \in Seq(S)
  OBVIOUS
<1>1. PICK f \in [0 .. n -> Seq(S)] : Joins(f, lists) /\ FlattenSeq(lists) = f[n]
  BY FlattenUnfolds
<1> HIDE DEF n
<1>2. f[0] = << >> /\ \A i \in 1 .. n : f[i] = f[i - 1] \o lists[i]
  BY <1>1 DEF Joins, n
<1> DEFINE Upto(m) == UNION {{<<k, i>> : i \in DOMAIN lists[k]} : k \in 1 .. m}
           Located(h, m) ==
             /\ h \in [1 .. Len(f[m]) -> Upto(m)]
             /\ \A j \in 1 .. Len(f[m]) : f[m][j] = lists[h[j][1]][h[j][2]]
             /\ \A i, j \in 1 .. Len(f[m]) : h[i] = h[j] => i = j
             /\ \A p \in Upto(m) : \E j \in 1 .. Len(f[m]) : h[j] = p
           Good == {m \in 0 .. n : \E h : Located(h, m)}
<1>3. 0 \in Good
  <2>1. Len(f[0]) = 0 /\ Upto(0) = {} /\ 0 \in 0 .. n /\ 1 .. Len(f[0]) = {}
    BY <1>0, <1>2
  <2> DEFINE h == [j \in 1 .. Len(f[0]) |-> 0]
  <2>2. h \in [1 .. Len(f[0]) -> Upto(0)]
    BY <2>1
  <2> HIDE DEF h, Upto
  <2>3. Located(h, 0)
    BY <2>1, <2>2
  <2> QED BY <2>1, <2>3
<1>4. ASSUME NEW m \in 1 .. n, m - 1 \in Good PROVE m \in Good
  <2> DEFINE old == f[m - 1]
             new == lists[m]
  <2>0. m \in Nat /\ m \in 0 .. n /\ old \in Seq(S) /\ new \in Seq(S)
    BY <1>0
  <2>1. PICK h : Located(h, m - 1)
    BY <1>4
  <2>2. f[m] = old \o new
    BY <1>2
  <2>a. PICK a \in Nat : a = Len(old)
    BY <2>0
  <2>b. PICK b \in Nat : b = Len(new) /\ DOMAIN new = 1 .. b
    BY <2>0
  <2>3. /\ Len(f[m]) = a + b
        /\ \A j \in 1 .. a : f[m][j] = old[j]
        /\ \A j \in 1 .. b : f[m][a + j] = new[j]
    <3> HIDE DEF old, new, Upto, Good
    <3>1. /\ Len(old \o new) = Len(old) + Len(new)
          /\ \A j \in 1 .. Len(old) : (old \o new)[j] = old[j]
          /\ \A j \in 1 .. Len(new) : (old \o new)[Len(old) + j] = new[j]
      BY <2>0, Concatenation
    <3> QED BY <2>2, <2>a, <2>b, <3>1
  <2>9. /\ h \in [1 .. a -> Upto(m - 1)]
        /\ \A j \in 1 .. a : old[j] = lists[h[j][1]][h[j][2]]
        /\ \A i, j \in 1 .. a : h[i] = h[j] => i = j
        /\ \A p \in Upto(m - 1) : \E j \in 1 .. a : h[j] = p
    BY <2>1, <2>a
  <2> DEFINE g == [j \in 1 .. a + b |-> IF j =< a THEN h[j] ELSE <<m, j - a>>]
  <2>4. /\ \A j \in 1 .. a : j \in 1 .. a + b /\ g[j] = h[j]
        /\ \A j \in 1 .. b : a + j \in 1 .. a + b /\ g[a + j] = <<m, j>>
    <3> HIDE DEF old, new, Upto
    <3>1. \A j \in 1 .. a : j \in 1 .. a + b /\ j =< a
      OBVIOUS
    <3>2. \A j \in 1 .. b : a + j \in 1 .. a + b /\ ~(a + j =< a) /\ (a + j) - a = j
      OBVIOUS
    <3> QED BY <3>1, <3>2
  <2>5. \A j \in 1 .. a + b : j \in 1 .. a \/ \E i \in 1 .. b : j = a + i
    <3> HIDE DEF old, new, Upto, g
    <3> SUFFICES ASSUME NEW j \in 1 .. a + b, j \notin 1 .. a
                 PROVE  \E i \in 1 .. b : j = a + i
      OBVIOUS
    <3>1. j - a \in 1 .. b /\ j = a + (j - a)
      OBVIOUS
    <3> QED BY <3>1
  <2>6. /\ \A p \in Upto(m) : p \in Upto(m - 1) \/ \E i \in 1 .. b : p = <<m, i>>
        /\ Upto(m - 1) \subseteq Upto(m)
        /\ \A i \in 1 .. b : <<m, i>> \in Upto(m)
        /\ \A p \in Upto(m - 1) : p[1] # m
    <3> HIDE DEF old, g
    <3>1. \A k \in 1 .. m : k \in 1 .. m - 1 \/ k = m
      BY <2>0
    <3>2. 1 .. m - 1 \subseteq 1 .. m /\ m \in 1 .. m /\ m \notin 1 .. m - 1
      BY <2>0
    <3>3. \A q, p : p \in Upto(q) <=> \E k \in 1 .. q : \E i \in DOMAIN lists[k] : p = <<k, i>>
      <4> HIDE DEF new
      <4> QED OBVIOUS
    <3> HIDE DEF Upto
    <3>4. ASSUME NEW p \in Upto(m) PROVE p \in Upto(m - 1) \/ \E i \in 1 .. b : p = <<m, i>>
      <4>1. PICK k \in 1 .. m : \E i \in DOMAIN lists[k] : p = <<k, i>>
        BY <3>3, <3>4
      <4> QED BY <2>b, <3>1, <3>3, <4>1
    <3>5. Upto(m - 1) \subseteq Upto(m)
      BY <3>2, <3>3
    <3>6. \A i \in 1 .. b : <<m, i>> \in Upto(m)
      BY <2>b, <3>2, <3>3
    <3>7. ASSUME NEW p \in Upto(m - 1) PROVE p[1] # m
      <4>1. PICK k \in 1 .. m - 1 : \E i \in DOMAIN lists[k] : p = <<k, i>>
        BY <3>3, <3>7
      <4> QED BY <3>2, <4>1
    <3> QED BY <3>4, <3>5, <3>6, <3>7
  <2>10. \A j \in 1 .. a : h[j] \in Upto(m - 1)
    <3> HIDE DEF Upto
    <3> QED BY <2>9
  <2>12. g = [j \in 1 .. a + b |-> g[j]]
    OBVIOUS
  <2> HIDE DEF g, Upto, old
  <2>13. \A j \in 1 .. a + b : g[j] \in Upto(m)
    <3> SUFFICES ASSUME NEW j \in 1 .. a + b PROVE g[j] \in Upto(m)
      OBVIOUS
    <3>1. CASE j \in 1 .. a
      BY <2>4, <2>6, <2>10, <3>1
    <3>2. ASSUME NEW i \in 1 .. b, j = a + i PROVE g[j] \in Upto(m)
      BY <2>4, <2>6, <3>2
    <3> QED BY <2>5, <3>1, <3>2
  <2>14. g \in [1 .. a + b -> Upto(m)]
    BY <2>12, <2>13
  <2>15. \A j \in 1 .. a + b : f[m][j] = lists[g[j][1]][g[j][2]]
    <3> SUFFICES ASSUME NEW j \in 1 .. a + b PROVE f[m][j] = lists[g[j][1]][g[j][2]]
      OBVIOUS
    <3>1. CASE j \in 1 .. a
      BY <2>3, <2>4, <2>9, <3>1
    <3>2. ASSUME NEW i \in 1 .. b, j = a + i PROVE f[m][j] = lists[g[j][1]][g[j][2]]
      <4>1. f[m][j] = lists[m][i] /\ g[j] = <<m, i>>
        BY <2>3, <2>4, <3>2
      <4>2. g[j][1] = m /\ g[j][2] = i
        BY <4>1, Pairs
      <4> QED BY <4>1, <4>2
    <3> QED BY <2>5, <3>1, <3>2
  <2> HIDE DEF new
  <2>16. \A i, j \in 1 .. a + b : g[i] = g[j] => i = j
    <3> SUFFICES ASSUME NEW i \in 1 .. a + b, NEW j \in 1 .. a + b, g[i] = g[j]
                 PROVE  i = j
      OBVIOUS
    <3>1. \A p \in 1 .. a, q \in 1 .. b : g[p] # g[a + q]
      <4> SUFFICES ASSUME NEW p \in 1 .. a, NEW q \in 1 .. b PROVE g[p] # g[a + q]
        OBVIOUS
      <4>1. g[p] \in Upto(m - 1) /\ g[a + q] = <<m, q>>
        BY <2>4, <2>10
      <4>2. g[p][1] # m /\ g[a + q][1] = m
        BY <2>6, <4>1, Pairs
      <4> QED BY <4>2
    <3>2. CASE i \in 1 .. a /\ j \in 1 .. a
      BY <2>4, <2>9, <3>2
    <3>3. CASE i \notin 1 .. a /\ j \notin 1 .. a
      <4>1. PICK p \in 1 .. b : i = a + p
        BY <2>5, <3>3
      <4>2. PICK q \in 1 .. b : j = a + q
        BY <2>5, <3>3
      <4>3. <<m, p>> = <<m, q>>
        BY <2>4, <4>1, <4>2
      <4>4. p = q
        BY <4>3, Pairs
      <4> QED BY <4>1, <4>2, <4>4
    <3> QED BY <2>5, <3>1, <3>2, <3>3
  <2>17. \A p \in Upto(m) : \E j \in 1 .. a + b : g[j] = p
    <3> SUFFICES ASSUME NEW p \in Upto(m) PROVE \E j \in 1 .. a + b : g[j] = p
      OBVIOUS
    <3>1. CASE p \in Upto(m - 1)
      BY <2>4, <2>9, <3>1
    <3>2. CASE \E i \in 1 .. b : p = <<m, i>>
      BY <2>4, <3>2
    <3> QED BY <2>6, <3>1, <3>2
  <2>18. Located(g, m)
    BY <2>3, <2>14, <2>15, <2>16, <2>17
  <2> HIDE DEF Located
  <2> QED BY <2>0, <2>18
<1>5. n \in Good
  <2> HIDE DEF Good
  <2>1. 0 .. n \subseteq Good
    BY <1>0, <1>3, <1>4, SetInduction
  <2> QED BY <1>0, <2>1
<1>6. f[n] \in Seq(S) /\ Upto(n) = Places(lists)
  BY <1>0 DEF Places
<1>7. \E h : Locates(h, f[n], lists)
  <2>1. PICK h : Located(h, n)
    BY <1>5
  <2> HIDE DEF Upto
  <2>2. Locates(h, f[n], lists)
    BY <1>6, <2>1 DEF Locates
  <2> QED BY <2>2
<1> QED BY <1>1, <1>6, <1>7
-----------------------------------------------------------------------------
(* Vectors and their Options.                                              *)

\* A vector is a sequence over any set that has its items, and conversely.
LEMMA VecIs ==
  ASSUME NEW S, NEW s \in Seq(S)
  PROVE  IsVec(s) /\ ToSet(s) \subseteq S
<1>1. s \in [1 .. Len(s) -> S] /\ Len(s) \in Nat
  OBVIOUS
<1>2. s \in [1 .. Len(s) -> ToSet(s)]
  BY <1>1 DEF ToSet
<1>3. s \in Seq(ToSet(s))
  BY <1>1, <1>2
<1> QED BY <1>1, <1>3 DEF IsVec, ToSet

\* The indices and the items of a vector.
LEMMA VecFacts ==
  ASSUME NEW s, IsVec(s)
  PROVE  /\ Len(s) \in Nat /\ DOMAIN s = 1 .. Len(s)
         /\ \A i \in 1 .. Len(s) : s[i] \in ToSet(s)
         /\ \A x \in ToSet(s) : \E i \in 1 .. Len(s) : x = s[i]
BY DEF IsVec, ToSet

\* A vector without items is the empty one: what add_array returns early on
\* (patch.rs:115-118).
LEMMA VecEmpty ==
  ASSUME NEW s, IsVec(s), ToSet(s) = {}
  PROVE  s = << >>
<1>1. s \in Seq({})
  BY DEF IsVec
<1>2. Len(s) = 0
  <2>1. \A i \in 1 .. Len(s) : s[i] \in {}
    BY <1>1
  <2>2. Len(s) \in Nat
    BY <1>1
  <2>3. ~ (1 \in 1 .. Len(s))
    BY <2>1
  <2> QED BY <2>2, <2>3
<1> QED BY <1>1, <1>2

\* One vector after another.
LEMMA VecJoin ==
  ASSUME NEW s, NEW t, IsVec(s), IsVec(t)
  PROVE  /\ IsVec(s \o t)
         /\ ToSet(s \o t) = ToSet(s) \union ToSet(t)
         /\ IsPrefix(s, s \o t)
         /\ Len(s \o t) = Len(s) + Len(t)
         /\ \A j \in 1 .. Len(s) : (s \o t)[j] = s[j]
         /\ \A j \in 1 .. Len(t) : (s \o t)[Len(s) + j] = t[j]
         /\ \A j \in 1 .. Len(s \o t) : j \in 1 .. Len(s) \/ \E i \in 1 .. Len(t) : j = Len(s) + i
<1> DEFINE S == ToSet(s) \union ToSet(t)
           u == s \o t
<1>0. s \in Seq(S) /\ t \in Seq(S) /\ Len(s) \in Nat /\ Len(t) \in Nat
  BY DEF IsVec
<1>1. /\ u \in Seq(S)
      /\ Len(u) = Len(s) + Len(t)
      /\ \A j \in 1 .. Len(s) : u[j] = s[j]
      /\ \A j \in 1 .. Len(t) : u[Len(s) + j] = t[j]
  <2> HIDE DEF S
  <2> QED BY <1>0, Concatenation
<1> HIDE DEF u
<1>2. IsVec(u) /\ ToSet(u) \subseteq S
  BY <1>1, VecIs
<1>3. \A j \in 1 .. Len(u) : j \in 1 .. Len(s) \/ \E i \in 1 .. Len(t) : j = Len(s) + i
  <2> SUFFICES ASSUME NEW j \in 1 .. Len(u), j \notin 1 .. Len(s)
               PROVE  \E i \in 1 .. Len(t) : j = Len(s) + i
    OBVIOUS
  <2>1. j - Len(s) \in 1 .. Len(t) /\ j = Len(s) + (j - Len(s))
    BY <1>0, <1>1
  <2> QED BY <2>1
<1>4. ToSet(s) \subseteq ToSet(u)
  <2> SUFFICES ASSUME NEW x \in ToSet(s) PROVE x \in ToSet(u)
    OBVIOUS
  <2>1. PICK i \in 1 .. Len(s) : x = s[i]
    BY VecFacts
  <2>2. i \in 1 .. Len(u) /\ u[i] = x
    BY <1>0, <1>1, <2>1
  <2> QED BY <1>2, <2>2, VecFacts
<1>5. ToSet(t) \subseteq ToSet(u)
  <2> SUFFICES ASSUME NEW x \in ToSet(t) PROVE x \in ToSet(u)
    OBVIOUS
  <2>1. PICK i \in 1 .. Len(t) : x = t[i]
    BY VecFacts
  <2>2. Len(s) + i \in 1 .. Len(u) /\ u[Len(s) + i] = x
    BY <1>0, <1>1, <2>1
  <2> QED BY <1>2, <2>2, VecFacts
<1>6. IsPrefix(s, u)
  <2>1. SubSeq(u, 1, Len(s)) = s /\ SubSeq(s, 1, Len(s)) = s
    BY <1>0, <1>1
  <2> QED BY <1>0, <1>1, <2>1 DEF IsPrefix
<1>7. IsVec(u) /\ ToSet(u) = S
  BY <1>2, <1>4, <1>5
<1> QED BY <1>1, <1>3, <1>6, <1>7 DEF u

\* The items of an Option.
LEMMA ItemsAre ==
  ASSUME NEW list, IsVecOption(list)
  PROVE  /\ IsVec(Items(list))
         /\ list = {} => Items(list) = << >>
         /\ \A s \in list : list = {s} /\ Items(list) = s
<1>1. CASE list = {}
  <2>1. Items(list) = << >> /\ << >> \in Seq({})
    BY <1>1 DEF Items, UnwrapOr
  <2>2. IsVec(<< >>)
    BY <2>1, VecIs
  <2> QED BY <1>1, <2>1, <2>2
<1>2. ASSUME NEW s \in list PROVE list = {s} /\ Items(list) = s /\ IsVec(s)
  BY <1>2 DEF IsVecOption, Items, UnwrapOr
<1> QED BY <1>1, <1>2

-----------------------------------------------------------------------------
(* One array under one pass.                                               *)

UniqueIn(s) == \A i, j \in DOMAIN s : s[i].name = s[j].name => i = j

\* Two vectors whose names are unique, and different.
LEMMA JoinUnique ==
  ASSUME NEW s, NEW t, IsVec(s), IsVec(t), UniqueIn(s), UniqueIn(t),
         \A x \in ToSet(s), y \in ToSet(t) : x.name # y.name
  PROVE  UniqueIn(s \o t)
<1> DEFINE u == s \o t
<1>1. \A i \in 1 .. Len(s), j \in 1 .. Len(t) : s[i].name # t[j].name
  BY VecFacts
<1>2. DOMAIN u = 1 .. Len(u) /\ DOMAIN s = 1 .. Len(s) /\ DOMAIN t = 1 .. Len(t)
  BY VecJoin, VecFacts
<1>3. /\ \A j \in 1 .. Len(s) : u[j] = s[j]
      /\ \A j \in 1 .. Len(t) : u[Len(s) + j] = t[j]
      /\ \A j \in 1 .. Len(u) : j \in 1 .. Len(s) \/ \E i \in 1 .. Len(t) : j = Len(s) + i
  BY VecJoin
<1> HIDE DEF u
<1> SUFFICES ASSUME NEW i \in 1 .. Len(u), NEW j \in 1 .. Len(u), u[i].name = u[j].name
             PROVE  i = j
  BY <1>2 DEF UniqueIn, u
<1>4. CASE i \in 1 .. Len(s) /\ j \in 1 .. Len(s)
  BY <1>2, <1>3, <1>4 DEF UniqueIn
<1>5. CASE i \in 1 .. Len(s) /\ j \notin 1 .. Len(s)
  <2>1. PICK q \in 1 .. Len(t) : j = Len(s) + q
    BY <1>3, <1>5
  <2>2. s[i].name = t[q].name
    BY <1>3, <1>5, <2>1
  <2> QED BY <1>1, <1>5, <2>2
<1>6. CASE i \notin 1 .. Len(s) /\ j \in 1 .. Len(s)
  <2>1. PICK q \in 1 .. Len(t) : i = Len(s) + q
    BY <1>3, <1>6
  <2>2. s[j].name = t[q].name
    BY <1>3, <1>6, <2>1
  <2> QED BY <1>1, <1>6, <2>2
<1>7. CASE i \notin 1 .. Len(s) /\ j \notin 1 .. Len(s)
  <2>1. PICK p \in 1 .. Len(t) : i = Len(s) + p
    BY <1>3, <1>7
  <2>2. PICK q \in 1 .. Len(t) : j = Len(s) + q
    BY <1>3, <1>7
  <2>3. t[p].name = t[q].name
    BY <1>3, <2>1, <2>2
  <2>4. p = q
    BY <1>2, <2>3 DEF UniqueIn
  <2> QED BY <2>1, <2>2, <2>4
<1> QED BY <1>4, <1>5, <1>6, <1>7

\* A pass over one array (patch.rs:22-126).
Extended(list, wanted) == AddTo(list, add_array(list, Missing(list, wanted)))

\* Adding to an array puts the new items after those it has (patch.rs:113-126).
LEMMA AddedAre ==
  ASSUME NEW list, IsVecOption(list), NEW items, IsVec(items)
  PROVE  LET new == AddTo(list, add_array(list, items))
         IN  /\ IsVecOption(new)
             /\ Items(new) = Items(list) \o items
             /\ items = << >> => new = list
<1> DEFINE new == AddTo(list, add_array(list, items))
<1>0. IsVec(Items(list)) /\ IsVec(Items(list) \o items)
  BY ItemsAre, VecJoin
<1>1. CASE items = << >>
  <2>1. new = list
    BY <1>1 DEF AddTo, add_array, ArrayPatch
  <2>2. Items(list) \o << >> = Items(list)
    BY <1>0 DEF IsVec
  <2> QED BY <1>1, <2>1, <2>2
<1>2. CASE items # << >> /\ list = {}
  <2>1. new = {items}
    BY <1>2 DEF AddTo, add_array, ArrayPatch
  <2>2. IsVecOption({items})
    BY DEF IsVecOption
  <2>3. Items(list) = << >> /\ << >> \o items = items
    BY <1>2, ItemsAre DEF IsVec
  <2>4. Items(new) = items
    BY <2>1, <2>2, ItemsAre
  <2> QED BY <1>2, <2>1, <2>2, <2>3, <2>4
<1>3. ASSUME NEW s \in list, items # << >>
      PROVE  IsVecOption(new) /\ Items(new) = Items(list) \o items
  <2>1. list = {s} /\ Items(list) = s
    BY ItemsAre
  <2>2. new = {s \o items}
    BY <1>3, <2>1 DEF AddTo, add_array, ArrayPatch
  <2>3. IsVecOption({s \o items})
    BY <1>0, <2>1 DEF IsVecOption
  <2>4. Items(new) = s \o items
    BY <2>2, <2>3, ItemsAre
  <2> QED BY <2>1, <2>2, <2>3, <2>4
<1> QED BY <1>1, <1>2, <1>3

\* The items a filter keeps, of a vector with unique names.
LEMMA FilteredAre ==
  ASSUME NEW s, IsVec(s), NEW kept
  PROVE  LET r == Filtered(s, kept)
         IN  /\ IsVec(r)
             /\ ToSet(r) = {s[i] : i \in kept \intersect DOMAIN s}
             /\ UniqueIn(s) => UniqueIn(r)
<1> DEFINE r == Filtered(s, kept)
<1>1. r \in Seq(ToSet(s)) /\ \E h : Traces(h, r, s, kept)
  BY FilteredTraces DEF IsVec
<1> HIDE DEF r
<1>2. PICK h : Traces(h, r, s, kept)
  BY <1>1
<1>3. IsVec(r)
  BY <1>1, VecIs
<1>4. Len(r) \in Nat /\ DOMAIN r = 1 .. Len(r)
  BY <1>3, VecFacts
<1>5. \A j \in 1 .. Len(r) : h[j] \in kept \intersect DOMAIN s /\ r[j] = s[h[j]]
  BY <1>2 DEF Traces
<1>6. ToSet(r) = {s[i] : i \in kept \intersect DOMAIN s}
  <2>1. ASSUME NEW x \in ToSet(r) PROVE x \in {s[i] : i \in kept \intersect DOMAIN s}
    BY <1>3, <1>5, VecFacts
  <2>2. ASSUME NEW i \in kept \intersect DOMAIN s PROVE s[i] \in ToSet(r)
    <3>1. PICK j \in 1 .. Len(r) : h[j] = i
      BY <1>2 DEF Traces
    <3> QED BY <1>3, <1>5, <3>1, VecFacts
  <2> QED BY <2>1, <2>2
<1>7. ASSUME UniqueIn(s) PROVE UniqueIn(r)
  <2> SUFFICES ASSUME NEW i \in 1 .. Len(r), NEW j \in 1 .. Len(r), r[i].name = r[j].name
               PROVE  i = j
    BY <1>4 DEF UniqueIn
  <2>1. h[i] = h[j]
    BY <1>5, <1>7 DEF UniqueIn
  <2>2. h[i] \in Nat /\ h[j] \in Nat
    BY <1>5, VecFacts
  <2>3. ~ (i < j) /\ ~ (j < i)
    BY <1>2, <2>1, <2>2 DEF Traces
  <2> QED BY <1>4, <2>3
<1> QED BY <1>3, <1>6, <1>7 DEF r

NamesIn(s) == {s[i].name : i \in DOMAIN s}

\* The names the patch builder collects (patch.rs:108-111) are those of the items.
LEMMA NamesAre ==
  ASSUME NEW list
  PROVE  names(list) = NamesIn(Items(list)) /\ (Unique(list) <=> UniqueIn(Items(list)))
BY DEF names, NamesIn, Unique, UniqueIn

\* A pass keeps what an array has, where it is, adds what is missing and brings
\* no name twice; it leaves an array alone that has all the names
\* (patch.rs:22-126).
LEMMA ExtendedIs ==
  ASSUME NEW list, IsVecOption(list), NEW wanted, IsVec(wanted)
  PROVE  LET new == Extended(list, wanted)
         IN  /\ IsVecOption(new)
             /\ IsPrefix(Items(list), Items(new))
             /\ Elements(new) = Elements(list) \union
                  {x \in ToSet(wanted) : x.name \notin names(list)}
             /\ names(new) = names(list) \union NamesIn(wanted)
             /\ Unique(list) /\ UniqueIn(wanted) => Unique(new)
             /\ NamesIn(wanted) \subseteq names(list) => new = list
<1> DEFINE new == Extended(list, wanted)
           kept == {i \in DOMAIN wanted : wanted[i].name \notin names(list)}
           add == Missing(list, wanted)
           old == Items(list)
<1>1. /\ IsVec(add)
      /\ ToSet(add) = {wanted[i] : i \in kept \intersect DOMAIN wanted}
      /\ UniqueIn(wanted) => UniqueIn(add)
  <2>1. add = Filtered(wanted, kept)
    BY DEF Missing
  <2> HIDE DEF kept, add
  <2> QED BY <2>1, FilteredAre
<1>2. ToSet(add) = {x \in ToSet(wanted) : x.name \notin names(list)}
  <2> HIDE DEF add
  <2> QED BY <1>1 DEF ToSet
<1>3. IsVecOption(new) /\ Items(new) = old \o add /\ (add = << >> => new = list)
  <2> HIDE DEF add
  <2>1. new = AddTo(list, add_array(list, add))
    BY DEF Extended, add
  <2> HIDE DEF new
  <2> QED BY <1>1, <2>1, AddedAre
<1>4. IsVec(old)
  BY ItemsAre
<1> HIDE DEF add, new, old, kept
<1>5. IsPrefix(old, old \o add) /\ ToSet(old \o add) = ToSet(old) \union ToSet(add)
  BY <1>1, <1>4, VecJoin
<1>6. Elements(new) = ToSet(old \o add) /\ Elements(list) = ToSet(old)
  BY <1>3 DEF Elements, old
<1>7. names(list) = {x.name : x \in ToSet(old)} /\ NamesIn(wanted) = {x.name : x \in ToSet(wanted)}
  BY NamesAre DEF NamesIn, ToSet, old
<1>8. names(new) = {x.name : x \in ToSet(old) \union ToSet(add)}
  <2>1. names(new) = NamesIn(old \o add)
    BY <1>3, NamesAre
  <2>2. NamesIn(old \o add) = {x.name : x \in ToSet(old \o add)}
    BY DEF NamesIn, ToSet
  <2> QED BY <1>5, <2>1, <2>2
<1>9. names(new) = names(list) \union NamesIn(wanted)
  BY <1>2, <1>7, <1>8
<1>10. ASSUME Unique(list), UniqueIn(wanted) PROVE Unique(new)
  <2>1. UniqueIn(old) /\ UniqueIn(add)
    BY <1>1, <1>10, NamesAre DEF old
  <2>2. \A x \in ToSet(old), y \in ToSet(add) : x.name # y.name
    BY <1>2, <1>7
  <2>3. UniqueIn(old \o add)
    BY <1>1, <1>4, <2>1, <2>2, JoinUnique
  <2> QED BY <1>3, <2>3, NamesAre
<1>11. ASSUME NamesIn(wanted) \subseteq names(list) PROVE new = list
  <2>1. ToSet(add) = {}
    BY <1>2, <1>7, <1>11
  <2>2. add = << >>
    BY <1>1, <2>1, VecEmpty
  <2> QED BY <1>3, <2>2
<1> QED BY <1>2, <1>3, <1>5, <1>6, <1>9, <1>10, <1>11 DEF new, old

\* Sorting loses no init container and brings none twice (plan.rs:331-347).
LEMMA SortIs ==
  ASSUME NEW s, IsVec(s), UniqueIn(s), \A x \in ToSet(s) : x.order \in {0, 10}
  PROVE  LET r == SortByOrder(s) IN IsVec(r) /\ ToSet(r) = ToSet(s) /\ UniqueIn(r)
<1> DEFINE Of(n) == {i \in DOMAIN s : s[i].order = n}
           w == OfOrder(s, 0)
           v == OfOrder(s, 10)
           r == SortByOrder(s)
<1>1. \A n : /\ IsVec(OfOrder(s, n)) /\ UniqueIn(OfOrder(s, n))
             /\ ToSet(OfOrder(s, n)) = {s[i] : i \in Of(n) \intersect DOMAIN s}
  <2> TAKE n
  <2>1. OfOrder(s, n) = Filtered(s, Of(n))
    BY DEF OfOrder
  <2> HIDE DEF Of
  <2> QED BY <2>1, FilteredAre
<1>2. IsVec(w) /\ UniqueIn(w) /\ ToSet(w) = {x \in ToSet(s) : x.order = 0}
  BY <1>1 DEF ToSet
<1>3. IsVec(v) /\ UniqueIn(v) /\ ToSet(v) = {x \in ToSet(s) : x.order = 10}
  BY <1>1 DEF ToSet
<1>4. r = w \o v
  BY DEF SortByOrder
<1> HIDE DEF w, v, r
<1>5. IsVec(r) /\ ToSet(r) = ToSet(w) \union ToSet(v)
  BY <1>2, <1>3, <1>4, VecJoin
<1>6. ToSet(r) = ToSet(s)
  BY <1>2, <1>3, <1>5
<1>7. \A x \in ToSet(w), y \in ToSet(v) : x.name # y.name
  <2> SUFFICES ASSUME NEW x \in ToSet(w), NEW y \in ToSet(v), x.name = y.name PROVE FALSE
    OBVIOUS
  <2>1. x \in ToSet(s) /\ y \in ToSet(s) /\ x.order = 0 /\ y.order = 10
    BY <1>2, <1>3
  <2>2. x = y
    BY <2>1, VecFacts DEF UniqueIn
  <2> QED BY <2>1, <2>2
<1>8. UniqueIn(r)
  BY <1>2, <1>3, <1>4, <1>7, JoinUnique
<1> QED BY <1>5, <1>6, <1>8 DEF r

\* An init container of order 0 that a pass adds comes before those of order 10
\* it adds, and all it adds comes after what was there (plan.rs:212,
\* patch.rs:32-52).
LEMMA WritersFirst ==
  ASSUME NEW list, IsVecOption(list), NEW s, IsVec(s), \A x \in ToSet(s) : x.order \in {0, 10}
  PROVE  LET old == Items(list)
             new == Items(Extended(list, SortByOrder(s)))
         IN  /\ Len(old) \in Nat /\ Len(new) \in Nat /\ Len(old) =< Len(new)
             /\ \A i \in 1 .. Len(old) : new[i] = old[i]
             /\ \A j, k \in 1 .. Len(new) :
                  j > Len(old) /\ k > Len(old) /\ new[j].order = 0 /\ new[k].order = 10 => j < k
<1> DEFINE w == OfOrder(s, 0)
           v == OfOrder(s, 10)
           r == SortByOrder(s)
           kept == {i \in DOMAIN r : r[i].name \notin names(list)}
           add == Missing(list, r)
           old == Items(list)
           new == Items(Extended(list, r))
<1>1. \A n : IsVec(OfOrder(s, n)) /\ \A x \in ToSet(OfOrder(s, n)) : x.order = n
  <2> TAKE n
  <2> DEFINE of == {i \in DOMAIN s : s[i].order = n}
  <2>1. OfOrder(s, n) = Filtered(s, of) /\ \A i \in of \intersect DOMAIN s : s[i].order = n
    BY DEF OfOrder
  <2> HIDE DEF of
  <2> QED BY <2>1, FilteredAre
<1>2. /\ IsVec(w) /\ IsVec(v) /\ r = w \o v
      /\ \A i \in 1 .. Len(w) : w[i].order = 0
      /\ \A i \in 1 .. Len(v) : v[i].order = 10
  BY <1>1, VecFacts DEF SortByOrder
<1> HIDE DEF w, v, r
<1>3. /\ IsVec(r)
      /\ \A j \in 1 .. Len(w) : r[j] = w[j]
      /\ \A j \in 1 .. Len(v) : r[Len(w) + j] = v[j]
      /\ \A j \in 1 .. Len(r) : j \in 1 .. Len(w) \/ \E i \in 1 .. Len(v) : j = Len(w) + i
      /\ Len(w) \in Nat /\ Len(v) \in Nat
  <2>1. IsVec(w) /\ IsVec(v) /\ r = w \o v
    BY <1>2
  <2>2. Len(w) \in Nat /\ Len(v) \in Nat
    BY <2>1, VecFacts
  <2> QED BY <2>1, <2>2, VecJoin
<1>4. \A j, k \in 1 .. Len(r) : r[j].order = 0 /\ r[k].order = 10 => j < k
  <2> SUFFICES ASSUME NEW j \in 1 .. Len(r), NEW k \in 1 .. Len(r),
                      r[j].order = 0, r[k].order = 10
               PROVE  j < k
    OBVIOUS
  <2>1. j \in 1 .. Len(w)
    <3>1. ASSUME NEW i \in 1 .. Len(v), j = Len(w) + i PROVE FALSE
      <4>1. r[j] = v[i] /\ v[i].order = 10
        BY <1>2, <1>3, <3>1
      <4> QED BY <4>1
    <3> QED BY <1>3, <3>1
  <2>2. \E i \in 1 .. Len(v) : k = Len(w) + i
    <3>1. \A i \in 1 .. Len(w) : r[i].order = 0
      BY <1>2, <1>3
    <3> QED BY <1>3, <3>1
  <2> QED BY <1>3, <2>1, <2>2
<1>5. PICK h : Traces(h, add, r, kept)
  <2>1. add = Filtered(r, kept)
    BY DEF Missing
  <2> HIDE DEF add, kept
  <2> QED BY <1>3, <2>1, FilteredTraces DEF IsVec
<1>6. IsVec(add)
  <2>1. add = Filtered(r, kept)
    BY DEF Missing
  <2> HIDE DEF add, kept
  <2> QED BY <1>3, <2>1, FilteredAre
<1>7. IsVec(old) /\ new = old \o add
  <2> HIDE DEF add
  <2>1. Extended(list, r) = AddTo(list, add_array(list, add))
    BY DEF Extended, add
  <2> QED BY <1>6, <2>1, ItemsAre, AddedAre
<1> HIDE DEF add, kept, old, new
<1>8. /\ Len(old) \in Nat /\ Len(add) \in Nat /\ Len(new) = Len(old) + Len(add)
      /\ \A j \in 1 .. Len(old) : new[j] = old[j]
      /\ \A j \in 1 .. Len(add) : new[Len(old) + j] = add[j]
  BY <1>6, <1>7, VecJoin, VecFacts
<1>9. ASSUME NEW j \in 1 .. Len(add), NEW k \in 1 .. Len(add),
             add[j].order = 0, add[k].order = 10
      PROVE  j < k
  <2>1. /\ h[j] \in 1 .. Len(r) /\ h[k] \in 1 .. Len(r)
        /\ add[j] = r[h[j]] /\ add[k] = r[h[k]]
    BY <1>3, <1>5, VecFacts DEF Traces
  <2>2. h[j] < h[k] /\ h[j] \in Nat /\ h[k] \in Nat
    <3>1. Len(r) \in Nat
      BY <1>3, VecFacts
    <3>2. r[h[j]].order = 0 /\ r[h[k]].order = 10
      BY <1>9, <2>1
    <3>3. h[j] < h[k]
      BY <1>4, <2>1, <3>2
    <3> QED BY <2>1, <3>1, <3>3
  <2>3. j # k /\ ~ (k < j)
    BY <1>5, <2>2 DEF Traces
  <2> QED BY <1>8, <2>3
<1>10. ASSUME NEW j \in 1 .. Len(new), NEW k \in 1 .. Len(new), j > Len(old), k > Len(old),
              new[j].order = 0, new[k].order = 10
       PROVE  j < k
  <2> DEFINE x == j - Len(old)
             y == k - Len(old)
  <2>1. x \in 1 .. Len(add) /\ y \in 1 .. Len(add) /\ j = Len(old) + x /\ k = Len(old) + y
    BY <1>8, <1>10
  <2>2. add[x] = new[j] /\ add[y] = new[k]
    BY <1>8, <2>1
  <2>3. x < y
    <3> HIDE DEF x, y
    <3> QED BY <1>9, <1>10, <2>1, <2>2
  <2> QED BY <1>8, <2>1, <2>3
<1> QED BY <1>8, <1>10 DEF old, new, r
=============================================================================
