-------------------------- MODULE SequenceOpsProofs --------------------------
(***************************************************************************)
(* What Total, Selected and FlattenSeq give, for every sequence.  Each reads *)
(* its result from a recursive function; that the function exists, and     *)
(* what it gives, is shown with the least number that would be an          *)
(* exception.                                                              *)
(***************************************************************************)
EXTENDS SequenceOps, SequencesExt, SequenceTheorems, NaturalsInduction, WellFoundedInduction, TLAPS

\* A set of natural numbers that is not empty has a least one.

LEMMA LeastNatural ==
    ASSUME NEW S, S \subseteq Nat, S # {}
    PROVE  \E m \in S : \A k \in S : m <= k
<1> DEFINE Less == {ss \in Nat \X Nat : ss[1] < ss[2]}
<1>1. IsWellFoundedOn(Less, Nat)
  BY NatLessThanWellFounded DEF OpToRel
<1> HIDE DEF Less
<1>2. PICK m \in S : \A k \in S : <<k, m>> \notin Less
  BY <1>1, WFMin
<1>3. \A k \in S : ~(k < m)
  BY <1>2 DEF Less
<1> QED BY <1>3

-----------------------------------------------------------------------------
(* Sequences put one behind the other: what FlattenSeq gives.              *)

Joins(f, ss, k) == f = [i \in 1..k |-> IF i = 1 THEN ss[i] ELSE f[i - 1] \o ss[i]]

LEMMA JoinsValues ==
    ASSUME NEW f, NEW ss, NEW k \in Nat, Joins(f, ss, k)
    PROVE  \A i \in 1..k : f[i] = IF i = 1 THEN ss[i] ELSE f[i - 1] \o ss[i]
BY DEF Joins

\* The function that FlattenSeq reads exists.
LEMMA FlattenIsDefined ==
    ASSUME NEW S, NEW ss \in Seq(Seq(S)), Len(ss) > 0
    PROVE  \E f : Joins(f, ss, Len(ss)) /\ FlattenSeq(ss) = f[Len(ss)]
<1> DEFINE Missing == {k \in 1..Len(ss) : ~\E f : Joins(f, ss, k)}
<1>1. Len(ss) \in Nat /\ 1 \in 1..Len(ss) /\ 1..Len(ss) \subseteq Nat
  OBVIOUS
<1>2. Missing \subseteq Nat /\ Missing \subseteq 1..Len(ss)
  BY <1>1, Zenon
<1>3. Missing = {}
  <2>1. SUFFICES ASSUME Missing # {} PROVE FALSE
    OBVIOUS
  <2>2. PICK m \in Missing : \A k \in Missing : m <= k
    <3> HIDE DEF Missing
    <3> QED BY <2>1, <1>2, LeastNatural
  <2>3. 1 \notin Missing
    <3>1. Joins([i \in 1..1 |-> ss[1]], ss, 1)
      BY DEF Joins
    <3> QED BY <3>1
  <2>4. m # 1 /\ m \in 1..Len(ss) /\ m - 1 \in 1..Len(ss) /\ m - 1 \notin Missing
    <3> HIDE DEF Missing
    <3> QED BY <2>2, <2>3, <1>1, <1>2
  <2>5. PICK f : Joins(f, ss, m - 1)
    BY <2>4
  <2> DEFINE more == [i \in 1..m |-> IF i = m THEN f[m - 1] \o ss[m] ELSE f[i]]
  <2>6. \A i \in 1..m - 1 : f[i] = IF i = 1 THEN ss[i] ELSE f[i - 1] \o ss[i]
    BY <2>5 DEF Joins
  <2>7. \A i \in 1..m : more[i] = IF i = 1 THEN ss[i] ELSE more[i - 1] \o ss[i]
    BY <2>4, <2>6
  <2>8. Joins(more, ss, m)
    BY <2>7 DEF Joins
  <2> QED BY <2>8, <2>2
<1>4. \E f : Joins(f, ss, Len(ss))
  <2>1. Len(ss) \in 1..Len(ss)
    BY <1>1
  <2> QED BY <1>3, <2>1
<1> DEFINE all == CHOOSE f : f = [i \in 1..Len(ss) |-> IF i = 1 THEN ss[i] ELSE f[i - 1] \o ss[i]]
<1>5. Joins(all, ss, Len(ss))
  BY <1>4 DEF Joins
<1>6. FlattenSeq(ss) = all[Len(ss)]
  BY <1>1 DEF FlattenSeq
<1> QED BY <1>5, <1>6

\* One sequence more: what the ones before it give is the same.
LEMMA FlattenOneMore ==
    ASSUME NEW S, NEW ss \in Seq(Seq(S)), NEW tt \in Seq(Seq(S)), Len(tt) = Len(ss) + 1,
           \A n \in 1..Len(ss) : tt[n] = ss[n]
    PROVE  /\ FlattenSeq(tt) = FlattenSeq(ss) \o tt[Len(tt)]
           /\ FlattenSeq(ss) \in Seq(S) /\ FlattenSeq(tt) \in Seq(S)
<1> DEFINE len == Len(ss)
<1>1. len \in Nat /\ Len(tt) = len + 1 /\ tt[len + 1] \in Seq(S)
  OBVIOUS
<1>2. CASE len = 0
  <2>1. ss = <<>> /\ FlattenSeq(ss) = <<>>
    BY <1>2 DEF FlattenSeq
  <2>a. Len(tt) > 0 /\ Len(tt) = 1
    BY <1>1, <1>2
  <2>2. PICK g : Joins(g, tt, Len(tt)) /\ FlattenSeq(tt) = g[Len(tt)]
    BY <2>a, FlattenIsDefined
  <2>3. FlattenSeq(tt) = tt[1]
    BY <2>2, <2>a DEF Joins
  <2>4. <<>> \o tt[1] = tt[1] /\ <<>> \in Seq(S)
    BY <1>1, <1>2, ConcatEmptySeq, EmptySeq
  <2>5. tt[Len(tt)] = tt[1] /\ tt[1] \in Seq(S)
    BY <2>a, <1>1, <1>2
  <2> QED BY <2>1, <2>3, <2>4, <2>5
<1>3. CASE len # 0
  <2>a. Len(ss) > 0 /\ Len(tt) > 0
    BY <1>1, <1>3
  <2>1. PICK f : Joins(f, ss, Len(ss)) /\ FlattenSeq(ss) = f[Len(ss)]
    BY <2>a, FlattenIsDefined
  <2>2. PICK g : Joins(g, tt, Len(tt)) /\ FlattenSeq(tt) = g[Len(tt)]
    BY <2>a, FlattenIsDefined
  <2> DEFINE Differ == {n \in 1..len : f[n] # g[n] \/ f[n] \notin Seq(S)}
  <2>3. \A n \in 1..len : f[n] = IF n = 1 THEN ss[n] ELSE f[n - 1] \o ss[n]
    BY <2>1, <1>1, JoinsValues
  <2>4. \A n \in 1..len + 1 : g[n] = IF n = 1 THEN tt[n] ELSE g[n - 1] \o tt[n]
    <3>1. Joins(g, tt, len + 1) /\ len + 1 \in Nat
      BY <2>2, <1>1
    <3> HIDE DEF len
    <3> QED BY ONLY <3>1, JoinsValues
  <2>5. \A n \in 1..len : ss[n] \in Seq(S) /\ tt[n] = ss[n]
    BY ONLY ss \in Seq(Seq(S)), \A n \in 1..Len(ss) : tt[n] = ss[n], ElementOfSeq
  <2>b. FlattenSeq(ss) = f[len] /\ FlattenSeq(tt) = g[len + 1] /\ tt[len + 1] \in Seq(S)
    BY <2>1, <2>2, <1>1
  <2> HIDE DEF len
  <2>6. Differ = {}
    <3>1. SUFFICES ASSUME Differ # {} PROVE FALSE
      OBVIOUS
    <3>2. PICK m \in Differ : \A k \in Differ : m <= k
      <4>1. Differ \subseteq Nat
        BY <1>1
      <4> HIDE DEF Differ
      <4> QED BY <3>1, <4>1, LeastNatural
    <3>3. m # 1
      <4>1. f[1] = ss[1] /\ g[1] = tt[1] /\ tt[1] = ss[1] /\ ss[1] \in Seq(S)
        BY <1>1, <1>3, <2>3, <2>4, <2>5
      <4> QED BY <4>1, <3>2
    <3>4. m \in 1..len /\ m - 1 \in 1..len /\ m \in 1..len + 1
      BY <3>2, <3>3, <1>1
    <3>5. f[m - 1] = g[m - 1] /\ f[m - 1] \in Seq(S)
      <4>1. m - 1 \notin Differ
        BY <3>2, <3>4
      <4> QED BY <4>1, <3>4
    <3>6. f[m] = f[m - 1] \o ss[m] /\ g[m] = g[m - 1] \o tt[m]
      BY <3>4, <3>3, <2>3, <2>4
    <3>7. f[m] = g[m] /\ f[m] \in Seq(S)
      <4>1. tt[m] = ss[m] /\ ss[m] \in Seq(S)
        BY <3>4, <2>5, Zenon
      <4>2. f[m - 1] \o ss[m] \in Seq(S)
        BY <4>1, <3>5, ConcatProperties
      <4> QED BY <3>5, <3>6, <4>1, <4>2, Zenon
    <3> QED BY <3>2, <3>7
  <2>7. f[len] = g[len] /\ f[len] \in Seq(S)
    <3>1. len \in 1..len
      BY <1>1, <1>3
    <3> QED BY <3>1, <2>6
  <2>8. g[len + 1] = g[len] \o tt[len + 1]
    <3>1. len + 1 \in 1..len + 1 /\ len + 1 # 1 /\ (len + 1) - 1 = len
      BY <1>1, <1>3
    <3> QED BY <3>1, <2>4
  <2>9. g[len] \o tt[len + 1] \in Seq(S)
    BY <2>7, <2>b, ConcatProperties
  <2>10. Len(tt) = len + 1
    BY DEF len
  <2> QED BY <2>b, <2>7, <2>8, <2>9, <2>10
<1> QED BY <1>2, <1>3

\* Sequences of a kind that can be put one behind the other give one of that kind.
LEMMA FlattenClosed ==
    ASSUME NEW S, NEW G \in SUBSET Seq(S), <<>> \in G, \A s, t \in G : s \o t \in G,
           NEW ss \in Seq(G)
    PROVE  FlattenSeq(ss) \in G
<1> DEFINE First(n) == [i \in 1..n |-> ss[i]]
<1> DEFINE Missing == {n \in 0..Len(ss) : FlattenSeq(First(n)) \notin G}
<1>1. Len(ss) \in Nat /\ 0..Len(ss) \subseteq Nat /\ \A i \in 1..Len(ss) : ss[i] \in G
  OBVIOUS
<1>2. \A n \in 0..Len(ss) : /\ First(n) \in Seq(G) /\ First(n) \in Seq(Seq(S)) /\ Len(First(n)) = n
                            /\ \A i \in 1..n : First(n)[i] = ss[i]
  BY <1>1
<1> HIDE DEF First
<1>3. Missing = {}
  <2>1. SUFFICES ASSUME Missing # {} PROVE FALSE
    OBVIOUS
  <2>2. Missing \subseteq Nat /\ Missing \subseteq 0..Len(ss)
    BY <1>1, Zenon
  <2>3. PICK m \in Missing : \A k \in Missing : m <= k
    <3> HIDE DEF Missing
    <3> QED BY <2>1, <2>2, LeastNatural
  <2>4. 0 \notin Missing
    <3>1. First(0) = <<>>
      BY DEF First
    <3>2. FlattenSeq(<<>>) = <<>>
      BY DEF FlattenSeq
    <3> QED BY <3>1, <3>2
  <2>5. m \in 1..Len(ss) /\ m - 1 \in 0..Len(ss) /\ m \in 0..Len(ss) /\ m - 1 \notin Missing
    <3> HIDE DEF Missing
    <3> QED BY <2>2, <2>3, <2>4, <1>1
  <2>6. FlattenSeq(First(m - 1)) \in G
    BY <2>5
  <2>7. /\ Len(First(m)) = Len(First(m - 1)) + 1 /\ First(m)[Len(First(m))] = ss[m]
        /\ \A n \in 1..Len(First(m - 1)) : First(m)[n] = First(m - 1)[n]
        /\ First(m) \in Seq(Seq(S)) /\ First(m - 1) \in Seq(Seq(S))
    <3>1. /\ First(m) \in Seq(Seq(S)) /\ Len(First(m)) = m
          /\ \A i \in 1..m : First(m)[i] = ss[i]
      BY <2>5, <1>2
    <3> DEFINE n == m - 1
    <3>2. n \in 0..Len(ss) /\ m \in Nat /\ m \in 1..m /\ n + 1 = m
      BY <2>5
    <3> HIDE DEF n
    <3>3. /\ First(n) \in Seq(Seq(S)) /\ Len(First(n)) = n
          /\ \A i \in 1..n : First(n)[i] = ss[i]
      BY <3>2, <1>2
    <3>4. \A i \in 1..n : i \in 1..m
      BY <3>2, <1>1
    <3>5. \A i \in 1..n : First(m)[i] = First(n)[i]
      BY <3>1, <3>3, <3>4
    <3> QED BY <3>1, <3>2, <3>3, <3>5 DEF n
  <2>8. FlattenSeq(First(m)) = FlattenSeq(First(m - 1)) \o ss[m]
    BY <2>7, FlattenOneMore
  <2>9. FlattenSeq(First(m)) \in G
    BY <2>5, <2>6, <2>8, <1>1
  <2> QED BY <2>9, <2>3
<1>4. First(Len(ss)) = ss
  BY <1>1 DEF First
<1>5. Len(ss) \in 0..Len(ss) /\ Len(ss) \notin Missing
  BY <1>1, <1>3, SMTT(40)
<1> QED BY <1>4, <1>5

-----------------------------------------------------------------------------
(* Sums.                                                                   *)

\* The function that Total(s) is read from exists: there is one for the first 0 elements, and
\* one for the first n+1 when there is one for the first n.
LEMMA TotalIsDefined ==
    ASSUME NEW s \in Seq(Int)
    PROVE  \E to : /\ to = [n \in 0..Len(s) |-> IF n = 0 THEN 0 ELSE to[n - 1] + s[n]]
                   /\ Total(s) = to[Len(s)]
<1> DEFINE Partial(to, k) == to = [n \in 0..k |-> IF n = 0 THEN 0 ELSE to[n - 1] + s[n]]
<1> DEFINE Missing == {k \in 0..Len(s) : ~\E to : Partial(to, k)}
<1>1. Len(s) \in Nat
  OBVIOUS
<1>a. Missing \subseteq Nat /\ Missing \subseteq 0..Len(s)
  BY <1>1
<1>2. Missing = {}
  <2>1. SUFFICES ASSUME Missing # {} PROVE FALSE
    OBVIOUS
  <2>2. PICK m \in Missing : \A k \in Missing : m <= k
    <3> HIDE DEF Missing
    <3> QED BY <2>1, <1>a, LeastNatural
  <2>3. 0 \notin Missing
    <3>1. Partial([n \in 0..0 |-> 0], 0)
      OBVIOUS
    <3> QED BY <3>1
  <2>4. m # 0 /\ m \in 0..Len(s) /\ m - 1 \in 0..Len(s) /\ m - 1 \notin Missing
    <3> HIDE DEF Missing
    <3> QED BY <2>2, <2>3, <1>1, <1>a
  <2>5. PICK to : Partial(to, m - 1)
    BY <2>4
  <2> DEFINE more == [n \in 0..m |-> IF n = m THEN to[m - 1] + s[m] ELSE to[n]]
  <2>6. \A n \in 0..m - 1 : to[n] = IF n = 0 THEN 0 ELSE to[n - 1] + s[n]
    BY <2>5
  <2>7. \A n \in 0..m : more[n] = IF n = 0 THEN 0 ELSE more[n - 1] + s[n]
    BY <2>4, <2>6
  <2>8. Partial(more, m)
    BY <2>7
  <2> QED BY <2>8, <2>2
<1>3. \E to : Partial(to, Len(s))
  BY <1>1, <1>2
<1> DEFINE all == CHOOSE to : Partial(to, Len(s))
<1>4. Partial(all, Len(s))
  BY <1>3
<1>5. Total(s) = all[Len(s)]
  BY DEF Total
<1> QED BY <1>4, <1>5

LEMMA TotalEmpty == Total(<<>>) = 0
<1>1. <<>> \in Seq(Int) /\ Len(<<>>) = 0
  OBVIOUS
<1>2. PICK to : /\ to = [n \in 0..Len(<<>>) |-> IF n = 0 THEN 0 ELSE to[n - 1] + <<>>[n]]
                /\ Total(<<>>) = to[Len(<<>>)]
  BY <1>1, TotalIsDefined
<1>3. to = [n \in 0..0 |-> IF n = 0 THEN 0 ELSE to[n - 1] + <<>>[n]] /\ Total(<<>>) = to[0]
  BY <1>1, <1>2
<1>4. 0 \in 0..0
  OBVIOUS
<1> QED BY <1>3, <1>4

\* One element more: the sums of the elements before it are the same.
LEMMA TotalOneMore ==
    ASSUME NEW s \in Seq(Int), NEW t \in Seq(Int), Len(t) = Len(s) + 1,
           \A n \in 1..Len(s) : t[n] = s[n]
    PROVE  Total(t) = Total(s) + t[Len(t)] /\ Total(s) \in Int /\ Total(t) \in Int
<1> DEFINE len == Len(s)
<1>1. PICK f : /\ f = [n \in 0..len |-> IF n = 0 THEN 0 ELSE f[n - 1] + s[n]]
               /\ Total(s) = f[len]
  BY TotalIsDefined
<1>2. PICK g : /\ g = [n \in 0..Len(t) |-> IF n = 0 THEN 0 ELSE g[n - 1] + t[n]]
               /\ Total(t) = g[Len(t)]
  BY TotalIsDefined
<1> DEFINE Differ == {n \in 0..len : f[n] # g[n] \/ f[n] \notin Int}
<1>3. len \in Nat /\ Len(t) = len + 1
  OBVIOUS
<1>4. \A n \in 0..len : f[n] = IF n = 0 THEN 0 ELSE f[n - 1] + s[n]
  BY <1>1
<1>5. \A n \in 0..len + 1 : g[n] = IF n = 0 THEN 0 ELSE g[n - 1] + t[n]
  BY <1>2, <1>3
<1>6. \A n \in 1..len : s[n] \in Int
  BY <1>3
<1>7. t[len + 1] \in Int
  BY <1>3
<1> HIDE DEF len
<1>8. Differ = {}
  <2>1. SUFFICES ASSUME Differ # {} PROVE FALSE
    OBVIOUS
  <2>2. PICK m \in Differ : \A k \in Differ : m <= k
    <3>1. Differ \subseteq Nat
      BY <1>3
    <3> HIDE DEF Differ
    <3> QED BY <2>1, <3>1, LeastNatural
  <2>3. m # 0
    <3>1. f[0] = 0 /\ g[0] = 0
      BY <1>3, <1>4, <1>5
    <3> QED BY <3>1, <2>2
  <2>4. m \in 1..len /\ m - 1 \in 0..len /\ m \in 0..len + 1
    BY <2>2, <2>3, <1>3
  <2>5. f[m - 1] = g[m - 1] /\ f[m - 1] \in Int
    <3>1. m - 1 \notin Differ
      BY <2>2, <2>4
    <3> QED BY <3>1, <2>4
  <2>6. f[m] = f[m - 1] + s[m] /\ g[m] = g[m - 1] + t[m]
    BY <2>4, <2>3, <1>4, <1>5
  <2>7. t[m] = s[m]
    BY <2>4 DEF len
  <2> QED BY <2>2, <2>4, <2>5, <2>6, <2>7, <1>6
<1>9. f[len] = g[len] /\ f[len] \in Int
  BY <1>3, <1>8
<1>10. g[len + 1] = g[len] + t[len + 1]
  BY <1>3, <1>5
<1> QED BY <1>1, <1>2, <1>3, <1>7, <1>9, <1>10

-----------------------------------------------------------------------------
(* Selections.                                                             *)

Selects(f, s, T, k) ==
    f = [n \in 0..k |-> IF n = 0 THEN <<>>
                        ELSE IF s[n] \in T THEN Append(f[n - 1], s[n]) ELSE f[n - 1]]

LEMMA SelectsValues ==
    ASSUME NEW f, NEW s, NEW T, NEW k \in Nat, Selects(f, s, T, k)
    PROVE  \A n \in 0..k : f[n] = IF n = 0 THEN <<>>
                                  ELSE IF s[n] \in T THEN Append(f[n - 1], s[n]) ELSE f[n - 1]
BY DEF Selects

\* The function that Selected reads exists.
LEMMA SelectedIsDefined ==
    ASSUME NEW S, NEW s \in Seq(S), NEW T
    PROVE  \E f : Selects(f, s, T, Len(s)) /\ Selected(s, T) = f[Len(s)]
<1> DEFINE Missing == {k \in 0..Len(s) : ~\E f : Selects(f, s, T, k)}
<1>1. Len(s) \in Nat /\ 0..Len(s) \subseteq Nat
  OBVIOUS
<1>2. Missing \subseteq Nat /\ Missing \subseteq 0..Len(s)
  BY <1>1, Zenon
<1>3. Missing = {}
  <2>1. SUFFICES ASSUME Missing # {} PROVE FALSE
    OBVIOUS
  <2>2. PICK m \in Missing : \A k \in Missing : m <= k
    <3> HIDE DEF Missing
    <3> QED BY <2>1, <1>2, LeastNatural
  <2>3. 0 \notin Missing
    <3>1. Selects([n \in 0..0 |-> <<>>], s, T, 0)
      BY DEF Selects
    <3> QED BY <3>1
  <2>4. m # 0 /\ m \in 0..Len(s) /\ m - 1 \in 0..Len(s) /\ m - 1 \notin Missing
    <3> HIDE DEF Missing
    <3> QED BY <2>2, <2>3, <1>1, <1>2
  <2>5. PICK f : Selects(f, s, T, m - 1)
    BY <2>4
  <2> DEFINE last == IF s[m] \in T THEN Append(f[m - 1], s[m]) ELSE f[m - 1]
             more == [n \in 0..m |-> IF n = m THEN last ELSE f[n]]
  <2>6. \A n \in 0..m - 1 : f[n] = IF n = 0 THEN <<>>
                                   ELSE IF s[n] \in T THEN Append(f[n - 1], s[n]) ELSE f[n - 1]
    BY <2>4, <2>5, <1>1, SelectsValues
  <2>7. more[m] = last /\ more[m - 1] = f[m - 1] /\ m \in Nat
    BY <2>4, <1>1
  <2>8. \A n \in 0..m : more[n] = IF n = 0 THEN <<>>
                                  ELSE IF s[n] \in T THEN Append(more[n - 1], s[n]) ELSE more[n - 1]
    <3> SUFFICES ASSUME NEW n \in 0..m
                 PROVE  more[n] = IF n = 0 THEN <<>>
                                  ELSE IF s[n] \in T THEN Append(more[n - 1], s[n]) ELSE more[n - 1]
      OBVIOUS
    <3>1. CASE n = m
      BY <3>1, <2>4, <2>7
    <3>2. CASE n # m
      <4>1. n \in 0..m - 1 /\ more[n] = f[n] /\ (n # 0 => more[n - 1] = f[n - 1])
        BY <3>2, <2>4, <1>1
      <4> QED BY <4>1, <2>6
    <3> QED BY <3>1, <3>2
  <2>9. Selects(more, s, T, m)
    <3> HIDE DEF last
    <3>1. more = [n \in 0..m |-> more[n]]
      OBVIOUS
    <3> HIDE DEF more
    <3> QED BY <3>1, <2>8 DEF Selects
  <2> QED BY <2>9, <2>2
<1>4. \E f : Selects(f, s, T, Len(s))
  <2>1. Len(s) \in 0..Len(s)
    BY <1>1
  <2> QED BY <1>3, <2>1
<1> DEFINE all == CHOOSE f : f = [n \in 0..Len(s) |-> IF n = 0 THEN <<>>
                               ELSE IF s[n] \in T THEN Append(f[n - 1], s[n]) ELSE f[n - 1]]
<1>5. Selects(all, s, T, Len(s))
  BY <1>4 DEF Selects
<1>6. Selected(s, T) = all[Len(s)]
  BY DEF Selected
<1> QED BY <1>5, <1>6

LEMMA SelectedEmpty == \A T : Selected(<<>>, T) = <<>>
<1> SUFFICES ASSUME NEW T PROVE Selected(<<>>, T) = <<>>
  OBVIOUS
<1>1. <<>> \in Seq({}) /\ Len(<<>>) = 0
  OBVIOUS
<1>2. PICK f : Selects(f, <<>>, T, 0) /\ Selected(<<>>, T) = f[0]
  BY <1>1, SelectedIsDefined
<1> QED BY <1>2 DEF Selects

\* One element more: what is selected of the elements before it is the same.
LEMMA SelectedOneMore ==
    ASSUME NEW S, NEW T, NEW s \in Seq(S), NEW t \in Seq(S), Len(t) = Len(s) + 1,
           \A n \in 1..Len(s) : t[n] = s[n]
    PROVE  /\ Selected(t, T) = IF t[Len(t)] \in T THEN Append(Selected(s, T), t[Len(t)])
                               ELSE Selected(s, T)
           /\ Selected(s, T) \in Seq(S)
<1> DEFINE len == Len(s)
<1>1. PICK f : Selects(f, s, T, Len(s)) /\ Selected(s, T) = f[Len(s)]
  BY SelectedIsDefined
<1>2. PICK g : Selects(g, t, T, Len(t)) /\ Selected(t, T) = g[Len(t)]
  BY SelectedIsDefined
<1> DEFINE Differ == {n \in 0..len : f[n] # g[n] \/ f[n] \notin Seq(S)}
<1>3. len \in Nat /\ Len(t) = len + 1
  OBVIOUS
<1>4. \A n \in 0..len : f[n] = IF n = 0 THEN <<>>
                               ELSE IF s[n] \in T THEN Append(f[n - 1], s[n]) ELSE f[n - 1]
  BY <1>1, <1>3, SelectsValues
<1>5. \A n \in 0..len + 1 : g[n] = IF n = 0 THEN <<>>
                               ELSE IF t[n] \in T THEN Append(g[n - 1], t[n]) ELSE g[n - 1]
  <2>1. Selects(g, t, T, len + 1) /\ len + 1 \in Nat
    BY <1>2, <1>3
  <2> HIDE DEF len
  <2> QED BY <2>1, SelectsValues
<1>6. \A n \in 1..len : s[n] \in S
  BY ElementOfSeq
<1>7. t[len + 1] \in S
  BY <1>3
<1>8. f[len] = Selected(s, T) /\ g[len + 1] = Selected(t, T)
  BY <1>1, <1>2, <1>3
<1>9. \A n \in 1..len : t[n] = s[n]
  OBVIOUS
<1> HIDE DEF len
<1>10. Differ = {}
  <2>1. SUFFICES ASSUME Differ # {} PROVE FALSE
    OBVIOUS
  <2>2. PICK m \in Differ : \A k \in Differ : m <= k
    <3>1. Differ \subseteq Nat
      BY <1>3
    <3> HIDE DEF Differ
    <3> QED BY <2>1, <3>1, LeastNatural
  <2>3. m # 0
    <3>1. f[0] = <<>> /\ g[0] = <<>> /\ <<>> \in Seq(S)
      BY <1>3, <1>4, <1>5
    <3> QED BY <3>1, <2>2
  <2>4. m \in 1..len /\ m - 1 \in 0..len /\ m \in 0..len + 1
    BY <2>2, <2>3, <1>3
  <2>5. f[m - 1] = g[m - 1] /\ f[m - 1] \in Seq(S)
    <3>1. m - 1 \notin Differ
      BY <2>2, <2>4
    <3> QED BY <3>1, <2>4
  <2>6. /\ f[m] = IF s[m] \in T THEN Append(f[m - 1], s[m]) ELSE f[m - 1]
        /\ g[m] = IF t[m] \in T THEN Append(g[m - 1], t[m]) ELSE g[m - 1]
    BY <2>4, <2>3, <1>4, <1>5
  <2>7. t[m] = s[m] /\ s[m] \in S
    BY <2>4, <1>6, <1>9
  <2>8. Append(f[m - 1], s[m]) \in Seq(S)
    BY <2>5, <2>7, AppendProperties
  <2>9. f[m] = g[m] /\ f[m] \in Seq(S)
    <3>1. CASE s[m] \in T
      BY <3>1, <2>5, <2>6, <2>7, <2>8, Zenon
    <3>2. CASE s[m] \notin T
      BY <3>2, <2>5, <2>6, <2>7, Zenon
    <3> QED BY <3>1, <3>2
  <2> QED BY <2>2, <2>9
<1>11. f[len] = g[len] /\ f[len] \in Seq(S)
  BY <1>3, <1>10
<1>12. g[len + 1] = IF t[len + 1] \in T THEN Append(g[len], t[len + 1]) ELSE g[len]
  <2>1. len + 1 \in 0..len + 1 /\ len + 1 # 0 /\ (len + 1) - 1 = len
    BY <1>3
  <2> QED BY <2>1, <1>5
<1> QED BY <1>3, <1>8, <1>11, <1>12

-----------------------------------------------------------------------------
(* What is selected from sequences put one behind the other.                *)

\* What holds of <<>> and is kept when an element is appended holds of every
\* sequence: G is the set of the sequences of which it holds.
LEMMA AppendClosed ==
    ASSUME NEW S, NEW G \in SUBSET Seq(S), <<>> \in G, \A s \in G, x \in S : Append(s, x) \in G
    PROVE  Seq(S) \subseteq G
<1> SUFFICES ASSUME NEW s \in Seq(S) PROVE s \in G
  OBVIOUS
<1> DEFINE First(n) == [i \in 1..n |-> s[i]]
<1> DEFINE Missing == {n \in 0..Len(s) : First(n) \notin G}
<1>1. Len(s) \in Nat /\ 0..Len(s) \subseteq Nat /\ \A i \in 1..Len(s) : s[i] \in S
  OBVIOUS
<1>2. Missing = {}
  <2>1. SUFFICES ASSUME Missing # {} PROVE FALSE
    OBVIOUS
  <2>2. Missing \subseteq Nat /\ Missing \subseteq 0..Len(s)
    BY <1>1, Zenon
  <2>3. PICK m \in Missing : \A k \in Missing : m <= k
    <3> HIDE DEF Missing
    <3> QED BY <2>1, <2>2, LeastNatural
  <2>4. 0 \notin Missing
    <3>1. First(0) = <<>>
      OBVIOUS
    <3> HIDE DEF First
    <3> QED BY <3>1
  <2>5. m \in 1..Len(s) /\ m - 1 \in 0..Len(s) /\ m - 1 \notin Missing /\ m \in Nat /\ m - 1 \in Nat
    <3> HIDE DEF Missing
    <3> QED BY <2>2, <2>3, <2>4, <1>1
  <2>6. First(m - 1) \in G /\ s[m] \in S
    <3> HIDE DEF First
    <3> QED BY <2>5, <1>1
  <2>7. First(m) = Append(First(m - 1), s[m])
    <3>1. First(m - 1) \in Seq(S) /\ Len(First(m - 1)) = m - 1
      BY <2>5, <1>1
    <3>2. First(m) \in Seq(S) /\ Len(First(m)) = m
      BY <2>5, <1>1
    <3>3. /\ Append(First(m - 1), s[m]) \in Seq(S) /\ Len(Append(First(m - 1), s[m])) = m
          /\ Append(First(m - 1), s[m])[m] = s[m]
          /\ \A i \in 1..m - 1 : Append(First(m - 1), s[m])[i] = First(m - 1)[i]
      <4> DEFINE f == First(m - 1)
      <4>1. f \in Seq(S) /\ Len(f) = m - 1 /\ (m - 1) + 1 = m
        BY <3>1, <2>5
      <4> HIDE DEF First, f
      <4>2. /\ Append(f, s[m]) \in Seq(S) /\ Len(Append(f, s[m])) = Len(f) + 1
            /\ Append(f, s[m])[Len(f) + 1] = s[m]
            /\ \A i \in 1..Len(f) : Append(f, s[m])[i] = f[i]
        <5> DEFINE x == s[m]
        <5>1. x \in S
          BY <2>6
        <5> HIDE DEF x
        <5>2. /\ Append(f, x) \in Seq(S) /\ Len(Append(f, x)) = Len(f) + 1
              /\ Append(f, x)[Len(f) + 1] = x
              /\ \A i \in 1..Len(f) : Append(f, x)[i] = f[i]
          <6>1. \A q \in Seq(S), y \in S :
                   /\ Append(q, y) \in Seq(S) /\ Len(Append(q, y)) = Len(q) + 1
                   /\ Append(q, y)[Len(q) + 1] = y
                   /\ \A i \in 1..Len(q) : Append(q, y)[i] = q[i]
            BY ONLY AppendProperties
          <6> QED BY <4>1, <5>1, <6>1, Zenon
        <5> QED BY <5>2 DEF x
      <4> QED BY <4>1, <4>2 DEF f
    <3>4. \A i \in 1..m : First(m)[i] = Append(First(m - 1), s[m])[i]
      <4>1. \A i \in 1..m : i = m \/ i \in 1..m - 1
        BY <2>5
      <4>2. First(m)[m] = s[m] /\ \A i \in 1..m - 1 : First(m)[i] = First(m - 1)[i]
        BY <2>5
      <4> HIDE DEF First
      <4> QED BY <4>1, <4>2, <3>3
    <3> HIDE DEF First
    <3> QED BY <3>2, <3>3, <3>4, SeqEqual
  <2>8. First(m) \in G
    <3> HIDE DEF First
    <3> QED BY <2>6, <2>7
  <2> QED BY <2>8, <2>3
<1>3. First(Len(s)) = s
  BY <1>1
<1>4. Len(s) \in 0..Len(s) /\ Len(s) \notin Missing
  <2>1. Len(s) \in 0..Len(s)
    BY <1>1
  <2> HIDE DEF Missing
  <2> QED BY <2>1, <1>2
<1>5. First(Len(s)) \in G
  <2> HIDE DEF First
  <2> QED BY <1>4
<1> QED BY <1>3, <1>5

LEMMA SelectedAppend ==
    ASSUME NEW S, NEW T, NEW s \in Seq(S), NEW x \in S
    PROVE  /\ Selected(Append(s, x), T) = IF x \in T THEN Append(Selected(s, T), x) ELSE Selected(s, T)
           /\ Selected(s, T) \in Seq(S)
<1> DEFINE t == Append(s, x)
<1>1. t \in Seq(S) /\ Len(t) = Len(s) + 1 /\ t[Len(s) + 1] = x /\ \A n \in 1..Len(s) : t[n] = s[n]
  BY AppendProperties
<1>2. t[Len(t)] = x
  BY <1>1
<1> HIDE DEF t
<1>3. /\ Selected(t, T) = IF t[Len(t)] \in T THEN Append(Selected(s, T), t[Len(t)]) ELSE Selected(s, T)
      /\ Selected(s, T) \in Seq(S)
  BY <1>1, SelectedOneMore
<1> QED BY <1>2, <1>3 DEF t

\* The selection of a sequence is a sequence of the same elements.
LEMMA SelectedIsSeq ==
    ASSUME NEW S, NEW T, NEW s \in Seq(S)
    PROVE  Selected(s, T) \in Seq(S)
<1>1. CASE s = <<>>
  <2>1. <<>> \in Seq(S)
    OBVIOUS
  <2> QED BY <1>1, <2>1, SelectedEmpty
<1>2. CASE s # <<>>
  <2>1. s[1] \in S
    BY <1>2
  <2> QED BY <2>1, SelectedAppend
<1> QED BY <1>1, <1>2

\* The selection of two sequences one behind the other.
LEMMA SelectedConcat ==
    ASSUME NEW S, NEW T, NEW s \in Seq(S), NEW t \in Seq(S)
    PROVE  Selected(s \o t, T) = Selected(s, T) \o Selected(t, T)
<1> DEFINE G == {r \in Seq(S) : Selected(s \o r, T) = Selected(s, T) \o Selected(r, T)}
<1>1. <<>> \in G
  <2>1. <<>> \in Seq(S) /\ s \o <<>> = s
    OBVIOUS
  <2>2. Selected(s, T) \in Seq(S)
    BY SelectedIsSeq
  <2>3. \A a \in Seq(S) : a \o <<>> = a
    OBVIOUS
  <2> QED BY <2>1, <2>2, <2>3, SelectedEmpty
<1>2. ASSUME NEW r \in G, NEW x \in S PROVE Append(r, x) \in G
  <2>1. r \in Seq(S) /\ Selected(s \o r, T) = Selected(s, T) \o Selected(r, T)
    OBVIOUS
  <2> HIDE DEF G
  <2>2. \A a, b \in Seq(S), y \in S : a \o Append(b, y) = Append(a \o b, y)
    OBVIOUS
  <2>3. s \o r \in Seq(S) /\ Append(r, x) \in Seq(S)
    BY <2>1, ConcatProperties, AppendProperties
  <2>4. s \o Append(r, x) = Append(s \o r, x)
    BY <2>1, <2>2
  <2>5. Selected(Append(s \o r, x), T) =
            IF x \in T THEN Append(Selected(s \o r, T), x) ELSE Selected(s \o r, T)
    <3> DEFINE u == s \o r
    <3>1. u \in Seq(S)
      BY <2>3
    <3> HIDE DEF u
    <3>2. Selected(Append(u, x), T) = IF x \in T THEN Append(Selected(u, T), x) ELSE Selected(u, T)
      BY <3>1, SelectedAppend
    <3> QED BY <3>2 DEF u
  <2>6. Selected(Append(r, x), T) = IF x \in T THEN Append(Selected(r, T), x) ELSE Selected(r, T)
    BY <2>1, SelectedAppend
  <2>7. Selected(s, T) \in Seq(S) /\ Selected(r, T) \in Seq(S)
    BY <2>1, SelectedIsSeq
  <2>8. Selected(s, T) \o Append(Selected(r, T), x) = Append(Selected(s, T) \o Selected(r, T), x)
    BY <2>2, <2>7
  <2>9. Selected(s \o Append(r, x), T) = Selected(s, T) \o Selected(Append(r, x), T)
    <3>1. CASE x \in T
      BY <3>1, <2>1, <2>4, <2>5, <2>6, <2>8, Zenon
    <3>2. CASE x \notin T
      BY <3>2, <2>1, <2>4, <2>5, <2>6, Zenon
    <3> QED BY <3>1, <3>2
  <2> QED BY <2>3, <2>9 DEF G
<1>3. Seq(S) \subseteq G
  <2>1. G \in SUBSET Seq(S)
    OBVIOUS
  <2> HIDE DEF G
  <2> QED BY <1>1, <1>2, <2>1, AppendClosed
<1> QED BY <1>3

\* Nothing is selected of a sequence without an element of T.
LEMMA SelectedNone ==
    ASSUME NEW S, NEW T, NEW s \in Seq(S), \A i \in DOMAIN s : s[i] \notin T
    PROVE  Selected(s, T) = <<>>
<1> DEFINE G == {r \in Seq(S) : (\A i \in 1..Len(r) : r[i] \notin T) => Selected(r, T) = <<>>}
<1>1. <<>> \in G
  BY SelectedEmpty
<1>2. ASSUME NEW r \in G, NEW x \in S PROVE Append(r, x) \in G
  <2>1. r \in Seq(S) /\ ((\A i \in 1..Len(r) : r[i] \notin T) => Selected(r, T) = <<>>)
    OBVIOUS
  <2> HIDE DEF G
  <2>2. /\ Append(r, x) \in Seq(S) /\ Len(Append(r, x)) = Len(r) + 1 /\ Len(r) \in Nat
        /\ Append(r, x)[Len(r) + 1] = x /\ \A i \in 1..Len(r) : Append(r, x)[i] = r[i]
    BY <2>1, AppendProperties, LenProperties
  <2>3. Selected(Append(r, x), T) = IF x \in T THEN Append(Selected(r, T), x) ELSE Selected(r, T)
    BY <2>1, SelectedAppend
  <2>4. ASSUME \A i \in 1..Len(Append(r, x)) : Append(r, x)[i] \notin T
        PROVE  Selected(Append(r, x), T) = <<>>
    <3>1. Len(r) + 1 \in 1..Len(r) + 1 /\ \A i \in 1..Len(r) : i \in 1..Len(r) + 1
      BY <2>2
    <3>2. x \notin T /\ \A i \in 1..Len(r) : r[i] \notin T
      BY <2>2, <2>4, <3>1
    <3> QED BY <3>2, <2>1, <2>3
  <2> QED BY <2>2, <2>4 DEF G
<1>3. Seq(S) \subseteq G
  <2>1. G \in SUBSET Seq(S)
    OBVIOUS
  <2> HIDE DEF G
  <2> QED BY <1>1, <1>2, <2>1, AppendClosed
<1>4. DOMAIN s = 1..Len(s)
  OBVIOUS
<1> QED BY <1>3, <1>4

\* A sequence of elements of T is selected as it is.
LEMMA SelectedAll ==
    ASSUME NEW S, NEW T, NEW s \in Seq(S), \A i \in DOMAIN s : s[i] \in T
    PROVE  Selected(s, T) = s
<1> DEFINE G == {r \in Seq(S) : (\A i \in 1..Len(r) : r[i] \in T) => Selected(r, T) = r}
<1>1. <<>> \in G
  BY SelectedEmpty
<1>2. ASSUME NEW r \in G, NEW x \in S PROVE Append(r, x) \in G
  <2>1. r \in Seq(S) /\ ((\A i \in 1..Len(r) : r[i] \in T) => Selected(r, T) = r)
    OBVIOUS
  <2> HIDE DEF G
  <2>2. /\ Append(r, x) \in Seq(S) /\ Len(Append(r, x)) = Len(r) + 1 /\ Len(r) \in Nat
        /\ Append(r, x)[Len(r) + 1] = x /\ \A i \in 1..Len(r) : Append(r, x)[i] = r[i]
    BY <2>1, AppendProperties, LenProperties
  <2>3. Selected(Append(r, x), T) = IF x \in T THEN Append(Selected(r, T), x) ELSE Selected(r, T)
    BY <2>1, SelectedAppend
  <2>4. ASSUME \A i \in 1..Len(Append(r, x)) : Append(r, x)[i] \in T
        PROVE  Selected(Append(r, x), T) = Append(r, x)
    <3>1. Len(r) + 1 \in 1..Len(r) + 1 /\ \A i \in 1..Len(r) : i \in 1..Len(r) + 1
      BY <2>2
    <3>2. x \in T /\ \A i \in 1..Len(r) : r[i] \in T
      BY <2>2, <2>4, <3>1
    <3> QED BY <3>2, <2>1, <2>3
  <2> QED BY <2>2, <2>4 DEF G
<1>3. Seq(S) \subseteq G
  <2>1. G \in SUBSET Seq(S)
    OBVIOUS
  <2> HIDE DEF G
  <2> QED BY <1>1, <1>2, <2>1, AppendClosed
<1>4. DOMAIN s = 1..Len(s)
  OBVIOUS
<1> QED BY <1>3, <1>4

-----------------------------------------------------------------------------
(* Parts of sequences.                                                      *)

LEMMA PartOfSeq ==
    ASSUME NEW S, NEW s \in Seq(S), NEW a \in Nat, NEW b \in Nat, b <= Len(s)
    PROVE  /\ SubSeq(s, a + 1, b) \in Seq(S)
           /\ Len(SubSeq(s, a + 1, b)) = IF a <= b THEN b - a ELSE 0
           /\ \A i \in 1..b - a : SubSeq(s, a + 1, b)[i] = s[a + i]
<1>1. a + 1 \in Int /\ b \in Int /\ \A i \in a + 1..b : s[i] \in S
  OBVIOUS
<1>2. /\ SubSeq(s, a + 1, b) \in Seq(S)
      /\ Len(SubSeq(s, a + 1, b)) = IF a + 1 <= b THEN b - (a + 1) + 1 ELSE 0
      /\ \A i \in 1 .. b - (a + 1) + 1 : SubSeq(s, a + 1, b)[i] = s[(a + 1) + i - 1]
  BY <1>1, SubSeqProperties
<1>3. b - (a + 1) + 1 = b - a /\ \A i \in 1..b - a : (a + 1) + i - 1 = a + i
  OBVIOUS
<1>4. Len(SubSeq(s, a + 1, b)) = IF a <= b THEN b - a ELSE 0
  BY <1>2
<1> QED BY <1>2, <1>3, <1>4

LEMMA SameSeq ==
    ASSUME NEW S, NEW s \in Seq(S), NEW t \in Seq(S), Len(s) = Len(t), \A i \in 1..Len(s) : s[i] = t[i]
    PROVE  s = t
OBVIOUS

LEMMA PartsJoin ==
    ASSUME NEW S, NEW s \in Seq(S), NEW a \in Nat, NEW b \in Nat, a <= b, b <= Len(s)
    PROVE  SubSeq(s, 1, b) = SubSeq(s, 1, a) \o SubSeq(s, a + 1, b)
<1> DEFINE x == SubSeq(s, 1, a)
           y == SubSeq(s, a + 1, b)
           z == SubSeq(s, 1, b)
<1>1. x \in Seq(S) /\ Len(x) = a /\ \A i \in 1..a : x[i] = s[i]
  <2>1. /\ SubSeq(s, 0 + 1, a) \in Seq(S) /\ Len(SubSeq(s, 0 + 1, a)) = IF 0 <= a THEN a - 0 ELSE 0
        /\ \A i \in 1..a - 0 : SubSeq(s, 0 + 1, a)[i] = s[0 + i]
    BY PartOfSeq
  <2> QED BY <2>1
<1>2. y \in Seq(S) /\ Len(y) = b - a /\ \A i \in 1..b - a : y[i] = s[a + i]
  BY PartOfSeq
<1>3. z \in Seq(S) /\ Len(z) = b /\ \A i \in 1..b : z[i] = s[i]
  <2>1. /\ SubSeq(s, 0 + 1, b) \in Seq(S) /\ Len(SubSeq(s, 0 + 1, b)) = IF 0 <= b THEN b - 0 ELSE 0
        /\ \A i \in 1..b - 0 : SubSeq(s, 0 + 1, b)[i] = s[0 + i]
    BY PartOfSeq
  <2> QED BY <2>1
<1> HIDE DEF x, y, z
<1>4. /\ x \o y \in Seq(S) /\ Len(x \o y) = b
      /\ \A i \in 1..b : (x \o y)[i] = IF i <= a THEN x[i] ELSE y[i - a]
  <2>1. x \o y \in Seq(S) /\ Len(x \o y) = Len(x) + Len(y)
        /\ \A i \in 1..Len(x) + Len(y) : (x \o y)[i] = IF i <= Len(x) THEN x[i] ELSE y[i - Len(x)]
    BY <1>1, <1>2, ConcatProperties
  <2> QED BY <1>1, <1>2, <2>1
<1>5. ASSUME NEW i \in 1..b PROVE (x \o y)[i] = z[i]
  <2>1. CASE i <= a
    BY <1>1, <1>3, <1>4, <2>1
  <2>2. CASE i > a
    <3>1. i - a \in 1..b - a /\ a + (i - a) = i
      BY <2>2
    <3>2. y[i - a] = s[i]
      BY <1>2, <3>1
    <3>3. (x \o y)[i] = y[i - a]
      <4>1. ~(i <= a)
        BY <2>2
      <4> QED BY <1>4, <4>1
    <3> QED BY <1>3, <3>2, <3>3
  <2>3. i \in Int
    OBVIOUS
  <2>4. i <= a \/ i > a
    BY <2>3
  <2> QED BY <2>1, <2>2, <2>4
<1>6. z = x \o y
  BY <1>3, <1>4, <1>5, SameSeq
<1> QED BY <1>6 DEF x, y, z

\* What is selected of two parts.
Splits(s, T, a, b) ==
    Selected(SubSeq(s, 1, b), T) = Selected(SubSeq(s, 1, a), T) \o Selected(SubSeq(s, a + 1, b), T)

LEMMA SelectedParts ==
    ASSUME NEW S, NEW T, NEW s \in Seq(S), NEW a \in Nat, NEW b \in Nat, a <= b, b <= Len(s)
    PROVE  Splits(s, T, a, b)
<1>1. SubSeq(s, 0 + 1, a) \in Seq(S)
  BY PartOfSeq
<1>2. SubSeq(s, 1, a) \in Seq(S) /\ SubSeq(s, a + 1, b) \in Seq(S)
  BY <1>1, PartOfSeq
<1>3. SubSeq(s, 1, b) = SubSeq(s, 1, a) \o SubSeq(s, a + 1, b)
  BY PartsJoin
<1> QED BY <1>2, <1>3, SelectedConcat DEF Splits

LEMMA SelectedOfPart ==
    ASSUME NEW S, NEW T, NEW s \in Seq(S), NEW a \in Nat, NEW b \in Nat, b <= Len(s)
    PROVE  Selected(SubSeq(s, a + 1, b), T) \in Seq(S)
<1>1. SubSeq(s, a + 1, b) \in Seq(S)
  BY PartOfSeq
<1> QED BY <1>1, SelectedIsSeq

LEMMA SelectedOfFirst ==
    ASSUME NEW S, NEW T, NEW s \in Seq(S), NEW b \in Nat, b <= Len(s)
    PROVE  Selected(SubSeq(s, 1, b), T) \in Seq(S)
<1>1. Selected(SubSeq(s, 0 + 1, b), T) \in Seq(S)
  BY SelectedOfPart
<1> QED BY <1>1

\* Going past what is not wanted, and past what is.
LEMMA SelectedSkip ==
    ASSUME NEW S, NEW T, NEW s \in Seq(S), NEW a \in Nat, NEW b \in Nat, a <= b, b <= Len(s),
           \A q \in a+1..b : s[q] \notin T
    PROVE  Selected(SubSeq(s, 1, b), T) = Selected(SubSeq(s, 1, a), T)
<1> DEFINE y == SubSeq(s, a + 1, b)
<1>1. y \in Seq(S) /\ (\A i \in 1..b - a : y[i] = s[a + i]) /\ DOMAIN y = 1..b - a
  BY PartOfSeq
<1>2. Selected(SubSeq(s, 1, b), T) = Selected(SubSeq(s, 1, a), T) \o Selected(y, T)
  <2>1. Splits(s, T, a, b)
    BY SelectedParts
  <2> QED BY ONLY <2>1 DEF Splits
<1> HIDE DEF y
<1>3. \A i \in 1..b - a : a + i \in a+1..b
  OBVIOUS
<1>4. \A i \in DOMAIN y : y[i] \notin T
  BY <1>1, <1>3
<1>5. Selected(y, T) = <<>>
  BY <1>1, <1>4, SelectedNone
<1>6. Selected(SubSeq(s, 1, a), T) \in Seq(S)
  BY SelectedOfFirst
<1> QED BY <1>2, <1>5, <1>6

LEMMA PrefixOfJoin ==
    ASSUME NEW S, NEW s \in Seq(S), NEW t \in Seq(S)
    PROVE  IsPrefix(s, s \o t)
<1> DEFINE u == s \o t
<1>1. /\ u \in Seq(S) /\ Len(u) = Len(s) + Len(t) /\ Len(s) \in Nat /\ Len(t) \in Nat
      /\ \A i \in 1..Len(s) : u[i] = s[i]
  <2>1. /\ s \o t \in Seq(S) /\ Len(s \o t) = Len(s) + Len(t) /\ Len(s) \in Nat /\ Len(t) \in Nat
        /\ \A i \in 1..Len(s) + Len(t) : (s \o t)[i] = IF i <= Len(s) THEN s[i] ELSE t[i - Len(s)]
    BY ConcatProperties
  <2> QED BY <2>1
<1> HIDE DEF u
<1>2. SubSeq(s, 1, Len(s)) = s /\ SubSeq(u, 1, Len(s)) = s
  <2>1. \A v \in {s, u} : /\ SubSeq(v, 0 + 1, Len(s)) \in Seq(S)
                          /\ Len(SubSeq(v, 0 + 1, Len(s))) = IF 0 <= Len(s) THEN Len(s) - 0 ELSE 0
                          /\ \A i \in 1..Len(s) - 0 : SubSeq(v, 0 + 1, Len(s))[i] = v[0 + i]
    BY <1>1, PartOfSeq
  <2>2. \A v \in {s, u} : /\ SubSeq(v, 1, Len(s)) \in Seq(S) /\ Len(SubSeq(v, 1, Len(s))) = Len(s)
                          /\ \A i \in 1..Len(s) : SubSeq(v, 1, Len(s))[i] = s[i]
    BY <1>1, <2>1
  <2> QED BY <2>2, SameSeq
<1>3. Len(s) <= Len(u)
  BY <1>1
<1> QED BY <1>2, <1>3 DEF IsPrefix, u

LEMMA EmptyPrefix == ASSUME NEW S, NEW t \in Seq(S) PROVE IsPrefix(<<>>, t)
<1>1. <<>> \in Seq(S) /\ <<>> \o t = t
  OBVIOUS
<1> QED BY <1>1, PrefixOfJoin

LEMMA FirstOfSeq ==
    ASSUME NEW S, NEW s \in Seq(S), NEW a \in Nat, a <= Len(s)
    PROVE  /\ SubSeq(s, 1, a) \in Seq(S) /\ Len(SubSeq(s, 1, a)) = a /\ DOMAIN SubSeq(s, 1, a) = 1..a
           /\ \A i \in 1..a : SubSeq(s, 1, a)[i] = s[i]
<1>1. /\ SubSeq(s, 0 + 1, a) \in Seq(S) /\ Len(SubSeq(s, 0 + 1, a)) = IF 0 <= a THEN a - 0 ELSE 0
      /\ \A i \in 1..a - 0 : SubSeq(s, 0 + 1, a)[i] = s[0 + i]
  BY PartOfSeq
<1> QED BY <1>1

LEMMA WholeSeq ==
    ASSUME NEW S, NEW s \in Seq(S)
    PROVE  Len(s) \in Nat /\ SubSeq(s, 1, Len(s)) = s
<1>1. Len(s) \in Nat
  OBVIOUS
<1>2. /\ SubSeq(s, 1, Len(s)) \in Seq(S) /\ Len(SubSeq(s, 1, Len(s))) = Len(s)
      /\ \A i \in 1..Len(s) : SubSeq(s, 1, Len(s))[i] = s[i]
  BY <1>1, FirstOfSeq
<1> QED BY <1>1, <1>2, SameSeq

\* What is selected so far is part of what will be.
LEMMA SelectedSoFar ==
    ASSUME NEW S, NEW T, NEW s \in Seq(S), NEW a \in Nat, a <= Len(s)
    PROVE  IsPrefix(Selected(SubSeq(s, 1, a), T), Selected(s, T))
<1> DEFINE b == Len(s)
<1>1. b \in Nat /\ a <= b /\ b <= Len(s) /\ SubSeq(s, 1, b) = s
  BY WholeSeq
<1> HIDE DEF b
<1>2. Selected(SubSeq(s, 1, b), T) = Selected(SubSeq(s, 1, a), T) \o Selected(SubSeq(s, a + 1, b), T)
  <2>1. Splits(s, T, a, b)
    BY <1>1, SelectedParts
  <2> QED BY ONLY <2>1 DEF Splits
<1>3. Selected(SubSeq(s, 1, a), T) \in Seq(S) /\ Selected(SubSeq(s, a + 1, b), T) \in Seq(S)
  BY <1>1, SelectedOfFirst, SelectedOfPart
<1>4. IsPrefix(Selected(SubSeq(s, 1, a), T), Selected(SubSeq(s, 1, a), T) \o Selected(SubSeq(s, a + 1, b), T))
  BY <1>3, PrefixOfJoin
<1> QED BY <1>1, <1>2, <1>4

LEMMA SelectedWhole ==
    ASSUME NEW S, NEW T, NEW s \in Seq(S), NEW a \in Nat, a <= Len(s),
           \A q \in a+1..Len(s) : s[q] \notin T
    PROVE  Selected(SubSeq(s, 1, a), T) = Selected(s, T)
<1> DEFINE b == Len(s)
<1>1. b \in Nat /\ a <= b /\ b <= Len(s) /\ SubSeq(s, 1, b) = s /\ \A q \in a+1..b : s[q] \notin T
  BY WholeSeq
<1> HIDE DEF b
<1>2. Selected(SubSeq(s, 1, b), T) = Selected(SubSeq(s, 1, a), T)
  BY <1>1, SelectedSkip
<1> QED BY <1>1, <1>2

LEMMA SelectedNothing ==
    ASSUME NEW S, NEW T, NEW s \in Seq(S), NEW a \in Nat, a <= Len(s), \A q \in 1..a : s[q] \notin T
    PROVE  Selected(SubSeq(s, 1, a), T) = <<>>
<1>1. /\ SubSeq(s, 1, a) \in Seq(S) /\ DOMAIN SubSeq(s, 1, a) = 1..a
      /\ \A i \in 1..a : SubSeq(s, 1, a)[i] = s[i]
  BY FirstOfSeq
<1>2. \A i \in DOMAIN SubSeq(s, 1, a) : SubSeq(s, 1, a)[i] \notin T
  BY <1>1
<1> QED BY <1>1, <1>2, SelectedNone

\* The last one selected, put back.
LEMMA SelectedBack ==
    ASSUME NEW S, NEW T, NEW s \in Seq(S), NEW p \in Nat, p > 0, p <= Len(s), s[p] \in T
    PROVE  Front(Selected(SubSeq(s, 1, p), T)) = Selected(SubSeq(s, 1, p - 1), T)
<1>1. p - 1 \in Nat /\ p - 1 <= p /\ (p - 1) + 1 = p /\ s[p] \in S
  OBVIOUS
<1> DEFINE x == Selected(SubSeq(s, 1, p - 1), T)
<1>2. \A q \in (p - 1)+1..p : s[q] \in T
  <2> SUFFICES ASSUME NEW q \in (p - 1)+1..p PROVE s[q] \in T
    OBVIOUS
  <2>1. q = p
    OBVIOUS
  <2> QED BY <2>1
<1>3. x \in Seq(S) /\ Selected(SubSeq(s, 1, p), T) = x \o SubSeq(s, (p - 1) + 1, p)
  <2> DEFINE a == p - 1
  <2>1. a \in Nat /\ a <= p /\ a <= Len(s)
    BY <1>1
  <2>2. \A q \in a+1..p : s[q] \in T
    BY <1>2
  <2>3. x = Selected(SubSeq(s, 1, a), T)
    OBVIOUS
  <2> HIDE DEF a, x
  <2>4. Selected(SubSeq(s, 1, p), T) = Selected(SubSeq(s, 1, a), T) \o SubSeq(s, a + 1, p)
    <3> DEFINE y == SubSeq(s, a + 1, p)
    <3>0. /\ SubSeq(s, a + 1, p) \in Seq(S)
          /\ Len(SubSeq(s, a + 1, p)) = IF a <= p THEN p - a ELSE 0
          /\ \A i \in 1..p - a : SubSeq(s, a + 1, p)[i] = s[a + i]
      BY ONLY <2>1, s \in Seq(S), p \in Nat, p <= Len(s), PartOfSeq
    <3>1. y \in Seq(S) /\ (\A i \in 1..p - a : y[i] = s[a + i]) /\ DOMAIN y = 1..p - a
      <4>1. y \in Seq(S)
        BY ONLY <3>0
      <4>2. \A i \in 1..p - a : y[i] = s[a + i]
        BY ONLY <3>0
      <4>3. Len(y) = p - a
        BY ONLY <3>0, <2>1, p \in Nat
      <4>4. DOMAIN y = 1..Len(y)
        <5> HIDE DEF y
        <5> QED BY ONLY <4>1
      <4> QED BY <4>1, <4>2, <4>3, <4>4
    <3>2. Selected(SubSeq(s, 1, p), T) = Selected(SubSeq(s, 1, a), T) \o Selected(y, T)
      <4>1. a \in Nat /\ a <= p
        BY ONLY <2>1
      <4>2. Splits(s, T, a, p)
        BY ONLY s \in Seq(S), p \in Nat, p <= Len(s), <4>1, SelectedParts
      <4> QED BY ONLY <4>2 DEF Splits
    <3> HIDE DEF y
    <3>3. \A i \in 1..p - a : a + i \in a+1..p
      BY <2>1
    <3>4. \A i \in DOMAIN y : y[i] \in T
      BY <2>2, <3>1, <3>3
    <3>5. Selected(y, T) = y
      BY <3>1, <3>4, SelectedAll
    <3> QED BY <3>2, <3>5 DEF y
  <2>5. Selected(SubSeq(s, 1, a), T) \in Seq(S)
    BY <2>1, SelectedOfFirst
  <2> QED BY <2>3, <2>4, <2>5 DEF a
<1>4. SubSeq(s, (p - 1) + 1, p) = <<s[p]>>
  <2>1. /\ SubSeq(s, (p - 1) + 1, p) \in Seq(S)
        /\ Len(SubSeq(s, (p - 1) + 1, p)) = IF p - 1 <= p THEN p - (p - 1) ELSE 0
        /\ \A i \in 1..p - (p - 1) : SubSeq(s, (p - 1) + 1, p)[i] = s[(p - 1) + i]
    BY ONLY <1>1, s \in Seq(S), p \in Nat, p <= Len(s), PartOfSeq
  <2>2. Len(SubSeq(s, (p - 1) + 1, p)) = 1 /\ SubSeq(s, (p - 1) + 1, p)[1] = s[p]
    BY <2>1
  <2>3. <<s[p]>> \in Seq(S) /\ Len(<<s[p]>>) = 1 /\ <<s[p]>>[1] = s[p]
    BY <1>1
  <2> HIDE DEF x
  <2>4. \A i \in 1..1 : i = 1
    OBVIOUS
  <2> QED BY <2>1, <2>2, <2>3, <2>4, SameSeq
<1> HIDE DEF x
<1>5. Front(x \o <<s[p]>>) = x
  <2> DEFINE u == x \o <<s[p]>>
  <2>1. /\ u \in Seq(S) /\ Len(u) = Len(x) + 1 /\ Len(x) \in Nat /\ \A i \in 1..Len(x) : u[i] = x[i]
    BY <1>1, <1>3
  <2> HIDE DEF u
  <2>2. Len(u) - 1 = Len(x)
    BY <2>1
  <2>3. /\ SubSeq(u, 0 + 1, Len(x)) \in Seq(S) /\ Len(SubSeq(u, 0 + 1, Len(x))) = IF 0 <= Len(x) THEN Len(x) - 0 ELSE 0
        /\ \A i \in 1..Len(x) - 0 : SubSeq(u, 0 + 1, Len(x))[i] = u[0 + i]
    BY <2>1, PartOfSeq
  <2>4. /\ SubSeq(u, 1, Len(x)) \in Seq(S) /\ Len(SubSeq(u, 1, Len(x))) = Len(x)
        /\ \A i \in 1..Len(x) : SubSeq(u, 1, Len(x))[i] = x[i]
    BY <2>1, <2>3
  <2>5. SubSeq(u, 1, Len(x)) = x
    BY <1>3, <2>4, SameSeq
  <2> QED BY <2>2, <2>5 DEF Front, u
<1> QED BY <1>3, <1>4, <1>5 DEF x

LEMMA ConcatAppend ==
    ASSUME NEW S, NEW a \in Seq(S), NEW b \in Seq(S), NEW x \in S
    PROVE  a \o Append(b, x) = Append(a \o b, x)
OBVIOUS

\* A first element that goes behind what came before it.
LEMMA HeadMoved ==
    ASSUME NEW S, NEW a \in Seq(S), NEW b \in Seq(S), b # <<>>
    PROVE  Append(a, Head(b)) \o Tail(b) = a \o b
<1> DEFINE h == Head(b)
           z == Tail(b)
           o == <<h>>
<1>1. h \in S /\ z \in Seq(S) /\ o \in Seq(S)
  OBVIOUS
<1>2. o \o z = b
  OBVIOUS
<1> HIDE DEF z
<1>3. Append(a, h) = a \o o
  BY <1>1, AppendIsConcat
<1> HIDE DEF h, o
<1>4. (a \o o) \o z = a \o (o \o z)
  BY <1>1, ConcatAssociative
<1> QED BY <1>2, <1>3, <1>4 DEF h, z

\* What is selected depends on the elements there are, and can be selected in two steps.
LEMMA SelectedSame ==
    ASSUME NEW S, NEW T, NEW U, NEW s \in Seq(S), \A x \in S : x \in U <=> x \in T
    PROVE  Selected(s, U) = Selected(s, T)
<1> DEFINE G == {r \in Seq(S) : Selected(r, U) = Selected(r, T)}
<1>1. <<>> \in G
  BY SelectedEmpty
<1>2. ASSUME NEW r \in G, NEW x \in S PROVE Append(r, x) \in G
  <2>1. r \in Seq(S) /\ Selected(r, U) = Selected(r, T) /\ Append(r, x) \in Seq(S)
    BY AppendProperties
  <2> HIDE DEF G
  <2>2. \A V : Selected(Append(r, x), V) = IF x \in V THEN Append(Selected(r, V), x) ELSE Selected(r, V)
    BY <2>1, SelectedAppend
  <2>3. x \in U <=> x \in T
    OBVIOUS
  <2>4. Selected(Append(r, x), U) = Selected(Append(r, x), T)
    BY <2>1, <2>2, <2>3, Zenon
  <2> QED BY <2>1, <2>4 DEF G
<1>3. Seq(S) \subseteq G
  <2>1. G \in SUBSET Seq(S)
    OBVIOUS
  <2> HIDE DEF G
  <2> QED BY <1>1, <1>2, <2>1, AppendClosed
<1> QED BY <1>3

LEMMA SelectedAgain ==
    ASSUME NEW S, NEW T, NEW U, U \subseteq T, NEW s \in Seq(S)
    PROVE  Selected(s, U) = Selected(Selected(s, T), U)
<1> DEFINE G == {r \in Seq(S) : Selected(r, U) = Selected(Selected(r, T), U)}
<1>1. <<>> \in G
  BY SelectedEmpty
<1>2. ASSUME NEW r \in G, NEW x \in S PROVE Append(r, x) \in G
  <2>1. r \in Seq(S) /\ Selected(r, U) = Selected(Selected(r, T), U) /\ Append(r, x) \in Seq(S)
    BY AppendProperties
  <2> HIDE DEF G
  <2>2. \A q \in Seq(S) : \A V : Selected(Append(q, x), V) = IF x \in V THEN Append(Selected(q, V), x) ELSE Selected(q, V)
    BY SelectedAppend
  <2>3. Selected(r, T) \in Seq(S)
    BY <2>1, SelectedIsSeq
  <2>4. Selected(Append(r, x), U) = Selected(Selected(Append(r, x), T), U)
    <3>1. CASE x \in T
      <4>1. Selected(Append(r, x), T) = Append(Selected(r, T), x)
        BY <2>1, <2>2, <3>1, Zenon
      <4>2. Selected(Append(Selected(r, T), x), U) =
              IF x \in U THEN Append(Selected(Selected(r, T), U), x) ELSE Selected(Selected(r, T), U)
        BY <2>2, <2>3
      <4>3. Selected(Append(r, x), U) = IF x \in U THEN Append(Selected(r, U), x) ELSE Selected(r, U)
        BY <2>1, <2>2
      <4> QED BY <2>1, <4>1, <4>2, <4>3, Zenon
    <3>2. CASE x \notin T
      <4>1. Selected(Append(r, x), T) = Selected(r, T)
        BY <2>1, <2>2, <3>2, Zenon
      <4>2. x \notin U
        BY <3>2
      <4>3. Selected(Append(r, x), U) = Selected(r, U)
        BY <2>1, <2>2, <4>2, Zenon
      <4> QED BY <2>1, <4>1, <4>3, Zenon
    <3> QED BY <3>1, <3>2
  <2> QED BY <2>1, <2>4 DEF G
<1>3. Seq(S) \subseteq G
  <2>1. G \in SUBSET Seq(S)
    OBVIOUS
  <2> HIDE DEF G
  <2> QED BY <1>1, <1>2, <2>1, AppendClosed
<1> QED BY <1>3

\* What the put area held is thrown away, and only that.
LEMMA SelectedDropped ==
    ASSUME NEW S, NEW T, NEW U, U \subseteq T, NEW s \in Seq(S), NEW P, NEW Q,
           NEW p \in Seq(P), NEW q \in Seq(Q), Selected(s, T) = p \o q,
           P \subseteq S, Q \subseteq S, P \subseteq U, \A x \in Q : x \notin U
    PROVE  Selected(s, U) = p
<1>1. p \in Seq(S) /\ q \in Seq(S)
  OBVIOUS
<1>2. Selected(s, U) = Selected(p, U) \o Selected(q, U)
  <2>0. U \subseteq T /\ s \in Seq(S)
    OBVIOUS
  <2>1. Selected(s, T) = p \o q
    OBVIOUS
  <2>2. Selected(s, U) = Selected(Selected(s, T), U)
    BY ONLY <2>0, SelectedAgain
  <2>3. Selected(p \o q, U) = Selected(p, U) \o Selected(q, U)
    BY ONLY <1>1, SelectedConcat
  <2> QED BY ONLY <2>1, <2>2, <2>3, Zenon
<1>3. Selected(p, U) = p
  <2>1. \A i \in DOMAIN p : p[i] \in P
    OBVIOUS
  <2>2. \A i \in DOMAIN p : p[i] \in U
    BY <2>1
  <2> QED BY <1>1, <2>2, SelectedAll
<1>4. Selected(q, U) = <<>>
  <2>1. \A i \in DOMAIN q : q[i] \in Q
    OBVIOUS
  <2>2. \A i \in DOMAIN q : q[i] \notin U
    BY <2>1
  <2> QED BY <1>1, <2>2, SelectedNone
<1>5. p \o <<>> = p
  OBVIOUS
<1> QED BY <1>2, <1>3, <1>4, <1>5

\* What is selected is in T.
LEMMA SelectedOnly ==
    ASSUME NEW S, NEW T, NEW s \in Seq(S)
    PROVE  \A i \in DOMAIN Selected(s, T) : Selected(s, T)[i] \in T
<1> DEFINE G == {r \in Seq(S) : Selected(r, T) \in Seq(S \cap T)}
<1>1. <<>> \in G
  <2>1. <<>> \in Seq(S) /\ <<>> \in Seq(S \cap T)
    OBVIOUS
  <2> QED BY <2>1, SelectedEmpty
<1>2. ASSUME NEW r \in G, NEW x \in S PROVE Append(r, x) \in G
  <2>1. r \in Seq(S) /\ Selected(r, T) \in Seq(S \cap T) /\ Append(r, x) \in Seq(S)
    BY AppendProperties
  <2> HIDE DEF G
  <2>2. Selected(Append(r, x), T) = IF x \in T THEN Append(Selected(r, T), x) ELSE Selected(r, T)
    BY <2>1, SelectedAppend
  <2>3. x \in T => Append(Selected(r, T), x) \in Seq(S \cap T)
    <3> DEFINE q == Selected(r, T)
               R == S \cap T
    <3>1. x \in T => x \in R
      OBVIOUS
    <3>2. q \in Seq(R)
      BY <2>1
    <3> HIDE DEF q, R
    <3>3. x \in R => Append(q, x) \in Seq(R)
      BY <3>2, AppendProperties
    <3> QED BY <3>1, <3>3 DEF q, R
  <2>4. Selected(Append(r, x), T) \in Seq(S \cap T)
    BY <2>1, <2>2, <2>3
  <2> QED BY <2>1, <2>4 DEF G
<1>3. Seq(S) \subseteq G
  <2>1. G \in SUBSET Seq(S)
    OBVIOUS
  <2> HIDE DEF G
  <2> QED BY <1>1, <1>2, <2>1, AppendClosed
<1>4. Selected(s, T) \in Seq(S \cap T)
  BY <1>3
<1> DEFINE q == Selected(s, T)
<1> HIDE DEF q
<1>5. q \in Seq(S \cap T) => \A i \in DOMAIN q : q[i] \in T
  OBVIOUS
<1> QED BY <1>4, <1>5 DEF q

\* What is selected of the numbers from 1 to c + 1, and from those up to n.
LEMMA OneMoreNumber ==
    ASSUME NEW c \in Nat, NEW T
    PROVE  Selected([i \in 1..c+1 |-> i], T) =
              IF c + 1 \in T THEN Append(Selected([i \in 1..c |-> i], T), c + 1)
              ELSE Selected([i \in 1..c |-> i], T)
<1> DEFINE s == [i \in 1..c |-> i]
           t == [i \in 1..c+1 |-> i]
<1>1. s \in Seq(Nat) /\ t \in Seq(Nat) /\ Len(s) = c /\ Len(t) = c + 1 /\ t[c + 1] = c + 1
  OBVIOUS
<1>2. \A n \in 1..Len(s) : t[n] = s[n]
  BY <1>1
<1> HIDE DEF s, t
<1>3. Selected(t, T) = IF t[Len(t)] \in T THEN Append(Selected(s, T), t[Len(t)]) ELSE Selected(s, T)
  BY <1>1, <1>2, SelectedOneMore
<1> QED BY <1>1, <1>3 DEF s, t

LEMMA NumbersUpTo ==
    ASSUME NEW n \in Nat, NEW c \in 0..n, NEW T, NEW U,
           \A i \in 1..n : i \in U <=> i \in T /\ i <= c
    PROVE  Selected([i \in 1..n |-> i], U) = Selected([i \in 1..c |-> i], T)
<1> DEFINE s == [i \in 1..n |-> i]
           t == [i \in 1..c |-> i]
<1>1. c \in Nat /\ c <= n
  OBVIOUS
<1>2. s \in Seq(1..n) /\ Len(s) = n /\ \A i \in 1..n : s[i] = i
  OBVIOUS
<1>3. t \in Seq(1..c) /\ Len(t) = c /\ \A i \in 1..c : t[i] = i
  BY <1>1
<1> HIDE DEF s, t
<1>4. SubSeq(s, 1, c) = t
  <2>1. /\ SubSeq(s, 1, c) \in Seq(1..n) /\ Len(SubSeq(s, 1, c)) = c
        /\ \A i \in 1..c : SubSeq(s, 1, c)[i] = s[i]
    BY <1>1, <1>2, FirstOfSeq
  <2>2. \A i \in 1..c : SubSeq(s, 1, c)[i] = t[i]
    BY <1>1, <1>2, <1>3, <2>1
  <2>3. t \in Seq(1..n)
    BY <1>1, <1>2, <1>3 DEF t
  <2> DEFINE y == SubSeq(s, 1, c)
  <2> HIDE DEF y
  <2>4. y = t
    BY <1>3, <2>1, <2>2, <2>3, SameSeq DEF y
  <2> QED BY <2>4 DEF y
<1>5. Selected(SubSeq(s, 1, c), U) = Selected(s, U)
  <2>1. \A q \in c+1..Len(s) : s[q] \notin U
    BY <1>1, <1>2
  <2> QED BY <1>1, <1>2, <2>1, SelectedWhole
<1>6. Selected(t, U) = Selected(t, T)
  <2>1. \A x \in 1..c : x \in U <=> x \in T
    BY <1>1
  <2> QED BY <1>3, <2>1, SelectedSame
<1> QED BY <1>4, <1>5, <1>6 DEF s, t

=============================================================================
