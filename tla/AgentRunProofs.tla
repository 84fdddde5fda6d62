--------------------------- MODULE AgentRunProofs ---------------------------
(***************************************************************************)
(* Theorems about AgentRun for every log a process may find, every window  *)
(* and every number of rounds, attempts and calls: what a provider is sent *)
(* has its uses and results in pairs, a compaction keeps whole pairs, the  *)
(* loop's copy is the log's, and what was shown is what was answered.      *)
(* About ProviderStream for any number of items and pieces: an answer is   *)
(* put together whole or not at all.  And about PromptEncoding for every   *)
(* prompt: it is sent whole, in order and in the turns the API asks for.   *)
(***************************************************************************)
EXTENDS AgentRun, ProviderStream, PromptEncoding, SequenceTheorems, FiniteSetTheorems, WellFoundedInduction, TLAPS

-----------------------------------------------------------------------------
(* Least and greatest.                                                     *)

\* Every set of numbers that is not empty has a least one: what an induction over
\* positions rests on here.
LEMMA LeastNatural ==
    ASSUME NEW T, T \subseteq Nat, T # {}
    PROVE  \E x \in T : \A y \in T : x <= y
<1> DEFINE R == {ss \in Nat \X Nat : ss[1] < ss[2]}
<1>1. IsWellFoundedOn(R, Nat)
  BY NatLessThanWellFounded DEF OpToRel
<1>0. \A y, z \in Nat : y < z => <<y, z>> \in R
  <2> SUFFICES ASSUME NEW y \in Nat, NEW z \in Nat, y < z PROVE <<y, z>> \in R
    OBVIOUS
  <2>1. <<y, z>> \in Nat \X Nat /\ <<y, z>>[1] < <<y, z>>[2]
    OBVIOUS
  <2> QED BY <2>1
<1> HIDE DEF R
<1>2. PICK x \in T : \A y \in T : ~ (<<y, x>> \in R)
  BY <1>1, WFMin
<1>3. \A y \in T : x <= y
  <2> SUFFICES ASSUME NEW y \in T PROVE x <= y
    OBVIOUS
  <2>1. ~(<<y, x>> \in R)
    BY <1>2
  <2>2. ~(y < x)
    BY <1>0, <2>1
  <2> QED BY <2>2
<1> QED BY <1>3

\* Latest is the greatest of a set of positions.
LEMMA LatestIsGreatest ==
    ASSUME NEW n \in Nat, NEW T \in SUBSET (1..n), T # {}
    PROVE  Latest(T) \in T /\ \A k \in T : k <= Latest(T)
<1> DEFINE D == {n - k : k \in T}
<1>1. \A k \in T : k \in Int /\ n - k \in Nat
  OBVIOUS
<1>2. D \subseteq Nat /\ D # {}
  BY <1>1
<1>3. PICK d \in D : \A e \in D : d <= e
  <2> HIDE DEF D
  <2> QED BY <1>2, LeastNatural
<1>4. PICK k \in T : d = n - k
  BY <1>3
<1>5. \A j \in T : j <= k
  <2> SUFFICES ASSUME NEW j \in T PROVE j <= k
    OBVIOUS
  <2>1. n - j \in D
    OBVIOUS
  <2> QED BY <1>1, <1>3, <1>4, <2>1
<1> QED BY <1>5 DEF Latest

-----------------------------------------------------------------------------
(* Sums and concatenations.                                                *)

\* f has the sum of the first i numbers, the concatenation of the first i
\* sequences, for each i up to k.
SumsOf(s, f, k) == f[0] = 0 /\ \A i \in 1..k : f[i] = f[i - 1] + s[i]
HasSums(s, k) == \E f \in [0..k -> Nat] : SumsOf(s, f, k)
ConcatsOf(ss, f, k) == f[0] = <<>> /\ \A i \in 1..k : f[i] = f[i - 1] \o ss[i]
HasConcats(S, ss, k) == \E f \in [0..k -> Seq(S)] : ConcatsOf(ss, f, k)

\* A sum of numbers is a number.
LEMMA TotalIsNat ==
    ASSUME NEW s \in Seq(Nat)
    PROVE  Total(s) \in Nat
<1> DEFINE n == Len(s)
           Bad == {k \in 0..n : ~ HasSums(s, k)}
<1>1. n \in Nat /\ \A i \in 1..n : s[i] \in Nat
  BY LenProperties
<1>2. ASSUME Bad # {} PROVE FALSE
  <2>1. PICK x \in Bad : \A y \in Bad : x <= y
    <3>1. Bad \subseteq Nat
      BY <1>1
    <3> HIDE DEF Bad
    <3> QED BY <1>2, <3>1, LeastNatural
  <2>2. CASE x = 0
    <3> DEFINE z == [i \in 0..0 |-> 0]
    <3>1. z \in [0..0 -> Nat] /\ SumsOf(s, z, 0)
      BY DEF SumsOf
    <3> QED BY <2>1, <2>2, <3>1 DEF HasSums
  <2>3. CASE x # 0
    <3>1. x \in 1..n /\ x - 1 \in 0..n /\ x - 1 \notin Bad
      BY <1>1, <2>1, <2>3
    <3>2. PICK f \in [0..x - 1 -> Nat] : SumsOf(s, f, x - 1)
      BY <3>1 DEF HasSums
    <3> DEFINE g == [i \in 0..x |-> IF i = x THEN f[x - 1] + s[x] ELSE f[i]]
    <3>3. g \in [0..x -> Nat] /\ g[0] = 0
      BY <1>1, <3>1, <3>2 DEF SumsOf
    <3>4. \A i \in 1..x : g[i] = g[i - 1] + s[i]
      <4> SUFFICES ASSUME NEW i \in 1..x PROVE g[i] = g[i - 1] + s[i]
        OBVIOUS
      <4>1. g[i - 1] = f[i - 1]
        BY <1>1, <3>1
      <4>2. g[i] = IF i = x THEN f[x - 1] + s[x] ELSE f[i]
        BY <1>1, <3>1
      <4>3. CASE i = x
        BY <4>1, <4>2, <4>3
      <4>4. CASE i # x
        <5>1. i \in 1..(x - 1)
          BY <1>1, <3>1, <4>4
        <5> QED BY <3>2, <4>1, <4>2, <4>4, <5>1 DEF SumsOf
      <4> QED BY <4>3, <4>4
    <3>5. HasSums(s, x)
      BY <3>3, <3>4 DEF HasSums, SumsOf
    <3> QED BY <2>1, <3>5
  <2> QED BY <2>2, <2>3
<1>3. PICK f \in [0..n -> Nat] : SumsOf(s, f, n)
  BY <1>1, <1>2 DEF HasSums
<1> DEFINE c == CHOOSE g : g = [i \in 0..n |-> IF i = 0 THEN 0 ELSE g[i - 1] + s[i]]
<1>4. f = [i \in 0..n |-> IF i = 0 THEN 0 ELSE f[i - 1] + s[i]]
  <2>1. \A i \in 0..n : f[i] = IF i = 0 THEN 0 ELSE f[i - 1] + s[i]
    BY <1>1, <1>3 DEF SumsOf
  <2> QED BY <2>1
<1>5. c = [i \in 0..n |-> IF i = 0 THEN 0 ELSE c[i - 1] + s[i]]
  BY <1>4
<1> HIDE DEF c
<1> DEFINE Off == {i \in 0..n : c[i] # f[i]}
<1>6. ASSUME Off # {} PROVE FALSE
  <2>1. PICK x \in Off : \A y \in Off : x <= y
    <3>1. Off \subseteq Nat
      BY <1>1
    <3> HIDE DEF Off
    <3> QED BY <1>6, <3>1, LeastNatural
  <2>2. x # 0
    BY <1>1, <1>3, <1>5, <2>1 DEF SumsOf
  <2>3. x - 1 \in 0..n /\ x - 1 \notin Off /\ x \in 1..n
    BY <1>1, <2>1, <2>2
  <2>4. c[x] = c[x - 1] + s[x] /\ f[x] = f[x - 1] + s[x]
    BY <1>3, <1>5, <2>2, <2>3 DEF SumsOf
  <2> QED BY <2>1, <2>3, <2>4
<1>7. c[n] = f[n] /\ f[n] \in Nat
  BY <1>1, <1>3, <1>6
<1>8. Total(s) = c[n]
  BY DEF Total, c
<1> QED BY <1>7, <1>8

\* Concat is the last prefix, whoever computes them.
LEMMA ConcatIsLast ==
    ASSUME NEW S, NEW ss \in Seq(Seq(S)), NEW f \in [0..Len(ss) -> Seq(S)],
           ConcatsOf(ss, f, Len(ss))
    PROVE  Concat(ss) = f[Len(ss)]
<1> DEFINE n == Len(ss)
           c == CHOOSE g : g = [i \in 0..n |-> IF i = 0 THEN <<>> ELSE g[i - 1] \o ss[i]]
<1>1. n \in Nat
  BY LenProperties
<1>2. f = [i \in 0..n |-> IF i = 0 THEN <<>> ELSE f[i - 1] \o ss[i]]
  <2>1. \A i \in 0..n : f[i] = IF i = 0 THEN <<>> ELSE f[i - 1] \o ss[i]
    <3>1. \A i \in 0..n : i = 0 \/ i \in 1..n
      BY <1>1
    <3>2. f[0] = <<>> /\ \A i \in 1..n : f[i] = f[i - 1] \o ss[i]
      BY DEF ConcatsOf
    <3>3. 0 \notin 1..n
      OBVIOUS
    <3> HIDE DEF n
    <3> QED BY <3>1, <3>2, <3>3, Zenon
  <2> QED BY <2>1
<1>3. c = [i \in 0..n |-> IF i = 0 THEN <<>> ELSE c[i - 1] \o ss[i]]
  BY <1>2
<1> HIDE DEF c
<1> DEFINE Off == {i \in 0..n : c[i] # f[i]}
<1>4. ASSUME Off # {} PROVE FALSE
  <2>1. PICK x \in Off : \A y \in Off : x <= y
    <3>1. Off \subseteq Nat
      BY <1>1
    <3> HIDE DEF Off
    <3> QED BY <1>4, <3>1, LeastNatural
  <2>2. x # 0
    BY <1>1, <1>3, <2>1 DEF ConcatsOf
  <2>3. x - 1 \in 0..n /\ x - 1 \notin Off /\ x \in 1..n
    BY <1>1, <2>1, <2>2
  <2>4. c[x] = c[x - 1] \o ss[x] /\ f[x] = f[x - 1] \o ss[x]
    BY <1>3, <2>2, <2>3 DEF ConcatsOf
  <2> QED BY <2>1, <2>3, <2>4
<1>5. c[n] = f[n]
  BY <1>1, <1>4
<1>6. Concat(ss) = c[n]
  BY DEF Concat, c
<1> QED BY <1>5, <1>6

\* And they exist.
LEMMA ConcatUpTo ==
    ASSUME NEW S, NEW ss \in Seq(Seq(S))
    PROVE  \E f \in [0..Len(ss) -> Seq(S)] : ConcatsOf(ss, f, Len(ss)) /\ Concat(ss) = f[Len(ss)]
<1> DEFINE n == Len(ss)
           Bad == {k \in 0..n : ~ HasConcats(S, ss, k)}
<1>1. n \in Nat /\ \A i \in 1..n : ss[i] \in Seq(S)
  BY LenProperties
<1>2. ASSUME Bad # {} PROVE FALSE
  <2>1. PICK x \in Bad : \A y \in Bad : x <= y
    <3>1. Bad \subseteq Nat
      BY <1>1
    <3> HIDE DEF Bad
    <3> QED BY <1>2, <3>1, LeastNatural
  <2>2. CASE x = 0
    <3> DEFINE z == [i \in 0..0 |-> <<>>]
    <3>1. z \in [0..0 -> Seq(S)] /\ ConcatsOf(ss, z, 0)
      BY EmptySeq DEF ConcatsOf
    <3> QED BY <2>1, <2>2, <3>1 DEF HasConcats
  <2>3. CASE x # 0
    <3>1. x \in 1..n /\ x - 1 \in 0..n /\ x - 1 \notin Bad
      BY <1>1, <2>1, <2>3
    <3>2. PICK f \in [0..x - 1 -> Seq(S)] : ConcatsOf(ss, f, x - 1)
      BY <3>1 DEF HasConcats
    <3> DEFINE g == [i \in 0..x |-> IF i = x THEN f[x - 1] \o ss[x] ELSE f[i]]
    <3>3. f[x - 1] \o ss[x] \in Seq(S)
      BY <1>1, <3>1, <3>2, ConcatProperties
    <3>4. g \in [0..x -> Seq(S)] /\ g[0] = <<>>
      BY SMTT(20), <1>1, <3>1, <3>2, <3>3 DEF ConcatsOf
    <3>5. \A i \in 1..x : g[i] = g[i - 1] \o ss[i]
      <4> SUFFICES ASSUME NEW i \in 1..x PROVE g[i] = g[i - 1] \o ss[i]
        OBVIOUS
      <4>1. g[i - 1] = f[i - 1]
        BY <1>1, <3>1
      <4>2. g[i] = IF i = x THEN f[x - 1] \o ss[x] ELSE f[i]
        BY <1>1, <3>1
      <4>3. CASE i = x
        BY <4>1, <4>2, <4>3
      <4>4. CASE i # x
        <5>1. i \in 1..(x - 1)
          BY <1>1, <3>1, <4>4
        <5>2. f[i] = f[i - 1] \o ss[i]
          BY <3>2, <5>1 DEF ConcatsOf
        <5> QED BY <4>1, <4>2, <4>4, <5>2
      <4> QED BY <4>3, <4>4
    <3>6. HasConcats(S, ss, x)
      BY <3>4, <3>5 DEF HasConcats, ConcatsOf
    <3> QED BY <2>1, <3>6
  <2> QED BY <2>2, <2>3
<1>3. PICK f \in [0..n -> Seq(S)] : ConcatsOf(ss, f, n)
  BY <1>1, <1>2 DEF HasConcats
<1> QED BY <1>3, ConcatIsLast

\* What a concatenation has.
LEMMA ConcatElement ==
    ASSUME NEW S, NEW ss \in Seq(Seq(S))
    PROVE  /\ Concat(ss) \in Seq(S)
           /\ \A k \in 1..Len(Concat(ss)) :
                 \E i \in 1..Len(ss) : \E j \in 1..Len(ss[i]) : Concat(ss)[k] = ss[i][j]
<1> DEFINE E == {e \in S : \E i \in 1..Len(ss) : \E j \in 1..Len(ss[i]) : e = ss[i][j]}
<1>1. Concat(ss) \in Seq(S)
  <2>1. PICK f \in [0..Len(ss) -> Seq(S)] : Concat(ss) = f[Len(ss)]
    BY ConcatUpTo
  <2> QED BY <2>1, LenProperties
<1>2. ASSUME NEW i \in 1..Len(ss) PROVE ss[i] \in Seq(E)
  <2>1. ss[i] \in Seq(S)
    BY ElementOfSeq
  <2>2. \A j \in 1..Len(ss[i]) : ss[i][j] \in E
    BY <2>1, ElementOfSeq
  <2> HIDE DEF E
  <2> DEFINE q == [j \in 1..Len(ss[i]) |-> ss[i][j]]
  <2>3. Len(ss[i]) \in Nat /\ ss[i] = q
    BY <2>1, LenProperties
  <2>4. q \in Seq(E)
    BY <2>2, <2>3, IsASeq
  <2> QED BY <2>3, <2>4
<1>3. ss \in Seq(Seq(E))
  <2> HIDE DEF E
  <2>1. Len(ss) \in Nat /\ ss = [i \in 1..Len(ss) |-> ss[i]]
    BY LenProperties
  <2> QED BY <1>2, <2>1, IsASeq
<1>4. Concat(ss) \in Seq(E)
  <2> HIDE DEF E
  <2>1. PICK f \in [0..Len(ss) -> Seq(E)] : Concat(ss) = f[Len(ss)]
    BY <1>3, ConcatUpTo
  <2> QED BY <2>1, LenProperties
<1>5. \A k \in 1..Len(Concat(ss)) : Concat(ss)[k] \in E
  <2> HIDE DEF E
  <2> QED BY <1>4, ElementOfSeq
<1> QED BY <1>1, <1>5

\* A sequence more, at the end.
LEMMA ConcatAppend ==
    ASSUME NEW S, NEW ss \in Seq(Seq(S)), NEW t \in Seq(S)
    PROVE  Concat(Append(ss, t)) = Concat(ss) \o t
<1> DEFINE n == Len(ss)
           more == Append(ss, t)
<1>1. /\ n \in Nat /\ more \in Seq(Seq(S)) /\ Len(more) = n + 1
      /\ more[n + 1] = t /\ \A i \in 1..n : more[i] = ss[i]
  BY LenProperties, AppendProperties
<1>2. PICK f \in [0..n -> Seq(S)] : ConcatsOf(ss, f, n) /\ Concat(ss) = f[n]
  BY ConcatUpTo
<1> DEFINE g == [i \in 0..n + 1 |-> IF i = n + 1 THEN f[n] \o t ELSE f[i]]
<1>3. f[n] \o t \in Seq(S)
  BY <1>1, <1>2, ConcatProperties
<1>4. g \in [0..Len(more) -> Seq(S)] /\ g[0] = <<>> /\ g[n + 1] = f[n] \o t
  BY <1>1, <1>2, <1>3 DEF ConcatsOf
<1>5. ASSUME NEW i \in 1..n + 1 PROVE g[i] = g[i - 1] \o more[i]
  <2>1. g[i - 1] = f[i - 1]
    BY <1>1
  <2>2. CASE i = n + 1
    <3>1. i - 1 = n
      BY <1>1, <2>2
    <3>2. g[i - 1] = f[n]
      BY <2>1, <3>1
    <3> HIDE DEF g, more
    <3> QED BY <1>1, <1>4, <2>2, <3>2
  <2>3. CASE i # n + 1
    <3>1. i \in 1..n /\ g[i] = f[i] /\ more[i] = ss[i]
      BY <1>1, <2>3
    <3>2. f[i] = f[i - 1] \o ss[i]
      BY <1>2, <3>1 DEF ConcatsOf
    <3> QED BY <2>1, <3>1, <3>2
  <2> QED BY <2>2, <2>3
<1> HIDE DEF g, more
<1>6. ConcatsOf(more, g, Len(more))
  BY <1>1, <1>4, <1>5 DEF ConcatsOf
<1>7. Concat(more) = g[Len(more)]
  BY <1>1, <1>4, <1>6, ConcatIsLast
<1> QED BY <1>1, <1>2, <1>4, <1>7 DEF more

LEMMA ConcatSmall ==
    /\ Concat(<<>>) = <<>>
    /\ \A S : \A t \in Seq(S) : Concat(<<t>>) = t
<1>1. Concat(<<>>) = <<>>
  <2>1. <<>> \in Seq(Seq({})) /\ Len(<<>>) = 0
    BY EmptySeq
  <2>2. PICK f \in [0..0 -> Seq({})] : ConcatsOf(<<>>, f, 0) /\ Concat(<<>>) = f[0]
    BY <2>1, ConcatUpTo
  <2> QED BY <2>2 DEF ConcatsOf
<1>2. ASSUME NEW S, NEW t \in Seq(S) PROVE Concat(<<t>>) = t
  <2>1. <<>> \in Seq(Seq(S)) /\ <<t>> = Append(<<>>, t)
    BY EmptySeq
  <2>2. Concat(<<t>>) = <<>> \o t
    BY <1>1, <2>1, ConcatAppend
  <2> QED BY <2>2, ConcatEmptySeq
<1> QED BY <1>1, <1>2

\* r has what s has at the places of K up to k: pos says at which of them.
Fills(s, K, r, k, pos) ==
    /\ \A a, b \in 1..Len(r) : pos[a] = pos[b] => a = b
    /\ \A i \in K : i <= k => \E a \in 1..Len(r) : pos[a] = i
    /\ \A a \in 1..Len(r) : pos[a] <= k /\ r[a] = s[pos[a]]
Filled(s, K, r, k) == \E pos \in [1..Len(r) -> K] : Fills(s, K, r, k, pos)

\* One place more.
LEMMA FillsOneMore ==
    ASSUME NEW S, NEW s \in Seq(S), NEW K \in SUBSET (1..Len(s)), NEW r \in Seq(S),
           NEW x \in K, Filled(s, K, r, x - 1)
    PROVE  Filled(s, K, Append(r, s[x]), x)
<1> DEFINE m == Len(r)
           t == Append(r, s[x])
<1>1. /\ m \in Nat /\ Len(t) = m + 1 /\ t[m + 1] = s[x] /\ \A a \in 1..m : t[a] = r[a]
      /\ x \in Nat /\ K \subseteq Nat
  BY LenProperties, AppendProperties, ElementOfSeq
<1>2. PICK pos \in [1..m -> K] : Fills(s, K, r, x - 1, pos)
  BY DEF Filled
<1> DEFINE more == [a \in 1..m + 1 |-> IF a = m + 1 THEN x ELSE pos[a]]
<1> HIDE DEF m, t
<1>3. /\ \A a \in 1..m + 1 : a = m + 1 \/ a \in 1..m
      /\ \A a \in 1..m : a \in 1..m + 1 /\ a # m + 1
      /\ m + 1 \in 1..m + 1
  BY <1>1
<1>4. \A a \in 1..m : pos[a] \in K /\ pos[a] <= x - 1 /\ r[a] = s[pos[a]]
  BY <1>2 DEF Fills, m
<1>5. \A a \in 1..m : pos[a] # x /\ pos[a] <= x
  <2>1. \A i \in K : i <= x - 1 => i # x /\ i <= x
    BY <1>1
  <2> QED BY <1>4, <2>1
<1>6. more[m + 1] = x /\ \A a \in 1..m : more[a] = pos[a]
  BY <1>3
<1>7. more \in [1..m + 1 -> K]
  BY <1>3, <1>4
<1> HIDE DEF more
<1>8. \A a, b \in 1..m + 1 : more[a] = more[b] => a = b
  BY <1>2, <1>3, <1>5, <1>6 DEF Fills, m
<1>9. \A i \in K : i <= x => \E a \in 1..m + 1 : more[a] = i
  <2> SUFFICES ASSUME NEW i \in K, i <= x PROVE \E a \in 1..m + 1 : more[a] = i
    OBVIOUS
  <2>1. CASE i = x
    BY <1>3, <1>6, <2>1
  <2>2. CASE i # x
    <3>1. i <= x - 1
      BY <1>1, <2>2
    <3>2. PICK a \in 1..m : pos[a] = i
      BY <1>2, <3>1 DEF Fills, m
    <3> QED BY <1>3, <1>6, <3>2
  <2> QED BY <2>1, <2>2
<1>10. \A a \in 1..m + 1 : more[a] <= x /\ t[a] = s[more[a]]
  BY <1>1, <1>3, <1>4, <1>5, <1>6
<1>11. Fills(s, K, t, x, more)
  BY <1>1, <1>8, <1>9, <1>10 DEF Fills
<1> QED BY <1>1, <1>7, <1>11 DEF Filled, t

\* A place that is not kept.
LEMMA FillsNoMore ==
    ASSUME NEW s, NEW K \in SUBSET Nat, NEW r, NEW x \in Nat, x \notin K,
           Filled(s, K, r, x - 1)
    PROVE  Filled(s, K, r, x)
<1>1. PICK pos \in [1..Len(r) -> K] : Fills(s, K, r, x - 1, pos)
  BY DEF Filled
<1>2. \A i \in K : /\ i <= x - 1 => i <= x
                  /\ i <= x => i <= x - 1
  OBVIOUS
<1>3. \A a \in 1..Len(r) : pos[a] \in K
  OBVIOUS
<1>4. \A a, b \in 1..Len(r) : pos[a] = pos[b] => a = b
  BY <1>1 DEF Fills
<1>5. \A i \in K : i <= x => \E a \in 1..Len(r) : pos[a] = i
  BY <1>1, <1>2 DEF Fills
<1>6. \A a \in 1..Len(r) : pos[a] <= x /\ r[a] = s[pos[a]]
  <2> SUFFICES ASSUME NEW a \in 1..Len(r) PROVE pos[a] <= x /\ r[a] = s[pos[a]]
    OBVIOUS
  <2>1. pos[a] <= x - 1 /\ r[a] = s[pos[a]]
    BY <1>1 DEF Fills
  <2>2. pos[a] \in Nat
    BY <1>3
  <2>3. pos[a] <= x
    BY <2>1, <2>2
  <2> QED BY <2>1, <2>3
<1>7. Fills(s, K, r, x, pos)
  BY <1>4, <1>5, <1>6 DEF Fills
<1> QED BY <1>7 DEF Filled

\* What is kept of a sequence: each of the places once, and nothing else.
LEMMA KeptPlaces ==
    ASSUME NEW S, NEW s \in Seq(S), NEW K \in SUBSET (1..Len(s))
    PROVE  /\ Kept(s, K) \in Seq(S)
           /\ Filled(s, K, Kept(s, K), Len(s))
<1> DEFINE n == Len(s)
           ss == [i \in 1..n |-> IF i \in K THEN <<s[i]>> ELSE <<>>]
<1>1. n \in Nat /\ DOMAIN s = 1..n /\ \A i \in 1..n : s[i] \in S /\ <<s[i]>> \in Seq(S)
  BY LenProperties
<1>2. ss \in Seq(Seq(S)) /\ Len(ss) = n
  <2>1. \A i \in 1..n : ss[i] \in Seq(S)
    BY <1>1, EmptySeq
  <2> QED BY <1>1, <2>1, IsASeq
<1>3. Kept(s, K) = Concat(ss)
  BY <1>1 DEF Kept
<1>4. PICK f \in [0..n -> Seq(S)] : ConcatsOf(ss, f, n) /\ Concat(ss) = f[n]
  BY <1>2, ConcatUpTo
<1> DEFINE Bad == {k \in 0..n : ~ Filled(s, K, f[k], k)}
<1>5. Filled(s, K, f[0], 0)
  <2>1. f[0] = <<>> /\ Len(f[0]) = 0
    BY <1>4 DEF ConcatsOf
  <2> DEFINE pos == [a \in {} |-> 0]
  <2>2. 1..Len(f[0]) = {} /\ pos \in [1..Len(f[0]) -> K]
    BY <2>1
  <2>3. \A i \in K : ~ (i <= 0)
    BY <1>1
  <2>4. Fills(s, K, f[0], 0, pos)
    BY <2>2, <2>3 DEF Fills
  <2> QED BY <2>2, <2>4 DEF Filled
<1>6. ASSUME NEW x \in 1..n, Filled(s, K, f[x - 1], x - 1) PROVE Filled(s, K, f[x], x)
  <2> DEFINE r == f[x - 1]
  <2>1. /\ x - 1 \in 0..n /\ r \in Seq(S) /\ x \in Nat
        /\ \A i \in K : i \in Nat
    BY <1>1, <1>4
  <2>2. f[x] = r \o ss[x]
    BY <1>4 DEF ConcatsOf
  <2>3. CASE x \notin K
    <3>1. f[x] = r
      BY <2>1, <2>2, <2>3, ConcatEmptySeq
    <3> QED BY <1>1, <1>6, <2>1, <2>3, <3>1, FillsNoMore
  <2>4. CASE x \in K
    <3>1. f[x] = Append(r, s[x])
      BY <1>1, <2>1, <2>2, <2>4, AppendIsConcat
    <3> QED BY <1>6, <2>1, <2>4, <3>1, FillsOneMore
  <2> QED BY <2>3, <2>4
<1>7. ASSUME Bad # {} PROVE FALSE
  <2>1. PICK x \in Bad : \A y \in Bad : x <= y
    <3>1. Bad \subseteq Nat
      BY <1>1
    <3> HIDE DEF Bad
    <3> QED BY <1>7, <3>1, LeastNatural
  <2>2. x \in 1..n
    BY <1>1, <1>5, <2>1
  <2>3. x - 1 \in 0..n /\ x - 1 \notin Bad
    BY <1>1, <2>1, <2>2
  <2> QED BY <1>6, <2>1, <2>2, <2>3
<1>8. Filled(s, K, f[n], n)
  BY <1>1, <1>7
<1> QED BY <1>1, <1>3, <1>4, <1>8

-----------------------------------------------------------------------------
(* The repair.                                                             *)

\* The blocks of the two sides.
LEMMA Blocks ==
    /\ \A b \in UserBlock : /\ b.kind \in {"text", "result"} /\ b.big \in BOOLEAN
                            /\ b.kind = "result" => b.id \in Id
    /\ \A b \in AnswerBlock : /\ b.kind \in {"text", "use"} /\ b.big \in BOOLEAN
                              /\ b.kind = "use" => b.id \in Id
    /\ Text \in UserBlock /\ Text \in AnswerBlock
    /\ \A i \in Id, big \in BOOLEAN : Result(i, big) \in UserBlock
    /\ \A i \in Id : Use(i) \in AnswerBlock
<1>1. \A b \in UserBlock : /\ b.kind \in {"text", "result"} /\ b.big \in BOOLEAN
                           /\ b.kind = "result" => b.id \in Id
  <2> SUFFICES ASSUME NEW b \in UserBlock
               PROVE  /\ b.kind \in {"text", "result"} /\ b.big \in BOOLEAN
                      /\ b.kind = "result" => b.id \in Id
    OBVIOUS
  <2>1. CASE b = Text
    BY <2>1 DEF Text
  <2>2. CASE b # Text
    <3>1. PICK i \in Id, big \in BOOLEAN : b = Result(i, big)
      BY <2>2 DEF UserBlock
    <3> QED BY <3>1 DEF Result
  <2> QED BY <2>1, <2>2
<1>2. \A b \in AnswerBlock : /\ b.kind \in {"text", "use"} /\ b.big \in BOOLEAN
                             /\ b.kind = "use" => b.id \in Id
  <2> SUFFICES ASSUME NEW b \in AnswerBlock
               PROVE  /\ b.kind \in {"text", "use"} /\ b.big \in BOOLEAN
                      /\ b.kind = "use" => b.id \in Id
    OBVIOUS
  <2>1. CASE b = Text
    BY <2>1 DEF Text
  <2>2. CASE b # Text
    <3>1. PICK i \in Id : b = Use(i)
      BY <2>2 DEF AnswerBlock
    <3> QED BY <3>1 DEF Use
  <2> QED BY <2>1, <2>2
<1>3. /\ Text \in UserBlock /\ Text \in AnswerBlock
      /\ \A i \in Id, big \in BOOLEAN : Result(i, big) \in UserBlock
      /\ \A i \in Id : Use(i) \in AnswerBlock
  BY DEF UserBlock, AnswerBlock
<1> QED BY <1>1, <1>2, <1>3

\* A message of either side.
LEMMA Sides ==
    /\ \A given \in Seq(UserBlock) :
          User(given) \in ChatMessage /\ User(given).role = "user" /\ User(given).blocks = given
    /\ \A given \in Seq(AnswerBlock) : Assistant(given) \in ChatMessage
    /\ \A m \in ChatMessage :
          /\ m.role = "user" => m.blocks \in Seq(UserBlock) /\ m = User(m.blocks)
          /\ m.role # "user" => m.role = "assistant" /\ m.blocks \in Seq(AnswerBlock)
  BY DEF ChatMessage, User, Assistant

\* The places of a block among those that are kept.
LEMMA AtKept ==
    ASSUME NEW S, NEW s \in Seq(S), NEW K \in SUBSET (1..Len(s)), NEW kind, NEW i
    PROVE  LET at == At(User(Kept(s, K)), kind, i)
               from == {k \in K : s[k].kind = kind /\ s[k].id = i}
           IN  /\ at # {} <=> from # {}
               /\ (\A p, q \in from : p = q) => \A a, b \in at : a = b
<1> DEFINE r == Kept(s, K)
           at == At(User(r), kind, i)
           from == {k \in K : s[k].kind = kind /\ s[k].id = i}
<1>1. r \in Seq(S) /\ Filled(s, K, r, Len(s))
  BY KeptPlaces
<1>2. PICK pos \in [1..Len(r) -> K] : Fills(s, K, r, Len(s), pos)
  BY <1>1 DEF Filled
<1> HIDE DEF r
<1>3. at = {a \in 1..Len(r) : r[a].kind = kind /\ r[a].id = i}
  BY <1>1, LenProperties DEF At, User
<1>4. \A a \in at : pos[a] \in from
  BY <1>2, <1>3 DEF Fills
<1>5. \A k \in from : \E a \in at : pos[a] = k
  <2> SUFFICES ASSUME NEW k \in from PROVE \E a \in at : pos[a] = k
    OBVIOUS
  <2>1. k \in K /\ k <= Len(s)
    BY LenProperties
  <2>2. PICK a \in 1..Len(r) : pos[a] = k
    BY <1>2, <2>1 DEF Fills
  <2>3. r[a] = s[k]
    BY <1>2, <2>2 DEF Fills
  <2> QED BY <1>3, <2>2, <2>3
<1>6. \A a, b \in at : pos[a] = pos[b] => a = b
  BY <1>2, <1>3 DEF Fills
<1> HIDE DEF at, from
<1>7. /\ at # {} <=> from # {}
      /\ (\A p, q \in from : p = q) => \A a, b \in at : a = b
  BY <1>4, <1>5, <1>6
<1> QED BY <1>7 DEF at, from, r

\* The places of a block in one message after another.
LEMMA AtJoined ==
    ASSUME NEW S, NEW r \in Seq(S), NEW t \in Seq(S), NEW kind, NEW i
    PROVE  At(User(r \o t), kind, i) =
              At(User(r), kind, i) \cup {Len(r) + j : j \in At(User(t), kind, i)}
<1>1. /\ Len(r) \in Nat /\ Len(t) \in Nat /\ DOMAIN r = 1..Len(r) /\ DOMAIN t = 1..Len(t)
      /\ DOMAIN (r \o t) = 1..Len(r) + Len(t)
      /\ \A a \in 1..Len(r) : (r \o t)[a] = r[a]
      /\ \A j \in 1..Len(t) : (r \o t)[Len(r) + j] = t[j]
  <2>1. /\ r \o t \in Seq(S) /\ Len(r \o t) = Len(r) + Len(t)
        /\ \A a \in 1..Len(r) + Len(t) :
              (r \o t)[a] = IF a <= Len(r) THEN r[a] ELSE t[a - Len(r)]
    BY ConcatProperties
  <2>2. Len(r) \in Nat /\ Len(t) \in Nat /\ DOMAIN r = 1..Len(r) /\ DOMAIN t = 1..Len(t)
    BY LenProperties
  <2>3. DOMAIN (r \o t) = 1..Len(r) + Len(t)
    BY <2>1, LenProperties
  <2>4. \A a \in 1..Len(r) : (r \o t)[a] = r[a]
    BY <2>1, <2>2
  <2>5. \A j \in 1..Len(t) : (r \o t)[Len(r) + j] = t[j]
    BY <2>1, <2>2
  <2> QED BY <2>2, <2>3, <2>4, <2>5
<1>2. \A a \in 1..Len(r) + Len(t) : a \in 1..Len(r) \/ \E j \in 1..Len(t) : a = Len(r) + j
  <2> SUFFICES ASSUME NEW a \in 1..Len(r) + Len(t), a \notin 1..Len(r)
               PROVE  \E j \in 1..Len(t) : a = Len(r) + j
    OBVIOUS
  <2>1. a - Len(r) \in 1..Len(t) /\ a = Len(r) + (a - Len(r))
    BY <1>1
  <2> QED BY <2>1
<1>3. \A j \in 1..Len(t) : Len(r) + j \in 1..Len(r) + Len(t)
  BY <1>1
<1>4. \A a \in 1..Len(r) : a \in 1..Len(r) + Len(t)
  BY <1>1
<1> DEFINE all == r \o t
           has(b) == b.kind = kind /\ b.id = i
<1> HIDE DEF has
<1>5. /\ At(User(all), kind, i) = {a \in 1..Len(r) + Len(t) : has(all[a])}
      /\ At(User(r), kind, i) = {a \in 1..Len(r) : has(r[a])}
      /\ At(User(t), kind, i) = {j \in 1..Len(t) : has(t[j])}
  BY <1>1 DEF At, User, has
<1>6. \A a \in 1..Len(r) : all[a] = r[a]
  BY <1>1
<1>7. \A j \in 1..Len(t) : all[Len(r) + j] = t[j]
  BY <1>1
<1> HIDE DEF all
<1>8. At(User(all), kind, i) \subseteq
         At(User(r), kind, i) \cup {Len(r) + j : j \in At(User(t), kind, i)}
  <2> SUFFICES ASSUME NEW a \in 1..Len(r) + Len(t), has(all[a]), a \notin At(User(r), kind, i)
               PROVE  \E j \in At(User(t), kind, i) : a = Len(r) + j
    BY <1>5
  <2>1. PICK j \in 1..Len(t) : a = Len(r) + j
    BY <1>2, <1>5, <1>6
  <2> QED BY <1>5, <1>7, <2>1
<1>9. At(User(r), kind, i) \subseteq At(User(all), kind, i)
  BY <1>4, <1>5, <1>6
<1>10. {Len(r) + j : j \in At(User(t), kind, i)} \subseteq At(User(all), kind, i)
  BY <1>3, <1>5, <1>7
<1> QED BY <1>8, <1>9, <1>10 DEF all

\* A message with one result for each of the calls, and for no other.
Settles(m, ids) ==
    /\ m \in ChatMessage /\ m.role = "user"
    /\ \A i \in Id : /\ At(m, "result", i) # {} <=> i \in ids
                     /\ \A a, b \in At(m, "result", i) : a = b

LEMMA MissingSettles ==
    ASSUME NEW ids \in SUBSET Id
    PROVE  Missing(ids) \in Seq(UserBlock) /\ Settles(User(Missing(ids)), ids)
<1> DEFINE s == [i \in Id |-> Result(i, FALSE)]
<1>1. MaxId \in Nat /\ Id = 1..MaxId
  BY RunAssumption DEF Id
<1>2. \A i \in 1..MaxId : Result(i, FALSE) \in UserBlock
  BY <1>1, Blocks
<1>3. s \in Seq(UserBlock) /\ Len(s) = MaxId
  <2>1. s = [i \in 1..MaxId |-> Result(i, FALSE)]
    BY <1>1
  <2> DEFINE z == [i \in 1..MaxId |-> Result(i, FALSE)]
  <2>2. DOMAIN z = 1..MaxId /\ \A i \in 1..MaxId : z[i] \in UserBlock
    BY <1>2
  <2> HIDE DEF z
  <2>3. z = [i \in 1..MaxId |-> z[i]]
    BY <2>2 DEF z
  <2>4. z \in Seq(UserBlock) /\ Len(z) = MaxId
    BY <1>1, <2>2, <2>3, IsASeq
  <2> QED BY <2>1, <2>4 DEF z
<1>4. \A i \in Id : s[i].kind = "result" /\ s[i].id = i
  BY DEF Result
<1> HIDE DEF s
<1>5. Kept(s, ids) = Missing(ids)
  BY DEF Missing, s
<1>6. Kept(s, ids) \in Seq(UserBlock)
  BY <1>1, <1>3, KeptPlaces
<1>7. ASSUME NEW i \in Id
      PROVE  /\ At(User(Missing(ids)), "result", i) # {} <=> i \in ids
             /\ \A a, b \in At(User(Missing(ids)), "result", i) : a = b
  <2> DEFINE from == {k \in ids : s[k].kind = "result" /\ s[k].id = i}
  <2>1. from = {k \in ids : k = i}
    BY <1>4
  <2>2. (from # {} <=> i \in ids) /\ \A p, q \in from : p = q
    BY <2>1
  <2>3. /\ At(User(Kept(s, ids)), "result", i) # {} <=> from # {}
        /\ (\A p, q \in from : p = q) => \A a, b \in At(User(Kept(s, ids)), "result", i) : a = b
    BY <1>1, <1>3, AtKept
  <2> HIDE DEF from
  <2> QED BY <1>5, <2>2, <2>3
<1> QED BY <1>5, <1>6, <1>7, Sides DEF Settles

\* Of the results of a message stays the first for each pending call.
LEMMA KeepResultsHas ==
    ASSUME NEW given \in Seq(UserBlock), NEW pending \in SUBSET Id
    PROVE  LET kept == KeepResults(given, pending)
           IN  /\ kept \in Seq(UserBlock)
               /\ \A i \in Id : At(User(kept), "result", i) # {} => i \in pending
               /\ \A i \in Id : \A a, b \in At(User(kept), "result", i) : a = b
<1> DEFINE first(j) == \A k \in 1..(j - 1) :
                          given[k].kind = "result" => given[k].id # given[j].id
           stays(j) == given[j].kind = "result" => given[j].id \in pending /\ first(j)
           K == {j \in DOMAIN given : stays(j)}
           kept == Kept(given, K)
<1>1. kept = KeepResults(given, pending)
  BY DEF KeepResults
<1>2. DOMAIN given = 1..Len(given) /\ Len(given) \in Nat /\ K \in SUBSET (1..Len(given))
  BY LenProperties
<1>3. kept \in Seq(UserBlock)
  <2> HIDE DEF K
  <2> QED BY <1>2, KeptPlaces
<1>4. ASSUME NEW i \in Id
      PROVE  /\ At(User(kept), "result", i) # {} => i \in pending
             /\ \A a, b \in At(User(kept), "result", i) : a = b
  <2> DEFINE from == {k \in K : given[k].kind = "result" /\ given[k].id = i}
  <2>1. \A p \in from : i \in pending /\ p \in 1..Len(given) /\ first(p)
    BY <1>2
  <2>2. \A p, q \in from : ~ (p < q)
    <3> SUFFICES ASSUME NEW p \in from, NEW q \in from, p < q PROVE FALSE
      OBVIOUS
    <3>1. p \in 1..(q - 1)
      BY <1>2, <2>1
    <3>2. first(q)
      BY <2>1
    <3> QED BY <3>1, <3>2
  <2>3. \A p, q \in from : p = q
    <3> SUFFICES ASSUME NEW p \in from, NEW q \in from PROVE p = q
      OBVIOUS
    <3>1. p \in Nat /\ q \in Nat
      BY <1>2, <2>1
    <3>2. ~ (p < q) /\ ~ (q < p)
      BY <2>2
    <3> QED BY <3>1, <3>2
  <2>4. from # {} => i \in pending
    BY <2>1
  <2> HIDE DEF K
  <2>5. /\ At(User(kept), "result", i) # {} <=> from # {}
        /\ (\A p, q \in from : p = q) => \A a, b \in At(User(kept), "result", i) : a = b
    BY <1>2, AtKept
  <2> HIDE DEF from, kept
  <2> QED BY <2>3, <2>4, <2>5
<1> HIDE DEF kept
<1> QED BY <1>1, <1>3, <1>4

\* What a user message becomes.
LEMMA RepairSettles ==
    ASSUME NEW given \in Seq(UserBlock), NEW pending \in SUBSET Id
    PROVE  LET answered == KeepResults(given, pending)
               missing == pending \ IdsOf(User(answered), "result")
           IN  Settles(User(answered \o Missing(missing)), pending)
<1> DEFINE answered == KeepResults(given, pending)
           missing == pending \ IdsOf(User(answered), "result")
           m == User(answered \o Missing(missing))
<1>1. /\ answered \in Seq(UserBlock)
      /\ \A i \in Id : At(User(answered), "result", i) # {} => i \in pending
      /\ \A i \in Id : \A a, b \in At(User(answered), "result", i) : a = b
  BY KeepResultsHas
<1> HIDE DEF answered
<1>2. missing \in SUBSET Id
  OBVIOUS
<1>3. Missing(missing) \in Seq(UserBlock) /\ Settles(User(Missing(missing)), missing)
  BY <1>2, MissingSettles
<1>4. answered \o Missing(missing) \in Seq(UserBlock)
  BY <1>1, <1>3, ConcatProperties
<1>5. ASSUME NEW i \in Id
      PROVE  /\ At(m, "result", i) # {} <=> i \in pending
             /\ \A a, b \in At(m, "result", i) : a = b
  <2> HIDE DEF missing
  <2> DEFINE A == At(User(answered), "result", i)
             B == At(User(Missing(missing)), "result", i)
  <2>1. At(m, "result", i) = A \cup {Len(answered) + j : j \in B}
    BY <1>1, <1>3, AtJoined
  <2>2. i \in missing <=> i \in pending /\ A = {}
    BY DEF IdsOf, missing
  <2>3. (A # {} => i \in pending) /\ \A a, b \in A : a = b
    BY <1>1
  <2>4. (B # {} <=> i \in missing) /\ \A a, b \in B : a = b
    BY <1>3 DEF Settles
  <2> HIDE DEF A, B, m
  <2> QED BY <2>1, <2>2, <2>3, <2>4
<1> HIDE DEF missing
<1>6. m \in ChatMessage /\ m.role = "user"
  BY <1>4, Sides
<1>7. Settles(m, pending)
  BY <1>5, <1>6 DEF Settles
<1> QED BY <1>7 DEF answered, missing

\* The places in a conversation, message by message.
LEMMA PlacesAre ==
    ASSUME NEW ms, NEW kind, NEW i
    PROVE  /\ \A p \in Places(ms, kind, i) :
                 \E n \in DOMAIN ms : \E a \in At(ms[n], kind, i) : p = <<n, a>>
           /\ \A n \in DOMAIN ms : \A a \in At(ms[n], kind, i) : <<n, a>> \in Places(ms, kind, i)
  BY DEF Places

\* The model has repeated no id.
UsedApart(ms) ==
    \A i \in Id : \A n, l \in DOMAIN ms :
        \A a \in At(ms[n], "use", i), b \in At(ms[l], "use", i) : n = l /\ a = b

LEMMA OnceIsApart ==
    ASSUME NEW ms
    PROVE  UsedOnce(ms) <=> UsedApart(ms)
<1>1. ASSUME UsedOnce(ms) PROVE UsedApart(ms)
  <2> SUFFICES ASSUME NEW i \in Id, NEW n \in DOMAIN ms, NEW l \in DOMAIN ms,
                      NEW a \in At(ms[n], "use", i), NEW b \in At(ms[l], "use", i)
               PROVE  n = l /\ a = b
    BY DEF UsedApart
  <2>1. <<n, a>> \in Places(ms, "use", i) /\ <<l, b>> \in Places(ms, "use", i)
    BY PlacesAre
  <2>2. <<n, a>> = <<l, b>>
    BY <1>1, <2>1 DEF UsedOnce
  <2> QED BY <2>2
<1>2. ASSUME UsedApart(ms) PROVE UsedOnce(ms)
  <2> SUFFICES ASSUME NEW i \in Id, NEW p \in Places(ms, "use", i), NEW q \in Places(ms, "use", i)
               PROVE  p = q
    BY DEF UsedOnce
  <2>1. PICK n \in DOMAIN ms : \E a \in At(ms[n], "use", i) : p = <<n, a>>
    BY PlacesAre
  <2>2. PICK a \in At(ms[n], "use", i) : p = <<n, a>>
    BY <2>1
  <2>3. PICK l \in DOMAIN ms : \E b \in At(ms[l], "use", i) : q = <<l, b>>
    BY PlacesAre
  <2>4. PICK b \in At(ms[l], "use", i) : q = <<l, b>>
    BY <2>3
  <2>5. n = l /\ a = b
    BY <1>2 DEF UsedApart
  <2> QED BY <2>2, <2>4, <2>5
<1> QED BY <1>1, <1>2

\* A user message uses no tool.
LEMMA UsersUseNothing ==
    ASSUME NEW m \in ChatMessage
    PROVE  /\ m.role = "user" => \A i : At(m, "use", i) = {}
           /\ m.role # "user" => \A i : At(m, "result", i) = {}
<1>1. CASE m.role = "user"
  <2>1. \A j \in DOMAIN m.blocks : m.blocks[j] \in UserBlock
    BY <1>1, Sides, ElementOfSeq, LenProperties
  <2> QED BY <1>1, <2>1, Blocks DEF At
<1>2. CASE m.role # "user"
  <2>1. \A j \in DOMAIN m.blocks : m.blocks[j] \in AnswerBlock
    BY <1>2, Sides, ElementOfSeq, LenProperties
  <2> QED BY <1>2, <2>1, Blocks DEF At
<1> QED BY <1>1, <1>2

\* A message more that uses what nothing before it used.
LEMMA AppendUsed ==
    ASSUME NEW ms \in Seq(ChatMessage), UsedApart(ms), NEW m \in ChatMessage,
           \A i \in Id : \A a, b \in At(m, "use", i) : a = b,
           \A i \in Id : At(m, "use", i) # {} => \A n \in DOMAIN ms : At(ms[n], "use", i) = {}
    PROVE  UsedApart(Append(ms, m))
<1> DEFINE more == Append(ms, m)
<1>1. /\ Len(ms) \in Nat /\ DOMAIN ms = 1..Len(ms) /\ DOMAIN more = 1..Len(ms) + 1
      /\ more[Len(ms) + 1] = m /\ \A n \in 1..Len(ms) : more[n] = ms[n]
  BY LenProperties, AppendProperties
<1>2. \A n \in DOMAIN more : n \in DOMAIN ms \/ n = Len(ms) + 1
  BY <1>1
<1> HIDE DEF more
<1> SUFFICES ASSUME NEW i \in Id, NEW n \in DOMAIN more, NEW l \in DOMAIN more,
                    NEW a \in At(more[n], "use", i), NEW b \in At(more[l], "use", i)
             PROVE  n = l /\ a = b
  BY DEF UsedApart, more
<1>3. CASE n \in DOMAIN ms /\ l \in DOMAIN ms
  BY <1>1, <1>3 DEF UsedApart
<1>4. CASE n \in DOMAIN ms /\ l = Len(ms) + 1
  BY <1>1, <1>4
<1>5. CASE n = Len(ms) + 1 /\ l \in DOMAIN ms
  BY <1>1, <1>5
<1>6. CASE n = Len(ms) + 1 /\ l = Len(ms) + 1
  BY <1>1, <1>6
<1> QED BY <1>2, <1>3, <1>4, <1>5, <1>6

\* The calls the last message leaves open; and pairs everywhere before it.
Open(ms) == Pending(ms, Len(ms) + 1)
Follows(m, next) ==
    LET uses == IF m.role = "assistant" THEN IdsOf(m, "use") ELSE {}
    IN /\ uses # {} => next.role = "user"
       /\ next.role = "user" => IdsOf(next, "result") = uses
       /\ \A i \in uses : Cardinality(At(next, "result", i)) = 1
PairedSoFar(ms) ==
    /\ \A i \in 1..Len(ms) - 1 : Follows(ms[i], ms[i + 1])
    /\ ms # <<>> /\ ms[1].role = "user" => IdsOf(ms[1], "result") = {}

\* Nothing left open: all of it is in pairs.
LEMMA PairedIsAll ==
    ASSUME NEW ms \in Seq(ChatMessage)
    PROVE  Paired(ms) <=> PairedSoFar(ms) /\ Open(ms) = {}
<1>1. Len(ms) \in Nat /\ DOMAIN ms = 1..Len(ms) /\ (ms # <<>> <=> Len(ms) > 0)
  BY LenProperties, EmptySeq
<1>2. User(<<>>).role = "user" /\ IdsOf(User(<<>>), "result") = {}
      /\ \A i : At(User(<<>>), "result", i) = {}
  BY DEF User, IdsOf, At
<1>3. Open(ms) = IF Len(ms) > 0 /\ ms[Len(ms)].role = "assistant"
                 THEN IdsOf(ms[Len(ms)], "use") ELSE {}
  BY <1>1 DEF Open, Pending
<1> DEFINE Pair(i) ==
        LET next == IF i = Len(ms) THEN User(<<>>) ELSE ms[i + 1]
            uses == IF ms[i].role = "assistant" THEN IdsOf(ms[i], "use") ELSE {}
        IN /\ uses # {} => next.role = "user"
           /\ next.role = "user" => IdsOf(next, "result") = uses
           /\ \A id \in uses : Cardinality(At(next, "result", id)) = 1
           /\ (i = 1 /\ ms[1].role = "user") => IdsOf(ms[1], "result") = {}
<1>4. Paired(ms) <=> \A i \in 1..Len(ms) : Pair(i)
  BY <1>1 DEF Paired
<1>0. Len(ms) \in Nat
  BY LenProperties
<1>5. \A i \in 1..Len(ms) : i = Len(ms) \/ i \in 1..Len(ms) - 1
  BY <1>0
<1>6. \A i \in 1..Len(ms) - 1 : i \in 1..Len(ms) /\ i # Len(ms)
  BY <1>0
<1>7. \A i \in 1..Len(ms) - 1 : Pair(i) <=>
         /\ Follows(ms[i], ms[i + 1])
         /\ (i = 1 /\ ms[1].role = "user") => IdsOf(ms[1], "result") = {}
  BY <1>6 DEF Follows
<1>8. Len(ms) > 0 => (Pair(Len(ms)) <=>
         /\ Open(ms) = {}
         /\ (Len(ms) = 1 /\ ms[1].role = "user") => IdsOf(ms[1], "result") = {})
  BY <1>2, <1>3
<1> HIDE DEF Pair
<1>9. Len(ms) > 0 => Len(ms) \in 1..Len(ms) /\ 1 \in 1..Len(ms)
  BY <1>1
<1>10. Len(ms) = 0 => Open(ms) = {} /\ 1..Len(ms) = {}  /\ 1..Len(ms) - 1 = {}
  BY <1>3
<1>11. Len(ms) > 0 => Len(ms) = 1 \/ 1 \in 1..Len(ms) - 1
  BY <1>1
<1>12. (\A i \in 1..Len(ms) : Pair(i)) => PairedSoFar(ms) /\ Open(ms) = {}
  BY <1>1, <1>6, <1>7, <1>8, <1>9, <1>10, <1>11 DEF PairedSoFar
<1>13. PairedSoFar(ms) /\ Open(ms) = {} => \A i \in 1..Len(ms) : Pair(i)
  BY <1>1, <1>5, <1>7, <1>8, <1>9, <1>10 DEF PairedSoFar
<1> QED BY <1>4, <1>12, <1>13

\* A message more that answers what is open.
LEMMA AppendPaired ==
    ASSUME NEW ms \in Seq(ChatMessage), PairedSoFar(ms), NEW m \in ChatMessage,
           IF m.role = "user" THEN Settles(m, Open(ms)) ELSE Open(ms) = {}
    PROVE  /\ PairedSoFar(Append(ms, m))
           /\ Open(Append(ms, m)) = IF m.role = "assistant" THEN IdsOf(m, "use") ELSE {}
<1> DEFINE more == Append(ms, m)
<1>1. /\ Len(ms) \in Nat /\ DOMAIN ms = 1..Len(ms) /\ more # <<>> /\ Len(more) = Len(ms) + 1
      /\ more[Len(ms) + 1] = m /\ \A n \in 1..Len(ms) : more[n] = ms[n]
      /\ (ms # <<>> <=> Len(ms) > 0)
  BY LenProperties, AppendProperties, EmptySeq
<1> HIDE DEF more
<1>2. Open(more) = IF m.role = "assistant" /\ Len(ms) + 2 > 1 THEN IdsOf(m, "use") ELSE {}
  BY <1>1 DEF Open, Pending
<1>3. Open(ms) = IF Len(ms) > 0 /\ ms[Len(ms)].role = "assistant"
                 THEN IdsOf(ms[Len(ms)], "use") ELSE {}
  BY <1>1 DEF Open, Pending
<1>4. m.role = "user" \/ m.role = "assistant"
  BY Sides
<1>5. \A i \in Open(ms) : i \in Id
  BY <1>3 DEF IdsOf
<1>6. m.role = "user" => IdsOf(m, "result") = Open(ms)
  BY <1>5 DEF Settles, IdsOf
<1>7. m.role = "user" => \A i \in Open(ms) : Cardinality(At(m, "result", i)) = 1
  <2> SUFFICES ASSUME m.role = "user", NEW i \in Open(ms)
               PROVE  Cardinality(At(m, "result", i)) = 1
    OBVIOUS
  <2>1. PICK a : a \in At(m, "result", i)
    BY <1>5 DEF Settles
  <2>2. At(m, "result", i) = {a}
    BY <1>5, <2>1 DEF Settles
  <2> QED BY <2>2, FS_Singleton
<1>8. Len(ms) > 0 => Follows(ms[Len(ms)], m)
  BY <1>3, <1>4, <1>6, <1>7 DEF Follows
<1>9. \A i \in 1..Len(more) - 1 : Follows(more[i], more[i + 1])
  <2> SUFFICES ASSUME NEW i \in 1..Len(ms) PROVE Follows(more[i], more[i + 1])
    BY <1>1
  <2>1. CASE i = Len(ms)
    BY <1>1, <1>8, <2>1
  <2>2. CASE i # Len(ms)
    <3>0. Len(ms) \in Nat
      BY LenProperties
    <3>1. i \in 1..Len(ms) - 1 /\ i + 1 \in 1..Len(ms)
      BY <2>2, <3>0
    <3> QED BY <1>1, <3>1 DEF PairedSoFar
  <2> QED BY <2>1, <2>2
<1>10. more[1].role = "user" => IdsOf(more[1], "result") = {}
  <2>1. CASE Len(ms) = 0
    BY <1>1, <1>3, <1>6, <2>1
  <2>2. CASE Len(ms) # 0
    <3>1. 1 \in 1..Len(ms)
      BY <1>1, <2>2
    <3> QED BY <1>1, <3>1 DEF PairedSoFar
  <2> QED BY <2>1, <2>2
<1>11. PairedSoFar(more)
  BY <1>9, <1>10 DEF PairedSoFar
<1> QED BY <1>1, <1>2, <1>11 DEF more

\* A conversation uses the tool i.
UsedIn(ms, i) == \E n \in DOMAIN ms : At(ms[n], "use", i) # {}

\* Results for what is open close it.
LEMMA AddResults ==
    ASSUME NEW r \in Seq(ChatMessage), PairedSoFar(r), UsedApart(r), NEW u, Settles(u, Open(r))
    PROVE  /\ Append(r, u) \in Seq(ChatMessage) /\ PairedSoFar(Append(r, u))
           /\ Open(Append(r, u)) = {} /\ UsedApart(Append(r, u))
           /\ \A i : UsedIn(Append(r, u), i) => UsedIn(r, i)
<1>1. u \in ChatMessage /\ u.role = "user" /\ u.role # "assistant"
  BY DEF Settles
<1>2. \A i : At(u, "use", i) = {}
  BY <1>1, UsersUseNothing
<1>3. /\ Append(r, u) \in Seq(ChatMessage) /\ DOMAIN r = 1..Len(r)
      /\ DOMAIN Append(r, u) = 1..Len(r) + 1 /\ Append(r, u)[Len(r) + 1] = u
      /\ \A n \in 1..Len(r) : Append(r, u)[n] = r[n]
  BY <1>1, LenProperties, AppendProperties
<1>0. Len(r) \in Nat
  BY LenProperties
<1>4. PairedSoFar(Append(r, u)) /\ Open(Append(r, u)) = {}
  BY <1>1, AppendPaired
<1>5. UsedApart(Append(r, u))
  BY <1>1, <1>2, AppendUsed
<1>6. \A n \in 1..Len(r) + 1 : n \in 1..Len(r) \/ n = Len(r) + 1
  BY <1>0
<1>7. \A i : UsedIn(Append(r, u), i) => UsedIn(r, i)
  BY <1>2, <1>3, <1>6 DEF UsedIn
<1> QED BY <1>3, <1>4, <1>5, <1>7

\* The first k messages have become r.
RepairedUpTo(ms, r, k) ==
    /\ r \in Seq(ChatMessage) /\ PairedSoFar(r) /\ UsedApart(r)
    /\ Open(r) = Pending(ms, k + 1)
    /\ \A i \in Id : UsedIn(r, i) => \E l \in 1..k : At(ms[l], "use", i) # {}

\* One message.
LEMMA RepairStep ==
    ASSUME NEW ms \in Seq(ChatMessage), UsedApart(ms), NEW k \in 1..Len(ms), NEW r,
           RepairedUpTo(ms, r, k - 1)
    PROVE  RepairedUpTo(ms, r \o RepairOne(ms, k), k)
<1> DEFINE m == ms[k]
           pending == Pending(ms, k)
<1>0. Len(ms) \in Nat /\ DOMAIN ms = 1..Len(ms)
  BY LenProperties
<1>1. /\ k \in Nat /\ k - 1 + 1 = k /\ m \in ChatMessage /\ k + 1 > 1 /\ k + 1 - 1 = k
      /\ \A l \in 1..k - 1 : l \in 1..k /\ l # k /\ l \in DOMAIN ms
      /\ k \in 1..k /\ k \in DOMAIN ms
  BY <1>0, ElementOfSeq
<1>2. r \in Seq(ChatMessage) /\ PairedSoFar(r) /\ UsedApart(r) /\ Open(r) = pending
  BY <1>1 DEF RepairedUpTo
<1>3. \A i \in Id : UsedIn(r, i) => \E l \in 1..k - 1 : At(ms[l], "use", i) # {}
  BY DEF RepairedUpTo
<1>4. pending \in SUBSET Id
  BY DEF Pending, IdsOf
<1>5. Pending(ms, k + 1) = IF m.role = "assistant" THEN IdsOf(m, "use") ELSE {}
  BY <1>1 DEF Pending
<1>6. CASE m.role = "user"
  <2> DEFINE answered == KeepResults(m.blocks, pending)
             missing == pending \ IdsOf(User(answered), "result")
             u == User(answered \o Missing(missing))
  <2>1. m.blocks \in Seq(UserBlock)
    BY <1>1, <1>6, Sides
  <2>2. Settles(u, pending)
    BY <1>4, <2>1, RepairSettles
  <2>3. RepairOne(ms, k) = <<u>>
    BY <1>6 DEF RepairOne
  <2> HIDE DEF u, m, pending
  <2>4. u \in ChatMessage
    BY <2>2 DEF Settles
  <2>5. <<u>> \in Seq(ChatMessage) /\ r \o <<u>> = Append(r, u)
    BY <1>2, <2>4, AppendIsConcat
  <2>6. /\ Append(r, u) \in Seq(ChatMessage) /\ PairedSoFar(Append(r, u))
        /\ Open(Append(r, u)) = {} /\ UsedApart(Append(r, u))
        /\ \A i : UsedIn(Append(r, u), i) => UsedIn(r, i)
    BY <1>2, <2>2, AddResults
  <2>7. Pending(ms, k + 1) = {}
    BY <1>5, <1>6
  <2>8. \A i \in Id : UsedIn(Append(r, u), i) => \E l \in 1..k : At(ms[l], "use", i) # {}
    BY <1>1, <1>3, <2>6
  <2>9. RepairedUpTo(ms, Append(r, u), k)
    BY <2>6, <2>7, <2>8 DEF RepairedUpTo
  <2> QED BY <2>3, <2>5, <2>9
<1>7. ASSUME m.role # "user", NEW s \in Seq(ChatMessage), PairedSoFar(s), UsedApart(s),
             Open(s) = {}, \A i : UsedIn(s, i) => UsedIn(r, i)
      PROVE  RepairedUpTo(ms, Append(s, m), k)
  <2> HIDE DEF m, pending
  <2>1. m.role = "assistant"
    BY <1>1, <1>7, Sides
  <2>2. PairedSoFar(Append(s, m)) /\ Open(Append(s, m)) = Pending(ms, k + 1)
    BY <1>1, <1>5, <1>7, <2>1, AppendPaired
  <2>3. \A i \in Id : \A a, b \in At(m, "use", i) : a = b
    BY <1>1 DEF UsedApart, m
  <2>4. \A i \in Id : At(m, "use", i) # {} => \A n \in DOMAIN s : At(s[n], "use", i) = {}
    <3> SUFFICES ASSUME NEW i \in Id, At(m, "use", i) # {}, UsedIn(s, i) PROVE FALSE
      BY DEF UsedIn
    <3>1. PICK l \in 1..k - 1 : At(ms[l], "use", i) # {}
      BY <1>3, <1>7
    <3>2. PICK a \in At(ms[l], "use", i), b \in At(ms[k], "use", i) : TRUE
      BY <3>1 DEF m
    <3>3. l = k
      BY <1>1, <3>2 DEF UsedApart
    <3> QED BY <1>1, <3>3
  <2>5. UsedApart(Append(s, m))
    BY <1>1, <1>7, <2>3, <2>4, AppendUsed
  <2>6. /\ Append(s, m) \in Seq(ChatMessage) /\ DOMAIN s = 1..Len(s)
        /\ DOMAIN Append(s, m) = 1..Len(s) + 1 /\ Append(s, m)[Len(s) + 1] = m
        /\ \A n \in 1..Len(s) : Append(s, m)[n] = s[n]
    BY <1>1, LenProperties, AppendProperties
  <2>7. \A n \in 1..Len(s) + 1 : n \in 1..Len(s) \/ n = Len(s) + 1
    <3>1. Len(s) \in Nat
      BY LenProperties
    <3> QED BY <3>1
  <2>8. ASSUME NEW i \in Id, UsedIn(Append(s, m), i)
        PROVE  \E l \in 1..k : At(ms[l], "use", i) # {}
    <3>1. UsedIn(s, i) \/ At(m, "use", i) # {}
      BY <2>6, <2>7, <2>8 DEF UsedIn
    <3>2. CASE UsedIn(s, i)
      BY <1>1, <1>3, <1>7, <3>2
    <3>3. CASE At(m, "use", i) # {}
      BY <1>1, <3>3 DEF m
    <3> QED BY <3>1, <3>2, <3>3
  <2> QED BY <2>2, <2>5, <2>6, <2>8 DEF RepairedUpTo
<1>8. CASE m.role # "user" /\ pending = {}
  <2>1. RepairOne(ms, k) = <<>> \o <<m>>
    BY <1>8 DEF RepairOne
  <2> HIDE DEF m, pending
  <2>2. <<m>> \in Seq(ChatMessage) /\ r \o <<m>> = Append(r, m) /\ <<>> \o <<m>> = <<m>>
    BY <1>1, <1>2, AppendIsConcat, ConcatEmptySeq
  <2>3. RepairedUpTo(ms, Append(r, m), k)
    BY <1>2, <1>7, <1>8
  <2> QED BY <2>1, <2>2, <2>3
<1>9. CASE m.role # "user" /\ pending # {}
  <2> DEFINE u == User(Missing(pending))
  <2>1. RepairOne(ms, k) = <<u>> \o <<m>>
    BY <1>9 DEF RepairOne
  <2>2. Settles(u, pending)
    BY <1>4, MissingSettles
  <2> HIDE DEF u, m, pending
  <2>3. u \in ChatMessage
    BY <2>2 DEF Settles
  <2>4. /\ <<u>> \in Seq(ChatMessage) /\ <<m>> \in Seq(ChatMessage)
        /\ r \o <<u>> = Append(r, u) /\ <<u>> \o <<m>> \in Seq(ChatMessage)
    BY <1>1, <1>2, <2>3, AppendIsConcat, ConcatProperties
  <2>5. /\ Append(r, u) \in Seq(ChatMessage) /\ PairedSoFar(Append(r, u))
        /\ Open(Append(r, u)) = {} /\ UsedApart(Append(r, u))
        /\ \A i : UsedIn(Append(r, u), i) => UsedIn(r, i)
    BY <1>2, <2>2, AddResults
  <2>6. RepairedUpTo(ms, Append(Append(r, u), m), k)
    BY <1>7, <1>9, <2>5
  <2>7. r \o (<<u>> \o <<m>>) = (r \o <<u>>) \o <<m>>
    BY <1>2, <2>4, ConcatAssociative
  <2>8. Append(r, u) \o <<m>> = Append(Append(r, u), m)
    BY <1>1, <2>5, AppendIsConcat
  <2> QED BY <2>1, <2>4, <2>6, <2>7, <2>8
<1> QED BY <1>6, <1>8, <1>9

\* It becomes one message or two.
LEMMA RepairOneIsMessages ==
    ASSUME NEW ms \in Seq(ChatMessage), NEW k \in 1..Len(ms)
    PROVE  RepairOne(ms, k) \in Seq(ChatMessage)
<1> DEFINE m == ms[k]
           pending == Pending(ms, k)
<1>1. m \in ChatMessage
  BY ElementOfSeq
<1>2. pending \in SUBSET Id
  BY DEF Pending, IdsOf
<1>3. CASE m.role = "user"
  <2> DEFINE answered == KeepResults(m.blocks, pending)
             missing == pending \ IdsOf(User(answered), "result")
             u == User(answered \o Missing(missing))
  <2>1. m.blocks \in Seq(UserBlock)
    BY <1>1, <1>3, Sides
  <2>2. Settles(u, pending)
    BY <1>2, <2>1, RepairSettles
  <2>3. RepairOne(ms, k) = <<u>>
    BY <1>3 DEF RepairOne
  <2> HIDE DEF u
  <2> QED BY <2>2, <2>3 DEF Settles
<1>4. CASE m.role # "user"
  <2> DEFINE u == User(Missing(pending))
  <2>1. RepairOne(ms, k) = <<>> \o <<m>> \/ RepairOne(ms, k) = <<u>> \o <<m>>
    BY <1>4 DEF RepairOne
  <2>2. Settles(u, pending)
    BY <1>2, MissingSettles
  <2> HIDE DEF u, m
  <2>3. <<u>> \in Seq(ChatMessage) /\ <<m>> \in Seq(ChatMessage) /\ <<>> \in Seq(ChatMessage)
    BY <1>1, <2>2 DEF Settles
  <2> QED BY <2>1, <2>3, ConcatProperties
<1> QED BY <1>3, <1>4

\* Whatever the messages, what is made of them is in pairs, and no id is repeated.
LEMMA RepairIsPaired ==
    ASSUME NEW ms \in Seq(ChatMessage), UsedApart(ms)
    PROVE  /\ RepairToolPairs(ms) \in Seq(ChatMessage)
           /\ Paired(RepairToolPairs(ms))
           /\ UsedApart(RepairToolPairs(ms))
<1> DEFINE n == Len(ms)
           ss == [i \in 1..n |-> RepairOne(ms, i)]
           open == Pending(ms, n + 1)
<1>0. n \in Nat /\ DOMAIN ms = 1..n
  BY LenProperties
<1>1. RepairedUpTo(ms, <<>>, 0)
  <2>1. <<>> \in Seq(ChatMessage) /\ Len(<<>>) = 0 /\ DOMAIN <<>> = {} /\ 1..(0 - 1) = {}
    BY EmptySeq
  <2> QED BY <2>1 DEF RepairedUpTo, PairedSoFar, UsedApart, UsedIn, Open, Pending
<1>2. ss \in Seq(Seq(ChatMessage)) /\ Len(ss) = n
  <2>1. \A i \in 1..n : RepairOne(ms, i) \in Seq(ChatMessage)
    BY RepairOneIsMessages
  <2>2. DOMAIN ss = 1..n /\ \A i \in 1..n : ss[i] \in Seq(ChatMessage)
    BY <2>1
  <2>3. ss = [i \in 1..n |-> ss[i]]
    OBVIOUS
  <2> HIDE DEF ss
  <2> QED BY <1>0, <2>2, <2>3, IsASeq
<1>3. PICK f \in [0..n -> Seq(ChatMessage)] : ConcatsOf(ss, f, n) /\ Concat(ss) = f[n]
  BY <1>2, ConcatUpTo
<1> DEFINE Bad == {k \in 0..n : ~ RepairedUpTo(ms, f[k], k)}
<1>4. ASSUME Bad # {} PROVE FALSE
  <2>1. PICK x \in Bad : \A y \in Bad : x <= y
    <3>1. Bad \subseteq Nat
      BY <1>0
    <3> HIDE DEF Bad
    <3> QED BY <1>4, <3>1, LeastNatural
  <2>2. x \in 1..n
    BY <1>0, <1>1, <1>3, <2>1 DEF ConcatsOf
  <2>3. x - 1 \in 0..n /\ x - 1 \notin Bad
    BY <1>0, <2>1, <2>2
  <2>4. f[x] = f[x - 1] \o RepairOne(ms, x)
    BY <1>3, <2>2 DEF ConcatsOf
  <2> QED BY <2>1, <2>2, <2>3, <2>4, RepairStep
<1> DEFINE r == f[n]
<1>5. RepairedUpTo(ms, r, n)
  BY <1>0, <1>4
<1>6. r \in Seq(ChatMessage) /\ PairedSoFar(r) /\ UsedApart(r) /\ Open(r) = open
  BY <1>5 DEF RepairedUpTo
<1>7. RepairToolPairs(ms) = r \o (IF open = {} THEN <<>> ELSE <<User(Missing(open))>>)
  BY <1>0, <1>3 DEF RepairToolPairs
<1> HIDE DEF r, open
<1>8. CASE open = {}
  <2>1. RepairToolPairs(ms) = r
    BY <1>6, <1>7, <1>8, ConcatEmptySeq
  <2> QED BY <1>6, <1>8, <2>1, PairedIsAll
<1>9. CASE open # {}
  <2> DEFINE u == User(Missing(open))
  <2>1. open \in SUBSET Id
    BY DEF open, Pending, IdsOf
  <2>2. Settles(u, open)
    BY <2>1, MissingSettles
  <2>3. RepairToolPairs(ms) = r \o <<u>>
    BY <1>7, <1>9
  <2> HIDE DEF u
  <2>4. RepairToolPairs(ms) = Append(r, u)
    BY <1>6, <2>2, <2>3, AppendIsConcat DEF Settles
  <2>5. /\ Append(r, u) \in Seq(ChatMessage) /\ PairedSoFar(Append(r, u))
        /\ Open(Append(r, u)) = {} /\ UsedApart(Append(r, u))
    BY <1>6, <2>2, AddResults
  <2> QED BY <2>4, <2>5, PairedIsAll
<1> QED BY <1>8, <1>9

-----------------------------------------------------------------------------
(* The log.                                                                *)

\* The conversation of a log: every message of it is one of a fact.
LEMMA RawIsMessages ==
    ASSUME NEW l \in Seq(Fact)
    PROVE  /\ Start(l) \in 1..Len(l) + 1
           /\ LET ss == [i \in 1..(Len(l) + 1 - Start(l)) |-> l[Start(l) + i - 1].ms]
              IN  ss \in Seq(Seq(ChatMessage)) /\ Len(ss) = Len(l) + 1 - Start(l)
           /\ Raw(l) \in Seq(ChatMessage)
           /\ \A k \in 1..Len(Raw(l)) : \E n \in 1..Len(l) : \E j \in 1..Len(l[n].ms) :
                 Raw(l)[k] = l[n].ms[j]
<1> DEFINE n == Len(l)
           C == {i \in DOMAIN l : l[i].kind = "compaction"}
           from == Start(l)
           ss == [i \in 1..(n + 1 - from) |-> l[from + i - 1].ms]
<1>0. n \in Nat
  BY LenProperties
<1>1. DOMAIN l = 1..n /\ \A i \in 1..n : l[i] \in Fact
  BY LenProperties, ElementOfSeq
<1>2. from \in 1..n + 1
  <2>1. CASE C = {}
    <3>1. from = 1
      BY <2>1 DEF Start, Latest
    <3> QED BY <1>0, <3>1
  <2>2. CASE C # {}
    <3>1. C \in SUBSET (1..n)
      BY <1>1
    <3>2. Latest(C) \in C
      <4> HIDE DEF C
      <4> QED BY <1>0, <2>2, <3>1, LatestIsGreatest
    <3>3. Latest(C) \in 1..n
      BY <3>1, <3>2
    <3>4. from = Latest(C)
      BY <1>0, <3>3 DEF Start
    <3> QED BY <1>0, <3>3, <3>4
  <2> QED BY <2>1, <2>2
<1> HIDE DEF from
<1>3. \A i \in 1..(n + 1 - from) : from + i - 1 \in 1..n
  BY <1>0, <1>2
<1>4. \A i \in 1..n : l[i].ms \in Seq(ChatMessage)
  BY <1>1 DEF Fact
<1>5. ss \in Seq(Seq(ChatMessage)) /\ Len(ss) = n + 1 - from
  <2>1. DOMAIN ss = 1..(n + 1 - from) /\ \A i \in 1..(n + 1 - from) : ss[i] \in Seq(ChatMessage)
    BY <1>3, <1>4
  <2>2. ss = [i \in 1..(n + 1 - from) |-> ss[i]] /\ n + 1 - from \in Nat
    BY <1>0, <1>2
  <2> HIDE DEF ss
  <2> QED BY <2>1, <2>2, IsASeq
<1>6. Raw(l) = Concat(ss)
  BY DEF Raw, from
<1>7. /\ Concat(ss) \in Seq(ChatMessage)
      /\ \A k \in 1..Len(Concat(ss)) :
            \E i \in 1..Len(ss) : \E j \in 1..Len(ss[i]) : Concat(ss)[k] = ss[i][j]
  <2> HIDE DEF ss
  <2> QED BY <1>5, ConcatElement
<1>8. \A i \in 1..Len(ss) : from + i - 1 \in 1..n /\ ss[i] = l[from + i - 1].ms
  BY <1>3, <1>5
<1> HIDE DEF ss
<1>9. \A k \in 1..Len(Raw(l)) : \E i \in 1..n : \E j \in 1..Len(l[i].ms) : Raw(l)[k] = l[i].ms[j]
  <2> SUFFICES ASSUME NEW k \in 1..Len(Concat(ss))
               PROVE  \E i \in 1..n : \E j \in 1..Len(l[i].ms) : Concat(ss)[k] = l[i].ms[j]
    BY <1>6
  <2>1. PICK i \in 1..Len(ss) : \E j \in 1..Len(ss[i]) : Concat(ss)[k] = ss[i][j]
    BY <1>7
  <2>2. from + i - 1 \in 1..n /\ ss[i] = l[from + i - 1].ms
    BY <1>8
  <2> QED BY <2>1, <2>2
<1> QED BY <1>2, <1>5, <1>6, <1>7, <1>9 DEF ss, from

\* A fact more: a compaction begins the conversation again, another goes on with it.
LEMMA RawAppend ==
    ASSUME NEW l \in Seq(Fact), NEW f \in Fact
    PROVE  /\ Append(l, f) \in Seq(Fact)
           /\ Raw(Append(l, f)) = IF f.kind = "compaction" THEN f.ms ELSE Raw(l) \o f.ms
<1> DEFINE n == Len(l)
           more == Append(l, f)
           C == {i \in DOMAIN l : l[i].kind = "compaction"}
           D == {i \in DOMAIN more : more[i].kind = "compaction"}
           ss == [i \in 1..(n + 1 - Start(l)) |-> l[Start(l) + i - 1].ms]
           tt == [i \in 1..(n + 1 + 1 - Start(more)) |-> more[Start(more) + i - 1].ms]
<1>0. n \in Nat
  BY LenProperties
<1>1. /\ more \in Seq(Fact) /\ Len(more) = n + 1 /\ more[n + 1] = f
      /\ \A i \in 1..n : more[i] = l[i]
      /\ DOMAIN l = 1..n /\ DOMAIN more = 1..n + 1
  BY LenProperties, AppendProperties
<1>2. f.ms \in Seq(ChatMessage)
  BY DEF Fact
<1>3. Raw(more) = Concat(tt) /\ Raw(l) = Concat(ss)
  BY <1>1 DEF Raw
<1>4. CASE f.kind = "compaction"
  <2>1. n + 1 \in D /\ D \in SUBSET (1..n + 1)
    BY <1>0, <1>1, <1>4
  <2>2. Latest(D) \in D /\ \A k \in D : k <= Latest(D)
    <3>1. n + 1 \in Nat
      BY <1>0
    <3> HIDE DEF D
    <3> QED BY <2>1, <3>1, LatestIsGreatest
  <2>3. Latest(D) = n + 1
    <3> HIDE DEF D
    <3>1. Latest(D) \in 1..n + 1 /\ n + 1 <= Latest(D)
      BY <2>1, <2>2
    <3> QED BY <1>0, <3>1
  <2>4. Start(more) = n + 1
    <3>1. Start(more) = IF Latest(D) = 0 THEN 1 ELSE Latest(D)
      BY DEF Start
    <3>2. n + 1 # 0
      BY <1>0
    <3> HIDE DEF D
    <3> QED BY <2>3, <3>1, <3>2
  <2>5. tt = <<f.ms>>
    <3>1. n + 1 + 1 - Start(more) = 1 /\ Start(more) + 1 - 1 = n + 1
      BY <1>0, <2>4
    <3>2. tt = [i \in 1..1 |-> more[n + 1].ms]
      BY <1>0, <2>4, <3>1
    <3>3. tt = [i \in 1..1 |-> f.ms]
      BY <1>1, <3>2
    <3>4. [i \in 1..1 |-> f.ms] = <<f.ms>>
      OBVIOUS
    <3> QED BY <3>3, <3>4
  <2> QED BY <1>1, <1>2, <1>3, <1>4, <2>5, ConcatSmall
<1>5. CASE f.kind # "compaction"
  <2>1. C = D
    BY <1>0, <1>1, <1>5
  <2>2. Start(more) = Start(l)
    BY <2>1 DEF Start
  <2> DEFINE from == Start(l)
             k == n + 1 - from
  <2>3. from \in 1..n + 1 /\ ss \in Seq(Seq(ChatMessage)) /\ Len(ss) = k
    BY RawIsMessages
  <2> HIDE DEF from
  <2>4. k \in Nat /\ k + 1 = n + 1 + 1 - from /\ from + (k + 1) - 1 = n + 1
        /\ \A i \in 1..k : from + i - 1 \in 1..n
    <3>1. n \in Int /\ from \in Int /\ 1 <= from /\ from <= n + 1
      BY <1>0, <2>3
    <3> HIDE DEF n
    <3> QED BY <3>1
  <2>6. /\ Append(ss, f.ms) \in Seq(Seq(ChatMessage)) /\ Len(Append(ss, f.ms)) = k + 1
        /\ Append(ss, f.ms)[k + 1] = f.ms
        /\ \A i \in 1..k : Append(ss, f.ms)[i] = ss[i]
    <3> HIDE DEF ss, k
    <3> QED BY <1>2, <2>3, AppendProperties
  <2>7. DOMAIN Append(ss, f.ms) = 1..k + 1
    <3> HIDE DEF ss, k
    <3> QED BY <2>6, LenProperties
  <2>8. tt = [i \in 1..k + 1 |-> more[from + i - 1].ms]
    BY <2>2, <2>4 DEF from
  <2>9. \A i \in 1..k : ss[i] = l[from + i - 1].ms
    BY DEF from
  <2>10. \A i \in 1..k + 1 : tt[i] = Append(ss, f.ms)[i]
    <3> HIDE DEF tt, ss, k
    <3> SUFFICES ASSUME NEW i \in 1..k + 1 PROVE tt[i] = Append(ss, f.ms)[i]
      OBVIOUS
    <3>1. tt[i] = more[from + i - 1].ms
      BY <2>8
    <3>2. CASE i = k + 1
      BY <1>1, <2>4, <2>6, <3>1, <3>2
    <3>3. CASE i # k + 1
      <4>1. i \in 1..k
        BY <2>4, <3>3
      <4> QED BY <1>1, <2>4, <2>6, <2>9, <3>1, <4>1
    <3> QED BY <3>2, <3>3
  <2>11. tt = Append(ss, f.ms)
    <3>1. DOMAIN tt = 1..k + 1 /\ tt = [i \in 1..k + 1 |-> tt[i]]
      BY <2>8
    <3>2. Append(ss, f.ms) = [i \in 1..k + 1 |-> Append(ss, f.ms)[i]]
      <4> HIDE DEF ss, k
      <4> QED BY <2>6, <2>7, LenProperties
    <3> HIDE DEF tt, ss, k
    <3> QED BY <2>10, <3>1, <3>2
  <2> HIDE DEF tt, ss, k
  <2>12. Concat(tt) = Concat(ss) \o f.ms
    BY <1>2, <2>3, <2>11, ConcatAppend
  <2> QED BY <1>1, <1>3, <1>5, <2>12
<1> QED BY <1>4, <1>5

\* A log of this program: what it says uses no id twice.
LogFits(l) == l \in Seq(Fact) /\ UsedApart(Raw(l))

\* Ids nothing in the conversation uses.
Unused(l, i) == \A n \in DOMAIN Raw(l) : At(Raw(l)[n], "use", i) = {}

\* A fact of one message more, whose uses are new and not repeated.
LEMMA CommitFits ==
    ASSUME NEW l, LogFits(l), NEW f \in Fact, NEW m \in ChatMessage, f.ms = <<m>>,
           f.kind # "compaction", \A i \in Id : \A a, b \in At(m, "use", i) : a = b,
           \A i \in Id : At(m, "use", i) # {} => Unused(l, i)
    PROVE  LogFits(Append(l, f))
<1>1. l \in Seq(Fact) /\ Raw(l) \in Seq(ChatMessage) /\ UsedApart(Raw(l))
  BY RawIsMessages DEF LogFits
<1>2. Append(l, f) \in Seq(Fact) /\ Raw(Append(l, f)) = Raw(l) \o <<m>>
  BY <1>1, RawAppend
<1>3. Raw(Append(l, f)) = Append(Raw(l), m)
  BY <1>1, <1>2, AppendIsConcat
<1>4. UsedApart(Append(Raw(l), m))
  BY <1>1, AppendUsed DEF Unused
<1> QED BY <1>2, <1>3, <1>4 DEF LogFits

\* What the user's side says is never in the way.
LEMMA UserFits ==
    ASSUME NEW l, LogFits(l), NEW f \in Fact, NEW m \in ChatMessage, m.role = "user",
           f.ms = <<m>>, f.kind # "compaction"
    PROVE  LogFits(Append(l, f))
<1>1. \A i \in Id : At(m, "use", i) = {}
  BY UsersUseNothing
<1> QED BY <1>1, CommitFits

\* The facts of the loop.
LEMMA Facts ==
    /\ User(<<Text>>) \in ChatMessage /\ User(<<Text>>).role = "user"
    /\ \A m \in ChatMessage : /\ Message(m) \in Fact /\ Message(m).ms = <<m>>
                              /\ Message(m).kind # "compaction"
    /\ \A m \in ChatMessage, usage \in Nat :
          /\ Answered(m, usage) \in Fact /\ Answered(m, usage).ms = <<m>>
          /\ Answered(m, usage).kind # "compaction"
    /\ Reminder \in Fact /\ Reminder.ms = <<User(<<Text>>)>> /\ Reminder.kind # "compaction"
    /\ ModelChange \in Fact /\ ModelChange.ms = <<>> /\ ModelChange.kind # "compaction"
    /\ \A ms \in Seq(ChatMessage) :
          /\ Compaction(ms) \in Fact /\ Compaction(ms).ms = <<User(<<Text>>)>> \o ms
          /\ Compaction(ms).kind = "compaction"
<1>1. <<Text>> \in Seq(UserBlock)
  BY Blocks
<1>2. User(<<Text>>) \in ChatMessage /\ User(<<Text>>).role = "user"
  BY <1>1, Sides
<1>3. \A m \in ChatMessage : <<m>> \in Seq(ChatMessage)
  OBVIOUS
<1>4. <<>> \in Seq(ChatMessage)
  BY EmptySeq
<1>5. \A ms \in Seq(ChatMessage) : <<User(<<Text>>)>> \o ms \in Seq(ChatMessage)
  BY <1>2, <1>3, ConcatProperties
<1> HIDE DEF User, Text
<1> QED BY <1>2, <1>3, <1>4, <1>5 DEF Message, Answered, Reminder, ModelChange, Compaction, Fact

\* Where one fact more, or two, or three, are written with \o.
LEMMA Commits ==
    ASSUME NEW l \in Seq(Fact), NEW f \in Fact
    PROVE  /\ l \o <<f>> = Append(l, f)
           /\ \A g \in Fact : l \o <<f, g>> = Append(Append(l, f), g)
           /\ l \o <<>> = l
<1>1. l \o <<f>> = Append(l, f) /\ l \o <<>> = l
  BY AppendIsConcat, ConcatEmptySeq
<1>2. ASSUME NEW g \in Fact PROVE l \o <<f, g>> = Append(Append(l, f), g)
  <2>1. <<f, g>> = <<f>> \o <<g>>
    OBVIOUS
  <2>2. <<f>> \in Seq(Fact) /\ <<g>> \in Seq(Fact) /\ Append(l, f) \in Seq(Fact)
    BY AppendProperties
  <2>3. l \o (<<f>> \o <<g>>) = (l \o <<f>>) \o <<g>>
    BY <2>2, ConcatAssociative
  <2>4. Append(l, f) \o <<g>> = Append(Append(l, f), g)
    BY <2>2, AppendIsConcat
  <2> QED BY <1>1, <2>1, <2>3, <2>4
<1> QED BY <1>1, <1>2

\* The projection of a log is in pairs.
LEMMA ProjectedIsPaired ==
    ASSUME NEW l, LogFits(l)
    PROVE  /\ Projected(l) \in Seq(ChatMessage) /\ Paired(Projected(l))
           /\ UsedApart(Projected(l))
  BY RawIsMessages, RepairIsPaired DEF LogFits, Projected

\* An id no fact has is used nowhere in the conversation.
LEMMA FreshIsUnused ==
    ASSUME log \in Seq(Fact), NEW i \in Fresh
    PROVE  Unused(log, i)
<1>1. /\ Raw(log) \in Seq(ChatMessage)
      /\ \A k \in 1..Len(Raw(log)) : \E n \in 1..Len(log) : \E j \in 1..Len(log[n].ms) :
            Raw(log)[k] = log[n].ms[j]
  BY RawIsMessages
<1> SUFFICES ASSUME NEW k \in 1..Len(Raw(log)) PROVE At(Raw(log)[k], "use", i) = {}
  BY <1>1, LenProperties DEF Unused
<1>2. PICK n \in 1..Len(log) : \E j \in 1..Len(log[n].ms) : Raw(log)[k] = log[n].ms[j]
  BY <1>1
<1>3. PICK j \in 1..Len(log[n].ms) : Raw(log)[k] = log[n].ms[j]
  BY <1>2
<1>4. n \in DOMAIN log /\ log[n] \in Fact
  BY LenProperties, ElementOfSeq
<1>5. log[n].ms \in Seq(ChatMessage)
  BY <1>4 DEF Fact
<1>6. j \in DOMAIN log[n].ms
  BY <1>5, LenProperties
<1>7. Places(log[n].ms, "use", i) = {}
  BY <1>4 DEF Fresh
<1> QED BY <1>3, <1>6, <1>7, PlacesAre

LEMMA SmallestIsLeast ==
    ASSUME NEW T \in SUBSET Nat, T # {}
    PROVE  Smallest(T) \in T
<1>1. \E n \in T : \A k \in T : n <= k
  BY LeastNatural
<1> QED BY <1>1 DEF Smallest

\* What the model may answer uses new ids, each of them once.
LEMMA AnswersAreNew ==
    ASSUME log \in Seq(Fact), NEW given \in Answers
    PROVE  /\ given \in Seq(AnswerBlock)
           /\ \A i \in Id : \A a, b \in At(Assistant(given), "use", i) : a = b
           /\ \A i \in Id : At(Assistant(given), "use", i) # {} => Unused(log, i)
<1>1. Fresh \in SUBSET Id /\ Fresh \in SUBSET Nat
  BY DEF Fresh, Id
<1>2. \A i \in Fresh : Use(i) \in AnswerBlock
  BY <1>1, Blocks
<1>3. \A i : At(Assistant(given), "use", i) =
             {j \in DOMAIN given : given[j].kind = "use" /\ given[j].id = i}
  BY DEF At, Assistant
<1>4. Text.kind # "use" /\ \A i : Use(i).kind = "use" /\ Use(i).id = i
  BY DEF Text, Use
<1>5. CASE given = <<Text>>
  <2>1. given \in Seq(AnswerBlock) /\ DOMAIN given = {1} /\ given[1] = Text
    BY <1>5, Blocks
  <2> QED BY <1>3, <1>4, <2>1
<1>6. CASE Fresh # {} /\ given = <<Text, Use(Smallest(Fresh))>>
  <2>1. Smallest(Fresh) \in Fresh
    BY <1>1, <1>6, SmallestIsLeast
  <2>2. Use(Smallest(Fresh)) \in AnswerBlock /\ Text \in AnswerBlock
    BY <1>2, <2>1, Blocks
  <2> DEFINE u == Use(Smallest(Fresh))
  <2>3. u.kind = "use" /\ u.id = Smallest(Fresh)
    BY <1>4
  <2> HIDE DEF u
  <2>4. given = <<Text, u>>
    BY <1>6 DEF u
  <2>5. /\ given \in Seq(AnswerBlock) /\ DOMAIN given = {1, 2} /\ given[1] = Text
        /\ given[2] = u
    BY <2>2, <2>4 DEF u
  <2>6. \A i : \A a \in At(Assistant(given), "use", i) : a = 2 /\ i \in Fresh
    BY <1>3, <1>4, <2>1, <2>3, <2>5
  <2> QED BY <2>5, <2>6, FreshIsUnused
<1>7. CASE /\ ~ (Cardinality(Fresh) < 2)
           /\ given = LET i == Smallest(Fresh) IN <<Use(i), Use(Smallest(Fresh \ {i}))>>
  <2> DEFINE i == Smallest(Fresh)
             j == Smallest(Fresh \ {i})
             u == Use(i)
             v == Use(j)
  <2>1. Fresh # {}
    <3> HIDE DEF i, j, u, v
    <3> SUFFICES ASSUME Fresh = {} PROVE FALSE
      OBVIOUS
    <3>1. Cardinality(Fresh) = 0
      BY FS_EmptySet
    <3> QED BY <1>7, <3>1
  <2>2. i \in Fresh
    BY <1>1, <2>1, SmallestIsLeast
  <2>3. Fresh \ {i} # {}
    <3> SUFFICES ASSUME Fresh \ {i} = {} PROVE FALSE
      OBVIOUS
    <3> HIDE DEF i
    <3>1. Fresh = {i}
      BY <2>2
    <3>2. Cardinality(Fresh) = 1
      BY <3>1, FS_Singleton
    <3> QED BY <1>7, <3>2
  <2>4. j \in Fresh \ {i}
    <3>1. Fresh \ {i} \in SUBSET Nat
      BY <1>1
    <3> HIDE DEF i
    <3> QED BY <2>3, <3>1, SmallestIsLeast
  <2>5. u \in AnswerBlock /\ v \in AnswerBlock /\ j # i /\ j \in Fresh
    BY <1>2, <2>2, <2>4
  <2>6. u.kind = "use" /\ u.id = i /\ v.kind = "use" /\ v.id = j
    BY <1>4
  <2>7. given = <<u, v>>
    BY <1>7
  <2> HIDE DEF u, v, i, j
  <2>8. given \in Seq(AnswerBlock) /\ DOMAIN given = {1, 2} /\ given[1] = u /\ given[2] = v
    BY <2>5, <2>7
  <2>9. \A k : \A a \in At(Assistant(given), "use", k) :
           (a = 1 /\ k = i) \/ (a = 2 /\ k = j)
    BY <1>3, <2>6, <2>8
  <2> QED BY <2>2, <2>5, <2>8, <2>9, FreshIsUnused
<1>8. \/ given = <<Text>>
      \/ Fresh # {} /\ given = <<Text, Use(Smallest(Fresh))>>
      \/ /\ ~ (Cardinality(Fresh) < 2)
         /\ given = LET i == Smallest(Fresh) IN <<Use(i), Use(Smallest(Fresh \ {i}))>>
  BY DEF Answers
<1> QED BY <1>5, <1>6, <1>7, <1>8

-----------------------------------------------------------------------------
(* What is sent.                                                           *)

\* Tokens are counted.
LEMMA SizeIsNat ==
    ASSUME NEW ms \in Seq(ChatMessage)
    PROVE  Size(ms) \in Nat
<1>1. ASSUME NEW m \in ChatMessage PROVE message_chars(m) \in Nat
  <2> DEFINE n == Len(m.blocks)
             z == [j \in 1..n |-> BlockSize(m.blocks[j])]
  <2>1. n \in Nat /\ DOMAIN m.blocks = 1..n
    BY Sides, LenProperties
  <2>2. \A j \in 1..n : z[j] \in Nat
    BY DEF BlockSize
  <2>3. DOMAIN z = 1..n /\ z = [j \in 1..n |-> z[j]]
    OBVIOUS
  <2>4. message_chars(m) = Total(z)
    BY <2>1 DEF message_chars
  <2> HIDE DEF z
  <2>5. z \in Seq(Nat)
    <3>1. n \in Nat
      BY <2>1
    <3> HIDE DEF n
    <3> QED BY <2>2, <2>3, <3>1, IsASeq
  <2> QED BY <2>4, <2>5, TotalIsNat
<1> DEFINE z == [i \in 1..Len(ms) |-> message_chars(ms[i])]
<1>2. Len(ms) \in Nat /\ DOMAIN ms = 1..Len(ms)
  BY LenProperties
<1>3. \A i \in 1..Len(ms) : z[i] \in Nat
  BY <1>1, ElementOfSeq
<1>4. DOMAIN z = 1..Len(ms) /\ z = [i \in 1..Len(ms) |-> z[i]]
  OBVIOUS
<1>5. Size(ms) = Total(z)
  BY <1>2 DEF Size
<1> HIDE DEF z
<1>6. z \in Seq(Nat)
  BY <1>2, <1>3, <1>4, IsASeq
<1> QED BY <1>5, <1>6, TotalIsNat

\* The results of a turn are a message of the user's side.
LEMMA ToolResultsAre ==
    ASSUME answer.blocks \in Seq(AnswerBlock), NEW big \in BOOLEAN
    PROVE  ToolResults(big) \in ChatMessage /\ ToolResults(big).role = "user"
<1> DEFINE s == answer.blocks
           K == {j \in DOMAIN s : s[j].kind = "use"}
           r == Kept(s, K)
           z == [a \in 1..Len(r) |-> Result(r[a].id, big)]
<1>1. DOMAIN s = 1..Len(s) /\ K \in SUBSET (1..Len(s))
  BY LenProperties
<1>2. \A j \in K : s[j].id \in Id
  BY <1>1, Blocks, ElementOfSeq
<1>3. r \in Seq(AnswerBlock) /\ Filled(s, K, r, Len(s))
  <2> HIDE DEF K
  <2> QED BY <1>1, KeptPlaces
<1>4. ToolResults(big) = User([a \in DOMAIN r |-> Result(r[a].id, big)])
  BY DEF ToolResults
<1> HIDE DEF r, K
<1>5. PICK pos \in [1..Len(r) -> K] : Fills(s, K, r, Len(s), pos)
  BY <1>3 DEF Filled
<1>6. \A a \in 1..Len(r) : r[a].id \in Id
  <2> SUFFICES ASSUME NEW a \in 1..Len(r) PROVE r[a].id \in Id
    OBVIOUS
  <2>1. r[a] = s[pos[a]] /\ pos[a] \in K
    BY <1>5 DEF Fills
  <2> QED BY <1>2, <2>1
<1>7. Len(r) \in Nat /\ DOMAIN r = 1..Len(r)
  BY <1>3, LenProperties
<1>8. \A a \in 1..Len(r) : z[a] \in UserBlock
  BY <1>6, Blocks
<1>9. DOMAIN z = 1..Len(r) /\ z = [a \in 1..Len(r) |-> z[a]]
  OBVIOUS
<1>10. ToolResults(big) = User(z)
  BY <1>4, <1>7
<1> HIDE DEF z
<1>11. z \in Seq(UserBlock)
  BY <1>7, <1>8, <1>9, IsASeq
<1> QED BY <1>10, <1>11, Sides

\* Old results that are cut short are still the results of the same calls.
LEMMA FoldIsPaired ==
    ASSUME NEW ms \in Seq(ChatMessage), Paired(ms)
    PROVE  Fold(ms) \in Seq(ChatMessage) /\ Paired(Fold(ms))
<1> DEFINE n == Len(ms)
           z == Fold(ms)
<1>1. n \in Nat /\ DOMAIN ms = 1..n /\ \A i \in 1..n : ms[i] \in ChatMessage
  BY LenProperties, ElementOfSeq
<1>2. ASSUME NEW B \in {UserBlock, AnswerBlock}, NEW given \in Seq(B)
      PROVE  /\ Shortened(given) \in Seq(B) /\ DOMAIN Shortened(given) = DOMAIN given
             /\ \A j \in DOMAIN given : /\ Shortened(given)[j].kind = given[j].kind
                                         /\ Shortened(given)[j].id = given[j].id
  <2>1. Len(given) \in Nat /\ DOMAIN given = 1..Len(given)
        /\ \A j \in 1..Len(given) : given[j] \in B
    BY LenProperties, ElementOfSeq
  <2>2. ASSUME NEW b \in B
        PROVE  LET c == [b EXCEPT !.big = FALSE]
               IN  c \in B /\ c.kind = b.kind /\ c.id = b.id
    <3>1. CASE b = Text
      BY ZenonT(30), <3>1, Blocks DEF Text
    <3>2. ASSUME NEW i \in Id, NEW big \in BOOLEAN, b = Result(i, big), B = UserBlock
          PROVE  LET c == [b EXCEPT !.big = FALSE]
                 IN  c \in B /\ c.kind = b.kind /\ c.id = b.id
      <4>1. [Result(i, big) EXCEPT !.big = FALSE] = Result(i, FALSE)
        <5>1. /\ Result(i, big) \in [kind : {"result"}, id : {i}, big : BOOLEAN]
              /\ Result(i, FALSE) \in [kind : {"result"}, id : {i}, big : {FALSE}]
          BY DEF Result
        <5>2. [Result(i, big) EXCEPT !.big = FALSE] \in [kind : {"result"}, id : {i}, big : {FALSE}]
          BY <5>1
        <5> QED BY <5>1, <5>2
      <4>2. Result(i, FALSE).kind = b.kind /\ Result(i, FALSE).id = b.id
        BY <3>2 DEF Result
      <4> QED BY <3>2, <4>1, <4>2, Blocks
    <3>3. ASSUME NEW i \in Id, b = Use(i), B = AnswerBlock
          PROVE  LET c == [b EXCEPT !.big = FALSE]
                 IN  c \in B /\ c.kind = b.kind /\ c.id = b.id
      <4>1. [Use(i) EXCEPT !.big = FALSE] = Use(i)
        <5>1. Use(i) \in [kind : {"use"}, id : {i}, big : {FALSE}]
          BY DEF Use
        <5>2. [Use(i) EXCEPT !.big = FALSE] \in [kind : {"use"}, id : {i}, big : {FALSE}]
          BY <5>1
        <5> QED BY <5>1, <5>2
      <4> QED BY <3>3, <4>1
    <3>4. CASE B = UserBlock
      BY <3>1, <3>2, <3>4 DEF UserBlock
    <3>5. CASE B = AnswerBlock
      BY <3>1, <3>3, <3>5 DEF AnswerBlock
    <3> QED BY <3>4, <3>5
  <2> DEFINE q == Shortened(given)
  <2>3. DOMAIN q = 1..Len(given) /\ q = [j \in 1..Len(given) |-> q[j]]
    BY <2>1 DEF Shortened
  <2>4. \A j \in 1..Len(given) : q[j] = [given[j] EXCEPT !.big = FALSE]
    BY <2>1 DEF Shortened
  <2> HIDE DEF q
  <2>5. \A j \in 1..Len(given) : q[j] \in B /\ q[j].kind = given[j].kind /\ q[j].id = given[j].id
    BY <2>1, <2>2, <2>4
  <2>6. q \in Seq(B)
    BY <2>1, <2>3, <2>5, IsASeq
  <2> QED BY <2>1, <2>3, <2>5, <2>6 DEF q
<1>3. DOMAIN z = 1..n /\ z = [i \in 1..n |-> z[i]]
  BY <1>1 DEF Fold
<1>4. ASSUME NEW i \in 1..n
      PROVE  /\ z[i] \in ChatMessage /\ z[i].role = ms[i].role
             /\ \A kind, id : At(z[i], kind, id) = At(ms[i], kind, id)
  <2>1. CASE z[i] = ms[i]
    BY <1>1, <2>1
  <2>2. CASE z[i] # ms[i]
    <3> DEFINE m == ms[i]
    <3>1. z[i] = [m EXCEPT !.blocks = Shortened(m.blocks)]
      BY <1>1, <2>2 DEF Fold
    <3>2. m \in ChatMessage
      BY <1>1
    <3>3. \E B \in {UserBlock, AnswerBlock} : m.blocks \in Seq(B)
      BY <3>2, Sides
    <3>4. /\ m.role = "user" => Shortened(m.blocks) \in Seq(UserBlock)
          /\ m.role # "user" => m.role = "assistant" /\ Shortened(m.blocks) \in Seq(AnswerBlock)
      BY <1>2, <3>2, Sides
    <3>5. /\ DOMAIN Shortened(m.blocks) = DOMAIN m.blocks
          /\ \A j \in DOMAIN m.blocks : /\ Shortened(m.blocks)[j].kind = m.blocks[j].kind
                                        /\ Shortened(m.blocks)[j].id = m.blocks[j].id
      BY <1>2, <3>3
    <3>6. z[i].role = m.role /\ z[i].blocks = Shortened(m.blocks)
          /\ z[i] = [role |-> m.role, blocks |-> Shortened(m.blocks)]
      BY <3>1, <3>2 DEF ChatMessage
    <3> HIDE DEF m, z
    <3>7. \A kind, id : At(z[i], kind, id) = At(m, kind, id)
      BY <3>5, <3>6 DEF At
    <3>8. z[i] \in ChatMessage
      BY <3>4, <3>6 DEF ChatMessage
    <3> QED BY <3>6, <3>7, <3>8 DEF m
  <2> QED BY <2>1, <2>2
<1> HIDE DEF z
<1>5. z \in Seq(ChatMessage) /\ Len(z) = n
  BY <1>1, <1>3, <1>4, IsASeq
<1>6. \A i \in 1..n : \A kind : IdsOf(z[i], kind) = IdsOf(ms[i], kind)
  BY <1>4 DEF IdsOf
<1>7. Open(z) = Open(ms)
  <2>1. n + 1 > 1 => n \in 1..n
    BY <1>1
  <2>2. n + 1 - 1 = n
    BY <1>1
  <2>3. /\ Open(z) = IF n + 1 > 1 /\ z[n].role = "assistant" THEN IdsOf(z[n], "use") ELSE {}
        /\ Open(ms) = IF n + 1 > 1 /\ ms[n].role = "assistant" THEN IdsOf(ms[n], "use") ELSE {}
    BY <1>5, <2>2 DEF Open, Pending
  <2> QED BY <1>4, <1>6, <2>1, <2>3
<1>8. \A i \in 1..n - 1 : i \in 1..n /\ i + 1 \in 1..n
  BY <1>1
<1>9. ASSUME NEW i \in 1..n - 1, Follows(ms[i], ms[i + 1]) PROVE Follows(z[i], z[i + 1])
  BY <1>4, <1>6, <1>8, <1>9 DEF Follows
<1>10. ms # <<>> => z # <<>> /\ 1 \in 1..n
  BY <1>1, <1>5, EmptySeq
<1>11. z # <<>> => ms # <<>>
  BY <1>1, <1>5, EmptySeq
<1>12. PairedSoFar(ms) /\ Open(ms) = {}
  BY PairedIsAll
<1>13. PairedSoFar(z)
  BY <1>4, <1>5, <1>6, <1>9, <1>10, <1>11, <1>12 DEF PairedSoFar
<1> QED BY <1>5, <1>7, <1>12, <1>13, PairedIsAll DEF z

-----------------------------------------------------------------------------
(* What a compaction keeps.                                                *)

\* Where a result is, the message before has its call.
LEMMA ResultHasCall ==
    ASSUME NEW ms \in Seq(ChatMessage), Paired(ms), NEW i \in Id, NEW n \in DOMAIN ms,
           At(ms[n], "result", i) # {}
    PROVE  n - 1 \in DOMAIN ms /\ At(ms[n - 1], "use", i) # {}
<1>0. Len(ms) \in Nat
  BY LenProperties
<1>1. DOMAIN ms = 1..Len(ms) /\ n \in 1..Len(ms) /\ ms[n] \in ChatMessage
  BY LenProperties, ElementOfSeq
<1>2. PairedSoFar(ms)
  BY PairedIsAll
<1>3. ms[n].role = "user" /\ i \in IdsOf(ms[n], "result")
  BY <1>1, UsersUseNothing DEF IdsOf
<1>4. n # 1
  BY <1>1, <1>2, <1>3, EmptySeq DEF PairedSoFar
<1>5. n - 1 \in 1..Len(ms) - 1 /\ n - 1 \in 1..Len(ms) /\ n - 1 + 1 = n
  BY <1>0, <1>1, <1>4
<1>6. Follows(ms[n - 1], ms[n])
  BY <1>2, <1>5 DEF PairedSoFar
<1>7. i \in IdsOf(ms[n - 1], "use")
  BY <1>3, <1>6 DEF Follows
<1> QED BY <1>1, <1>5, <1>7 DEF IdsOf

\* A conversation in pairs that repeats no id is one the log takes.
LEMMA PairedIsValid ==
    ASSUME NEW ms \in Seq(ChatMessage), Paired(ms), UsedApart(ms)
    PROVE  ValidPairs(ms)
<1>0. Len(ms) \in Nat
  BY LenProperties
<1>1. DOMAIN ms = 1..Len(ms) /\ \A n \in 1..Len(ms) : ms[n] \in ChatMessage
  BY LenProperties, ElementOfSeq
<1> SUFFICES ASSUME NEW i \in Id
             PROVE  LET uses == Cardinality(Places(ms, "use", i))
                        results == Cardinality(Places(ms, "result", i))
                    IN uses = results /\ uses <= 1
  BY DEF ValidPairs
<1> DEFINE U == Places(ms, "use", i)
           R == Places(ms, "result", i)
<1>2. \A p \in R : \E n \in DOMAIN ms : \E a \in At(ms[n], "result", i) : p = <<n, a>>
  BY PlacesAre
<1>3. CASE U = {}
  <2>1. R = {}
    <3> SUFFICES ASSUME NEW p \in R PROVE FALSE
      OBVIOUS
    <3>1. PICK n \in DOMAIN ms : \E a \in At(ms[n], "result", i) : p = <<n, a>>
      BY <1>2
    <3>2. n - 1 \in DOMAIN ms /\ At(ms[n - 1], "use", i) # {}
      BY <3>1, ResultHasCall
    <3> QED BY <1>3, <3>2, PlacesAre
  <2> HIDE DEF U, R
  <2>2. Cardinality(U) = 0 /\ Cardinality(R) = 0
    BY <1>3, <2>1, FS_EmptySet
  <2> QED BY <2>2 DEF U, R
<1>4. CASE U # {}
  <2>1. PICK n \in DOMAIN ms : \E a \in At(ms[n], "use", i) : TRUE
    BY <1>4, PlacesAre
  <2>2. PICK a \in At(ms[n], "use", i) : TRUE
    BY <2>1
  <2>3. U = {<<n, a>>}
    <3>1. <<n, a>> \in U
      BY PlacesAre
    <3>2. UsedOnce(ms)
      BY OnceIsApart
    <3> QED BY <3>1, <3>2 DEF UsedOnce
  <2>4. n \in 1..Len(ms) /\ ms[n].role = "assistant" /\ i \in IdsOf(ms[n], "use")
    BY <1>1, <2>2, Sides, UsersUseNothing DEF IdsOf
  <2>5. PairedSoFar(ms) /\ Open(ms) = {}
    BY PairedIsAll
  <2>6. n # Len(ms)
    <3> SUFFICES ASSUME n = Len(ms) PROVE FALSE
      OBVIOUS
    <3>1. Len(ms) + 1 > 1 /\ Len(ms) + 1 - 1 = Len(ms)
      BY <1>0, <2>4
    <3> QED BY <2>4, <2>5, <3>1 DEF Open, Pending
  <2>7. n \in 1..Len(ms) - 1 /\ n + 1 \in DOMAIN ms /\ n \in Nat
    BY <1>0, <1>1, <2>4, <2>6
  <2>8. Follows(ms[n], ms[n + 1])
    BY <2>5, <2>7 DEF PairedSoFar
  <2> DEFINE A == At(ms[n + 1], "result", i)
  <2>9. Cardinality(A) = 1
    BY <2>4, <2>8 DEF Follows
  <2>10. IsFiniteSet(A)
    <3>1. ms[n + 1] \in ChatMessage
      BY <1>1, <2>7
    <3>2. DOMAIN ms[n + 1].blocks = 1..Len(ms[n + 1].blocks) /\ Len(ms[n + 1].blocks) \in Nat
      BY <3>1, Sides, LenProperties
    <3>3. IsFiniteSet(1..Len(ms[n + 1].blocks))
      <4>1. \A k \in Nat : IsFiniteSet(1..k)
        BY FS_Interval
      <4> QED BY <3>2, <4>1
    <3>4. A \subseteq 1..Len(ms[n + 1].blocks)
      BY <3>2 DEF At
    <3> HIDE DEF A
    <3> QED BY <3>3, <3>4, FS_Subset
  <2>11. PICK c : A = {c}
    <3> HIDE DEF A
    <3> QED BY <2>9, <2>10, FS_Singleton
  <2>12. R = {<<n + 1, c>>}
    <3>1. <<n + 1, c>> \in R
      BY <2>7, <2>11, PlacesAre
    <3>2. ASSUME NEW p \in R PROVE p = <<n + 1, c>>
      <4>1. PICK l \in DOMAIN ms : \E b \in At(ms[l], "result", i) : p = <<l, b>>
        BY <1>2
      <4>2. PICK b \in At(ms[l], "result", i) : p = <<l, b>>
        BY <4>1
      <4>3. l - 1 \in DOMAIN ms /\ At(ms[l - 1], "use", i) # {}
        BY <4>2, ResultHasCall
      <4>4. l - 1 = n
        BY <2>2, <4>3 DEF UsedApart
      <4>5. l = n + 1
        BY <1>0, <1>1, <2>7, <4>4
      <4>6. b \in A
        BY <4>2, <4>5
      <4> QED BY <2>11, <4>2, <4>5, <4>6
    <3> HIDE DEF R
    <3> QED BY <3>1, <3>2
  <2> HIDE DEF U, R
  <2>13. Cardinality(U) = 1 /\ Cardinality(R) = 1
    BY <2>3, <2>12, FS_Singleton
  <2> QED BY <2>13 DEF U, R
<1> QED BY <1>3, <1>4

\* The cut is a place of the conversation that does not begin with results.
LEMMA CutIsSafe ==
    ASSUME NEW ms \in Seq(ChatMessage)
    PROVE  /\ CutOrAll(ms) \in 1..Len(ms) + 1
           /\ CutOrAll(ms) <= Len(ms) => SafeStart(ms[CutOrAll(ms)])
<1> DEFINE n == Len(ms)
           T == {i \in DOMAIN ms : Size(SubSeq(ms, i, Len(ms))) >= Keep}
           candidate == Latest(T)
           safe == {i \in candidate..Len(ms) : SafeStart(ms[i])}
           cut == IF safe = {} THEN Len(ms) + 1 ELSE CHOOSE i \in safe : \A j \in safe : i <= j
<1>0. n \in Nat /\ DOMAIN ms = 1..n
  BY LenProperties
<1>1. candidate = 0 \/ candidate \in 1..n
  <2>1. CASE T = {}
    BY <2>1 DEF Latest
  <2>2. CASE T # {}
    <3>1. T \in SUBSET (1..n)
      BY <1>0
    <3>2. Latest(T) \in T
      <4> HIDE DEF T
      <4> QED BY <1>0, <2>2, <3>1, LatestIsGreatest
    <3> QED BY <3>1, <3>2
  <2> QED BY <2>1, <2>2
<1>2. Cut(ms) = IF candidate = 0 THEN 0 ELSE IF cut = 1 THEN n + 1 ELSE cut
  BY DEF Cut
<1> HIDE DEF candidate
<1>3. CASE candidate = 0
  <2>1. CutOrAll(ms) = n + 1
    BY <1>2, <1>3 DEF CutOrAll
  <2> QED BY <1>0, <2>1
<1>4. CASE candidate # 0
  <2>1. cut = n + 1 \/ (cut \in 1..n /\ SafeStart(ms[cut]))
    <3>1. CASE safe = {}
      BY <3>1
    <3>2. CASE safe # {}
      <4>1. safe \subseteq 1..n /\ safe \subseteq Nat
        BY <1>0, <1>1, <1>4
      <4>2. \E i \in safe : \A j \in safe : i <= j
        <5> HIDE DEF safe
        <5> QED BY <3>2, <4>1, LeastNatural
      <4>3. cut \in safe
        <5> HIDE DEF safe
        <5> QED BY <3>2, <4>2
      <4>4. \A i \in safe : SafeStart(ms[i])
        OBVIOUS
      <4> HIDE DEF safe, cut
      <4> QED BY <4>1, <4>3, <4>4
    <3> QED BY <3>1, <3>2
  <2> HIDE DEF cut
  <2>2. Cut(ms) = IF cut = 1 THEN n + 1 ELSE cut
    BY <1>2, <1>4
  <2>3. Cut(ms) = n + 1 \/ (Cut(ms) \in 1..n /\ SafeStart(ms[Cut(ms)]))
    BY <2>1, <2>2
  <2>4. Cut(ms) # 0
    BY <1>0, <2>3
  <2>5. CutOrAll(ms) = Cut(ms)
    BY <2>4 DEF CutOrAll
  <2>6. n + 1 \in 1..n + 1 /\ ~ (n + 1 <= n) /\ \A i \in 1..n : i \in 1..n + 1
    BY <1>0
  <2> HIDE DEF n
  <2>7. CutOrAll(ms) \in 1..n + 1 /\ (CutOrAll(ms) <= n => SafeStart(ms[CutOrAll(ms)]))
    BY <2>3, <2>5, <2>6
  <2> QED BY <2>7 DEF n
<1> QED BY <1>3, <1>4

\* What follows such a place is in pairs, and the log takes it.
LEMMA SuffixFits ==
    ASSUME NEW ms \in Seq(ChatMessage), Paired(ms), UsedApart(ms), NEW cut \in 1..Len(ms) + 1,
           cut <= Len(ms) => SafeStart(ms[cut])
    PROVE  LET kept == SubSeq(ms, cut, Len(ms))
           IN  kept \in Seq(ChatMessage) /\ UsedApart(kept) /\ ValidPairs(kept)
<1> DEFINE n == Len(ms)
           r == SubSeq(ms, cut, n)
           k == n - cut + 1
<1>0. n \in Nat /\ cut \in Nat /\ 1 <= cut /\ cut <= n + 1 /\ k \in Nat /\ n \in Int /\ cut \in Int
  <2>1. n \in Nat
    BY LenProperties
  <2> HIDE DEF n
  <2>2. cut \in 1..n + 1
    BY DEF n
  <2> QED BY <2>1, <2>2
<1>1. DOMAIN ms = 1..n /\ \A i \in 1..n : ms[i] \in ChatMessage
  BY LenProperties, ElementOfSeq
<1> HIDE DEF n
<1>2. \A i \in cut..n : i \in 1..n
  BY <1>0
<1>3. /\ r \in Seq(ChatMessage) /\ Len(r) = k
      /\ \A i \in 1..k : r[i] = ms[cut + i - 1]
  <2>1. /\ r \in Seq(ChatMessage)
        /\ Len(r) = IF cut <= n THEN n - cut + 1 ELSE 0
        /\ \A i \in 1..n - cut + 1 : r[i] = ms[cut + i - 1]
    BY <1>0, <1>1, <1>2, SubSeqProperties
  <2>2. ~ (cut <= n) => k = 0
    BY <1>0
  <2> QED BY <2>1, <2>2
<1>4. DOMAIN r = 1..k
  BY <1>3, LenProperties
<1> HIDE DEF r
<1>5. \A i \in 1..k : cut + i - 1 \in 1..n
  BY <1>0
<1>6. UsedApart(r)
  <2> SUFFICES ASSUME NEW i \in Id, NEW p \in 1..k, NEW q \in 1..k,
                      NEW a \in At(r[p], "use", i), NEW b \in At(r[q], "use", i)
               PROVE  p = q /\ a = b
    BY <1>4 DEF UsedApart
  <2>1. cut + p - 1 = cut + q - 1 /\ a = b
    BY SMTT(30), <1>1, <1>3, <1>5 DEF UsedApart
  <2>2. p \in Nat /\ q \in Nat
    BY <1>0
  <2> QED BY <1>0, <2>1, <2>2
<1>7. PairedSoFar(ms) /\ Open(ms) = {}
  BY PairedIsAll
<1>8. \A i \in 1..k - 1 : Follows(r[i], r[i + 1])
  <2> SUFFICES ASSUME NEW i \in 1..k - 1 PROVE Follows(r[i], r[i + 1])
    OBVIOUS
  <2>1. /\ i \in 1..k /\ i + 1 \in 1..k /\ cut + i - 1 \in 1..n - 1
        /\ cut + (i + 1) - 1 = (cut + i - 1) + 1
    BY <1>0
  <2>2. Follows(ms[cut + i - 1], ms[(cut + i - 1) + 1])
    BY <1>7, <2>1 DEF PairedSoFar, n
  <2> QED BY <1>3, <2>1, <2>2, SMTT(30)
<1>9. r # <<>> => IdsOf(r[1], "result") = {}
  <2> SUFFICES ASSUME r # <<>> PROVE IdsOf(r[1], "result") = {}
    OBVIOUS
  <2>1. k # 0
    BY <1>3, EmptySeq
  <2>2. 1 \in 1..k /\ cut <= n /\ cut + 1 - 1 = cut
    BY <1>0, <2>1
  <2>3. r[1] = ms[cut]
    BY <1>3, <2>2
  <2> QED BY <2>2, <2>3 DEF SafeStart, n
<1>10. Open(r) = {}
  <2>1. CASE k = 0
    <3>1. ~ (Len(r) + 1 > 1)
      BY <1>3, <2>1
    <3> QED BY <3>1 DEF Open, Pending
  <2>2. CASE k # 0
    <3>1. k \in 1..k /\ cut + k - 1 = n /\ k + 1 - 1 = k /\ n + 1 > 1 /\ n + 1 - 1 = n
      BY <1>0, <2>2
    <3>2. r[k] = ms[n]
      BY <1>3, <3>1
    <3>3. Open(ms) = IF ms[n].role = "assistant" THEN IdsOf(ms[n], "use") ELSE {}
      BY <3>1 DEF Open, Pending, n
    <3>4. Open(r) \in {{}, IF r[k].role = "assistant" THEN IdsOf(r[k], "use") ELSE {}}
      BY <1>3, <3>1 DEF Open, Pending
    <3> QED BY <1>7, <3>2, <3>3, <3>4
  <2> QED BY <2>1, <2>2
<1>11. Paired(r)
  BY <1>3, <1>8, <1>9, <1>10, PairedIsAll DEF PairedSoFar
<1>12. ValidPairs(r)
  BY <1>3, <1>6, <1>11, PairedIsValid
<1> QED BY <1>3, <1>6, <1>12 DEF r, n

-----------------------------------------------------------------------------
(* The run.                                                                *)

\* What was shown of a call is each of its events, in order.
ShownSoFar == shown = [n \in 1..streamed |-> n]

\* What a call for a turn relies on, and one for a compaction.
TurnCall == sent \in Seq(ChatMessage) /\ Paired(sent) /\ ShownSoFar
SummaryCall == retained \in Seq(ChatMessage) /\ UsedApart(retained) /\ ValidPairs(retained)

Calling == phase \in {"call", "backoff", "answered"}

\* The inductive invariant: besides the properties, the log repeats no id, a call
\* that waits to be tried again has shown nothing, and the answer has only ids
\* that are new to the log as it still is.
RunInv ==
    /\ LogFits(log)
    /\ streamed \in Nat
    /\ CopyIsLog
    /\ Calling => IF purpose = "turn" THEN TurnCall ELSE SummaryCall
    /\ phase = "backoff" => streamed = 0
    /\ phase = "answered" =>
          /\ answer.events = streamed
          /\ purpose = "turn" => answer.blocks \in Answers /\ answer.usage \in Nat

\* The properties are part of it.
LEMMA RunInvIsSound == RunInv => RunSound
<1> SUFFICES ASSUME RunInv PROVE RunSound
  OBVIOUS
<1>1. SentPaired
  BY DEF SentPaired, RunInv, Calling, TurnCall
<1>2. CompactionFits
  BY DEF CompactionFits, RunInv, Calling, SummaryCall
<1>3. CopyIsLog
  BY DEF RunInv
<1>4. ShownIsAnswer
  BY DEF ShownIsAnswer, RunInv, Calling, TurnCall, ShownSoFar
<1> QED BY <1>1, <1>2, <1>3, <1>4 DEF RunSound

LEMMA RunBegins == Init => RunInv
<1> SUFFICES ASSUME Init PROVE RunInv
  OBVIOUS
<1>1. log \in Seq(Fact) /\ UsedApart(Raw(log))
  BY RunAssumption, OnceIsApart DEF Init
<1>2. phase = "idle" /\ streamed = 0
  BY DEF Init
<1> QED BY <1>1, <1>2 DEF RunInv, LogFits, CopyIsLog, Calling

\* What a step leaves behind: no run, the top of a round, a call that begins.
LEMMA IdleFits ==
    ASSUME LogFits(log'), phase' = "idle", streamed' \in Nat
    PROVE  RunInv'
  BY DEF RunInv, CopyIsLog, Calling

LEMMA TopFits ==
    ASSUME LogFits(log'), phase' = "top", messages' = Projected(log'), streamed' \in Nat
    PROVE  RunInv'
  BY DEF RunInv, CopyIsLog, Calling

LEMMA FailFits ==
    ASSUME LogFits(log), Fail
    PROVE  RunInv'
<1>1. log' = log /\ phase' = "idle" /\ streamed' = 0
  BY DEF Fail, Finish, NoCall
<1> QED BY <1>1, IdleFits

LEMMA CallFits ==
    ASSUME LogFits(log), log' = log, NEW ms \in Seq(ChatMessage), Paired(ms), CallModel("turn", ms)
    PROVE  RunInv'
<1>1. /\ purpose' = "turn" /\ sent' = ms /\ streamed' = 0 /\ shown' = <<>> /\ phase' = "call"
  BY DEF CallModel
<1>2. <<>> = [n \in 1..0 |-> n]
  OBVIOUS
<1> QED BY <1>1, <1>2 DEF RunInv, CopyIsLog, Calling, TurnCall, ShownSoFar

LEMMA SummariseFits ==
    ASSUME LogFits(log), log' = log, NEW why, why # "turn", Summarise(why, Projected(log))
    PROVE  RunInv'
<1> DEFINE ms == Projected(log)
<1>1. ms \in Seq(ChatMessage) /\ Paired(ms) /\ UsedApart(ms)
  BY ProjectedIsPaired
<1>2. CutOrAll(ms) \in 1..Len(ms) + 1
      /\ (CutOrAll(ms) <= Len(ms) => SafeStart(ms[CutOrAll(ms)]))
  <2> HIDE DEF ms
  <2> QED BY <1>1, CutIsSafe
<1>3. LET kept == SubSeq(ms, CutOrAll(ms), Len(ms))
      IN  kept \in Seq(ChatMessage) /\ UsedApart(kept) /\ ValidPairs(kept)
  <2> HIDE DEF ms
  <2> QED BY <1>1, <1>2, SuffixFits
<1>4. /\ retained' = SubSeq(ms, CutOrAll(ms), Len(ms))
      /\ purpose' = why /\ streamed' = 0 /\ phase' = "call"
  BY DEF Summarise, CallModel
<1> QED BY <1>3, <1>4 DEF RunInv, CopyIsLog, Calling, SummaryCall

\* A request that is folded to the budget, or given up.
LEMMA RequestFits ==
    ASSUME LogFits(log), Request(Projected(log))
    PROVE  RunInv'
<1> DEFINE ms == Projected(log)
<1>1. ms \in Seq(ChatMessage) /\ Paired(ms)
  BY ProjectedIsPaired
<1>2. Budgeted(ms) \in {ms, Fold(ms), <<>>}
  BY DEF Budgeted
<1>3. CASE Budgeted(ms) = <<>>
  BY <1>3, FailFits DEF Request
<1>4. CASE Budgeted(ms) # <<>>
  <2>1. Budgeted(ms) \in Seq(ChatMessage) /\ Paired(Budgeted(ms))
    <3> HIDE DEF ms
    <3> QED BY <1>1, <1>2, <1>4, FoldIsPaired
  <2>2. CallModel("turn", Budgeted(ms)) /\ log' = log
    BY <1>4 DEF Request
  <2> HIDE DEF ms
  <2> QED BY <2>1, <2>2, CallFits
<1> QED BY <1>3, <1>4

-----------------------------------------------------------------------------
(* The steps.                                                              *)

LEMMA RunTurnKeeps ==
    ASSUME RunInv, RunTurn
    PROVE  RunInv'
<1> DEFINE typed == Message(User(<<Text>>))
<1>1. PICK added \in {<<>>, <<typed>>} :
         LET facts == log \o <<typed>> \o added
         IN /\ log' = facts
            /\ \/ /\ phase' = "top" /\ messages' = Projected(facts)
                  /\ UNCHANGED <<round, once, callVars>>
               \/ added = <<>> /\ Finish
  BY DEF RunTurn
<1>2. typed \in Fact /\ typed.ms = <<User(<<Text>>)>> /\ typed.kind # "compaction"
      /\ User(<<Text>>) \in ChatMessage /\ User(<<Text>>).role = "user"
  BY Facts
<1> HIDE DEF typed
<1>3. LogFits(log) /\ log \in Seq(Fact) /\ streamed \in Nat
  BY DEF RunInv, LogFits
<1>4. LogFits(log \o <<typed>> \o added)
  <2>1. LogFits(Append(log, typed)) /\ Append(log, typed) \in Seq(Fact)
    BY <1>2, <1>3, UserFits DEF LogFits
  <2>2. LogFits(Append(Append(log, typed), typed))
    BY <1>2, <2>1, UserFits
  <2>3. /\ log \o <<typed>> = Append(log, typed)
        /\ Append(log, typed) \o <<typed>> = Append(Append(log, typed), typed)
        /\ Append(log, typed) \o <<>> = Append(log, typed)
    BY <1>2, <1>3, <2>1, Commits
  <2> QED BY <1>1, <2>1, <2>2, <2>3
<1>5. CASE phase' = "top" /\ messages' = Projected(log') /\ UNCHANGED callVars
  <2>1. streamed' = streamed
    BY <1>5 DEF callVars
  <2> QED BY <1>1, <1>3, <1>4, <1>5, <2>1, TopFits
<1>6. CASE Finish
  <2>1. phase' = "idle" /\ streamed' = 0
    BY <1>6 DEF Finish, NoCall
  <2> QED BY <1>1, <1>4, <2>1, IdleFits
<1> QED BY <1>1, <1>5, <1>6

LEMMA RecordModelChangeKeeps ==
    ASSUME RunInv, RecordModelChange
    PROVE  RunInv'
<1>1. LogFits(log) /\ log \in Seq(Fact) /\ streamed \in Nat /\ Raw(log) \in Seq(ChatMessage)
  BY RawIsMessages DEF RunInv, LogFits
<1>2. log' = Append(log, ModelChange) /\ phase' = "idle" /\ streamed' = streamed
  BY DEF RecordModelChange, Command, callVars
<1>3. Append(log, ModelChange) \in Seq(Fact) /\ Raw(Append(log, ModelChange)) = Raw(log) \o <<>>
  BY <1>1, RawAppend, Facts
<1>4. Raw(log) \o <<>> = Raw(log)
  BY <1>1, ConcatEmptySeq
<1>5. LogFits(Append(log, ModelChange))
  BY <1>1, <1>3, <1>4 DEF LogFits
<1> QED BY <1>1, <1>2, <1>5, IdleFits

LEMMA CompactKeeps ==
    ASSUME RunInv, Compact
    PROVE  RunInv'
<1>1. LogFits(log) /\ log' = log /\ Summarise("manual", Projected(log))
  BY DEF RunInv, Compact
<1> QED BY <1>1, SummariseFits

LEMMA PreparePromptKeeps ==
    ASSUME RunInv, PreparePrompt
    PROVE  RunInv'
<1>1. LogFits(log) /\ messages = Projected(log)
  BY DEF RunInv, CopyIsLog, PreparePrompt
<1>2. \/ Fail
      \/ Summarise("automatic", Projected(log)) /\ log' = log
      \/ Request(Projected(log))
  BY <1>1 DEF PreparePrompt
<1> QED BY <1>1, <1>2, FailFits, SummariseFits, RequestFits

LEMMA CompactedKeeps ==
    ASSUME RunInv, Compacted
    PROVE  RunInv'
  BY RequestFits DEF RunInv, Compacted

\* While the log stays, so does what the model may answer.
LEMMA AnswersStay ==
    ASSUME log' = log
    PROVE  Answers' = Answers
  BY DEF Answers, Fresh

LEMMA StreamKeeps ==
    ASSUME RunInv, Stream
    PROVE  RunInv'
<1>1. /\ phase = "call" /\ phase' = "call" /\ streamed' = streamed + 1 /\ log' = log
      /\ purpose' = purpose /\ sent' = sent /\ retained' = retained
      /\ shown' = IF purpose = "turn" THEN Append(shown, streamed + 1) ELSE shown
  BY DEF Stream
<1>2. LogFits(log) /\ streamed \in Nat /\ (IF purpose = "turn" THEN TurnCall ELSE SummaryCall)
  BY <1>1 DEF RunInv, Calling
<1>3. CASE purpose = "turn"
  <2> DEFINE more == [n \in 1..streamed + 1 |-> n]
  <2>1. shown = [n \in 1..streamed |-> n] /\ shown \in Seq(Nat) /\ Len(shown) = streamed
    <3>1. shown = [n \in 1..streamed |-> n]
      BY <1>2, <1>3 DEF TurnCall, ShownSoFar
    <3>2. DOMAIN shown = 1..streamed /\ \A n \in 1..streamed : shown[n] \in Nat
      BY <1>2, <3>1
    <3>3. shown = [n \in 1..streamed |-> shown[n]]
      BY <3>1
    <3> QED BY <1>2, <3>1, <3>2, <3>3, IsASeq
  <2>2. streamed + 1 \in Nat
    BY <1>2
  <2>3. Append(shown, streamed + 1) = [n \in 1..streamed + 1 |-> n]
    <3> DEFINE s == Append(shown, streamed + 1)
    <3>1. /\ s \in Seq(Nat) /\ Len(s) = streamed + 1 /\ s[streamed + 1] = streamed + 1
          /\ \A n \in 1..streamed : s[n] = shown[n]
      <4>1. \A e \in Nat :
               /\ Append(shown, e) \in Seq(Nat) /\ Len(Append(shown, e)) = Len(shown) + 1
               /\ Append(shown, e)[Len(shown) + 1] = e
               /\ \A n \in 1..Len(shown) : Append(shown, e)[n] = shown[n]
        <5>1. shown \in Seq(Nat)
          BY <2>1
        <5> QED BY <5>1, AppendProperties
      <4>2. Len(shown) = streamed
        BY <2>1
      <4> QED BY <2>2, <4>1, <4>2
    <3> HIDE DEF s
    <3>2. s = [n \in 1..streamed + 1 |-> s[n]]
      BY <3>1, LenProperties
    <3>3. \A n \in 1..streamed + 1 : n = streamed + 1 \/ n \in 1..streamed
      BY <1>2
    <3>4. \A n \in 1..streamed : shown[n] = n
      BY <2>1
    <3>5. \A n \in 1..streamed + 1 : s[n] = n
      BY <3>1, <3>3, <3>4
    <3>6. s = [n \in 1..streamed + 1 |-> n]
      BY <3>2, <3>5
    <3> QED BY <3>6 DEF s
  <2> QED BY <1>1, <1>2, <1>3, <2>2, <2>3 DEF RunInv, CopyIsLog, Calling, TurnCall, ShownSoFar
<1>4. CASE purpose # "turn"
  <2>1. streamed + 1 \in Nat
    BY <1>2
  <2> QED BY <1>1, <1>2, <1>4, <2>1 DEF RunInv, CopyIsLog, Calling, SummaryCall
<1> QED BY <1>3, <1>4

LEMMA DoneKeeps ==
    ASSUME RunInv, Done
    PROVE  RunInv'
<1>1. PICK given \in (IF purpose = "turn" THEN Answers ELSE {<<>>, <<Text>>}) : Returns(given)
  BY DEF Done
<1>2. /\ phase = "call" /\ phase' = "answered" /\ streamed' = streamed /\ log' = log
      /\ purpose' = purpose /\ sent' = sent /\ retained' = retained /\ shown' = shown
  BY DEF Done
<1>3. /\ answer'.blocks = given /\ answer'.events = streamed
      /\ answer'.usage = Size(sent) + Len(given)
  BY <1>1 DEF Returns
<1>4. LogFits(log) /\ streamed \in Nat /\ (IF purpose = "turn" THEN TurnCall ELSE SummaryCall)
  BY <1>2 DEF RunInv, Calling
<1>5. IF purpose' = "turn" THEN TurnCall' ELSE SummaryCall'
  BY <1>2, <1>4 DEF TurnCall, SummaryCall, ShownSoFar
<1>6. purpose = "turn" => answer'.blocks \in Answers' /\ answer'.usage \in Nat
  <2> SUFFICES ASSUME purpose = "turn" PROVE answer'.blocks \in Answers' /\ answer'.usage \in Nat
    OBVIOUS
  <2>1. given \in Answers /\ log \in Seq(Fact) /\ sent \in Seq(ChatMessage)
    BY <1>1, <1>4 DEF LogFits, TurnCall
  <2>2. given \in Seq(AnswerBlock)
    BY <2>1, AnswersAreNew
  <2>3. Len(given) \in Nat /\ Size(sent) \in Nat
    BY <2>1, <2>2, LenProperties, SizeIsNat
  <2> QED BY <1>2, <1>3, <2>1, <2>3, AnswersStay
<1> QED BY <1>2, <1>3, <1>4, <1>5, <1>6 DEF RunInv, CopyIsLog, Calling

LEMMA BackoffKeeps ==
    ASSUME RunInv, Backoff
    PROVE  RunInv'
<1>1. /\ phase = "call" /\ phase' = "backoff" /\ streamed = 0 /\ streamed' = streamed
      /\ log' = log /\ purpose' = purpose /\ sent' = sent /\ retained' = retained
      /\ shown' = shown
  BY DEF Backoff, MayRetry, callVars
<1>2. LogFits(log) /\ (IF purpose = "turn" THEN TurnCall ELSE SummaryCall)
  BY <1>1 DEF RunInv, Calling
<1>3. IF purpose' = "turn" THEN TurnCall' ELSE SummaryCall'
  BY <1>1, <1>2 DEF TurnCall, SummaryCall, ShownSoFar
<1> QED BY <1>1, <1>2, <1>3 DEF RunInv, CopyIsLog, Calling

LEMMA TryAgainKeeps ==
    ASSUME RunInv, TryAgain
    PROVE  RunInv'
<1>1. /\ phase = "backoff" /\ phase' = "call" /\ streamed' = 0
      /\ log' = log /\ purpose' = purpose /\ sent' = sent /\ retained' = retained
      /\ shown' = shown
  BY DEF TryAgain
<1>2. LogFits(log) /\ streamed = 0 /\ (IF purpose = "turn" THEN TurnCall ELSE SummaryCall)
  BY <1>1 DEF RunInv, Calling
<1>3. IF purpose' = "turn" THEN TurnCall' ELSE SummaryCall'
  BY <1>1, <1>2 DEF TurnCall, SummaryCall, ShownSoFar
<1> QED BY <1>1, <1>2, <1>3 DEF RunInv, CopyIsLog, Calling

LEMMA UserCancelsKeeps ==
    ASSUME RunInv, UNCHANGED <<log, phase, messages, callVars>>
    PROVE  RunInv'
<1>1. /\ log' = log /\ phase' = phase /\ messages' = messages /\ purpose' = purpose
      /\ retained' = retained /\ sent' = sent /\ streamed' = streamed /\ shown' = shown
      /\ answer' = answer
  BY DEF callVars
<1>2. Answers' = Answers
  BY <1>1, AnswersStay
<1> QED BY <1>1, <1>2 DEF RunInv, LogFits, CopyIsLog, Calling, TurnCall, SummaryCall, ShownSoFar

LEMMA SummaryReturnsKeeps ==
    ASSUME RunInv, SummaryReturns
    PROVE  RunInv'
<1>1. LogFits(log) /\ log \in Seq(Fact) /\ retained \in Seq(ChatMessage) /\ UsedApart(retained)
  BY DEF RunInv, LogFits, SummaryReturns, Calling, SummaryCall
<1>2. CASE Fail
  BY <1>1, <1>2, FailFits
<1>3. CASE ~ Fail
  <2> DEFINE f == Compaction(retained)
             note == User(<<Text>>)
             ms == <<note>> \o retained
  <2>1. /\ log' = Append(log, f) /\ streamed' = 0 /\ phase' \in {"idle", "compacted"}
    BY <1>3 DEF SummaryReturns, Finish, NoCall
  <2>2. f \in Fact /\ f.ms = ms /\ f.kind = "compaction" /\ note \in ChatMessage /\ note.role = "user"
    BY <1>1, Facts
  <2> HIDE DEF f, note
  <2>3. Append(log, f) \in Seq(Fact) /\ Raw(Append(log, f)) = ms
    BY <1>1, <2>2, RawAppend
  <2>4. /\ ms \in Seq(ChatMessage) /\ Len(ms) = 1 + Len(retained)
        /\ \A n \in 1..1 + Len(retained) :
              ms[n] = IF n <= 1 THEN <<note>>[n] ELSE retained[n - 1]
    <3>1. <<note>> \in Seq(ChatMessage) /\ Len(<<note>>) = 1
      BY <2>2
    <3> QED BY <1>1, <3>1, ConcatProperties
  <2>5. Len(retained) \in Nat /\ DOMAIN retained = 1..Len(retained) /\ DOMAIN ms = 1..1 + Len(retained)
    BY <1>1, <2>4, LenProperties
  <2> HIDE DEF ms
  <2>6. ASSUME NEW n \in DOMAIN ms
        PROVE  /\ n = 1 => \A i : At(ms[n], "use", i) = {}
               /\ n # 1 => n - 1 \in DOMAIN retained /\ ms[n] = retained[n - 1]
    <3>1. n = 1 => ms[n] = note
      BY <2>4, <2>5
    <3>2. n # 1 => n - 1 \in 1..Len(retained) /\ ms[n] = retained[n - 1]
      BY <2>4, <2>5
    <3> QED BY <2>2, <2>5, <3>1, <3>2, UsersUseNothing
  <2>7. UsedApart(ms)
    <3> SUFFICES ASSUME NEW i \in Id, NEW n \in DOMAIN ms, NEW l \in DOMAIN ms,
                        NEW a \in At(ms[n], "use", i), NEW b \in At(ms[l], "use", i)
                 PROVE  n = l /\ a = b
      BY DEF UsedApart
    <3>1. n # 1 /\ l # 1
      BY <2>6
    <3>2. n - 1 = l - 1 /\ a = b
      BY <1>1, <2>6, <3>1 DEF UsedApart
    <3>3. n \in Nat /\ l \in Nat
      BY <2>5
    <3> QED BY <3>2, <3>3
  <2>8. LogFits(log')
    BY <2>1, <2>3, <2>7 DEF LogFits
  <2> QED BY <2>1, <2>8 DEF RunInv, CopyIsLog, Calling
<1> QED BY <1>2, <1>3

\* Facts are committed, and the loop goes on with them or ends.
LEMMA NextRoundFits ==
    ASSUME NEW flags, NEW facts, LogFits(facts), NextRound(flags, facts)
    PROVE  RunInv'
<1>1. CASE round + 1 < MaxTurns
  <2>1. /\ log' = facts /\ phase' = "top" /\ messages' = Projected(facts) /\ streamed' = 0
    BY <1>1 DEF NextRound, NoCall
  <2> QED BY <2>1, TopFits
<1>2. CASE ~ (round + 1 < MaxTurns)
  <2>1. log' = facts /\ phase' = "idle" /\ streamed' = 0
    BY <1>2 DEF NextRound, Finish, NoCall
  <2> QED BY <2>1, IdleFits
<1> QED BY <1>1, <1>2

\* The answer goes into the log, and what the user's side says after it.
LEMMA AnswerFits ==
    ASSUME RunInv, phase = "answered", purpose = "turn"
    PROVE  /\ Answer \in Fact /\ log \in Seq(Fact) /\ LogFits(log)
           /\ answer.blocks \in Seq(AnswerBlock)
           /\ LogFits(Append(log, Answer)) /\ Append(log, Answer) \in Seq(Fact)
           /\ log \o <<Answer>> = Append(log, Answer)
           /\ \A f \in Fact : f.kind # "compaction" /\ (\E m \in ChatMessage :
                                                          m.role = "user" /\ f.ms = <<m>>) =>
                 LogFits(log \o <<Answer, f>>) /\ log \o <<Answer, f>> \in Seq(Fact)
<1>1. /\ LogFits(log) /\ log \in Seq(Fact) /\ answer.blocks \in Answers /\ answer.usage \in Nat
  BY DEF RunInv, LogFits
<1> DEFINE m == Assistant(answer.blocks)
<1>2. /\ answer.blocks \in Seq(AnswerBlock)
      /\ \A i \in Id : \A a, b \in At(m, "use", i) : a = b
      /\ \A i \in Id : At(m, "use", i) # {} => Unused(log, i)
  BY <1>1, AnswersAreNew
<1>3. m \in ChatMessage
  BY <1>2, Sides
<1> HIDE DEF m
<1>4. Answer \in Fact /\ Answer.ms = <<m>> /\ Answer.kind # "compaction"
  BY <1>1, <1>3, Facts DEF Answer, m
<1>5. LogFits(Append(log, Answer)) /\ Append(log, Answer) \in Seq(Fact)
  BY <1>1, <1>2, <1>3, <1>4, CommitFits DEF LogFits
<1>6. ASSUME NEW f \in Fact, f.kind # "compaction", NEW u \in ChatMessage, u.role = "user",
             f.ms = <<u>>
      PROVE  LogFits(log \o <<Answer, f>>) /\ log \o <<Answer, f>> \in Seq(Fact)
  <2>1. LogFits(Append(Append(log, Answer), f))
    BY <1>5, <1>6, UserFits
  <2>2. log \o <<Answer, f>> = Append(Append(log, Answer), f)
    BY <1>1, <1>4, Commits
  <2> QED BY <2>1, <2>2 DEF LogFits
<1>7. log \o <<Answer>> = Append(log, Answer)
  BY <1>1, <1>4, Commits
<1> QED BY <1>1, <1>2, <1>4, <1>5, <1>6, <1>7

LEMMA PromptIsFact ==
    LET typed == Message(User(<<Text>>))
    IN  /\ typed \in Fact /\ typed.kind # "compaction"
        /\ \E m \in ChatMessage : m.role = "user" /\ typed.ms = <<m>>
        /\ Reminder \in Fact /\ Reminder.kind # "compaction"
        /\ \E m \in ChatMessage : m.role = "user" /\ Reminder.ms = <<m>>
  BY Facts

LEMMA ContinuesKeeps ==
    ASSUME RunInv, InterceptStop \/ PrepareNextTurn
    PROVE  RunInv'
<1>1. PICK flag, fact : /\ fact \in {Message(User(<<Text>>)), Reminder}
                        /\ Continues(flag, fact)
  BY DEF InterceptStop, PrepareNextTurn
<1>2. phase = "answered" /\ purpose = "turn" /\ NextRound(once \cup {flag}, log \o <<Answer, fact>>)
  BY <1>1 DEF Continues, AnswerIs
<1>3. LogFits(log \o <<Answer, fact>>)
  BY <1>1, <1>2, AnswerFits, PromptIsFact
<1> QED BY <1>2, <1>3, NextRoundFits

LEMMA CommitTerminalTurnKeeps ==
    ASSUME RunInv, CommitTerminalTurn
    PROVE  RunInv'
<1>1. phase = "answered" /\ purpose = "turn"
  BY DEF CommitTerminalTurn, AnswerIs
<1>2. CASE log' = Append(log, Answer) /\ Finish
  <2>1. phase' = "idle" /\ streamed' = 0
    BY <1>2 DEF Finish, NoCall
  <2>2. LogFits(Append(log, Answer))
    BY <1>1, AnswerFits
  <2> QED BY <1>2, <2>1, <2>2, IdleFits
<1>3. CASE NextRound(once, log \o <<Answer, Message(User(<<Text>>))>>)
  <2>1. LogFits(log \o <<Answer, Message(User(<<Text>>))>>)
    BY <1>1, AnswerFits, PromptIsFact
  <2> QED BY <1>3, <2>1, NextRoundFits
<1> QED BY <1>2, <1>3 DEF CommitTerminalTurn

LEMMA ExecuteToolTurnKeeps ==
    ASSUME RunInv, ExecuteToolTurn
    PROVE  RunInv'
<1> DEFINE typed == Message(User(<<Text>>))
<1>1. PICK big \in BOOLEAN, steered \in {<<>>, <<typed>>} :
         LET batch == <<Answer, Message(ToolResults(big))>>
         IN \/ ~cancel /\ NextRound(once, log \o batch \o steered)
            \/ /\ steered = <<>> /\ log' = log \o batch /\ Finish /\ UNCHANGED <<cancel, runs>>
  BY DEF ExecuteToolTurn
<1>2. phase = "answered" /\ purpose = "turn"
  BY DEF ExecuteToolTurn, AnswerIs
<1> DEFINE results == Message(ToolResults(big))
           facts == log \o <<Answer, results>>
<1>3. answer.blocks \in Seq(AnswerBlock)
  BY <1>2, AnswerFits
<1>4. ToolResults(big) \in ChatMessage /\ ToolResults(big).role = "user"
  BY <1>3, ToolResultsAre
<1>5. results \in Fact /\ results.ms = <<ToolResults(big)>> /\ results.kind # "compaction"
  BY <1>4, Facts
<1>6. typed \in Fact /\ typed.ms = <<User(<<Text>>)>> /\ typed.kind # "compaction"
      /\ User(<<Text>>) \in ChatMessage /\ User(<<Text>>).role = "user"
  BY Facts
<1> HIDE DEF results, typed
<1>7. LogFits(facts) /\ facts \in Seq(Fact)
  BY <1>2, <1>4, <1>5, AnswerFits
<1> HIDE DEF facts
<1>8. LogFits(facts \o steered)
  <2>1. LogFits(Append(facts, typed))
    BY <1>6, <1>7, UserFits
  <2>2. facts \o <<typed>> = Append(facts, typed) /\ facts \o <<>> = facts
    BY <1>6, <1>7, Commits
  <2> QED BY <1>1, <1>7, <2>1, <2>2
<1>9. CASE NextRound(once, facts \o steered)
  BY <1>8, <1>9, NextRoundFits
<1>10. CASE log' = facts /\ Finish
  <2>1. phase' = "idle" /\ streamed' = 0
    BY <1>10 DEF Finish, NoCall
  <2> QED BY <1>7, <1>10, <2>1, IdleFits
<1> QED BY <1>1, <1>9, <1>10 DEF facts, results

\* In every run, whatever log the process found: what is sent is in pairs, what a
\* compaction keeps the log takes, the loop's copy is the log's and what was shown
\* of an answer is all of it.
THEOREM RunAlways == Spec => []RunSound
<1>1. ASSUME RunInv, [Next]_agentVars PROVE RunInv'
  <2>1. CASE RunTurn
    BY <1>1, <2>1, RunTurnKeeps
  <2>2. CASE RecordModelChange
    BY <1>1, <2>2, RecordModelChangeKeeps
  <2>3. CASE Compact
    BY <1>1, <2>3, CompactKeeps
  <2>4. CASE Stream
    BY <1>1, <2>4, StreamKeeps
  <2>5. CASE Done
    BY <1>1, <2>5, DoneKeeps
  <2>6. CASE Fail
    BY <1>1, <2>6, FailFits DEF RunInv
  <2>7. CASE Backoff
    BY <1>1, <2>7, BackoffKeeps
  <2>8. CASE TryAgain
    BY <1>1, <2>8, TryAgainKeeps
  <2>9. CASE PreparePrompt
    BY <1>1, <2>9, PreparePromptKeeps
  <2>10. CASE Compacted
    BY <1>1, <2>10, CompactedKeeps
  <2>11. CASE SummaryReturns
    BY <1>1, <2>11, SummaryReturnsKeeps
  <2>12. CASE InterceptStop \/ PrepareNextTurn
    BY <1>1, <2>12, ContinuesKeeps
  <2>13. CASE CommitTerminalTurn
    BY <1>1, <2>13, CommitTerminalTurnKeeps
  <2>14. CASE ExecuteToolTurn
    BY <1>1, <2>14, ExecuteToolTurnKeeps
  <2>15. CASE UserCancels
    BY <1>1, <2>15, UserCancelsKeeps DEF UserCancels
  <2>16. CASE UNCHANGED agentVars
    BY <1>1, <2>16, UserCancelsKeeps DEF agentVars, callVars
  <2>17. Aborted \/ AttemptFails \/ AnswerLost => Fail
    BY DEF Aborted, AttemptFails, AnswerLost
  <2> QED BY <1>1, <2>1, <2>2, <2>3, <2>4, <2>5, <2>6, <2>7, <2>8, <2>9, <2>10, <2>11,
             <2>12, <2>13, <2>14, <2>15, <2>16, <2>17 DEF Next, Run
<1> QED BY <1>1, RunBegins, RunInvIsSound, PTL DEF Spec
-----------------------------------------------------------------------------
(* The answer of a stream.                                                 *)

\* The adapter lags behind the server by at most the one event under way.
Waiting(t, i) == wire.at \in {"named", "told"} /\ wire.event.t = t /\ wire.event.i = i

\* The pieces of an item the adapter was told of.
Heard(i) == IF Waiting("delta", i) THEN item[i].sent - 1 ELSE item[i].sent

\* Where a list of blocks has an item; it is in it once, as the server sent it,
\* or it is empty and no call.
Spots(bs, i) == {n \in DOMAIN bs : bs[n].i = i}
WholeIn(bs, i) ==
    /\ \A m, n \in Spots(bs, i) : m = n
    /\ Spots(bs, i) = {} => item[i].sent = 0 /\ item[i].kind # "tool"
    /\ \A n \in Spots(bs, i) : bs[n].kind = item[i].kind /\ bs[n].sent = item[i].sent

\* An item nobody heard of is in no place, one the adapter thinks open is among
\* the partials with the pieces heard, and one that stopped is among the blocks.
ItemFits(i) ==
    /\ Waiting("start", i) => i \notin DOMAIN partials /\ Spots(blocks, i) = {}
    /\ ~Waiting("start", i) /\ (item[i].open \/ Waiting("stop", i)) =>
          /\ i \in DOMAIN partials /\ Spots(blocks, i) = {}
          /\ partials[i].kind = item[i].kind /\ partials[i].sent = Heard(i)
    /\ ~item[i].open /\ ~Waiting("stop", i) => i \notin DOMAIN partials /\ WholeIn(blocks, i)
    /\ item[i].kind # "tool" => Times(i) = Heard(i)

\* An event under way speaks of an item as it is, or of the answer as it is.
Speaks(e) ==
    \/ /\ e.t = "start" /\ e.i \in OpenItems /\ item[e.i].kind = e.kind /\ item[e.i].sent = 0
       /\ stop = "none"
    \/ /\ e.t = "delta" /\ e.i \in OpenItems /\ item[e.i].kind = e.kind /\ item[e.i].sent > 0
    \/ /\ e.t = "told" /\ e.i \in OpenItems /\ item[e.i].sent = e.sent
    \/ /\ e.t = "stop" /\ e.i \in DOMAIN item \ OpenItems
       /\ item[e.i].kind = e.kind /\ item[e.i].sent = e.sent
    \/ /\ e.t = "reason" /\ api = "messages" /\ item # <<>> /\ MayEnd /\ e.reason = Reason
    \/ e.t = "ping"
Ends(e) ==
    \/ /\ e.t \in {"end", "max"} /\ MayEnd /\ ended = Reason
       /\ e.t = "max" <=> api = "responses" /\ Reason = "MaxTokens"
       /\ api = "messages" => stop = Reason
    \/ e.t \in {"error", "other", "[DONE]"} /\ ended = "trouble"

WireFits ==
    \/ wire \in {Idle, [at |-> "closed"]} /\ ended = "no"
    \/ /\ wire.at \in {"named", "told"} /\ wire = [at |-> wire.at, event |-> wire.event]
       /\ (ended = "no" /\ Speaks(wire.event)) \/ Ends(wire.event)

ItemRecord  == [kind : Kind, total : Nat, sent : Nat, open : BOOLEAN]
BlockRecord == [i : Nat, kind : Kind, sent : Nat, input : {"none", "object", "raw"}]
PartRecord  == [kind : Kind, sent : Nat]

\* While the call goes on.
StreamTyped ==
    /\ api \in {"messages", "responses"} /\ result = "none"
    /\ item \in Seq(ItemRecord) /\ blocks \in Seq(BlockRecord) /\ shownPieces \in Seq(Nat)
    /\ DOMAIN partials \subseteq DOMAIN item /\ partials \in [DOMAIN partials -> PartRecord]
    /\ \A n \in DOMAIN blocks : blocks[n].i \in DOMAIN item
    /\ \A n \in DOMAIN shownPieces : shownPieces[n] \in DOMAIN item
Reasoned == stop # "none" => api = "messages" /\ MayEnd /\ stop = Reason

Gathering ==
    /\ StreamTyped /\ Reasoned /\ WireFits
    /\ \A i \in DOMAIN item : ItemFits(i)
    /\ pc = "connect" => item = <<>> /\ wire = Idle

StreamInv == (pc # "end" => Gathering) /\ StreamSound

-----------------------------------------------------------------------------
(* Sets of numbers in their order.                                         *)

Below(S, i) == {j \in S : j < i}

\* The elements of a finite set of numbers have different ranks, and every rank
\* below its size is that of one of them.
LEMMA RanksDiffer ==
    ASSUME NEW S \in SUBSET Nat, IsFiniteSet(S), NEW i \in S, NEW k \in S, i < k
    PROVE  Cardinality(Below(S, i)) < Cardinality(Below(S, k))
<1>1. IsFiniteSet(Below(S, i)) /\ IsFiniteSet(Below(S, k))
  BY FS_Subset DEF Below
<1>0. i \in Nat /\ k \in Nat /\ \A j \in S : j \in Nat
  OBVIOUS
<1>2. Below(S, i) \subseteq Below(S, k) /\ i \in Below(S, k) /\ i \notin Below(S, i)
  <2>1. \A j \in S : j < i => j < k
    <3> SUFFICES ASSUME NEW j \in S, j < i PROVE j < k
      OBVIOUS
    <3>1. i \in Nat /\ k \in Nat /\ j \in Nat
      BY <1>0
    <3> QED BY <3>1
  <2>2. ~(i < i)
    BY <1>0
  <2> QED BY <2>1, <2>2 DEF Below
<1>3. Cardinality(Below(S, i)) <= Cardinality(Below(S, k))
      /\ Cardinality(Below(S, i)) # Cardinality(Below(S, k))
  BY <1>1, <1>2, FS_Subset
<1> QED BY <1>1, <1>3, FS_CardinalityType

LEMMA RankedOnce ==
    ASSUME NEW S \in SUBSET Nat, IsFiniteSet(S)
    PROVE  LET c == Cardinality(S)
               nth == [n \in 1..c |-> CHOOSE i \in S : Cardinality(Below(S, i)) = n - 1]
           IN  /\ c \in Nat
               /\ \A n \in 1..c : nth[n] \in S
               /\ \A m, n \in 1..c : nth[m] = nth[n] => m = n
               /\ \A i \in S : \E n \in 1..c : nth[n] = i
<1> DEFINE c == Cardinality(S)
           rank == [i \in S |-> Cardinality(Below(S, i))]
           nth == [n \in 1..c |-> CHOOSE i \in S : Cardinality(Below(S, i)) = n - 1]
<1>1. c \in Nat
  BY FS_CardinalityType
<1>2. \A i \in S : rank[i] \in 0..c - 1
  <2> SUFFICES ASSUME NEW i \in S PROVE rank[i] \in 0..c - 1
    OBVIOUS
  <2>1. Below(S, i) \subseteq S /\ i \notin Below(S, i)
    BY DEF Below
  <2>2. /\ IsFiniteSet(Below(S, i)) /\ Cardinality(Below(S, i)) <= c
        /\ Cardinality(Below(S, i)) # c
    BY <2>1, FS_Subset
  <2>3. Cardinality(Below(S, i)) \in Nat
    BY <2>2, FS_CardinalityType
  <2> QED BY <1>1, <2>2, <2>3
<1>3. \A i, k \in S : rank[i] = rank[k] => i = k
  <2> SUFFICES ASSUME NEW i \in S, NEW k \in S, rank[i] = rank[k] PROVE i = k
    OBVIOUS
  <2>1. rank[i] \in Nat /\ rank[k] \in Nat
    BY <1>1, <1>2
  <2>2. ~(i < k) /\ ~(k < i)
    BY <2>1, RanksDiffer
  <2> QED BY <2>2
<1>4. rank \in Injection(S, 0..c - 1)
  BY <1>2, <1>3 DEF Injection, IsInjective
<1>5. IsFiniteSet(0..c - 1) /\ Cardinality(0..c - 1) = c
  <2>1. 0 \in Int /\ c - 1 \in Int
    BY <1>1
  <2>2. IsFiniteSet(0..c - 1) /\ Cardinality(0..c - 1) = IF 0 > c - 1 THEN 0 ELSE (c - 1) - 0 + 1
    BY <2>1, FS_Interval
  <2> HIDE DEF c
  <2> QED BY <1>1, <2>2
<1>6. rank \in Surjection(S, 0..c - 1)
  BY <1>4, <1>5, FS_Injection
<1>7. \A n \in 1..c : \E i \in S : Cardinality(Below(S, i)) = n - 1
  <2> SUFFICES ASSUME NEW n \in 1..c PROVE \E i \in S : Cardinality(Below(S, i)) = n - 1
    OBVIOUS
  <2>1. n - 1 \in 0..c - 1
    BY <1>1
  <2>2. PICK i \in S : rank[i] = n - 1
    BY <1>6, <2>1 DEF Surjection
  <2> QED BY <2>2
<1>8. \A n \in 1..c : nth[n] \in S /\ rank[nth[n]] = n - 1
  BY <1>7
<1>9. \A i \in S : \E n \in 1..c : nth[n] = i
  <2> SUFFICES ASSUME NEW i \in S PROVE \E n \in 1..c : nth[n] = i
    OBVIOUS
  <2>1. rank[i] + 1 \in 1..c /\ (rank[i] + 1) - 1 = rank[i]
    BY <1>1, <1>2
  <2>2. rank[nth[rank[i] + 1]] = rank[i] /\ nth[rank[i] + 1] \in S
    BY <1>8, <2>1
  <2> QED BY <1>3, <2>1, <2>2
<1>10. \A m, n \in 1..c : nth[m] = nth[n] => m = n
  <2> SUFFICES ASSUME NEW m \in 1..c, NEW n \in 1..c, nth[m] = nth[n] PROVE m = n
    OBVIOUS
  <2>1. rank[nth[m]] = m - 1 /\ rank[nth[n]] = n - 1
    BY <1>8
  <2> HIDE DEF rank, nth
  <2>2. m - 1 = n - 1 /\ m \in Int /\ n \in Int
    BY <2>1, <1>1
  <2> QED BY <2>2
<1> HIDE DEF rank
<1> QED BY <1>1, <1>8, <1>9, <1>10

\* How often something is in a sequence that grows.
LEMMA TimesMore ==
    ASSUME NEW s \in Seq(Nat), NEW x \in Nat, NEW i
    PROVE  LET t == Append(s, x)
               in(q) == {n \in DOMAIN q : q[n] = i}
           IN  /\ Cardinality(in(s)) \in Nat
               /\ Cardinality(in(t)) = IF x = i THEN Cardinality(in(s)) + 1
                                       ELSE Cardinality(in(s))
<1> DEFINE t == Append(s, x)
           in(q) == {n \in DOMAIN q : q[n] = i}
<1>1. /\ Len(s) \in Nat /\ DOMAIN s = 1..Len(s) /\ DOMAIN t = 1..Len(s) + 1
      /\ t[Len(s) + 1] = x /\ \A n \in 1..Len(s) : t[n] = s[n]
  BY AppendProperties, LenProperties
<1>2. IsFiniteSet(in(s)) /\ Len(s) + 1 \notin in(s)
  <2>1. IsFiniteSet(1..Len(s))
    BY <1>1, FS_Interval
  <2> QED BY <1>1, <2>1, FS_Subset
<1>3. in(t) = IF x = i THEN in(s) \cup {Len(s) + 1} ELSE in(s)
  BY <1>1
<1>4. Cardinality(in(s)) \in Nat
  BY <1>2, FS_CardinalityType
<1>5. Cardinality(in(s) \cup {Len(s) + 1}) = Cardinality(in(s)) + 1
  BY <1>2, FS_AddElement
<1> QED BY <1>3, <1>4, <1>5

-----------------------------------------------------------------------------
(* The steps of the server.                                                *)

LEMMA StreamBegins == StreamInit => StreamInv
<1> SUFFICES ASSUME StreamInit PROVE StreamInv
  OBVIOUS
<1>1. /\ api \in {"messages", "responses"} /\ result = "none" /\ pc = "connect"
      /\ item = <<>> /\ blocks = <<>> /\ shownPieces = <<>> /\ stop = "none"
      /\ wire = Idle /\ ended = "no"
  BY DEF StreamInit
<1>2. DOMAIN item = {} /\ DOMAIN blocks = {} /\ DOMAIN shownPieces = {}
  BY <1>1
<1>3. DOMAIN partials = {} /\ partials \in [DOMAIN partials -> PartRecord]
  BY DEF StreamInit
<1>4. StreamTyped
  BY <1>1, <1>2, <1>3 DEF StreamTyped
<1>5. StreamSound
  BY <1>1 DEF StreamSound, AnswerWhole, FailureSound
<1> QED BY <1>1, <1>2, <1>4, <1>5 DEF StreamInv, Gathering, Reasoned, WireFits

\* An item that a step leaves alone.
LEMMA ItemStays ==
    ASSUME NEW i, ItemFits(i), item'[i] = item[i],
           i \in DOMAIN partials' <=> i \in DOMAIN partials,
           i \in DOMAIN partials => partials'[i] = partials[i],
           Spots(blocks', i) = Spots(blocks, i),
           \A n \in Spots(blocks, i) : blocks'[n] = blocks[n],
           item[i].kind # "tool" => Times(i)' = Times(i),
           \A t \in {"start", "delta", "stop"} : Waiting(t, i)' <=> Waiting(t, i)
    PROVE  ItemFits(i)'
<1>1. Heard(i)' = Heard(i)
  BY DEF Heard
<1>2. WholeIn(blocks, i) => WholeIn(blocks, i)'
  BY DEF WholeIn
<1> QED BY <1>1, <1>2 DEF ItemFits

\* An event put on the wire.
LEMMA EventSent ==
    ASSUME NEW e, Sends(e)
    PROVE  /\ wire = Idle /\ ended = "no" /\ pc = "read"
           /\ wire' = [at |-> "named", event |-> e] /\ wire'.at = "named" /\ wire'.event = e
           /\ \A t, i : ~Waiting(t, i)
           /\ \A t, i : Waiting(t, i)' <=> e.t = t /\ e.i = i
           /\ UNCHANGED <<api, pc, partials, blocks, stop, shownPieces, result, cancelled>>
<1>1. wire = Idle /\ wire' = [at |-> "named", event |-> e]
  BY DEF Sends
<1>2. wire.at = "between" /\ wire'.at = "named" /\ wire'.event = e
  BY <1>1 DEF Idle
<1> QED BY <1>1, <1>2 DEF Sends, Waiting, adapterVars

\* An event that speaks of no single item.
LEMMA TellKeeps ==
    ASSUME Gathering, NEW e, Sends(e), e.t \notin {"start", "delta", "stop"}, UNCHANGED item,
           (ended' = "no" /\ Speaks(e)) \/ Ends(e)'
    PROVE  Gathering'
<1>1. /\ wire'.at = "named" /\ wire'.event = e /\ wire' = [at |-> wire'.at, event |-> wire'.event]
      /\ pc = "read" /\ \A t, i : ~Waiting(t, i)
      /\ \A t, i : Waiting(t, i)' <=> e.t = t /\ e.i = i
      /\ UNCHANGED <<api, pc, partials, blocks, stop, shownPieces, result>>
  BY EventSent
<1>2. StreamTyped' /\ MayEnd' = MayEnd /\ Reason' = Reason /\ OpenItems' = OpenItems
  BY <1>1 DEF Gathering, StreamTyped, MayEnd, Reason, OpenItems, Calls, CutOff
<1>3. Reasoned'
  BY <1>1, <1>2 DEF Gathering, Reasoned
<1>4. WireFits'
  <2>1. Speaks(e) => Speaks(e)'
    BY <1>1, <1>2 DEF Speaks
  <2> QED BY <1>1, <2>1 DEF WireFits
<1>5. ASSUME NEW i \in DOMAIN item PROVE ItemFits(i)'
  <2>1. ItemFits(i) /\ Times(i)' = Times(i)
    BY <1>1, <1>5 DEF Gathering, Times
  <2> QED BY <1>1, <2>1, ItemStays
<1> QED BY <1>1, <1>2, <1>3, <1>4, <1>5 DEF Gathering

LEMMA TellReasoningKeeps ==
    ASSUME Gathering, NEW i \in DOMAIN item, TellReasoning(i)
    PROVE  Gathering'
<1> DEFINE e == [t |-> "told", i |-> i, sent |-> item[i].sent]
<1>1. Sends(e) /\ UNCHANGED item /\ ended' = ended /\ i \in OpenItems
  BY DEF TellReasoning, serverVars
<1>2. ended = "no" /\ e.t = "told" /\ Speaks(e)
  BY <1>1, EventSent DEF Speaks
<1> HIDE DEF e
<1> QED BY <1>1, <1>2, TellKeeps

LEMMA TellReasonKeeps ==
    ASSUME Gathering, TellReason
    PROVE  Gathering'
<1> DEFINE e == [t |-> "reason", reason |-> Reason]
<1>1. Sends(e) /\ UNCHANGED item /\ ended' = ended
  BY DEF TellReason, serverVars
<1>2. ended = "no" /\ e.t = "reason" /\ Speaks(e)
  BY <1>1, EventSent DEF Speaks, TellReason
<1> HIDE DEF e
<1> QED BY <1>1, <1>2, TellKeeps

LEMMA EndAnswerKeeps ==
    ASSUME Gathering, EndAnswer
    PROVE  Gathering'
<1> DEFINE e == [t |-> IF api = "responses" /\ Reason = "MaxTokens" THEN "max" ELSE "end"]
<1>1. Sends(e) /\ UNCHANGED item /\ ended' = Reason /\ MayEnd /\ (api = "messages" => stop = Reason)
  BY DEF EndAnswer
<1>2. UNCHANGED <<api, stop>>
  BY <1>1, EventSent
<1>3. MayEnd' = MayEnd /\ Reason' = Reason
  BY <1>1, <1>2 DEF MayEnd, Reason, Calls, CutOff
<1>4. e.t \in {"end", "max"} /\ (e.t = "max" <=> api = "responses" /\ Reason = "MaxTokens")
  OBVIOUS
<1> HIDE DEF e
<1>5. (e.t = "max" <=> api = "responses" /\ Reason = "MaxTokens")'
  <2>1. e' = e
    BY <1>2, <1>3 DEF e
  <2> QED BY <1>2, <1>3, <1>4, <2>1
<1> QED BY <1>1, <1>2, <1>3, <1>4, <1>5, TellKeeps DEF Ends

LEMMA TroubleKeeps ==
    ASSUME Gathering, NEW t \in {"error", "other", "[DONE]", "ping"}, Trouble(t)
    PROVE  Gathering'
<1> DEFINE e == [t |-> t]
<1>1. Sends(e) /\ UNCHANGED item /\ ended' = (IF t = "ping" THEN "no" ELSE "trouble") /\ e.t = t
  BY DEF Trouble
<1> HIDE DEF e
<1>2. (ended' = "no" /\ Speaks(e)) \/ Ends(e)'
  BY <1>1 DEF Speaks, Ends
<1> QED BY <1>1, <1>2, TellKeeps

\* An event that speaks of one item: the others stay as they are.
LEMMA ItemSent ==
    ASSUME Gathering, NEW e, Sends(e), ended' = ended, Speaks(e)', item' \in Seq(ItemRecord),
           DOMAIN item \subseteq DOMAIN item', (stop = "none")', ItemFits(e.i)',
           \A i \in DOMAIN item' : i # e.i => i \in DOMAIN item /\ item'[i] = item[i]
    PROVE  Gathering'
<1>1. /\ wire'.at = "named" /\ wire'.event = e /\ wire' = [at |-> wire'.at, event |-> wire'.event]
      /\ pc = "read" /\ ended = "no" /\ \A t, i : ~Waiting(t, i)
      /\ \A t, i : Waiting(t, i)' <=> e.t = t /\ e.i = i
      /\ UNCHANGED <<api, pc, partials, blocks, stop, shownPieces, result>>
  BY EventSent
<1>2. StreamTyped'
  BY <1>1 DEF Gathering, StreamTyped
<1>3. WireFits'
  BY <1>1 DEF WireFits
<1>4. ASSUME NEW i \in DOMAIN item', i # e.i PROVE ItemFits(i)'
  <2>1. ItemFits(i) /\ item'[i] = item[i] /\ Times(i)' = Times(i)
    BY <1>1, <1>4 DEF Gathering, Times
  <2> QED BY <1>1, <1>4, <2>1, ItemStays
<1> QED BY <1>1, <1>2, <1>3, <1>4 DEF Gathering, Reasoned

\* While the server works on an item no reason to stop was told.
LEMMA OpenIsUnreasoned ==
    ASSUME Gathering, NEW i \in OpenItems
    PROVE  stop = "none"
  BY DEF Gathering, Reasoned, MayEnd, OpenItems

LEMMA StartItemKeeps ==
    ASSUME Gathering, NEW k \in Kind, NEW total \in Nat, StartItem(k, total)
    PROVE  Gathering'
<1> DEFINE new == [kind |-> k, total |-> total, sent |-> 0, open |-> TRUE]
<1>n. PICK n : n = Len(item) + 1
  OBVIOUS
<1>e. PICK e : e = [t |-> "start", i |-> n, kind |-> k]
  OBVIOUS
<1>1. stop = "none" /\ item' = Append(item, new) /\ Sends(e) /\ ended' = ended
  BY <1>n, <1>e DEF StartItem
<1>2. new \in ItemRecord /\ item \in Seq(ItemRecord)
  BY DEF ItemRecord, Gathering, StreamTyped
<1>3. /\ item' \in Seq(ItemRecord) /\ Len(item) \in Nat /\ DOMAIN item = 1..Len(item)
      /\ DOMAIN item' = 1..n /\ item'[n] = new /\ \A i \in DOMAIN item : item'[i] = item[i]
  BY <1>1, <1>2, <1>n, AppendProperties, LenProperties
<1>4. /\ pc = "read" /\ \A t, i : ~Waiting(t, i)
      /\ \A t, i : Waiting(t, i)' <=> e.t = t /\ e.i = i
      /\ UNCHANGED <<api, pc, partials, blocks, stop, shownPieces>>
  BY <1>1, EventSent
<1>5. n \in 1..n /\ n \notin DOMAIN item
  BY <1>3, <1>n
<1>6. n \notin DOMAIN partials /\ Spots(blocks, n) = {} /\ Times(n) = 0
  <2>1. \A j \in DOMAIN blocks : blocks[j].i # n
    BY <1>5 DEF Gathering, StreamTyped
  <2>2. \A j \in DOMAIN shownPieces : shownPieces[j] # n
    BY <1>5 DEF Gathering, StreamTyped
  <2>3. {j \in DOMAIN shownPieces : shownPieces[j] = n} = {}
    BY <2>2
  <2>4. Times(n) = 0
    BY <2>3, FS_EmptySet DEF Times
  <2> QED BY <1>5, <2>1, <2>4 DEF Spots, Gathering, StreamTyped
<1>7. e.t = "start" /\ e.i = n /\ e.kind = k /\ new.kind = k /\ new.sent = 0 /\ new.open = TRUE
  BY <1>e
<1> HIDE DEF new
<1>8. ItemFits(n)'
  <2>1. Waiting("start", n)' /\ ~Waiting("delta", n)' /\ ~Waiting("stop", n)'
    BY <1>4, <1>7
  <2>2. Spots(blocks, n)' = {} /\ Times(n)' = 0
    BY <1>4, <1>6 DEF Spots, Times
  <2> QED BY <1>3, <1>4, <1>6, <1>7, <2>1, <2>2 DEF ItemFits, Heard
<1>9. Speaks(e)'
  BY <1>1, <1>3, <1>4, <1>5, <1>7 DEF Speaks, OpenItems
<1>10. \A i \in DOMAIN item' : i # n => i \in DOMAIN item /\ item'[i] = item[i]
  BY <1>3, <1>n
<1>11. DOMAIN item \subseteq DOMAIN item'
  BY <1>3, <1>n
<1> QED BY <1>1, <1>3, <1>4, <1>7, <1>8, <1>9, <1>10, <1>11, ItemSent

LEMMA SendPieceKeeps ==
    ASSUME Gathering, NEW i \in DOMAIN item, SendPiece(i)
    PROVE  Gathering'
<1>e. PICK e : e = [t |-> "delta", i |-> i, kind |-> item[i].kind]
  OBVIOUS
<1>1. i \in OpenItems /\ item' = [item EXCEPT ![i].sent = @ + 1] /\ Sends(e) /\ ended' = ended
  BY <1>e DEF SendPiece
<1>2. item \in Seq(ItemRecord) /\ item[i] \in ItemRecord
  BY DEF Gathering, StreamTyped
<1>3. [item[i] EXCEPT !.sent = @ + 1] \in ItemRecord
  BY <1>2, SMTT(30) DEF ItemRecord
<1>4. item' = [item EXCEPT ![i] = [item[i] EXCEPT !.sent = @ + 1]]
  BY <1>1
<1>5. /\ item' \in Seq(ItemRecord) /\ DOMAIN item' = DOMAIN item
      /\ \A j \in DOMAIN item : j # i => item'[j] = item[j]
      /\ item'[i] = [item[i] EXCEPT !.sent = @ + 1]
  BY <1>2, <1>3, <1>4, ExceptSeq
<1>6. /\ item'[i].kind = item[i].kind /\ item'[i].open /\ item'[i].sent = item[i].sent + 1
      /\ item[i].sent \in Nat
  BY <1>1, <1>2, <1>5 DEF ItemRecord, OpenItems
<1>7. /\ \A t, j : ~Waiting(t, j)
      /\ \A t, j : Waiting(t, j)' <=> e.t = t /\ e.i = j
      /\ UNCHANGED <<api, pc, partials, blocks, stop, shownPieces>>
  BY <1>1, EventSent
<1>8. e.t = "delta" /\ e.i = i /\ e.kind = item[i].kind
  BY <1>e
<1>9. ItemFits(i) /\ item[i].open
  BY <1>1 DEF Gathering, OpenItems
<1>10. ItemFits(i)'
  <2>1. ~Waiting("start", i)' /\ Waiting("delta", i)' /\ ~Waiting("stop", i)'
    BY <1>7, <1>8
  <2>2. Heard(i)' = Heard(i)
    BY <1>6, <1>7, <2>1 DEF Heard
  <2>3. Spots(blocks, i)' = Spots(blocks, i) /\ Times(i)' = Times(i)
    BY <1>7 DEF Spots, Times
  <2> QED BY <1>6, <1>7, <1>9, <2>1, <2>2, <2>3 DEF ItemFits
<1>11. Speaks(e)'
  <2>1. item'[i].sent > 0
    BY <1>6
  <2>2. i \in OpenItems'
    BY <1>5, <1>6 DEF OpenItems
  <2> QED BY <1>6, <1>8, <2>1, <2>2 DEF Speaks
<1>12. (stop = "none")'
  BY <1>1, <1>7, OpenIsUnreasoned
<1> QED BY <1>1, <1>5, <1>8, <1>10, <1>11, <1>12, ItemSent

LEMMA StopItemKeeps ==
    ASSUME Gathering, NEW i \in DOMAIN item, StopItem(i)
    PROVE  Gathering'
<1>e. PICK e : e = [t |-> "stop", i |-> i, kind |-> item[i].kind, sent |-> item[i].sent]
  OBVIOUS
<1>1. i \in OpenItems /\ item' = [item EXCEPT ![i].open = FALSE] /\ Sends(e) /\ ended' = ended
  BY <1>e DEF StopItem
<1>2. item \in Seq(ItemRecord) /\ item[i] \in ItemRecord
  BY DEF Gathering, StreamTyped
<1>3. [item[i] EXCEPT !.open = FALSE] \in ItemRecord
  BY <1>2 DEF ItemRecord
<1>4. item' = [item EXCEPT ![i] = [item[i] EXCEPT !.open = FALSE]]
  BY <1>1
<1>5. /\ item' \in Seq(ItemRecord) /\ DOMAIN item' = DOMAIN item
      /\ \A j \in DOMAIN item : j # i => item'[j] = item[j]
      /\ item'[i] = [item[i] EXCEPT !.open = FALSE]
  BY <1>2, <1>3, <1>4, ExceptSeq
<1>6. item'[i].kind = item[i].kind /\ item'[i].open = FALSE /\ item'[i].sent = item[i].sent
  BY <1>2, <1>5 DEF ItemRecord
<1>7. /\ \A t, j : ~Waiting(t, j)
      /\ \A t, j : Waiting(t, j)' <=> e.t = t /\ e.i = j
      /\ UNCHANGED <<api, pc, partials, blocks, stop, shownPieces>>
  BY <1>1, EventSent
<1>8. e.t = "stop" /\ e.i = i /\ e.kind = item[i].kind /\ e.sent = item[i].sent
  BY <1>e
<1>9. ItemFits(i) /\ item[i].open
  BY <1>1 DEF Gathering, OpenItems
<1>10. ItemFits(i)'
  <2>1. ~Waiting("start", i)' /\ ~Waiting("delta", i)' /\ Waiting("stop", i)'
    BY <1>7, <1>8
  <2>2. Heard(i)' = Heard(i)
    BY <1>6, <1>7, <2>1 DEF Heard
  <2>3. Spots(blocks, i)' = Spots(blocks, i) /\ Times(i)' = Times(i)
    BY <1>7 DEF Spots, Times
  <2> QED BY <1>6, <1>7, <1>9, <2>1, <2>2, <2>3 DEF ItemFits
<1>11. Speaks(e)'
  BY <1>5, <1>6, <1>8 DEF Speaks, OpenItems
<1>12. (stop = "none")'
  BY <1>1, <1>7, OpenIsUnreasoned
<1> QED BY <1>1, <1>5, <1>8, <1>10, <1>11, <1>12, ItemSent

-----------------------------------------------------------------------------
(* The steps of the adapter.                                               *)

\* The event under way is what waits, and nothing waits when it was taken.
LEMMA EventRead ==
    ASSUME NEW e, wire.at \in {"named", "told"}, wire.event = e,
           wire' \in {Idle, [at |-> "closed"]}
    PROVE  /\ \A t, i : Waiting(t, i) <=> e.t = t /\ e.i = i
           /\ \A t, i : ~Waiting(t, i)'
           /\ \A i : Heard(i)' = item'[i].sent
<1>1. wire'.at \notin {"named", "told"}
  BY DEF Idle
<1> QED BY <1>1 DEF Waiting, Heard

\* An event that the adapter goes on after: the items it does not speak of stay.
LEMMA EventTaken ==
    ASSUME Gathering, NEW e, wire.at \in {"named", "told"}, wire.event = e,
           wire' \in {Idle, [at |-> "closed"]}, Continue, UNCHANGED <<api, item, ended>>,
           ended = "no", StreamTyped', Reasoned',
           e.t \in {"start", "delta", "stop", "told"} => ItemFits(e.i)',
           \A i \in DOMAIN item : i # e.i \/ e.t \notin {"start", "delta", "stop", "told"} =>
               /\ i \in DOMAIN partials' <=> i \in DOMAIN partials
               /\ i \in DOMAIN partials => partials'[i] = partials[i]
               /\ Spots(blocks', i) = Spots(blocks, i)
               /\ \A n \in Spots(blocks, i) : blocks'[n] = blocks[n]
               /\ item[i].kind # "tool" => Times(i)' = Times(i)
    PROVE  Gathering'
<1>1. /\ \A t, i : Waiting(t, i) <=> e.t = t /\ e.i = i
      /\ \A t, i : ~Waiting(t, i)'
  BY EventRead
<1>2. ASSUME NEW i \in DOMAIN item PROVE ItemFits(i)'
  <2>1. CASE i = e.i /\ e.t \in {"start", "delta", "stop", "told"}
    BY <2>1
  <2>2. CASE i # e.i \/ e.t \notin {"start", "delta", "stop", "told"}
    <3>1. ItemFits(i) /\ item'[i] = item[i]
      BY DEF Gathering
    <3>2. \A t \in {"start", "delta", "stop"} : Waiting(t, i)' <=> Waiting(t, i)
      BY <1>1, <2>2
    <3> QED BY <2>2, <3>1, <3>2, ItemStays
  <2> QED BY <2>1, <2>2
<1>3. WireFits' /\ pc' # "connect"
  BY DEF WireFits, Continue
<1> QED BY <1>2, <1>3 DEF Gathering

LEMMA OnStartKeeps ==
    ASSUME Gathering, NEW e, wire.at \in {"named", "told"}, wire.event = e,
           wire' \in {Idle, [at |-> "closed"]}, UNCHANGED <<api, item, ended>>,
           ended = "no", Speaks(e), e.t = "start", OnStart(e)
    PROVE  Gathering'
<1>1. /\ e.i \in OpenItems /\ item[e.i].kind = e.kind /\ item[e.i].sent = 0
      /\ e.i \in DOMAIN item /\ item[e.i].open
  BY DEF Speaks, OpenItems
<1>2. /\ Waiting("start", e.i) /\ ~Waiting("delta", e.i)
      /\ ~Waiting("start", e.i)' /\ ~Waiting("stop", e.i)' /\ Heard(e.i)' = item'[e.i].sent
  BY EventRead
<1>3. /\ DOMAIN partials' = DOMAIN partials \cup {e.i}
      /\ partials'[e.i] = [kind |-> e.kind, sent |-> 0]
      /\ \A j \in DOMAIN partials : j # e.i => partials'[j] = partials[j]
      /\ partials' = [j \in DOMAIN partials' |-> partials'[j]]
  BY DEF OnStart, Put
<1>4. Continue /\ UNCHANGED <<blocks, stop, shownPieces>>
  BY DEF OnStart
<1>5. item[e.i] \in ItemRecord
  BY <1>1 DEF Gathering, StreamTyped
<1>6. \A j \in DOMAIN partials' : j \in DOMAIN item /\ partials'[j] \in PartRecord
  <2>1. [kind |-> e.kind, sent |-> 0] \in PartRecord
    BY <1>1, <1>5 DEF ItemRecord, PartRecord
  <2> QED BY <1>1, <1>3, <2>1 DEF Gathering, StreamTyped
<1>7. partials' \in [DOMAIN partials' -> PartRecord]
  BY <1>3, <1>6
<1>8. StreamTyped'
  BY <1>4, <1>6, <1>7 DEF Gathering, StreamTyped, Continue
<1>9. Reasoned'
  BY <1>4 DEF Gathering, Reasoned, MayEnd, Reason, CutOff, Calls
<1>10. ItemFits(e.i)
  BY <1>1 DEF Gathering
<1>11. ItemFits(e.i)'
  <2>1. Spots(blocks, e.i) = {} /\ (item[e.i].kind # "tool" => Times(e.i) = item[e.i].sent)
    BY <1>2, <1>10 DEF ItemFits, Heard
  <2>2. (Spots(blocks, e.i) = {})' /\ Times(e.i)' = Times(e.i)
    BY <1>4, <2>1 DEF Spots, Times
  <2>3. partials'[e.i].kind = item[e.i].kind /\ partials'[e.i].sent = item[e.i].sent
    BY <1>1, <1>3
  <2> QED BY <1>1, <1>2, <1>3, <2>1, <2>2, <2>3 DEF ItemFits
<1>12. \A i \in DOMAIN item : Times(i)' = Times(i)
  BY <1>4 DEF Times
<1> QED BY <1>3, <1>4, <1>8, <1>9, <1>11, <1>12, EventTaken

LEMMA OnDeltaKeeps ==
    ASSUME Gathering, NEW e, wire.at \in {"named", "told"}, wire.event = e,
           wire' \in {Idle, [at |-> "closed"]}, UNCHANGED <<api, item, ended>>,
           ended = "no", Speaks(e), e.t = "delta", OnDelta(e)
    PROVE  Gathering'
<1>1. /\ e.i \in OpenItems /\ item[e.i].kind = e.kind /\ item[e.i].sent > 0
      /\ e.i \in DOMAIN item /\ item[e.i].open
  BY DEF Speaks, OpenItems
<1>2. /\ ~Waiting("start", e.i) /\ Waiting("delta", e.i)
      /\ ~Waiting("start", e.i)' /\ ~Waiting("stop", e.i)' /\ Heard(e.i)' = item'[e.i].sent
  BY EventRead
<1>3. item[e.i] \in ItemRecord /\ item[e.i].sent \in Nat /\ e.i \in Nat
  <2>1. item[e.i] \in ItemRecord /\ DOMAIN item = 1..Len(item)
    BY <1>1, LenProperties DEF Gathering, StreamTyped
  <2> QED BY <1>1, <2>1 DEF ItemRecord
<1>4. /\ e.i \in DOMAIN partials /\ Spots(blocks, e.i) = {}
      /\ partials[e.i].kind = item[e.i].kind /\ partials[e.i].sent = item[e.i].sent - 1
      /\ item[e.i].kind # "tool" => Times(e.i) = item[e.i].sent - 1
  <2>1. ItemFits(e.i)
    BY <1>1 DEF Gathering
  <2> QED BY <1>1, <1>2, <2>1 DEF ItemFits, Heard
<1>5. Continue /\ UNCHANGED <<blocks, stop>> /\ shownPieces' = Piece(e)
      /\ partials' = [partials EXCEPT ![e.i].sent = @ + 1]
  BY <1>4 DEF OnDelta
<1>6. partials[e.i] \in PartRecord
  BY <1>4 DEF Gathering, StreamTyped
<1>7. /\ DOMAIN partials' = DOMAIN partials
      /\ partials'[e.i] = [partials[e.i] EXCEPT !.sent = @ + 1]
      /\ \A j \in DOMAIN partials : j # e.i => partials'[j] = partials[j]
      /\ partials' = [j \in DOMAIN partials' |-> partials'[j]]
  BY <1>4, <1>5 DEF Gathering, StreamTyped
<1>8. /\ partials'[e.i] \in PartRecord /\ partials'[e.i].kind = item[e.i].kind
      /\ partials'[e.i].sent = item[e.i].sent
  BY <1>3, <1>4, <1>6, <1>7 DEF PartRecord
<1>9. partials' \in [DOMAIN partials' -> PartRecord]
  <2>1. \A j \in DOMAIN partials' : partials'[j] \in PartRecord
    BY <1>7, <1>8 DEF Gathering, StreamTyped
  <2> QED BY <1>7, <2>1
<1>10. /\ shownPieces' \in Seq(Nat)
       /\ \A n \in DOMAIN shownPieces' : shownPieces'[n] \in DOMAIN item
       /\ \A i \in DOMAIN item : item[i].kind # "tool" /\ i # e.i => Times(i)' = Times(i)
       /\ item[e.i].kind # "tool" => Times(e.i)' = item[e.i].sent
  <2>1. shownPieces \in Seq(Nat) /\ \A n \in DOMAIN shownPieces : shownPieces[n] \in DOMAIN item
    BY DEF Gathering, StreamTyped
  <2>2. CASE e.kind = "tool"
    <3>1. shownPieces' = shownPieces
      BY <1>5, <2>2 DEF Piece
    <3> QED BY <1>1, <2>1, <2>2, <3>1 DEF Times
  <2>3. CASE e.kind # "tool"
    <3>1. shownPieces' = Append(shownPieces, e.i)
      BY <1>5, <2>3 DEF Piece
    <3>2. /\ shownPieces' \in Seq(Nat) /\ DOMAIN shownPieces' = 1..Len(shownPieces) + 1
          /\ shownPieces'[Len(shownPieces) + 1] = e.i /\ DOMAIN shownPieces = 1..Len(shownPieces)
          /\ \A n \in 1..Len(shownPieces) : shownPieces'[n] = shownPieces[n]
          /\ Len(shownPieces) \in Nat
      BY <1>3, <2>1, <3>1, AppendProperties, LenProperties
    <3>3. \A n \in DOMAIN shownPieces' : n \in DOMAIN shownPieces \/ n = Len(shownPieces) + 1
      BY <3>2
    <3>4. \A n \in DOMAIN shownPieces' : shownPieces'[n] \in DOMAIN item
      BY <1>1, <2>1, <3>2, <3>3
    <3>5. \A i : /\ Times(i) \in Nat
                 /\ Times(i)' = IF e.i = i THEN Times(i) + 1 ELSE Times(i)
      <4> SUFFICES ASSUME NEW i
                   PROVE  /\ Times(i) \in Nat
                          /\ Times(i)' = IF e.i = i THEN Times(i) + 1 ELSE Times(i)
        OBVIOUS
      <4>1. Times(i)' = Cardinality({n \in DOMAIN Append(shownPieces, e.i) :
                                                 Append(shownPieces, e.i)[n] = i})
        BY <3>1 DEF Times
      <4>2. /\ Cardinality({n \in DOMAIN shownPieces : shownPieces[n] = i}) \in Nat
            /\ Cardinality({n \in DOMAIN Append(shownPieces, e.i) : Append(shownPieces, e.i)[n] = i})
                 = IF e.i = i THEN Cardinality({n \in DOMAIN shownPieces : shownPieces[n] = i}) + 1
                   ELSE Cardinality({n \in DOMAIN shownPieces : shownPieces[n] = i})
        BY <1>3, <2>1, TimesMore
      <4> QED BY <4>1, <4>2 DEF Times
    <3>6. Times(e.i)' = (item[e.i].sent - 1) + 1
      BY <1>1, <1>4, <2>3, <3>5
    <3> QED BY <1>3, <3>2, <3>4, <3>5, <3>6
  <2> QED BY <2>2, <2>3
<1>11. StreamTyped'
  BY <1>5, <1>7, <1>9, <1>10 DEF Gathering, StreamTyped, Continue
<1>12. Reasoned'
  BY <1>5 DEF Gathering, Reasoned, MayEnd, Reason, CutOff, Calls
<1>13. ItemFits(e.i)'
  <2>1. (Spots(blocks, e.i) = {})'
    BY <1>4, <1>5 DEF Spots
  <2> QED BY <1>1, <1>2, <1>4, <1>7, <1>8, <1>10, <2>1 DEF ItemFits
<1> QED BY <1>5, <1>7, <1>10, <1>11, <1>12, <1>13, EventTaken

LEMMA OnToldKeeps ==
    ASSUME Gathering, NEW e, wire.at \in {"named", "told"}, wire.event = e,
           wire' \in {Idle, [at |-> "closed"]}, UNCHANGED <<api, item, ended>>,
           ended = "no", Speaks(e), e.t = "told", OnTold(e)
    PROVE  Gathering'
<1>1. /\ e.i \in OpenItems /\ item[e.i].sent = e.sent
      /\ e.i \in DOMAIN item /\ item[e.i].open
  BY DEF Speaks, OpenItems
<1>2. /\ \A t \in {"start", "delta", "stop"} : ~Waiting(t, e.i) /\ ~Waiting(t, e.i)'
      /\ Heard(e.i)' = item'[e.i].sent
  BY EventRead
<1>3. item[e.i] \in ItemRecord /\ item[e.i].sent \in Nat
  <2>1. item[e.i] \in ItemRecord
    BY <1>1 DEF Gathering, StreamTyped
  <2> QED BY <2>1 DEF ItemRecord
<1>4. /\ e.i \in DOMAIN partials /\ Spots(blocks, e.i) = {}
      /\ partials[e.i].kind = item[e.i].kind
      /\ item[e.i].kind # "tool" => Times(e.i) = item[e.i].sent
  <2>1. ItemFits(e.i)
    BY <1>1 DEF Gathering
  <2> QED BY <1>1, <1>2, <2>1 DEF ItemFits, Heard
<1>5. Continue /\ UNCHANGED <<blocks, stop, shownPieces>>
      /\ partials' = [partials EXCEPT ![e.i].sent = e.sent]
  BY <1>4 DEF OnTold
<1>6. partials[e.i] \in PartRecord
  BY <1>4 DEF Gathering, StreamTyped
<1>7. /\ DOMAIN partials' = DOMAIN partials
      /\ partials'[e.i] = [partials[e.i] EXCEPT !.sent = e.sent]
      /\ \A j \in DOMAIN partials : j # e.i => partials'[j] = partials[j]
      /\ partials' = [j \in DOMAIN partials' |-> partials'[j]]
  BY <1>4, <1>5 DEF Gathering, StreamTyped
<1>8. /\ partials'[e.i] \in PartRecord /\ partials'[e.i].kind = item[e.i].kind
      /\ partials'[e.i].sent = item[e.i].sent
  BY <1>1, <1>3, <1>4, <1>6, <1>7 DEF PartRecord
<1>9. partials' \in [DOMAIN partials' -> PartRecord]
  <2>1. \A j \in DOMAIN partials' : partials'[j] \in PartRecord
    BY <1>7, <1>8 DEF Gathering, StreamTyped
  <2> QED BY <1>7, <2>1
<1>10. StreamTyped'
  BY <1>5, <1>7, <1>9 DEF Gathering, StreamTyped, Continue
<1>11. Reasoned'
  BY <1>5 DEF Gathering, Reasoned, MayEnd, Reason, CutOff, Calls
<1>12. \A i : Times(i)' = Times(i) /\ (Spots(blocks, i) = {} => (Spots(blocks, i) = {})')
  BY <1>5 DEF Times, Spots
<1>13. ItemFits(e.i)'
  BY <1>1, <1>2, <1>4, <1>7, <1>8, <1>12 DEF ItemFits
<1> QED BY <1>5, <1>7, <1>10, <1>11, <1>12, <1>13, EventTaken

LEMMA OnReasonKeeps ==
    ASSUME Gathering, NEW e, wire.at \in {"named", "told"}, wire.event = e,
           wire' \in {Idle, [at |-> "closed"]}, UNCHANGED <<api, item, ended>>,
           ended = "no", Speaks(e), e.t = "reason", OnReason(e)
    PROVE  Gathering'
<1>1. api = "messages" /\ MayEnd /\ e.reason = Reason
  BY DEF Speaks
<1>2. Continue /\ UNCHANGED <<partials, blocks, shownPieces>> /\ stop' = e.reason
  BY DEF OnReason
<1>3. StreamTyped'
  BY <1>2 DEF Gathering, StreamTyped, Continue
<1>4. MayEnd' = MayEnd /\ Reason' = Reason
  BY DEF MayEnd, Reason, CutOff, Calls
<1>5. Reasoned'
  BY <1>1, <1>2, <1>4 DEF Reasoned
<1>6. \A i : Times(i)' = Times(i)
  BY <1>2 DEF Times
<1> QED BY <1>2, <1>3, <1>5, <1>6, EventTaken

LEMMA PingKeeps ==
    ASSUME Gathering, NEW e, wire.at \in {"named", "told"}, wire.event = e,
           wire' \in {Idle, [at |-> "closed"]}, UNCHANGED <<api, item, ended>>,
           ended = "no", e.t = "ping", Continue, UNCHANGED <<partials, blocks, stop, shownPieces>>
    PROVE  Gathering'
<1>1. StreamTyped'
  BY DEF Gathering, StreamTyped, Continue
<1>2. Reasoned'
  BY DEF Gathering, Reasoned, MayEnd, Reason, CutOff, Calls
<1>3. \A i : Times(i)' = Times(i)
  BY DEF Times
<1> QED BY <1>1, <1>2, <1>3, EventTaken

\* A block more in a list.
LEMMA SpotsMore ==
    ASSUME NEW bs \in Seq(BlockRecord), NEW b \in BlockRecord
    PROVE  /\ Append(bs, b) \in Seq(BlockRecord)
           /\ Spots(Append(bs, b), b.i) = Spots(bs, b.i) \cup {Len(bs) + 1}
           /\ \A i : b.i # i => Spots(Append(bs, b), i) = Spots(bs, i)
           /\ \A n \in DOMAIN bs : Append(bs, b)[n] = bs[n]
           /\ Append(bs, b)[Len(bs) + 1] = b
           /\ \A n \in DOMAIN Append(bs, b) : n \in DOMAIN bs \/ Append(bs, b)[n] = b
<1>1. /\ Append(bs, b) \in Seq(BlockRecord) /\ Len(bs) \in Nat /\ DOMAIN bs = 1..Len(bs)
      /\ DOMAIN Append(bs, b) = 1..Len(bs) + 1 /\ Append(bs, b)[Len(bs) + 1] = b
      /\ \A n \in 1..Len(bs) : Append(bs, b)[n] = bs[n]
  BY AppendProperties, LenProperties
<1>2. \A n \in 1..Len(bs) + 1 : n \in 1..Len(bs) \/ n = Len(bs) + 1
  BY <1>1
<1>3. Len(bs) + 1 \in 1..Len(bs) + 1 /\ Len(bs) + 1 \notin 1..Len(bs)
      /\ \A n \in 1..Len(bs) : n \in 1..Len(bs) + 1
  BY <1>1
<1>4. Spots(Append(bs, b), b.i) = Spots(bs, b.i) \cup {Len(bs) + 1}
  BY <1>1, <1>2, <1>3 DEF Spots
<1>5. ASSUME NEW i, b.i # i PROVE Spots(Append(bs, b), i) = Spots(bs, i)
  BY <1>1, <1>2, <1>3, <1>5 DEF Spots
<1> QED BY <1>1, <1>2, <1>3, <1>4, <1>5

LEMMA BlockIsRecord ==
    ASSUME NEW i \in Nat, NEW k \in Kind, NEW got \in Nat
    PROVE  /\ Block(i, k, got) \in BlockRecord
           /\ Block(i, k, got).i = i /\ Block(i, k, got).kind = k /\ Block(i, k, got).sent = got
  BY DEF Block, BlockRecord, Parsed

LEMMA OnStopKeeps ==
    ASSUME Gathering, NEW e, wire.at \in {"named", "told"}, wire.event = e,
           wire' \in {Idle, [at |-> "closed"]}, UNCHANGED <<api, item, ended>>,
           ended = "no", Speaks(e), e.t = "stop", OnStop(e)
    PROVE  Gathering'
<1>1. /\ e.i \in DOMAIN item /\ ~item[e.i].open
      /\ item[e.i].kind = e.kind /\ item[e.i].sent = e.sent
  BY DEF Speaks, OpenItems
<1>2. /\ ~Waiting("start", e.i) /\ ~Waiting("delta", e.i) /\ Waiting("stop", e.i)
      /\ ~Waiting("start", e.i)' /\ ~Waiting("stop", e.i)' /\ Heard(e.i)' = item'[e.i].sent
  BY EventRead
<1>3. item[e.i].kind \in Kind /\ item[e.i].sent \in Nat /\ e.i \in Nat
  <2>1. item[e.i] \in ItemRecord /\ DOMAIN item = 1..Len(item)
    BY <1>1, LenProperties DEF Gathering, StreamTyped
  <2> QED BY <1>1, <2>1 DEF ItemRecord
<1>4. /\ e.i \in DOMAIN partials /\ Spots(blocks, e.i) = {}
      /\ partials[e.i].kind = item[e.i].kind /\ partials[e.i].sent = item[e.i].sent
      /\ item[e.i].kind # "tool" => Times(e.i) = item[e.i].sent
  <2>1. ItemFits(e.i)
    BY <1>1 DEF Gathering
  <2> QED BY <1>1, <1>2, <2>1 DEF ItemFits, Heard
<1>5. PICK b : b = Block(e.i, item[e.i].kind, item[e.i].sent)
  OBVIOUS
<1>6. b \in BlockRecord /\ b.i = e.i /\ b.kind = item[e.i].kind /\ b.sent = item[e.i].sent
  BY <1>3, <1>5, BlockIsRecord
<1>7. \/ blocks' = Append(blocks, b)
      \/ blocks' = blocks /\ item[e.i].kind # "tool" /\ item[e.i].sent = 0
  <2>1. api \in {"messages", "responses"}
    BY DEF Gathering, StreamTyped
  <2>2. CASE api = "messages"
    BY <1>4, <1>5, <2>2 DEF OnStop
  <2>3. CASE api = "responses" /\ (e.kind # "text" \/ e.sent > 0)
    BY <1>1, <1>5, <2>3 DEF OnStop
  <2>4. CASE api = "responses" /\ e.kind = "text" /\ ~(e.sent > 0)
    <3>1. blocks' = blocks
      BY <2>4 DEF OnStop
    <3> QED BY <1>1, <1>3, <2>4, <3>1
  <2> QED BY <2>1, <2>2, <2>3, <2>4
<1>8. /\ Continue /\ UNCHANGED <<stop, shownPieces>>
      /\ DOMAIN partials' = DOMAIN partials \ {e.i} /\ \A j \in DOMAIN partials' : partials'[j] = partials[j]
      /\ partials' = [j \in DOMAIN partials' |-> partials'[j]]
  BY DEF OnStop, Without
<1>9. partials' \in [DOMAIN partials' -> PartRecord]
  <2>1. \A j \in DOMAIN partials' : partials'[j] \in PartRecord
    BY <1>8 DEF Gathering, StreamTyped
  <2> QED BY <1>8, <2>1
<1>10. blocks \in Seq(BlockRecord) /\ \A n \in DOMAIN blocks : blocks[n].i \in DOMAIN item
  BY DEF Gathering, StreamTyped
<1>11. /\ blocks' \in Seq(BlockRecord) /\ \A n \in DOMAIN blocks' : blocks'[n].i \in DOMAIN item
       /\ WholeIn(blocks', e.i)
       /\ \A i : i # e.i => /\ Spots(blocks', i) = Spots(blocks, i)
                            /\ \A n \in Spots(blocks, i) : blocks'[n] = blocks[n]
  <2>1. CASE blocks' = blocks /\ item[e.i].kind # "tool" /\ item[e.i].sent = 0
    BY <1>4, <1>10, <2>1 DEF WholeIn
  <2>2. CASE blocks' = Append(blocks, b)
    <3>1. /\ blocks' \in Seq(BlockRecord) /\ blocks'[Len(blocks) + 1] = b
          /\ Spots(blocks', e.i) = Spots(blocks, e.i) \cup {Len(blocks) + 1}
          /\ \A i : i # e.i => Spots(blocks', i) = Spots(blocks, i)
          /\ \A n \in DOMAIN blocks : blocks'[n] = blocks[n]
          /\ \A n \in DOMAIN blocks' : n \in DOMAIN blocks \/ blocks'[n] = b
      BY <1>6, <1>10, <2>2, SpotsMore
    <3>2. Spots(blocks', e.i) = {Len(blocks) + 1}
      BY <1>4, <3>1
    <3>3. WholeIn(blocks', e.i)
      BY <1>6, <3>1, <3>2 DEF WholeIn
    <3> QED BY <1>1, <1>6, <1>10, <3>1, <3>3 DEF Spots
  <2> QED BY <1>7, <2>1, <2>2
<1>12. StreamTyped'
  BY <1>8, <1>9, <1>11 DEF Gathering, StreamTyped, Continue
<1>13. Reasoned'
  BY <1>8 DEF Gathering, Reasoned, MayEnd, Reason, CutOff, Calls
<1>14. \A i : Times(i)' = Times(i)
  BY <1>8 DEF Times
<1>15. ItemFits(e.i)'
  <2>1. WholeIn(blocks, e.i)'
    BY <1>11 DEF WholeIn
  <2> QED BY <1>1, <1>2, <1>4, <1>8, <1>14, <2>1 DEF ItemFits
<1> QED BY <1>8, <1>11, <1>12, <1>13, <1>14, <1>15, EventTaken

\* What is left open at the end is added to the blocks, each item once.
LEMMA CollectedIs ==
    ASSUME Gathering
    PROVE  LET kept == {i \in DOMAIN partials : api = "messages" \/ partials[i].kind = "tool"
                                                \/ partials[i].sent > 0}
           IN  /\ \A n \in DOMAIN Collected : Collected[n].i \in DOMAIN item
               /\ \A i \in DOMAIN item \ kept :
                     /\ Spots(Collected, i) = Spots(blocks, i)
                     /\ \A n \in Spots(blocks, i) : Collected[n] = blocks[n]
               /\ \A i \in kept : Spots(blocks, i) = {} =>
                     \E n \in DOMAIN Collected :
                        /\ Spots(Collected, i) = {n}
                        /\ Collected[n].kind = partials[i].kind /\ Collected[n].sent = partials[i].sent
<1> DEFINE kept == {i \in DOMAIN partials : api = "messages" \/ partials[i].kind = "tool"
                                            \/ partials[i].sent > 0}
           c == Cardinality(kept)
           nth == [n \in 1..c |-> CHOOSE i \in kept : Cardinality(Below(kept, i)) = n - 1]
           Nth(n) == CHOOSE i \in kept : Cardinality({j \in kept : j < i}) = n - 1
           rest == [n \in 1..c |-> Block(Nth(n), partials[Nth(n)].kind, partials[Nth(n)].sent)]
<1>1. /\ item \in Seq(ItemRecord) /\ blocks \in Seq(BlockRecord)
      /\ DOMAIN partials \subseteq DOMAIN item /\ partials \in [DOMAIN partials -> PartRecord]
      /\ \A n \in DOMAIN blocks : blocks[n].i \in DOMAIN item
  BY DEF Gathering, StreamTyped
<1>2. DOMAIN item = 1..Len(item) /\ Len(item) \in Nat
  BY <1>1, LenProperties
<1>3. kept \subseteq DOMAIN item /\ kept \in SUBSET Nat /\ IsFiniteSet(kept)
  <2>1. IsFiniteSet(1..Len(item))
    BY <1>2, FS_Interval
  <2>2. kept \subseteq DOMAIN item
    BY <1>1
  <2> QED BY <1>2, <2>1, <2>2, FS_Subset
<1>4. Collected = blocks \o rest
  BY DEF Collected
<1>5. \A i \in kept : i \in Nat /\ partials[i].kind \in Kind /\ partials[i].sent \in Nat
  <2>1. \A i \in kept : partials[i] \in PartRecord
    BY <1>1
  <2> QED BY <1>3, <2>1 DEF PartRecord
<1>6. /\ c \in Nat /\ \A n \in 1..c : nth[n] \in kept
      /\ \A m, n \in 1..c : nth[m] = nth[n] => m = n
      /\ \A i \in kept : \E n \in 1..c : nth[n] = i
  BY <1>3, RankedOnce
<1>15. \A n \in 1..c : nth[n] = Nth(n)
  BY DEF Below
<1> HIDE DEF kept, c, nth, Nth
<1>7. \A n \in 1..c : /\ rest[n] \in BlockRecord /\ rest[n].i = nth[n]
                      /\ rest[n].kind = partials[nth[n]].kind /\ rest[n].sent = partials[nth[n]].sent
  <2> SUFFICES ASSUME NEW n \in 1..c
               PROVE  /\ rest[n] \in BlockRecord /\ rest[n].i = nth[n]
                      /\ rest[n].kind = partials[nth[n]].kind /\ rest[n].sent = partials[nth[n]].sent
    OBVIOUS
  <2>1. rest[n] = Block(nth[n], partials[nth[n]].kind, partials[nth[n]].sent)
    BY <1>15
  <2> QED BY <1>5, <1>6, <2>1, BlockIsRecord
<1>8. rest \in Seq(BlockRecord) /\ Len(rest) = c /\ DOMAIN rest = 1..c
  BY <1>6, <1>7, IsASeq
<1> HIDE DEF rest
<1>9. PICK l \in Nat : l = Len(blocks) /\ DOMAIN blocks = 1..l
  BY <1>1, LenProperties
<1>10. /\ DOMAIN Collected = 1..l + c
       /\ \A n \in 1..l : n \in 1..l + c /\ Collected[n] = blocks[n]
       /\ \A n \in 1..c : l + n \in 1..l + c /\ Collected[l + n] = rest[n]
  <2>1. /\ Collected \in Seq(BlockRecord) /\ Len(Collected) = l + c
        /\ \A n \in 1..l + c : Collected[n] = IF n <= l THEN blocks[n] ELSE rest[n - l]
    BY <1>1, <1>4, <1>8, <1>9, ConcatProperties
  <2>2. DOMAIN Collected = 1..l + c
    BY <2>1, LenProperties
  <2>3. \A n \in 1..l : n \in 1..l + c /\ n <= l
    BY <1>6, <1>9
  <2>4. \A n \in 1..c : l + n \in 1..l + c /\ ~(l + n <= l) /\ (l + n) - l = n
    BY <1>6, <1>9
  <2> QED BY <2>1, <2>2, <2>3, <2>4
<1>11. \A n \in DOMAIN Collected : n \in 1..l \/ \E m \in 1..c : n = l + m
  <2> SUFFICES ASSUME NEW n \in 1..l + c, n \notin 1..l PROVE \E m \in 1..c : n = l + m
    BY <1>10
  <2>1. n - l \in 1..c /\ n = l + (n - l)
    BY <1>6, <1>9
  <2> QED BY <2>1
<1>12. \A n \in DOMAIN Collected : Collected[n].i \in DOMAIN item
  <2>1. \A n \in 1..l : Collected[n].i \in DOMAIN item
    BY <1>1, <1>9, <1>10
  <2>2. \A n \in 1..c : Collected[l + n].i \in DOMAIN item
    BY <1>3, <1>6, <1>7, <1>10
  <2> QED BY <1>11, <2>1, <2>2
<1>13. ASSUME NEW i \in DOMAIN item \ kept
       PROVE  /\ Spots(Collected, i) = Spots(blocks, i)
              /\ \A n \in Spots(blocks, i) : Collected[n] = blocks[n]
  <2>1. ASSUME NEW n \in 1..c PROVE Collected[l + n].i # i
    <3>1. Collected[l + n].i = nth[n] /\ nth[n] \in kept
      BY <1>6, <1>7, <1>10
    <3> QED BY <1>13, <3>1
  <2>2. \A n \in DOMAIN Collected : Collected[n].i = i => n \in 1..l /\ blocks[n].i = i
    BY <1>10, <1>11, <2>1
  <2>3. \A n \in DOMAIN blocks : n \in DOMAIN Collected /\ Collected[n] = blocks[n]
    BY <1>9, <1>10
  <2> QED BY <1>9, <2>2, <2>3 DEF Spots
<1>14. ASSUME NEW i \in kept, Spots(blocks, i) = {}
       PROVE  \E n \in DOMAIN Collected :
                 /\ Spots(Collected, i) = {n}
                 /\ Collected[n].kind = partials[i].kind /\ Collected[n].sent = partials[i].sent
  <2>1. PICK m \in 1..c : nth[m] = i
    BY <1>6
  <2>2. l + m \in DOMAIN Collected /\ Collected[l + m] = rest[m]
    BY <1>10
  <2>3. \A n \in 1..l : Collected[n].i # i
    BY <1>9, <1>10, <1>14 DEF Spots
  <2>4. \A k \in 1..c : Collected[l + k].i = i => k = m
    <3> SUFFICES ASSUME NEW k \in 1..c, Collected[l + k].i = i PROVE k = m
      OBVIOUS
    <3>1. nth[k] = i
      BY <1>7, <1>10
    <3> QED BY <1>6, <2>1, <3>1
  <2>5. \A n \in DOMAIN Collected : Collected[n].i = i => n = l + m
    BY <1>11, <2>3, <2>4
  <2>6. Collected[l + m].i = i
    BY <1>7, <2>1, <2>2
  <2>7. Spots(Collected, i) = {l + m}
    BY <2>2, <2>5, <2>6 DEF Spots
  <2> QED BY <1>7, <2>1, <2>2, <2>7
<1> QED BY <1>12, <1>13, <1>14 DEF kept

\* The end of the answer: what was gathered is the answer.
LEMMA OnEndKeeps ==
    ASSUME Gathering, NEW e, wire.at \in {"named", "told"}, wire.event = e,
           UNCHANGED <<api, item, ended>>, e.t \in {"end", "max"}, Ends(e), OnEnd(e)
    PROVE  StreamSound'
<1>1. /\ blocks' = Collected /\ result' = "done" /\ shownPieces' = shownPieces
      /\ stop' = CASE api = "messages" -> stop
                   [] e.t = "max" -> "MaxTokens"
                   [] OTHER -> IF HasCalls(Collected) THEN "ToolUse" ELSE "EndTurn"
  BY DEF OnEnd, Return
<1>2. /\ MayEnd /\ ended = Reason /\ (e.t = "max" <=> api = "responses" /\ Reason = "MaxTokens")
      /\ api = "messages" => stop = Reason
  BY DEF Ends
<1>3. \A t \in {"start", "delta", "stop"} : \A i : ~Waiting(t, i)
  BY DEF Waiting
<1>4. api \in {"messages", "responses"} /\ item \in Seq(ItemRecord)
      /\ partials \in [DOMAIN partials -> PartRecord] /\ DOMAIN partials \subseteq DOMAIN item
  BY DEF Gathering, StreamTyped
<1> DEFINE kept == {i \in DOMAIN partials : api = "messages" \/ partials[i].kind = "tool"
                                            \/ partials[i].sent > 0}
<1>5. /\ \A n \in DOMAIN Collected : Collected[n].i \in DOMAIN item
      /\ \A i \in DOMAIN item \ kept :
            /\ Spots(Collected, i) = Spots(blocks, i)
            /\ \A n \in Spots(blocks, i) : Collected[n] = blocks[n]
      /\ \A i \in kept : Spots(blocks, i) = {} =>
            \E n \in DOMAIN Collected :
               /\ Spots(Collected, i) = {n}
               /\ Collected[n].kind = partials[i].kind /\ Collected[n].sent = partials[i].sent
  BY CollectedIs
<1>6. ASSUME NEW i \in DOMAIN item
      PROVE  WholeIn(Collected, i) /\ (item[i].kind # "tool" => Times(i) = item[i].sent)
  <2>1. /\ item[i].open => /\ i \in DOMAIN partials /\ Spots(blocks, i) = {}
                           /\ partials[i].kind = item[i].kind /\ partials[i].sent = item[i].sent
        /\ ~item[i].open => i \notin DOMAIN partials /\ WholeIn(blocks, i)
        /\ item[i].kind # "tool" => Times(i) = item[i].sent
    BY <1>3 DEF Gathering, ItemFits, Heard
  <2>2. CASE ~item[i].open
    <3>1. i \notin kept /\ WholeIn(blocks, i)
      BY <2>1, <2>2
    <3> HIDE DEF kept
    <3> QED BY <1>5, <2>1, <3>1 DEF WholeIn
  <2>3. CASE i \in kept
    <3>1. Spots(blocks, i) = {} /\ partials[i].kind = item[i].kind /\ partials[i].sent = item[i].sent
      BY <2>1, <2>3
    <3> HIDE DEF kept
    <3>2. PICK n \in DOMAIN Collected :
               /\ Spots(Collected, i) = {n}
               /\ Collected[n].kind = partials[i].kind /\ Collected[n].sent = partials[i].sent
      BY <1>5, <2>3, <3>1
    <3> QED BY <2>1, <3>1, <3>2 DEF WholeIn
  <2>4. CASE item[i].open /\ i \notin kept
    <3>1. i \in DOMAIN partials /\ Spots(blocks, i) = {} /\ item[i].kind # "tool" /\ ~(item[i].sent > 0)
      BY <2>1, <2>4
    <3>2. item[i].sent \in Nat
      <4>1. item[i] \in ItemRecord
        BY <1>4
      <4> QED BY <4>1 DEF ItemRecord
    <3>3. item[i].sent = 0
      BY <3>1, <3>2
    <3> HIDE DEF kept
    <3>4. Spots(Collected, i) = {}
      BY <1>5, <2>4, <3>1
    <3> QED BY <2>1, <3>1, <3>3, <3>4 DEF WholeIn
  <2> QED BY <2>2, <2>3, <2>4
<1> HIDE DEF kept
<1>7. HasCalls(Collected) <=> Calls
  <2>1. ASSUME NEW n \in DOMAIN Collected, Collected[n].kind = "tool" PROVE Calls
    <3>1. Collected[n].i \in DOMAIN item /\ n \in Spots(Collected, Collected[n].i)
      BY <1>5 DEF Spots
    <3>2. item[Collected[n].i].kind = "tool"
      BY <1>6, <2>1, <3>1 DEF WholeIn
    <3> QED BY <3>1, <3>2 DEF Calls
  <2>2. ASSUME NEW i \in DOMAIN item, item[i].kind = "tool" PROVE HasCalls(Collected)
    <3>1. PICK n \in Spots(Collected, i) : Collected[n].kind = "tool"
      BY <1>6, <2>2 DEF WholeIn
    <3> QED BY <3>1 DEF Spots, HasCalls
  <2> QED BY <2>1, <2>2 DEF HasCalls, Calls
<1>8. stop' = Reason /\ Reason \in {"EndTurn", "ToolUse", "MaxTokens"}
  BY <1>1, <1>2, <1>4, <1>7 DEF Reason
<1>9. ASSUME NEW i \in DOMAIN item
      PROVE  /\ Cardinality(BlocksOf(i)') <= 1
             /\ BlocksOf(i)' = {} => item[i].sent = 0 /\ item[i].kind # "tool"
             /\ \A n \in BlocksOf(i)' : blocks'[n].kind = item[i].kind /\ blocks'[n].sent = item[i].sent
             /\ item[i].kind # "tool" => Times(i)' = item[i].sent
  <2>1. BlocksOf(i)' = Spots(Collected, i) /\ Times(i)' = Times(i)
    BY <1>1 DEF BlocksOf, Spots, Times
  <2>2. WholeIn(Collected, i) /\ (item[i].kind # "tool" => Times(i) = item[i].sent)
    BY <1>6
  <2>3. Cardinality(Spots(Collected, i)) <= 1
    <3>1. CASE Spots(Collected, i) = {}
      BY <3>1, FS_EmptySet
    <3>2. CASE Spots(Collected, i) # {}
      <4>1. PICK n : n \in Spots(Collected, i)
        BY <3>2
      <4>2. Spots(Collected, i) = {n}
        BY <2>2, <4>1 DEF WholeIn
      <4> QED BY <4>2, FS_Singleton
    <3> QED BY <3>1, <3>2
  <2> QED BY <1>1, <2>1, <2>2, <2>3 DEF WholeIn
<1>10. ASSUME NEW n \in DOMAIN blocks', CutOff(blocks[n].i)' PROVE stop' = "MaxTokens"
  <2>1. blocks'[n].i \in DOMAIN item
    BY <1>1, <1>5
  <2>2. item[blocks'[n].i].sent < item[blocks'[n].i].total
    BY <1>10 DEF CutOff
  <2>3. Reason = "MaxTokens"
    BY <2>1, <2>2 DEF Reason, CutOff
  <2> QED BY <1>8, <2>3
<1>11. AnswerWhole'
  BY <1>1, <1>2, <1>8, <1>9, <1>10 DEF AnswerWhole
<1>12. FailureSound'
  BY <1>1 DEF FailureSound
<1> QED BY <1>11, <1>12 DEF StreamSound

\* One event, whole or broken off, whatever it says.
LEMMA HandleKeeps ==
    ASSUME Gathering, NEW e, wire.at \in {"named", "told"}, wire.event = e,
           wire' \in {Idle, [at |-> "closed"]}, UNCHANGED <<api, item, ended>>, Handle(e)
    PROVE  StreamInv'
<1>1. (ended = "no" /\ Speaks(e)) \/ Ends(e)
  BY DEF Gathering, WireFits, Idle
<1>2. ASSUME Gathering', Continue PROVE StreamInv'
  BY <1>2 DEF StreamInv, StreamSound, AnswerWhole, FailureSound, Gathering, StreamTyped
<1>3. CASE ended = "no" /\ Speaks(e)
  <2>1. e.t \in {"start", "delta", "told", "stop", "reason", "ping"}
    BY <1>3 DEF Speaks
  <2>2. CASE e.t = "start"
    <3>1. OnStart(e)
      BY <2>2 DEF Handle
    <3> QED BY <1>2, <1>3, <2>2, <3>1, OnStartKeeps DEF OnStart
  <2>3. CASE e.t = "delta"
    <3>1. OnDelta(e)
      BY <2>3 DEF Handle
    <3> QED BY <1>2, <1>3, <2>3, <3>1, OnDeltaKeeps DEF OnDelta
  <2>4. CASE e.t = "told"
    <3>1. OnTold(e)
      BY <2>4 DEF Handle
    <3> QED BY <1>2, <1>3, <2>4, <3>1, OnToldKeeps DEF OnTold
  <2>5. CASE e.t = "stop"
    <3>1. OnStop(e)
      BY <2>5 DEF Handle
    <3> QED BY <1>2, <1>3, <2>5, <3>1, OnStopKeeps DEF OnStop
  <2>6. CASE e.t = "reason"
    <3>1. OnReason(e)
      BY <2>6 DEF Handle
    <3> QED BY <1>2, <1>3, <2>6, <3>1, OnReasonKeeps DEF OnReason
  <2>7. CASE e.t = "ping"
    <3>1. Continue /\ UNCHANGED <<partials, blocks, stop, shownPieces>>
      BY <2>7 DEF Handle
    <3> QED BY <1>2, <1>3, <2>7, <3>1, PingKeeps
  <2> QED BY <2>1, <2>2, <2>3, <2>4, <2>5, <2>6, <2>7
<1>4. CASE Ends(e)
  <2>1. CASE e.t \in {"end", "max"}
    <3>1. OnEnd(e)
      BY <2>1 DEF Handle
    <3>2. pc' = "end"
      BY <3>1 DEF OnEnd, Return
    <3> QED BY <1>4, <2>1, <3>1, <3>2, OnEndKeeps DEF StreamInv
  <2>2. CASE e.t \in {"error", "other", "[DONE]"}
    <3>1. Return("fatal") /\ ended' = "trouble"
      BY <1>4, <2>2 DEF Handle, Ends
    <3> QED BY <3>1 DEF Return, StreamInv, StreamSound, AnswerWhole, FailureSound
  <2> QED BY <1>4, <2>1, <2>2 DEF Ends
<1> QED BY <1>1, <1>3, <1>4

\* A call that ends without an answer.
LEMMA GivenUp ==
    ASSUME NEW r \in {"retryable", "fatal", "aborted"}, Return(r), r = "fatal" => FailureSound'
    PROVE  StreamInv'
  BY DEF Return, StreamInv, StreamSound, AnswerWhole, FailureSound

\* A step that only moves the call on, or nothing.
LEMMA GatheringStays ==
    ASSUME Gathering, pc' = "connect" => pc = "connect",
           UNCHANGED <<api, item, ended, wire, partials, blocks, stop, shownPieces, result>>
    PROVE  Gathering'
<1>1. StreamTyped' /\ Reasoned'
  BY DEF Gathering, StreamTyped, Reasoned, MayEnd, Reason, CutOff, Calls
<1>2. WireFits'
  BY DEF Gathering, WireFits, Speaks, Ends, MayEnd, Reason, CutOff, Calls, OpenItems
<1>3. ASSUME NEW i \in DOMAIN item PROVE ItemFits(i)'
  <2>1. ItemFits(i) /\ Times(i)' = Times(i)
    BY <1>3 DEF Gathering, Times
  <2>2. \A t : Waiting(t, i)' <=> Waiting(t, i)
    BY DEF Waiting
  <2> QED BY <2>1, <2>2, ItemStays
<1> QED BY <1>1, <1>2, <1>3 DEF Gathering

LEMMA AdapterKeeps ==
    ASSUME Gathering, StreamSound, Adapter
    PROVE  StreamInv'
<1>1. CASE Check
  <2>1. CASE cancelled
    BY <1>1, <2>1, GivenUp DEF Check
  <2>2. CASE ~cancelled
    <3>1. /\ pc' = "read"
          /\ UNCHANGED <<api, item, ended, wire, partials, blocks, stop, shownPieces, result>>
      BY <1>1, <2>2 DEF Check, serverVars
    <3>2. Gathering'
      BY <3>1, GatheringStays
    <3>3. StreamSound'
      BY <3>1 DEF Gathering, StreamTyped, StreamSound, AnswerWhole, FailureSound
    <3> QED BY <3>2, <3>3 DEF StreamInv
  <2> QED BY <2>1, <2>2
<1>2. CASE ReadData
  <2>1. /\ wire.at = "named" /\ wire = [at |-> wire.at, event |-> wire.event]
        /\ (ended = "no" /\ Speaks(wire.event)) \/ Ends(wire.event)
    BY <1>2 DEF ReadData, Gathering, WireFits, Idle
  <2>2. /\ pc = "read" /\ wire' = [wire EXCEPT !.at = "told"]
        /\ UNCHANGED <<api, item, ended, pc, partials, blocks, stop, shownPieces, result>>
    BY <1>2 DEF ReadData, serverVars, adapterVars
  <2>3. wire' = [at |-> wire'.at, event |-> wire'.event] /\ wire'.at = "told" /\ wire'.event = wire.event
    BY <2>1, <2>2
  <2>4. StreamTyped' /\ Reasoned'
    BY <2>2 DEF Gathering, StreamTyped, Reasoned, MayEnd, Reason, CutOff, Calls
  <2>5. WireFits'
    BY <2>1, <2>2, <2>3 DEF WireFits, Speaks, Ends, MayEnd, Reason, CutOff, Calls, OpenItems
  <2>6. \A t, i : Waiting(t, i)' <=> Waiting(t, i)
    BY <2>1, <2>3 DEF Waiting
  <2>7. ASSUME NEW i \in DOMAIN item PROVE ItemFits(i)'
    <3>1. ItemFits(i) /\ Times(i)' = Times(i)
      BY <2>2, <2>7 DEF Gathering, Times
    <3> QED BY <2>2, <2>6, <3>1, ItemStays
  <2>8. StreamSound'
    BY <2>2 DEF Gathering, StreamTyped, StreamSound, AnswerWhole, FailureSound
  <2> QED BY <2>2, <2>4, <2>5, <2>7, <2>8 DEF Gathering, StreamInv
<1>3. CASE ReadEnd
  <2>1. PICK e : e = wire.event
    OBVIOUS
  <2>2. wire.at = "told" /\ Handle(e) /\ wire' = Idle /\ UNCHANGED <<api, item, ended>>
    BY <1>3, <2>1 DEF ReadEnd, serverVars
  <2> QED BY <2>1, <2>2, HandleKeeps
<1>4. CASE Eof
  <2>1. PICK e : e = wire.event
    OBVIOUS
  <2>2. wire' = [at |-> "closed"] /\ UNCHANGED <<api, item, ended>> /\ wire.at \in {"named", "told"}
    BY <1>4 DEF Eof, serverVars
  <2>3. CASE wire.at = "told"
    <3>1. Handle(e)
      BY <1>4, <2>1, <2>3 DEF Eof
    <3> QED BY <2>1, <2>2, <3>1, HandleKeeps
  <2>4. CASE wire.at = "named"
    <3>1. Handle([t |-> "broken"])
      BY <1>4, <2>4 DEF Eof
    <3>2. Return("fatal")
      BY <3>1 DEF Handle
    <3>3. FailureSound'
      BY <2>2 DEF FailureSound
    <3> QED BY <3>2, <3>3, GivenUp
  <2> QED BY <2>2, <2>3, <2>4
<1>5. CASE Closed \/ ReadFails
  BY <1>5, GivenUp DEF Closed, ReadFails
<1> QED BY <1>1, <1>2, <1>3, <1>4, <1>5 DEF Adapter

LEMMA ServerKeeps ==
    ASSUME Gathering, Server
    PROVE  Gathering'
<1>1. CASE \E k \in Kind, total \in 0..Pieces : StartItem(k, total)
  <2>1. PICK k \in Kind, total \in 0..Pieces : StartItem(k, total)
    BY <1>1
  <2>2. total \in Nat
    BY StreamAssumption
  <2> QED BY <2>1, <2>2, StartItemKeeps
<1>2. CASE \E i \in DOMAIN item : SendPiece(i) \/ StopItem(i) \/ TellReasoning(i)
  BY <1>2, SendPieceKeeps, StopItemKeeps, TellReasoningKeeps
<1>3. CASE TellReason \/ EndAnswer
  BY <1>3, TellReasonKeeps, EndAnswerKeeps
<1>4. CASE \E t \in {"error", "other", "[DONE]", "ping"} : Trouble(t)
  BY <1>4, TroubleKeeps
<1> QED BY <1>1, <1>2, <1>3, <1>4 DEF Server

\* Only an answer the server ended is taken for one, and it is whole; a call is
\* given up for good only for a reason: for any number of items and pieces.
THEOREM StreamAlways == StreamSpec => []StreamSound
<1>1. ASSUME StreamInv, [StreamNext]_streamVars PROVE StreamInv'
  <2>1. CASE \E status \in {200, 400, 429, 500} : Connect(status)
    <3>1. PICK status \in {200, 400, 429, 500} : Connect(status)
      BY <2>1
    <3>2. Gathering /\ item = <<>> /\ wire = Idle /\ pc = "connect"
      BY <1>1, <3>1 DEF Connect, StreamInv, Gathering
    <3>3. UNCHANGED <<api, item, ended, wire, partials, blocks, stop, shownPieces>>
      BY <3>1 DEF Connect, serverVars
    <3>4. CASE status = 200
      <4>1. pc' = "check" /\ UNCHANGED result
        BY <3>1, <3>4 DEF Connect
      <4>2. StreamTyped' /\ Reasoned'
        BY <3>2, <3>3, <4>1 DEF Gathering, StreamTyped, Reasoned, MayEnd, Reason, CutOff, Calls
      <4>3. WireFits'
        BY <3>2, <3>3 DEF Gathering, WireFits, Idle
      <4>4. StreamSound'
        BY <3>2, <4>1 DEF Gathering, StreamTyped, StreamSound, AnswerWhole, FailureSound
      <4>5. DOMAIN item' = {}
        BY <3>2, <3>3
      <4> QED BY <4>1, <4>2, <4>3, <4>4, <4>5 DEF Gathering, StreamInv
    <3>5. CASE status # 200
      <4>1. pc' = "end" /\ result' \in {"retryable", "fatal"}
        BY <3>1, <3>5 DEF Connect
      <4> QED BY <3>2, <3>3, <4>1 DEF StreamInv, StreamSound, AnswerWhole, FailureSound
    <3> QED BY <3>4, <3>5
  <2>2. CASE Server
    <3>1. pc = "read" /\ UNCHANGED <<pc, result>>
      BY <2>2 DEF Server, StartItem, SendPiece, StopItem, TellReasoning, TellReason, EndAnswer,
                  Trouble, Sends, adapterVars
    <3>2. Gathering'
      BY <1>1, <2>2, <3>1, ServerKeeps DEF StreamInv
    <3> QED BY <3>2 DEF StreamInv, Gathering, StreamTyped, StreamSound, AnswerWhole, FailureSound
  <2>3. CASE Adapter
    <3>1. pc # "end"
      BY <2>3 DEF Adapter, Check, ReadData, ReadEnd, Eof, Closed, ReadFails
    <3> QED BY <1>1, <2>3, <3>1, AdapterKeeps DEF StreamInv
  <2>4. CASE SetCancel \/ UNCHANGED streamVars
    <3>1. UNCHANGED <<api, item, ended, wire, pc, partials, blocks, stop, shownPieces, result>>
      BY <2>4 DEF SetCancel, streamVars, serverVars, adapterVars
    <3>2. StreamSound' = StreamSound
      BY <3>1 DEF StreamSound, AnswerWhole, FailureSound, BlocksOf, Times, CutOff
    <3>3. Gathering => Gathering'
      BY <3>1, GatheringStays
    <3> QED BY <1>1, <3>1, <3>2, <3>3 DEF StreamInv
  <2> QED BY <1>1, <2>1, <2>2, <2>3, <2>4 DEF StreamNext
<1>2. StreamInv => StreamSound
  BY DEF StreamInv
<1> QED BY <1>1, <1>2, StreamBegins, PTL DEF StreamSpec

-----------------------------------------------------------------------------
(* Encoding a prompt.                                                      *)

\* What the library calls flattening is Concat.
LEMMA FlattenIsConcat ==
    ASSUME NEW S, NEW ss \in Seq(Seq(S))
    PROVE  FlattenSeq(ss) = Concat(ss)
<1> DEFINE n == Len(ss)
           c == CHOOSE g : g = [i \in 1..n |-> IF i = 1 THEN ss[i] ELSE g[i - 1] \o ss[i]]
<1>1. n \in Nat /\ \A i \in 1..n : ss[i] \in Seq(S)
  BY LenProperties
<1>2. PICK f \in [0..n -> Seq(S)] : ConcatsOf(ss, f, n) /\ Concat(ss) = f[n]
  BY ConcatUpTo
<1>3. CASE n = 0
  <2>1. ss = <<>>
    BY <1>3, EmptySeq
  <2>2. FlattenSeq(ss) = ss
    BY <1>3 DEF FlattenSeq
  <2> QED BY <2>1, <2>2, ConcatSmall
<1>4. CASE n # 0
  <2> DEFINE d == [i \in 1..n |-> f[i]]
  <2>1. \A i \in 1..n : d[i] = IF i = 1 THEN ss[i] ELSE d[i - 1] \o ss[i]
    <3> SUFFICES ASSUME NEW i \in 1..n PROVE d[i] = IF i = 1 THEN ss[i] ELSE d[i - 1] \o ss[i]
      OBVIOUS
    <3>1. f[i] = f[i - 1] \o ss[i] /\ f[0] = <<>>
      BY <1>2 DEF ConcatsOf
    <3>2. CASE i = 1
      <4>1. i - 1 = 0 /\ ss[i] \in Seq(S)
        BY <1>1, <3>2
      <4>2. <<>> \o ss[i] = ss[i]
        BY <4>1, ConcatEmptySeq
      <4>3. f[i - 1] = f[0]
        BY <4>1
      <4>4. f[i] = ss[i]
        BY <3>1, <4>2, <4>3
      <4> QED BY <3>2, <4>4
    <3>3. CASE i # 1
      <4>1. i - 1 \in 1..n
        BY <1>1, <3>3
      <4> QED BY <3>1, <3>3, <4>1
    <3> QED BY <3>2, <3>3
  <2>2. d = [i \in 1..n |-> IF i = 1 THEN ss[i] ELSE d[i - 1] \o ss[i]]
    BY <2>1
  <2>3. c = [i \in 1..n |-> IF i = 1 THEN ss[i] ELSE c[i - 1] \o ss[i]]
    BY <2>2
  <2> HIDE DEF c
  <2> DEFINE Off == {i \in 1..n : c[i] # d[i]}
  <2>4. ASSUME Off # {} PROVE FALSE
    <3>1. PICK x \in Off : \A y \in Off : x <= y
      <4>1. Off \subseteq Nat
        BY <1>1
      <4> HIDE DEF Off
      <4> QED BY <2>4, <4>1, LeastNatural
    <3>2. x # 1
      <4>1. c[1] = ss[1] /\ d[1] = ss[1]
        BY <1>1, <1>4, <2>1, <2>3
      <4> QED BY <3>1, <4>1
    <3>3. x - 1 \in 1..n /\ x - 1 \notin Off
      <4>1. x \in 1..n
        BY <3>1
      <4>2. x - 1 \in 1..n /\ ~ (x <= x - 1)
        BY <1>1, <3>2, <4>1
      <4> HIDE DEF Off
      <4> QED BY <3>1, <4>2
    <3>4. c[x] = c[x - 1] \o ss[x] /\ d[x] = d[x - 1] \o ss[x]
      BY <2>1, <2>3, <3>1, <3>2
    <3> QED BY <3>1, <3>3, <3>4
  <2>5. c[n] = f[n]
    <3>1. n \in 1..n
      BY <1>1, <1>4
    <3>2. c[n] = d[n]
      BY <2>4, <3>1
    <3>3. d[n] = f[n]
      BY <3>1
    <3> QED BY <3>2, <3>3
  <2>6. FlattenSeq(ss) = c[n]
    BY <1>4 DEF FlattenSeq, c
  <2> QED BY <1>2, <2>5, <2>6
<1> QED BY <1>3, <1>4

\* Whatever is in one of the sequences is in the whole.
LEMMA ConcatHasAll ==
    ASSUME NEW S, NEW ss \in Seq(Seq(S))
    PROVE  \A i \in 1..Len(ss) : \A j \in 1..Len(ss[i]) :
              \E k \in 1..Len(Concat(ss)) : Concat(ss)[k] = ss[i][j]
<1> DEFINE n == Len(ss)
<1>1. n \in Nat /\ \A i \in 1..n : ss[i] \in Seq(S)
  BY LenProperties
<1>2. PICK f \in [0..n -> Seq(S)] : ConcatsOf(ss, f, n) /\ Concat(ss) = f[n]
  BY ConcatUpTo
<1> DEFINE Has(k) == \A i \in 1..n : i <= k =>
                        \A j \in 1..Len(ss[i]) : \E m \in 1..Len(f[k]) : f[k][m] = ss[i][j]
           Bad == {k \in 0..n : ~ Has(k)}
<1>3. ASSUME Bad # {} PROVE FALSE
  <2>1. PICK x \in Bad : \A y \in Bad : x <= y
    <3>1. Bad \subseteq Nat
      BY <1>1
    <3> HIDE DEF Bad
    <3> QED BY <1>3, <3>1, LeastNatural
  <2>2. x # 0
    BY <1>1, <2>1
  <2>3. x \in 1..n /\ x - 1 \in 0..n /\ Has(x - 1)
    <3>1. x \in 0..n
      BY <2>1
    <3>2. x \in 1..n /\ x - 1 \in 0..n /\ ~ (x <= x - 1)
      BY <1>1, <2>2, <3>1
    <3>3. x - 1 \notin Bad
      <4> HIDE DEF Bad
      <4> QED BY <2>1, <3>2
    <3> HIDE DEF Has
    <3> QED BY <3>2, <3>3
  <2> DEFINE a == f[x - 1]
             b == ss[x]
  <2>4. /\ f[x] = a \o b /\ a \in Seq(S) /\ b \in Seq(S)
        /\ Len(a) \in Nat /\ Len(b) \in Nat
    BY <1>1, <1>2, <2>3, LenProperties DEF ConcatsOf
  <2> HIDE DEF a, b
  <2>5. /\ Len(f[x]) = Len(a) + Len(b)
        /\ \A m \in 1..Len(a) + Len(b) : f[x][m] = IF m <= Len(a) THEN a[m] ELSE b[m - Len(a)]
    BY <2>4, ConcatProperties
  <2>6. ASSUME NEW i \in 1..n, i <= x, NEW j \in 1..Len(ss[i])
        PROVE  \E m \in 1..Len(f[x]) : f[x][m] = ss[i][j]
    <3>1. CASE i = x
      <4>1. j \in 1..Len(b) /\ ss[i][j] = b[j]
        BY <2>6, <3>1 DEF b
      <4>2. Len(a) + j \in 1..Len(a) + Len(b) /\ ~ (Len(a) + j <= Len(a)) /\ (Len(a) + j) - Len(a) = j
        <5> SUFFICES ASSUME NEW A \in Nat, NEW B \in Nat, NEW q \in 1..B
                     PROVE  A + q \in 1..A + B /\ ~ (A + q <= A) /\ (A + q) - A = q
          BY <2>4, <4>1
        <5> QED OBVIOUS
      <4>3. f[x][Len(a) + j] = b[j]
        BY <2>5, <4>2
      <4> QED BY <2>5, <4>1, <4>2, <4>3
    <3>2. CASE i # x
      <4>1. i <= x - 1
        BY <1>1, <2>3, <2>6, <3>2
      <4>2. PICK m \in 1..Len(a) : a[m] = ss[i][j]
        BY <2>3, <2>6, <4>1 DEF a
      <4>3. m \in 1..Len(a) + Len(b) /\ m <= Len(a)
        BY <2>4
      <4>4. m \in 1..Len(f[x]) /\ f[x][m] = a[m]
        BY <2>5, <4>3
      <4> QED BY <4>2, <4>4
    <3> QED BY <3>1, <3>2
  <2>7. Has(x)
    BY <2>6
  <2> QED BY <2>1, <2>7
<1>4. Has(n)
  <2>1. n \in 0..n /\ n \notin Bad
    <3>1. n \in 0..n
      BY <1>1
    <3> HIDE DEF Bad, n
    <3> QED BY <1>3, <3>1
  <2> HIDE DEF Has
  <2> QED BY <2>1
<1>5. ASSUME NEW i \in 1..n, NEW j \in 1..Len(ss[i])
      PROVE  \E k \in 1..Len(Concat(ss)) : Concat(ss)[k] = ss[i][j]
  <2>1. i <= n
    BY <1>1
  <2>2. \E m \in 1..Len(f[n]) : f[n][m] = ss[i][j]
    BY <1>4, <2>1
  <2> QED BY <1>2, <2>2
<1> QED BY <1>5

\* A sequence of sequences of one is flattened to their elements.
LEMMA ConcatOfSingles ==
    ASSUME NEW S, NEW s \in Seq(S)
    PROVE  Concat([i \in DOMAIN s |-> <<s[i]>>]) = s
<1> DEFINE n == Len(s)
           ss == [i \in 1..n |-> <<s[i]>>]
           f == [k \in 0..n |-> [i \in 1..k |-> s[i]]]
<1>1. n \in Nat /\ DOMAIN s = 1..n /\ \A i \in 1..n : s[i] \in S
  BY LenProperties, ElementOfSeq
<1>2. ss \in Seq(Seq(S)) /\ Len(ss) = n
  <2>1. \A i \in 1..n : <<s[i]>> \in Seq(S)
    BY <1>1
  <2> QED BY <1>1, <2>1, IsASeq, LenProperties
<1>3. \A k \in 0..n : f[k] \in Seq(S) /\ Len(f[k]) = k
  <2> SUFFICES ASSUME NEW k \in 0..n PROVE f[k] \in Seq(S) /\ Len(f[k]) = k
    OBVIOUS
  <2>1. k \in Nat /\ \A i \in 1..k : s[i] \in S
    BY <1>1
  <2> QED BY <2>1, IsASeq
<1>4. f \in [0..n -> Seq(S)]
  BY <1>3
<1>5. f[0] = <<>>
  BY <1>1, <1>3, EmptySeq
<1>6. ASSUME NEW k \in 1..n PROVE f[k] = f[k - 1] \o ss[k]
  <2>1. k - 1 \in 0..n /\ k \in Nat /\ k \in 0..n
    BY <1>1
  <2>2. f[k - 1] \in Seq(S) /\ Len(f[k - 1]) = k - 1 /\ f[k] \in Seq(S) /\ Len(f[k]) = k
    BY <1>3, <2>1
  <2>3. f[k - 1] \o <<s[k]>> = Append(f[k - 1], s[k])
    BY <1>1, <2>2, AppendIsConcat
  <2>4. Append(f[k - 1], s[k]) = f[k]
    <3>1. /\ Append(f[k - 1], s[k]) \in Seq(S) /\ Len(Append(f[k - 1], s[k])) = k
          /\ \A i \in 1..k : Append(f[k - 1], s[k])[i] = IF i = k THEN s[k] ELSE f[k - 1][i]
      BY <1>1, <2>1, <2>2, AppendProperties
    <3>2. \A i \in 1..k : Append(f[k - 1], s[k])[i] = f[k][i]
      BY <2>1, <3>1
    <3> HIDE DEF f
    <3> QED BY <2>1, <2>2, <3>1, <3>2, SeqEqual
  <2> QED BY <2>3, <2>4
<1>7. f[n] = s
  <2>1. Len(f[n]) = Len(s) /\ f[n] \in Seq(S) /\ \A i \in 1..Len(s) : f[n][i] = s[i]
    BY <1>1, <1>3
  <2> HIDE DEF f
  <2> QED BY <2>1, SeqEqual
<1> HIDE DEF f, ss
<1>8. Concat(ss) = f[Len(ss)]
  BY <1>2, <1>4, <1>5, <1>6, ConcatIsLast DEF ConcatsOf
<1> QED BY <1>1, <1>2, <1>7, <1>8 DEF ss

\* It does not matter how three sequences are grouped when they are joined.
Associates(S) == \A a, b, c \in Seq(S) : (a \o b) \o c = a \o (b \o c)

LEMMA JoinsAssociate == ASSUME NEW S PROVE Associates(S)
<1> SUFFICES ASSUME NEW a \in Seq(S), NEW b \in Seq(S), NEW c \in Seq(S)
             PROVE  (a \o b) \o c = a \o (b \o c)
  BY DEF Associates
<1> QED BY ConcatAssociative

\* Flattening goes over joining.
LEMMA ConcatOfJoin ==
    ASSUME NEW S, NEW left \in Seq(Seq(S)), NEW right \in Seq(Seq(S))
    PROVE  Concat(left \o right) = Concat(left) \o Concat(right)
<1> DEFINE Apart(more) == Concat(left \o more) # Concat(left) \o Concat(more)
           Bad == {k \in Nat : \E more \in Seq(Seq(S)) : Len(more) = k /\ Apart(more)}
<1> DEFINE T == Seq(S)
<1>1. Associates(S)
  BY JoinsAssociate
<1>2. Associates(T)
  BY JoinsAssociate
<1>3. Concat(left) \in Seq(S)
  BY ConcatElement
<1>4. ASSUME Bad # {} PROVE FALSE
  <2>1. PICK x \in Bad : \A y \in Bad : x <= y
    <3>1. Bad \subseteq Nat
      OBVIOUS
    <3> HIDE DEF Bad
    <3> QED BY <1>4, <3>1, LeastNatural
  <2>2. PICK more \in Seq(Seq(S)) : Len(more) = x /\ Apart(more)
    BY <2>1
  <2>3. more # <<>>
    <3>1. left \o <<>> = left /\ Concat(left) \o <<>> = Concat(left)
      BY <1>3, ConcatEmptySeq
    <3> QED BY <2>2, <3>1, ConcatSmall
  <2>4. PICK front \in Seq(Seq(S)), last \in Seq(S) : more = Append(front, last)
    BY <2>3, SequenceEmptyOrAppend
  <2>5. Len(front) \in Nat /\ Len(more) = Len(front) + 1
    BY <2>4, AppendProperties, LenProperties
  <2>6. ~ Apart(front)
    <3>1. Len(front) < x
      BY <2>2, <2>5
    <3>2. Len(front) \notin Bad
      <4>1. x \in Nat
        BY <2>1
      <4>2. ~ (x <= Len(front))
        BY <2>5, <3>1, <4>1
      <4> HIDE DEF Bad
      <4> QED BY <2>1, <4>2
    <3> QED BY <2>5, <3>2
  <2> HIDE DEF Bad, Apart
  <2>7. left \o more = Append(left \o front, last)
    <3>1. <<last>> \in Seq(Seq(S)) /\ left \o front \in Seq(Seq(S))
      BY ConcatProperties
    <3>2. more = front \o <<last>> /\ Append(left \o front, last) = (left \o front) \o <<last>>
      BY <2>4, <3>1, AppendIsConcat
    <3> DEFINE one == <<last>>
    <3>3. left \in Seq(T) /\ front \in Seq(T) /\ one \in Seq(T)
      BY <3>1
    <3>4. (left \o front) \o one = left \o (front \o one)
      <4> HIDE DEF T, one
      <4> QED BY <1>2, <3>3 DEF Associates
    <3> HIDE DEF one
    <3>5. more = front \o one /\ Append(left \o front, last) = (left \o front) \o one
      BY <3>2 DEF one
    <3>6. left \o more = left \o (front \o one)
      BY <3>5
    <3> QED BY <3>4, <3>5, <3>6
  <2>8. Concat(left \o more) = Concat(left \o front) \o last
    BY <2>7, ConcatProperties, ConcatAppend
  <2>9. Concat(more) = Concat(front) \o last /\ Concat(front) \in Seq(S)
    BY <2>4, ConcatAppend, ConcatElement
  <2>10. (Concat(left) \o Concat(front)) \o last = Concat(left) \o (Concat(front) \o last)
    BY <1>1, <1>3, <2>9 DEF Associates
  <2> QED BY <2>2, <2>6, <2>8, <2>9, <2>10 DEF Apart
<1>5. Len(right) \in Nat
  BY LenProperties
<1> QED BY <1>4, <1>5

\* A body of turns whose pieces are of S; its contents, turn by turn.
TurnOf(S) == [role : DOMAIN PromptBlock, content : Seq(S)]
ContentOf(out) == [k \in DOMAIN out |-> out[k].content]

LEMMA ContentTyped ==
    ASSUME NEW S, NEW out \in Seq(TurnOf(S))
    PROVE  /\ ContentOf(out) \in Seq(Seq(S)) /\ Len(ContentOf(out)) = Len(out)
           /\ DOMAIN out = 1..Len(out)
           /\ \A k \in 1..Len(out) : /\ ContentOf(out)[k] = out[k].content
                                     /\ out[k].content \in Seq(S) /\ out[k].role \in DOMAIN PromptBlock
<1>1. Len(out) \in Nat /\ DOMAIN out = 1..Len(out)
  BY LenProperties
<1>2. \A k \in 1..Len(out) : out[k] \in TurnOf(S)
  BY ElementOfSeq
<1>3. \A k \in 1..Len(out) : out[k].content \in Seq(S) /\ out[k].role \in DOMAIN PromptBlock
  BY <1>2 DEF TurnOf
<1>4. ContentOf(out) = [k \in 1..Len(out) |-> out[k].content]
  BY <1>1 DEF ContentOf
<1>5. [k \in 1..Len(out) |-> out[k].content] \in Seq(Seq(S))
  BY <1>1, <1>3, IsASeq
<1> QED BY <1>1, <1>3, <1>4, <1>5, LenProperties

LEMMA ContentOfJoin ==
    ASSUME NEW S, NEW a \in Seq(TurnOf(S)), NEW b \in Seq(TurnOf(S))
    PROVE  /\ a \o b \in Seq(TurnOf(S))
           /\ ContentOf(a \o b) = ContentOf(a) \o ContentOf(b)
           /\ Concat(ContentOf(a \o b)) = Concat(ContentOf(a)) \o Concat(ContentOf(b))
<1> DEFINE m == Len(a)
           n == Len(b)
<1>1. /\ m \in Nat /\ n \in Nat /\ a \o b \in Seq(TurnOf(S)) /\ Len(a \o b) = m + n
      /\ \A k \in 1..m + n : (a \o b)[k] = IF k <= m THEN a[k] ELSE b[k - m]
  BY ConcatProperties, LenProperties
<1>2. /\ ContentOf(a) \in Seq(Seq(S)) /\ Len(ContentOf(a)) = m
      /\ \A k \in 1..m : ContentOf(a)[k] = a[k].content
  BY ContentTyped
<1>3. /\ ContentOf(b) \in Seq(Seq(S)) /\ Len(ContentOf(b)) = n
      /\ \A k \in 1..n : ContentOf(b)[k] = b[k].content
  BY ContentTyped
<1>4. /\ ContentOf(a \o b) \in Seq(Seq(S)) /\ Len(ContentOf(a \o b)) = m + n
      /\ \A k \in 1..m + n : ContentOf(a \o b)[k] = (a \o b)[k].content
  BY <1>1, ContentTyped
<1>5. /\ ContentOf(a) \o ContentOf(b) \in Seq(Seq(S))
      /\ Len(ContentOf(a) \o ContentOf(b)) = m + n
      /\ \A k \in 1..m + n : (ContentOf(a) \o ContentOf(b))[k] =
                               IF k <= m THEN ContentOf(a)[k] ELSE ContentOf(b)[k - m]
  <2> DEFINE x == ContentOf(a)
             y == ContentOf(b)
  <2>1. x \in Seq(Seq(S)) /\ Len(x) = m /\ y \in Seq(Seq(S)) /\ Len(y) = n
    BY <1>2, <1>3
  <2> HIDE DEF x, y, m, n
  <2>2. /\ x \o y \in Seq(Seq(S)) /\ Len(x \o y) = m + n
        /\ \A k \in 1..m + n : (x \o y)[k] = IF k <= m THEN x[k] ELSE y[k - m]
    BY <2>1, ConcatProperties
  <2> QED BY <2>2 DEF x, y
<1> HIDE DEF m, n
<1>6. \A k \in 1..m + n : ContentOf(a \o b)[k] = (ContentOf(a) \o ContentOf(b))[k]
  <2> SUFFICES ASSUME NEW k \in 1..m + n
               PROVE  ContentOf(a \o b)[k] = (ContentOf(a) \o ContentOf(b))[k]
    OBVIOUS
  <2>1. CASE k <= m
    <3>1. k \in 1..m
      BY <1>1, <2>1
    <3> QED BY <1>1, <1>2, <1>4, <1>5, <2>1, <3>1
  <2>2. CASE ~ (k <= m)
    <3>1. k - m \in 1..n
      BY <1>1, <2>2
    <3> QED BY <1>1, <1>3, <1>4, <1>5, <2>2, <3>1
  <2> QED BY <2>1, <2>2
<1>7. ContentOf(a \o b) = ContentOf(a) \o ContentOf(b)
  BY <1>4, <1>5, <1>6, SeqEqual
<1> QED BY <1>1, <1>2, <1>3, <1>7, ConcatOfJoin

\* What joining does to the turns: nothing, a longer last turn, or a turn more.
Skips(out, content, new) == content = <<>> /\ new = out
Extends(out, role, content, new) ==
    /\ content # <<>> /\ Len(out) > 0 /\ out[Len(out)].role = role
    /\ Len(new) = Len(out)
    /\ new[Len(out)] = Turn(role, out[Len(out)].content \o content)
    /\ \A k \in 1..Len(out) : k # Len(out) => new[k] = out[k]
Opens(out, role, content, new) ==
    /\ content # <<>>
    /\ Len(out) > 0 => out[Len(out)].role # role
    /\ Len(new) = Len(out) + 1
    /\ new[Len(out) + 1] = Turn(role, content)
    /\ \A k \in 1..Len(out) : new[k] = out[k]

LEMMA JoinedShape ==
    ASSUME NEW S, NEW out \in Seq(TurnOf(S)), NEW role \in DOMAIN PromptBlock, NEW content \in Seq(S)
    PROVE  LET new == Joined(out, role, content)
           IN  /\ new \in Seq(TurnOf(S))
               /\ Concat(ContentOf(new)) = Concat(ContentOf(out)) \o content
               /\ \/ Skips(out, content, new)
                  \/ Extends(out, role, content, new)
                  \/ Opens(out, role, content, new)
<1> DEFINE new == Joined(out, role, content)
           n == Len(out)
<1>1. n \in Nat /\ ContentOf(out) \in Seq(Seq(S)) /\ Concat(ContentOf(out)) \in Seq(S)
  BY ContentTyped, ConcatElement, LenProperties
<1>2. out # <<>> <=> n > 0
  BY EmptySeq
<1>3. CASE content = <<>>
  <2>1. new = out
    BY <1>3 DEF Joined
  <2>2. Concat(ContentOf(out)) \o content = Concat(ContentOf(out))
    BY <1>1, <1>3, ConcatEmptySeq
  <2> QED BY <1>3, <2>1, <2>2 DEF Skips
<1>4. CASE content # <<>> /\ out # <<>> /\ out[n].role = role
  <2> DEFINE more == out[n].content \o content
  <2>1. n \in 1..n /\ out[n] \in TurnOf(S)
    BY <1>1, <1>2, <1>4, ElementOfSeq
  <2>2. out[n].content \in Seq(S) /\ more \in Seq(S) /\ out[n] = Turn(role, out[n].content)
    BY <1>4, <2>1, ConcatProperties DEF TurnOf, Turn
  <2>3. new = [out EXCEPT ![n].content = @ \o content]
    BY <1>4 DEF Joined
  <2>4. new = [out EXCEPT ![n] = Turn(role, more)]
    <3>1. [out[n] EXCEPT !.content = @ \o content] = Turn(role, more)
      <4> DEFINE old == out[n].content
      <4>1. out[n] = [role |-> role, content |-> old]
        BY <2>2 DEF Turn
      <4>2. \A x, y : [[role |-> role, content |-> x] EXCEPT !.content = y] = [role |-> role, content |-> y]
        OBVIOUS
      <4>3. [out[n] EXCEPT !.content = @ \o content] = [out[n] EXCEPT !.content = old \o content]
        OBVIOUS
      <4> HIDE DEF old
      <4>4. [out[n] EXCEPT !.content = old \o content] = [role |-> role, content |-> old \o content]
        BY <4>1, <4>2
      <4> QED BY <4>3, <4>4 DEF Turn, old
    <3>2. [out EXCEPT ![n].content = @ \o content] = [out EXCEPT ![n] = [out[n] EXCEPT !.content = @ \o content]]
      OBVIOUS
    <3> QED BY <2>3, <3>1, <3>2
  <2>5. Turn(role, more) \in TurnOf(S)
    BY <2>2 DEF TurnOf, Turn
  <2>6. /\ new \in Seq(TurnOf(S)) /\ Len(new) = n
        /\ \A j \in 1..n : new[j] = IF j = n THEN Turn(role, more) ELSE out[j]
    <3> HIDE DEF new, more, n
    <3> QED BY <2>1, <2>4, <2>5, ExceptSeq DEF n
  <2>7. Extends(out, role, content, new)
    BY <1>2, <1>4, <2>1, <2>6 DEF Extends
  <2> DEFINE front == SubSeq(ContentOf(out), 1, n - 1)
             last == out[n].content
  <2>8. /\ Len(ContentOf(out)) = n /\ ContentOf(out)[n] = last
        /\ \A k \in 1..n : ContentOf(out)[k] = out[k].content /\ ContentOf(out)[k] \in Seq(S)
    BY <2>1, ContentTyped
  <2>9. /\ front \in Seq(Seq(S)) /\ Len(front) = n - 1
        /\ \A k \in 1..n - 1 : front[k] = ContentOf(out)[k]
    <3>1. \A k \in 1..n - 1 : ContentOf(out)[k] \in Seq(S) /\ 1 + k - 1 = k
      BY <1>1, <2>8
    <3>2. /\ front \in Seq(Seq(S)) /\ Len(front) = IF 1 <= n - 1 THEN n - 1 - 1 + 1 ELSE 0
          /\ \A k \in 1..n - 1 - 1 + 1 : front[k] = ContentOf(out)[1 + k - 1]
      BY <1>1, <3>1, SubSeqProperties
    <3> HIDE DEF front
    <3>3. Len(front) = n - 1
      <4> HIDE DEF n
      <4>1. (IF 1 <= n - 1 THEN n - 1 - 1 + 1 ELSE 0) = n - 1
        BY <1>1, <2>1
      <4> QED BY <3>2, <4>1
    <3>4. \A k \in 1..n - 1 : k \in 1..n - 1 - 1 + 1
      BY <1>1
    <3> QED BY <3>1, <3>2, <3>3, <3>4
  <2> HIDE DEF front, last
  <2>10. last \in Seq(S)
    BY <2>2 DEF last
  <2>11. ContentOf(out) = Append(front, last)
    <3>1. /\ Append(front, last) \in Seq(Seq(S)) /\ Len(Append(front, last)) = n
          /\ \A k \in 1..n - 1 : Append(front, last)[k] = front[k]
          /\ Append(front, last)[n] = last
      <4>1. n - 1 + 1 = n
        BY <1>1
      <4> QED BY <2>9, <2>10, <4>1, AppendProperties
    <3>2. \A k \in 1..n : k = n \/ k \in 1..n - 1
      BY <1>1
    <3>3. \A k \in 1..n : ContentOf(out)[k] = Append(front, last)[k]
      <4> SUFFICES ASSUME NEW k \in 1..n PROVE ContentOf(out)[k] = Append(front, last)[k]
        OBVIOUS
      <4>1. CASE k = n
        BY <2>8, <3>1, <4>1
      <4>2. CASE k \in 1..n - 1
        BY <2>9, <3>1, <4>2
      <4> QED BY <3>2, <4>1, <4>2
    <3>4. ContentOf(out) \in Seq(Seq(S))
      BY <2>1, ContentTyped
    <3> DEFINE c == ContentOf(out)
               d == Append(front, last)
    <3>5. /\ c \in Seq(Seq(S)) /\ Len(c) = n /\ d \in Seq(Seq(S)) /\ Len(d) = n
          /\ \A k \in 1..n : c[k] = d[k]
      BY <2>8, <3>1, <3>3, <3>4
    <3> HIDE DEF c, d, n
    <3>6. c = d
      BY <3>5, SeqEqual
    <3> QED BY <3>6 DEF c, d
  <2>12. ContentOf(new) = Append(front, more)
    <3>1. /\ Append(front, more) \in Seq(Seq(S)) /\ Len(Append(front, more)) = n
          /\ \A k \in 1..n - 1 : Append(front, more)[k] = front[k]
          /\ Append(front, more)[n] = more
      <4>1. n - 1 + 1 = n
        BY <1>1
      <4> HIDE DEF more
      <4> QED BY <2>2, <2>9, <4>1, AppendProperties
    <3>2. \A k \in 1..n : k = n \/ k \in 1..n - 1
      BY <1>1
    <3>3. /\ ContentOf(new) \in Seq(Seq(S)) /\ Len(ContentOf(new)) = n
          /\ \A k \in 1..n : ContentOf(new)[k] = new[k].content
      <4> HIDE DEF new
      <4> QED BY <2>6, ContentTyped
    <3>4. Turn(role, more).content = more
      BY DEF Turn
    <3> HIDE DEF new, more
    <3>5. \A k \in 1..n : ContentOf(new)[k] = Append(front, more)[k]
      <4> SUFFICES ASSUME NEW k \in 1..n PROVE ContentOf(new)[k] = Append(front, more)[k]
        OBVIOUS
      <4>1. CASE k = n
        BY <2>6, <3>1, <3>3, <3>4, <4>1
      <4>2. CASE k # n
        BY <2>6, <2>8, <2>9, <3>1, <3>2, <3>3, <4>2
      <4> QED BY <4>1, <4>2
    <3> QED BY <3>1, <3>3, <3>5, SeqEqual
  <2>13. Concat(ContentOf(new)) = Concat(ContentOf(out)) \o content
    <3>1. Concat(front) \in Seq(S)
      BY <2>9, ConcatElement
    <3>2. Concat(ContentOf(new)) = Concat(front) \o more
      BY <2>2, <2>9, <2>12, ConcatAppend
    <3>3. Concat(ContentOf(out)) = Concat(front) \o last
      BY <2>9, <2>10, <2>11, ConcatAppend
    <3>4. more = last \o content
      BY DEF last
    <3> HIDE DEF more
    <3>5. (Concat(front) \o last) \o content = Concat(front) \o (last \o content)
      <4>1. Associates(S)
        BY JoinsAssociate
      <4> QED BY <2>10, <3>1, <4>1 DEF Associates
    <3> QED BY <3>2, <3>3, <3>4, <3>5
  <2> QED BY <2>6, <2>7, <2>13
<1>5. CASE content # <<>> /\ ~ (out # <<>> /\ out[n].role = role)
  <2>1. new = Append(out, Turn(role, content))
    BY <1>5 DEF Joined
  <2>2. Turn(role, content) \in TurnOf(S) /\ Turn(role, content).content = content
    BY DEF TurnOf, Turn
  <2>3. /\ new \in Seq(TurnOf(S)) /\ Len(new) = n + 1 /\ new[n + 1] = Turn(role, content)
        /\ \A k \in 1..n : new[k] = out[k]
    BY <2>1, <2>2, AppendProperties
  <2>4. Opens(out, role, content, new)
    <3>1. n > 0 => out[n].role # role
      BY <1>2, <1>5
    <3> QED BY <1>5, <2>3, <3>1 DEF Opens
  <2>5. ContentOf(new) = Append(ContentOf(out), content)
    <3>1. /\ Append(ContentOf(out), content) \in Seq(Seq(S))
          /\ Len(Append(ContentOf(out), content)) = n + 1
          /\ \A k \in 1..n : Append(ContentOf(out), content)[k] = out[k].content
          /\ Append(ContentOf(out), content)[n + 1] = content
      BY <1>1, ContentTyped, AppendProperties
    <3>2. \A k \in 1..n + 1 : k = n + 1 \/ k \in 1..n
      BY <1>1
    <3>3. /\ ContentOf(new) \in Seq(Seq(S)) /\ Len(ContentOf(new)) = n + 1
          /\ \A k \in 1..n + 1 : ContentOf(new)[k] = new[k].content
      <4> HIDE DEF new
      <4> QED BY <2>3, ContentTyped
    <3> HIDE DEF new
    <3>4. \A k \in 1..n + 1 : ContentOf(new)[k] = Append(ContentOf(out), content)[k]
      BY <2>2, <2>3, <3>1, <3>2, <3>3
    <3> QED BY <3>1, <3>3, <3>4, SeqEqual
  <2>6. Concat(ContentOf(new)) = Concat(ContentOf(out)) \o content
    BY <1>1, <2>5, ConcatAppend
  <2> QED BY <2>3, <2>4, <2>6
<1> QED BY <1>3, <1>4, <1>5

\* What may be sent in a profile.
ResultText == {"empty", "given", "see attached image", "omission noted"}
AnyPiece == [kind : {"text", "thinking"}]
             \cup [kind : {"use"}, id : Nat, input : {"raw", "wrapped", "object"}]
             \cup [kind : {"result"}, id : Nat, content : [text : ResultText, images : Nat]]
Sendable(p) == {x \in AnyPiece : PieceSound(p, x)}

AnyBlock == PromptBlock["user"] \cup PromptBlock["assistant"]

PromptMessage == UNION {[role : {role}, blocks : Seq(PromptBlock[role])] : role \in DOMAIN PromptBlock}

\* A block is sent as one piece or not at all, a use as the use, a result as the
\* result.
LEMMA BlockEncodes ==
    ASSUME NEW p \in DOMAIN Profile, NEW asked \in BOOLEAN, NEW b \in AnyBlock
    PROVE  /\ EncodeBlock(p, asked, b) \in Seq(Sendable(p))
           /\ \A kind \in {"use", "result"} :
                 IdsIn(EncodeBlock(p, asked, b), kind) = IF b.kind = kind THEN {b.id} ELSE {}
<1> DEFINE IsOne(x) == EncodeBlock(p, asked, b) = <<x>> /\ x \in Sendable(p)
<1>1. \/ EncodeBlock(p, asked, b) = <<>> /\ b.kind \in {"text", "thinking"}
      \/ \E x : IsOne(x) /\ x.kind \in {"text", "thinking"} /\ b.kind \in {"text", "thinking"}
      \/ \E x : IsOne(x) /\ x.kind = b.kind /\ b.kind \in {"use", "result"} /\ x.id = b.id
  <2>1. CASE b \in [kind : {"text"}, empty : BOOLEAN]
    <3>1. b.kind = "text" /\ b.empty \in BOOLEAN
      BY <2>1
    <3>2. CASE b.empty
      <4>1. EncodeBlock(p, asked, b) = <<>>
        BY <3>1, <3>2 DEF EncodeBlock
      <4> QED BY <3>1, <4>1
    <3>3. CASE ~ b.empty
      <4>1. EncodeBlock(p, asked, b) = <<[kind |-> "text"]>>
        BY <3>1, <3>3 DEF EncodeBlock
      <4>2. [kind |-> "text"] \in Sendable(p)
        BY DEF Sendable, AnyPiece, PieceSound
      <4> QED BY <3>1, <4>1, <4>2
    <3> QED BY <3>1, <3>2, <3>3
  <2>2. CASE b \in [kind : {"thinking"}, from : {"anthropic", "openai"}]
    <3>1. b.kind = "thinking"
      BY <2>2
    <3>2. CASE Replayed(p, b.from, asked)
      <4>1. EncodeBlock(p, asked, b) = <<[kind |-> "thinking"]>>
        BY <3>1, <3>2 DEF EncodeBlock
      <4>2. [kind |-> "thinking"] \in Sendable(p)
        BY DEF Sendable, AnyPiece, PieceSound
      <4> QED BY <3>1, <4>1, <4>2
    <3>3. CASE ~ Replayed(p, b.from, asked)
      <4>1. EncodeBlock(p, asked, b) = <<>>
        BY <3>1, <3>3 DEF EncodeBlock
      <4> QED BY <3>1, <4>1
    <3> QED BY <3>2, <3>3
  <2>3. CASE b \in [kind : {"use"}, id : Nat, input : {"raw", "object"}]
    <3> DEFINE x == [kind |-> "use", id |-> b.id, input |-> Arguments(p, b.input)]
    <3>1. b.kind = "use" /\ b.id \in Nat /\ b.input \in {"raw", "object"}
      BY <2>3
    <3>2. EncodeBlock(p, asked, b) = <<x>>
      BY <3>1 DEF EncodeBlock
    <3>3. /\ Arguments(p, b.input) \in {"raw", "wrapped", "object"}
          /\ Profile[p].api = "messages" => Arguments(p, b.input) # "raw"
      BY <3>1 DEF Arguments
    <3>4. x \in Sendable(p)
      BY <3>1, <3>3 DEF Sendable, AnyPiece, PieceSound
    <3> QED BY <3>1, <3>2, <3>4
  <2>4. CASE b \in [kind : {"result"}, id : Nat, empty : BOOLEAN, images : Nat]
    <3> DEFINE x == [kind |-> "result", id |-> b.id, content |-> ResultContent(p, b)]
    <3>1. b.kind = "result" /\ b.id \in Nat /\ b.empty \in BOOLEAN /\ b.images \in Nat
      BY <2>4
    <3>2. EncodeBlock(p, asked, b) = <<x>>
      BY <3>1 DEF EncodeBlock
    <3> DEFINE Fits(c) == /\ c \in [text : ResultText, images : Nat]
                          /\ c.images > 0 => Profile[p].images /\ c.text # "empty"
    <3>3. Fits(ResultContent(p, b))
      <4>1. CASE b.images = 0
        <5>1. ResultContent(p, b) = [text |-> IF b.empty THEN "empty" ELSE "given", images |-> b.images]
          BY <4>1 DEF ResultContent
        <5>2. \A tx \in {"empty", "given"} : Fits([text |-> tx, images |-> b.images])
          <6> SUFFICES ASSUME NEW tx \in {"empty", "given"} PROVE Fits([text |-> tx, images |-> b.images])
            OBVIOUS
          <6>1. tx \in ResultText
            BY DEF ResultText
          <6>2. ~ (b.images > 0)
            BY <4>1
          <6> QED BY <3>1, <6>1, <6>2
        <5> HIDE DEF Fits
        <5> QED BY <5>1, <5>2
      <4>2. CASE b.images > 0 /\ Profile[p].images
        <5>1. b.images # 0
          BY <3>1, <4>2
        <5>2. ResultContent(p, b) =
                [text |-> IF b.empty THEN "see attached image" ELSE "given", images |-> b.images]
          BY <4>2, <5>1 DEF ResultContent
        <5>3. \A tx \in {"see attached image", "given"} : Fits([text |-> tx, images |-> b.images])
          <6> SUFFICES ASSUME NEW tx \in {"see attached image", "given"}
                       PROVE  Fits([text |-> tx, images |-> b.images])
            OBVIOUS
          <6>1. tx \in ResultText /\ tx # "empty"
            BY DEF ResultText
          <6> QED BY <3>1, <4>2, <6>1
        <5> HIDE DEF Fits
        <5> QED BY <5>2, <5>3
      <4>3. CASE b.images > 0 /\ ~ Profile[p].images
        <5>1. b.images # 0
          BY <3>1, <4>3
        <5>2. ResultContent(p, b) = [text |-> "omission noted", images |-> 0]
          BY <4>3, <5>1 DEF ResultContent
        <5>3. Fits([text |-> "omission noted", images |-> 0])
          BY DEF ResultText
        <5> HIDE DEF Fits
        <5> QED BY <5>2, <5>3
      <4> QED BY <3>1, <4>1, <4>2, <4>3
    <3>4. x \in Sendable(p)
      BY <3>1, <3>3 DEF Sendable, AnyPiece, PieceSound
    <3> QED BY <3>1, <3>2, <3>4
  <2> QED BY <2>1, <2>2, <2>3, <2>4 DEF AnyBlock, PromptBlock
<1>2. CASE EncodeBlock(p, asked, b) = <<>> /\ b.kind \in {"text", "thinking"}
  <2>1. \A kind \in {"use", "result"} : IdsIn(<<>>, kind) = {}
    BY DEF IdsIn
  <2> QED BY <1>2, <2>1, EmptySeq
<1>3. ASSUME NEW x, IsOne(x)
      PROVE  /\ EncodeBlock(p, asked, b) \in Seq(Sendable(p))
             /\ \A kind \in {"use", "result"} :
                   IdsIn(EncodeBlock(p, asked, b), kind) = IF x.kind = kind THEN {x.id} ELSE {}
  <2>1. EncodeBlock(p, asked, b) \in Seq(Sendable(p))
    BY <1>3
  <2>2. DOMAIN <<x>> = {1} /\ <<x>>[1] = x
    OBVIOUS
  <2>3. \A kind : IdsIn(<<x>>, kind) = IF x.kind = kind THEN {x.id} ELSE {}
    BY <2>2 DEF IdsIn
  <2> QED BY <1>3, <2>1, <2>3
<1> QED BY <1>1, <1>2, <1>3

\* The ids in a sequence flattened are those of its parts.
LEMMA IdsOfConcat ==
    ASSUME NEW S, NEW ss \in Seq(Seq(S)), NEW kind
    PROVE  IdsIn(Concat(ss), kind) = UNION {IdsIn(ss[i], kind) : i \in 1..Len(ss)}
<1>1. /\ Concat(ss) \in Seq(S) /\ DOMAIN Concat(ss) = 1..Len(Concat(ss))
      /\ \A i \in 1..Len(ss) : DOMAIN ss[i] = 1..Len(ss[i])
  <2>1. \A i \in 1..Len(ss) : ss[i] \in Seq(S)
    BY ElementOfSeq
  <2> QED BY <2>1, ConcatElement, LenProperties
<1>2. ASSUME NEW x \in IdsIn(Concat(ss), kind)
      PROVE  \E i \in 1..Len(ss) : x \in IdsIn(ss[i], kind)
  <2>1. PICK k \in 1..Len(Concat(ss)) : Concat(ss)[k].kind = kind /\ x = Concat(ss)[k].id
    BY <1>1 DEF IdsIn
  <2>2. PICK i \in 1..Len(ss) : \E j \in 1..Len(ss[i]) : Concat(ss)[k] = ss[i][j]
    BY ConcatElement
  <2>3. PICK j \in 1..Len(ss[i]) : Concat(ss)[k] = ss[i][j]
    BY <2>2
  <2> QED BY <1>1, <2>1, <2>3 DEF IdsIn
<1>3. ASSUME NEW i \in 1..Len(ss), NEW x \in IdsIn(ss[i], kind)
      PROVE  x \in IdsIn(Concat(ss), kind)
  <2>1. PICK j \in 1..Len(ss[i]) : ss[i][j].kind = kind /\ x = ss[i][j].id
    BY <1>1 DEF IdsIn
  <2>2. PICK k \in 1..Len(Concat(ss)) : Concat(ss)[k] = ss[i][j]
    BY ConcatHasAll
  <2> QED BY <1>1, <2>1, <2>2 DEF IdsIn
<1> QED BY <1>2, <1>3

LEMMA IdsOfJoin ==
    ASSUME NEW S, NEW a \in Seq(S), NEW b \in Seq(S), NEW kind
    PROVE  IdsIn(a \o b, kind) = IdsIn(a, kind) \cup IdsIn(b, kind)
<1> DEFINE m == Len(a)
           n == Len(b)
<1>1. /\ m \in Nat /\ n \in Nat /\ DOMAIN a = 1..m /\ DOMAIN b = 1..n /\ DOMAIN (a \o b) = 1..m + n
      /\ \A k \in 1..m + n : (a \o b)[k] = IF k <= m THEN a[k] ELSE b[k - m]
  BY ConcatProperties, LenProperties
<1> HIDE DEF m, n
<1>2. ASSUME NEW x \in IdsIn(a \o b, kind) PROVE x \in IdsIn(a, kind) \cup IdsIn(b, kind)
  <2>1. PICK k \in 1..m + n : (a \o b)[k].kind = kind /\ x = (a \o b)[k].id
    BY <1>1 DEF IdsIn
  <2>2. \/ k \in 1..m /\ (a \o b)[k] = a[k]
        \/ k - m \in 1..n /\ (a \o b)[k] = b[k - m]
    BY <1>1
  <2> QED BY <1>1, <2>1, <2>2 DEF IdsIn
<1>3. ASSUME NEW x \in IdsIn(a, kind) PROVE x \in IdsIn(a \o b, kind)
  <2>1. PICK k \in 1..m : a[k].kind = kind /\ x = a[k].id
    BY <1>1 DEF IdsIn
  <2>2. k \in 1..m + n /\ (a \o b)[k] = a[k]
    BY <1>1
  <2> QED BY <1>1, <2>1, <2>2 DEF IdsIn
<1>4. ASSUME NEW x \in IdsIn(b, kind) PROVE x \in IdsIn(a \o b, kind)
  <2>1. PICK k \in 1..n : b[k].kind = kind /\ x = b[k].id
    BY <1>1 DEF IdsIn
  <2>2. m + k \in 1..m + n /\ ~ (m + k <= m) /\ (m + k) - m = k
    BY <1>1
  <2>3. (a \o b)[m + k] = b[k]
    BY <1>1, <2>2
  <2> QED BY <1>1, <2>1, <2>2, <2>3 DEF IdsIn
<1> QED BY <1>2, <1>3, <1>4

\* A message is sent with the uses and the results it has.
LEMMA BlocksEncode ==
    ASSUME NEW p \in DOMAIN Profile, NEW asked \in BOOLEAN, NEW bs \in Seq(AnyBlock)
    PROVE  /\ EncodeBlocks(p, asked, bs) \in Seq(Sendable(p))
           /\ EncodeBlocks(p, asked, bs) =
                Concat([j \in DOMAIN bs |-> EncodeBlock(p, asked, bs[j])])
           /\ \A kind \in {"use", "result"} :
                 IdsIn(EncodeBlocks(p, asked, bs), kind) = IdsIn(bs, kind)
<1> DEFINE n == Len(bs)
           ss == [j \in 1..n |-> EncodeBlock(p, asked, bs[j])]
<1>1. n \in Nat /\ DOMAIN bs = 1..n /\ \A j \in 1..n : bs[j] \in AnyBlock
  BY LenProperties, ElementOfSeq
<1>2. ss \in Seq(Seq(Sendable(p))) /\ Len(ss) = n
  <2>1. \A j \in 1..n : EncodeBlock(p, asked, bs[j]) \in Seq(Sendable(p))
    BY <1>1, BlockEncodes
  <2> QED BY <1>1, <2>1, IsASeq
<1>3. EncodeBlocks(p, asked, bs) = Concat(ss)
  <2>1. EncodeBlocks(p, asked, bs) = FlattenSeq(ss)
    BY <1>1 DEF EncodeBlocks
  <2> HIDE DEF ss
  <2> QED BY <1>2, <2>1, FlattenIsConcat
<1>4. Concat(ss) \in Seq(Sendable(p))
  <2> HIDE DEF ss
  <2> QED BY <1>2, ConcatElement
<1>5. ASSUME NEW kind \in {"use", "result"} PROVE IdsIn(Concat(ss), kind) = IdsIn(bs, kind)
  <2>1. \A j \in 1..n : IdsIn(ss[j], kind) = IF bs[j].kind = kind THEN {bs[j].id} ELSE {}
    BY <1>1, BlockEncodes
  <2> HIDE DEF ss
  <2>2. IdsIn(Concat(ss), kind) = UNION {IdsIn(ss[j], kind) : j \in 1..n}
    BY <1>2, IdsOfConcat
  <2>3. IdsIn(bs, kind) = {bs[j].id : j \in {k \in 1..n : bs[k].kind = kind}}
    BY <1>1 DEF IdsIn
  <2> DEFINE Named(j) == IF bs[j].kind = kind THEN {bs[j].id} ELSE {}
  <2>4. UNION {IdsIn(ss[j], kind) : j \in 1..n} = UNION {Named(j) : j \in 1..n}
    BY <2>1
  <2>5. UNION {Named(j) : j \in 1..n} = {bs[j].id : j \in {k \in 1..n : bs[k].kind = kind}}
    OBVIOUS
  <2> QED BY <2>2, <2>3, <2>4, <2>5
<1> QED BY <1>1, <1>3, <1>4, <1>5

\* Only answers have uses, only user messages have results.
LEMMA MessageTyped ==
    ASSUME NEW m \in PromptMessage
    PROVE  /\ m.role \in DOMAIN PromptBlock /\ m.blocks \in Seq(AnyBlock)
           /\ IdsIn(m.blocks, "use") # {} => m.role = "assistant"
           /\ IdsIn(m.blocks, "result") # {} => m.role = "user"
<1>1. PICK role \in DOMAIN PromptBlock : m.role = role /\ m.blocks \in Seq(PromptBlock[role])
  BY DEF PromptMessage
<1>2. role \in {"user", "assistant"} /\ PromptBlock[role] \subseteq AnyBlock
  BY DEF PromptBlock, AnyBlock
<1>3. m.blocks \in Seq(AnyBlock)
  BY <1>1, <1>2, SeqMonotonic
<1>4. \A j \in DOMAIN m.blocks : m.blocks[j] \in PromptBlock[role]
  BY <1>1, ElementOfSeq, LenProperties
<1>5. /\ \A b \in PromptBlock["user"] : b.kind # "use"
      /\ \A b \in PromptBlock["assistant"] : b.kind # "result"
  BY DEF PromptBlock
<1>6. role = "user" => IdsIn(m.blocks, "use") = {}
  BY <1>4, <1>5 DEF IdsIn
<1>7. role = "assistant" => IdsIn(m.blocks, "result") = {}
  BY <1>4, <1>5 DEF IdsIn
<1> QED BY <1>1, <1>2, <1>3, <1>6, <1>7

\* What is sent of a prompt, message by message.
SentOf(p, asked, ms) == [k \in DOMAIN ms |-> EncodeBlocks(p, asked, ms[k].blocks)]

LEMMA SentTyped ==
    ASSUME NEW p \in DOMAIN Profile, NEW asked \in BOOLEAN, NEW ms \in Seq(PromptMessage)
    PROVE  /\ SentOf(p, asked, ms) \in Seq(Seq(Sendable(p))) /\ Len(SentOf(p, asked, ms)) = Len(ms)
           /\ \A k \in 1..Len(ms) :
                 /\ ms[k] \in PromptMessage
                 /\ SentOf(p, asked, ms)[k] = EncodeBlocks(p, asked, ms[k].blocks)
                 /\ EncodeBlocks(p, asked, ms[k].blocks) \in Seq(Sendable(p))
           /\ Sent(p, asked, ms) = Concat(SentOf(p, asked, ms))
<1> DEFINE n == Len(ms)
<1>1. n \in Nat /\ DOMAIN ms = 1..n /\ \A k \in 1..n : ms[k] \in PromptMessage
  BY LenProperties, ElementOfSeq
<1>2. \A k \in 1..n : EncodeBlocks(p, asked, ms[k].blocks) \in Seq(Sendable(p))
  BY <1>1, MessageTyped, BlocksEncode
<1>3. SentOf(p, asked, ms) = [k \in 1..n |-> EncodeBlocks(p, asked, ms[k].blocks)]
  BY <1>1 DEF SentOf
<1>4. SentOf(p, asked, ms) \in Seq(Seq(Sendable(p))) /\ Len(SentOf(p, asked, ms)) = n
  BY <1>1, <1>2, <1>3, IsASeq
<1>5. Sent(p, asked, ms) = FlattenSeq(SentOf(p, asked, ms))
  BY DEF Sent, SentOf
<1> QED BY <1>1, <1>2, <1>3, <1>4, <1>5, FlattenIsConcat

\* The bodies of the first messages, one after the other.
BodiesOf(p, asked, ms, g, k) ==
    /\ g[0] = <<>>
    /\ \A i \in 1..k : g[i] = Joined(g[i - 1], ms[i].role, EncodeBlocks(p, asked, ms[i].blocks))
HasBodies(p, asked, ms, k) ==
    \E g \in [0..k -> Seq(TurnOf(Sendable(p)))] : BodiesOf(p, asked, ms, g, k)

LEMMA BodyUpTo ==
    ASSUME NEW p \in DOMAIN Profile, NEW asked \in BOOLEAN, NEW ms \in Seq(PromptMessage)
    PROVE  \E g \in [0..Len(ms) -> Seq(TurnOf(Sendable(p)))] :
              BodiesOf(p, asked, ms, g, Len(ms)) /\ MessagesBody(p, asked, ms) = g[Len(ms)]
<1> DEFINE n == Len(ms)
           B == Seq(TurnOf(Sendable(p)))
           Joins(out, i) == Joined(out, ms[i].role, EncodeBlocks(p, asked, ms[i].blocks))
           Bad == {k \in 0..n : ~ HasBodies(p, asked, ms, k)}
<1>1. n \in Nat /\ \A i \in 1..n : \A out \in B : Joins(out, i) \in B
  <2>1. n \in Nat
    BY LenProperties
  <2>2. ASSUME NEW i \in 1..n, NEW out \in B PROVE Joins(out, i) \in B
    BY SentTyped, MessageTyped, JoinedShape
  <2> QED BY <2>1, <2>2
<1> HIDE DEF Joins
<1>2. ASSUME Bad # {} PROVE FALSE
  <2>1. PICK x \in Bad : \A y \in Bad : x <= y
    <3>1. Bad \subseteq Nat
      BY <1>1
    <3> HIDE DEF Bad
    <3> QED BY <1>2, <3>1, LeastNatural
  <2>2. CASE x = 0
    <3> DEFINE z == [i \in 0..0 |-> <<>>]
    <3>1. z \in [0..0 -> B] /\ BodiesOf(p, asked, ms, z, 0)
      BY EmptySeq DEF BodiesOf
    <3> QED BY <2>1, <2>2, <3>1 DEF HasBodies
  <2>3. CASE x # 0
    <3>1. x \in 1..n /\ x - 1 \in 0..n /\ x - 1 \notin Bad
      BY <1>1, <2>1, <2>3
    <3>2. PICK g \in [0..x - 1 -> B] : BodiesOf(p, asked, ms, g, x - 1)
      BY <3>1 DEF HasBodies
    <3> DEFINE h == [i \in 0..x |-> IF i = x THEN Joins(g[x - 1], x) ELSE g[i]]
    <3>3. g[x - 1] \in B /\ Joins(g[x - 1], x) \in B
      BY <1>1, <3>1, <3>2
    <3>4. h \in [0..x -> B] /\ h[0] = <<>> /\ h[x] = Joins(g[x - 1], x)
      BY <1>1, <2>3, <3>1, <3>2, <3>3 DEF BodiesOf
    <3>5. ASSUME NEW i \in 1..x PROVE h[i] = Joins(h[i - 1], i)
      <4>1. h[i - 1] = g[i - 1]
        BY <1>1, <3>1
      <4>2. CASE i = x
        BY <3>4, <4>1, <4>2
      <4>3. CASE i # x
        <5>1. i \in 1..x - 1 /\ h[i] = g[i]
          BY <1>1, <3>1, <4>3
        <5>2. g[i] = Joins(g[i - 1], i)
          BY <3>2, <5>1 DEF BodiesOf, Joins
        <5> QED BY <4>1, <5>1, <5>2
      <4> QED BY <4>2, <4>3
    <3> HIDE DEF h
    <3>6. BodiesOf(p, asked, ms, h, x)
      BY <3>4, <3>5 DEF BodiesOf, Joins
    <3> QED BY <2>1, <3>4, <3>6 DEF HasBodies
  <2> QED BY <2>2, <2>3
<1>3. PICK g \in [0..n -> B] : BodiesOf(p, asked, ms, g, n)
  BY <1>1, <1>2 DEF HasBodies
<1> DEFINE c == CHOOSE h : h = [k \in 0..n |-> IF k = 0 THEN <<>> ELSE Joins(h[k - 1], k)]
<1>4. g = [k \in 0..n |-> IF k = 0 THEN <<>> ELSE Joins(g[k - 1], k)]
  <2>1. \A k \in 0..n : g[k] = IF k = 0 THEN <<>> ELSE Joins(g[k - 1], k)
    <3>1. \A k \in 0..n : k = 0 \/ k \in 1..n
      BY <1>1
    <3>2. g[0] = <<>> /\ \A k \in 1..n : g[k] = Joins(g[k - 1], k)
      BY <1>3 DEF BodiesOf, Joins
    <3>3. 0 \notin 1..n
      OBVIOUS
    <3> HIDE DEF n
    <3> QED BY <3>1, <3>2, <3>3, Zenon
  <2> QED BY <2>1
<1>5. c = [k \in 0..n |-> IF k = 0 THEN <<>> ELSE Joins(c[k - 1], k)]
  BY <1>4
<1>6. MessagesBody(p, asked, ms) = c[n]
  BY DEF MessagesBody, Joins, c
<1> HIDE DEF c
<1> DEFINE Off == {k \in 0..n : c[k] # g[k]}
<1>7. ASSUME Off # {} PROVE FALSE
  <2>1. PICK x \in Off : \A y \in Off : x <= y
    <3>1. Off \subseteq Nat
      BY <1>1
    <3> HIDE DEF Off
    <3> QED BY <1>7, <3>1, LeastNatural
  <2>2. x # 0
    <3>1. c[0] = <<>> /\ g[0] = <<>>
      BY <1>1, <1>4, <1>5
    <3> QED BY <2>1, <3>1
  <2>3. x - 1 \in 0..n /\ x - 1 \notin Off
    BY <1>1, <2>1, <2>2
  <2>4. c[x] = Joins(c[x - 1], x) /\ g[x] = Joins(g[x - 1], x)
    BY <1>4, <1>5, <2>1, <2>2
  <2> QED BY <2>1, <2>3, <2>4
<1>8. c[n] = g[n]
  BY <1>1, <1>7
<1> QED BY <1>3, <1>6, <1>8

\* Nothing lost, nothing moved, and no turn empty.
LEMMA MessagesWhole ==
    ASSUME NEW p \in DOMAIN Profile, NEW asked \in BOOLEAN, NEW ms \in Seq(PromptMessage),
           NEW g \in [0..Len(ms) -> Seq(TurnOf(Sendable(p)))], BodiesOf(p, asked, ms, g, Len(ms))
    PROVE  /\ Concat(ContentOf(g[Len(ms)])) = Sent(p, asked, ms)
           /\ \A t \in 1..Len(g[Len(ms)]) : g[Len(ms)][t].content # <<>>
<1> DEFINE n == Len(ms)
           S == Sendable(p)
           Full(out) == \A t \in 1..Len(out) : out[t].content # <<>>
<1>1. n \in Nat /\ SentOf(p, asked, ms) \in Seq(Seq(S)) /\ Len(SentOf(p, asked, ms)) = n
  BY SentTyped, LenProperties
<1>2. PICK f \in [0..n -> Seq(S)] :
         ConcatsOf(SentOf(p, asked, ms), f, n) /\ Concat(SentOf(p, asked, ms)) = f[n]
  BY <1>1, ConcatUpTo
<1> DEFINE Good(k) == Concat(ContentOf(g[k])) = f[k] /\ Full(g[k])
           Bad == {k \in 0..n : ~ Good(k)}
<1>3. ASSUME Bad # {} PROVE FALSE
  <2>1. PICK x \in Bad : \A y \in Bad : x <= y
    <3>1. Bad \subseteq Nat
      BY <1>1
    <3> HIDE DEF Bad
    <3> QED BY <1>3, <3>1, LeastNatural
  <2>2. CASE x = 0
    <3>1. g[0] = <<>> /\ f[0] = <<>>
      BY <1>2 DEF BodiesOf, ConcatsOf
    <3>2. ContentOf(<<>>) = <<>>
      BY DEF ContentOf
    <3>3. Len(g[0]) = 0
      BY <3>1, EmptySeq
    <3> QED BY <2>1, <2>2, <3>1, <3>2, <3>3, ConcatSmall
  <2>3. CASE x # 0
    <3> DEFINE content == EncodeBlocks(p, asked, ms[x].blocks)
               out == g[x - 1]
               role == ms[x].role
    <3>1. x \in 1..n /\ x - 1 \in 0..n /\ x - 1 \notin Bad
      BY <1>1, <2>1, <2>3
    <3>2. out \in Seq(TurnOf(S)) /\ content \in Seq(S) /\ role \in DOMAIN PromptBlock
      BY <3>1, SentTyped, MessageTyped
    <3>3. g[x] = Joined(out, role, content) /\ f[x] = f[x - 1] \o content
      <4>1. SentOf(p, asked, ms)[x] = content
        BY <3>1, SentTyped
      <4> QED BY <1>2, <3>1, <4>1 DEF BodiesOf, ConcatsOf
    <3> HIDE DEF content, out, role
    <3>4. /\ Concat(ContentOf(g[x])) = Concat(ContentOf(out)) \o content
          /\ \/ Skips(out, content, g[x])
             \/ Extends(out, role, content, g[x])
             \/ Opens(out, role, content, g[x])
      BY <3>2, <3>3, JoinedShape
    <3>5. Good(x - 1)
      BY <3>1
    <3>6. Concat(ContentOf(g[x])) = f[x]
      BY <3>3, <3>4, <3>5 DEF out
    <3>7. Full(out) /\ Len(out) \in Nat
      BY <3>2, <3>5, LenProperties DEF out
    <3>8. CASE Skips(out, content, g[x])
      BY <2>1, <3>6, <3>7, <3>8 DEF Skips
    <3>9. CASE Extends(out, role, content, g[x])
      <4>1. out[Len(out)].content \in Seq(S) /\ out[Len(out)].content \o content # <<>>
        BY <3>2, <3>7, <3>9, ContentTyped, ConcatEqualIffEmpty DEF Extends
      <4>2. Full(g[x])
        BY <3>7, <3>9, <4>1 DEF Extends, Turn
      <4> QED BY <2>1, <3>6, <4>2
    <3>10. CASE Opens(out, role, content, g[x])
      <4>1. Full(g[x])
        <5> SUFFICES ASSUME NEW t \in 1..Len(g[x]) PROVE g[x][t].content # <<>>
          OBVIOUS
        <5>1. t = Len(out) + 1 \/ t \in 1..Len(out)
          BY <3>7, <3>10 DEF Opens
        <5> QED BY <3>7, <3>10, <5>1 DEF Opens, Turn
      <4> QED BY <2>1, <3>6, <4>1
    <3> QED BY <3>4, <3>8, <3>9, <3>10
  <2> QED BY <2>2, <2>3
<1>4. Good(n)
  BY <1>1, <1>3
<1> QED BY <1>2, <1>4, SentTyped

\* The turns of the first k messages: a turn with uses is an answer, and has the
\* results behind it unless its message was the last of them.
TurnAnswered(ms, k, out, t) ==
    /\ out[t].role = "assistant"
    /\ \/ /\ t < Len(out)
          /\ IdsIn(out[t].content, "use") \subseteq IdsIn(out[t + 1].content, "result")
       \/ /\ t = Len(out) /\ k > 0
          /\ IdsIn(out[t].content, "use") = IdsIn(ms[k].blocks, "use")
TurnsSoFar(ms, k, out) ==
    \A t \in 1..Len(out) :
       /\ t > 1 => out[t].role # out[t - 1].role
       /\ IdsIn(out[t].content, "use") # {} => TurnAnswered(ms, k, out, t)

LEMMA JoinKeepsTurns ==
    ASSUME NEW S, NEW ms \in Seq(PromptMessage), InPairs(ms), NEW k \in 1..Len(ms),
           NEW out \in Seq(TurnOf(S)), NEW content \in Seq(S),
           \A kind \in {"use", "result"} : IdsIn(content, kind) = IdsIn(ms[k].blocks, kind),
           TurnsSoFar(ms, k - 1, out)
    PROVE  TurnsSoFar(ms, k, Joined(out, ms[k].role, content))
<1> DEFINE new == Joined(out, ms[k].role, content)
           n == Len(out)
           role == ms[k].role
<1>1. n \in Nat /\ k \in Nat /\ Len(ms) \in Nat /\ DOMAIN ms = 1..Len(ms)
  BY LenProperties
<1>2. /\ role \in DOMAIN PromptBlock
      /\ IdsIn(content, "use") # {} => role = "assistant"
      /\ IdsIn(content, "result") # {} => role = "user"
      /\ IdsIn(content, "use") = IdsIn(ms[k].blocks, "use")
  <2>1. ms[k] \in PromptMessage
    BY ElementOfSeq
  <2> QED BY <2>1, MessageTyped
<1>3. \/ Skips(out, content, new)
      \/ Extends(out, role, content, new)
      \/ Opens(out, role, content, new)
  BY <1>2, JoinedShape
<1> HIDE DEF new
\* A last turn with uses waits for the results of this message.
<1>4. ASSUME n > 0, IdsIn(out[n].content, "use") # {}
      PROVE  /\ out[n].role = "assistant" /\ role = "user" /\ content # <<>>
             /\ IdsIn(out[n].content, "use") = IdsIn(content, "result")
  <2>1. n \in 1..n /\ ~ (n < n)
    BY <1>1, <1>4
  <2>2. /\ out[n].role = "assistant" /\ k - 1 > 0
        /\ IdsIn(out[n].content, "use") = IdsIn(ms[k - 1].blocks, "use")
    BY <1>4, <2>1 DEF TurnsSoFar, TurnAnswered
  <2>3. k - 1 \in DOMAIN ms /\ (k - 1) + 1 = k
    BY <1>1, <2>2
  <2>4. IdsIn(ms[k].blocks, "result") = IdsIn(ms[k - 1].blocks, "use")
    BY <1>4, <2>2, <2>3 DEF InPairs
  <2>5. IdsIn(content, "result") = IdsIn(out[n].content, "use")
    BY <2>2, <2>4
  <2>6. IdsIn(<<>>, "result") = {}
    BY DEF IdsIn
  <2> QED BY <1>2, <1>4, <2>2, <2>5, <2>6
<1>5. ASSUME Skips(out, content, new) PROVE TurnsSoFar(ms, k, new)
  <2>1. ASSUME NEW t \in 1..n, IdsIn(out[t].content, "use") # {} PROVE TurnAnswered(ms, k, out, t)
    <3>1. t # n
      BY <1>1, <1>4, <1>5, <2>1 DEF Skips
    <3> QED BY <2>1, <3>1 DEF TurnsSoFar, TurnAnswered
  <2>2. TurnsSoFar(ms, k, out)
    BY <2>1 DEF TurnsSoFar
  <2> QED BY <1>5, <2>2 DEF Skips
<1>6. ASSUME Extends(out, role, content, new) PROVE TurnsSoFar(ms, k, new)
  <2>1. /\ n \in 1..n /\ Len(new) = n /\ out[n].role = role
        /\ new[n].role = role /\ new[n].content = out[n].content \o content
        /\ \A t \in 1..n : t # n => new[t] = out[t]
    <3>1. n \in 1..n
      BY <1>1, <1>6 DEF Extends
    <3>2. new[n] = [role |-> role, content |-> out[n].content \o content]
      BY <1>6 DEF Extends, Turn
    <3>3. new[n].role = role /\ new[n].content = out[n].content \o content
      <4> DEFINE grown == out[n].content \o content
      <4>1. new[n] = [role |-> role, content |-> grown]
        BY <3>2
      <4> HIDE DEF grown
      <4>2. new[n].role = role /\ new[n].content = grown
        BY <4>1
      <4> QED BY <4>2 DEF grown
    <3> QED BY <1>6, <3>1, <3>3 DEF Extends
  <2>2. out[n].content \in Seq(S)
    BY <2>1, ContentTyped
  <2>3. \A kind : IdsIn(new[n].content, kind) = IdsIn(out[n].content, kind) \cup IdsIn(content, kind)
    BY <2>1, <2>2, IdsOfJoin
  <2>4. \A t \in 1..n : new[t].role = out[t].role
    BY <2>1
  <2>5. IdsIn(out[n].content, "use") = {}
    BY <1>1, <1>4, <2>1
  <2>6. ASSUME NEW t \in 1..n, IdsIn(new[t].content, "use") # {} PROVE TurnAnswered(ms, k, new, t)
    <3>1. CASE t = n
      <4>1. IdsIn(new[n].content, "use") = IdsIn(ms[k].blocks, "use")
        BY <1>2, <2>3, <2>5
      <4>2. role = "assistant"
        BY <1>2, <2>6, <3>1, <4>1
      <4>3. k > 0 /\ t = Len(new) /\ new[t].role = "assistant"
        BY <1>1, <2>1, <3>1, <4>2
      <4> QED BY <3>1, <4>1, <4>3 DEF TurnAnswered
    <3>2. CASE t # n
      <4>1. new[t] = out[t] /\ t < n /\ t + 1 \in 1..n
        BY <1>1, <2>1, <3>2
      <4>2. /\ out[t].role = "assistant"
            /\ IdsIn(out[t].content, "use") \subseteq IdsIn(out[t + 1].content, "result")
        BY <1>1, <2>6, <3>2, <4>1 DEF TurnsSoFar, TurnAnswered
      <4>3. IdsIn(out[t + 1].content, "result") \subseteq IdsIn(new[t + 1].content, "result")
        BY <2>1, <2>3, <4>1
      <4> QED BY <2>1, <4>1, <4>2, <4>3 DEF TurnAnswered
    <3> QED BY <3>1, <3>2
  <2>7. ASSUME NEW t \in 1..n, t > 1 PROVE new[t].role # new[t - 1].role
    <3>1. t - 1 \in 1..n
      BY <1>1, <2>7
    <3>2. out[t].role # out[t - 1].role
      BY <2>7 DEF TurnsSoFar
    <3> QED BY <2>4, <3>1, <3>2
  <2> QED BY <2>1, <2>6, <2>7 DEF TurnsSoFar
<1>7. ASSUME Opens(out, role, content, new) PROVE TurnsSoFar(ms, k, new)
  <2>1. /\ Len(new) = n + 1 /\ new[n + 1].role = role /\ new[n + 1].content = content
        /\ \A t \in 1..n : new[t] = out[t]
        /\ n > 0 => out[n].role # role
    BY <1>7 DEF Opens, Turn
  <2>2. ASSUME NEW t \in 1..n + 1, t > 1 PROVE new[t].role # new[t - 1].role
    <3>1. CASE t = n + 1
      <4>1. t - 1 = n /\ n \in 1..n
        BY <1>1, <2>2, <3>1
      <4> QED BY <1>1, <2>1, <3>1, <4>1
    <3>2. CASE t # n + 1
      <4>1. t \in 1..n /\ t - 1 \in 1..n
        BY <1>1, <2>2, <3>2
      <4> QED BY <2>1, <2>2, <4>1 DEF TurnsSoFar
    <3> QED BY <3>1, <3>2
  <2>3. ASSUME NEW t \in 1..n + 1, IdsIn(new[t].content, "use") # {} PROVE TurnAnswered(ms, k, new, t)
    <3>1. CASE t = n + 1
      <4>1. role = "assistant"
        BY <1>2, <2>1, <2>3, <3>1
      <4> QED BY <1>1, <1>2, <2>1, <3>1, <4>1 DEF TurnAnswered
    <3>2. CASE t = n
      <4>1. n \in 1..n /\ n < n + 1
        BY <1>1, <2>3, <3>2
      <4>2. new[n] = out[n] /\ n > 0
        BY <1>1, <2>1, <4>1
      <4> QED BY <1>4, <2>1, <2>3, <3>2, <4>1, <4>2 DEF TurnAnswered
    <3>3. CASE t # n + 1 /\ t # n
      <4>1. t \in 1..n /\ t < n + 1 /\ t + 1 \in 1..n
        BY <1>1, <3>3
      <4>2. new[t] = out[t] /\ new[t + 1] = out[t + 1]
        BY <2>1, <4>1
      <4>3. TurnAnswered(ms, k - 1, out, t)
        BY <2>3, <4>1, <4>2 DEF TurnsSoFar
      <4>4. /\ out[t].role = "assistant"
            /\ IdsIn(out[t].content, "use") \subseteq IdsIn(out[t + 1].content, "result")
        BY <3>3, <4>3 DEF TurnAnswered
      <4> QED BY <2>1, <4>1, <4>2, <4>4 DEF TurnAnswered
    <3> QED BY <3>1, <3>2, <3>3
  <2> QED BY <2>1, <2>2, <2>3 DEF TurnsSoFar
<1>8. TurnsSoFar(ms, k, new)
  BY <1>3, <1>5, <1>6, <1>7
<1> QED BY <1>8 DEF new

LEMMA MessagesTurns ==
    ASSUME NEW p \in DOMAIN Profile, NEW asked \in BOOLEAN, NEW ms \in Seq(PromptMessage), InPairs(ms),
           NEW g \in [0..Len(ms) -> Seq(TurnOf(Sendable(p)))], BodiesOf(p, asked, ms, g, Len(ms))
    PROVE  TurnsSound(g[Len(ms)])
<1> DEFINE n == Len(ms)
           Bad == {k \in 0..n : ~ TurnsSoFar(ms, k, g[k])}
<1>1. n \in Nat /\ DOMAIN ms = 1..n
  BY LenProperties
<1>2. ASSUME Bad # {} PROVE FALSE
  <2>1. PICK x \in Bad : \A y \in Bad : x <= y
    <3>1. Bad \subseteq Nat
      BY <1>1
    <3> HIDE DEF Bad
    <3> QED BY <1>2, <3>1, LeastNatural
  <2>2. CASE x = 0
    <3>1. g[0] = <<>> /\ Len(<<>>) = 0
      BY EmptySeq DEF BodiesOf
    <3> QED BY <2>1, <2>2, <3>1 DEF TurnsSoFar
  <2>3. CASE x # 0
    <3> DEFINE content == EncodeBlocks(p, asked, ms[x].blocks)
    <3>1. x \in 1..n /\ x - 1 \in 0..n /\ x - 1 \notin Bad
      BY <1>1, <2>1, <2>3
    <3>2. /\ content \in Seq(Sendable(p))
          /\ \A kind \in {"use", "result"} : IdsIn(content, kind) = IdsIn(ms[x].blocks, kind)
      <4>1. ms[x].blocks \in Seq(AnyBlock)
        BY <3>1, SentTyped, MessageTyped
      <4> QED BY <4>1, BlocksEncode
    <3>3. g[x] = Joined(g[x - 1], ms[x].role, content)
      BY <3>1 DEF BodiesOf
    <3>4. TurnsSoFar(ms, x - 1, g[x - 1]) /\ g[x - 1] \in Seq(TurnOf(Sendable(p)))
      BY <3>1
    <3> HIDE DEF content
    <3>5. TurnsSoFar(ms, x, g[x])
      BY <3>1, <3>2, <3>3, <3>4, JoinKeepsTurns
    <3> QED BY <2>1, <3>5
  <2> QED BY <2>2, <2>3
<1> DEFINE out == g[n]
<1>3. TurnsSoFar(ms, n, out) /\ out \in Seq(TurnOf(Sendable(p)))
  BY <1>1, <1>2
<1>4. Len(out) \in Nat /\ DOMAIN out = 1..Len(out)
  BY <1>3, LenProperties
<1>5. ASSUME NEW t \in 1..Len(out), IdsIn(out[t].content, "use") # {}
      PROVE  /\ t < Len(out)
             /\ IdsIn(out[t].content, "use") \subseteq IdsIn(out[t + 1].content, "result")
  <2>1. TurnAnswered(ms, n, out, t)
    BY <1>3, <1>5 DEF TurnsSoFar
  <2>2. ~ (n > 0 /\ IdsIn(out[t].content, "use") = IdsIn(ms[n].blocks, "use"))
    <3>1. n > 0 => IdsIn(ms[n].blocks, "use") = {}
      <4>1. n > 0 => n \in DOMAIN ms
        BY <1>1
      <4>2. ~ (n < n)
        BY <1>1
      <4> QED BY <4>1, <4>2 DEF InPairs
    <3> QED BY <1>5, <3>1
  <2> QED BY <2>1, <2>2 DEF TurnAnswered
<1> QED BY <1>3, <1>4, <1>5 DEF TurnsSound, TurnsSoFar

\* The items of a message are its pieces, one by one: a role can say whatever its
\* messages hold.
LEMMA ItemsOfMessage ==
    ASSUME NEW p \in DOMAIN Profile, NEW asked \in BOOLEAN, NEW m \in PromptMessage
    PROVE  /\ SaidItems(p, asked, m) \in Seq(TurnOf(Sendable(p)))
           /\ Concat(ContentOf(SaidItems(p, asked, m))) = EncodeBlocks(p, asked, m.blocks)
           /\ \A i \in 1..Len(SaidItems(p, asked, m)) : SaidItems(p, asked, m)[i].content # <<>>
<1> DEFINE s == EncodeBlocks(p, asked, m.blocks)
           n == Len(s)
           one == [i \in 1..n |-> Turn(m.role, <<s[i]>>)]
<1>1. m.role \in DOMAIN PromptBlock /\ m.blocks \in Seq(AnyBlock) /\ s \in Seq(Sendable(p))
  BY MessageTyped, BlocksEncode
<1>2. Said(p, asked, m) = s
  <2>1. PICK role \in DOMAIN PromptBlock : m.role = role /\ m.blocks \in Seq(PromptBlock[role])
    BY DEF PromptMessage
  <2>2. \A j \in DOMAIN m.blocks : m.blocks[j] \in PromptBlock[role]
    BY <2>1, ElementOfSeq, LenProperties
  <2>3. role \in {"user", "assistant"}
    BY <2>1 DEF PromptBlock
  <2>4. /\ \A b \in PromptBlock["user"] : b.kind \in {"text", "result"}
        /\ \A b \in PromptBlock["assistant"] : b.kind # "result"
    BY DEF PromptBlock
  <2>5. \A j \in DOMAIN m.blocks : Sayable(m.role, m.blocks[j])
    BY <2>1, <2>2, <2>3, <2>4 DEF Sayable
  <2>6. [j \in DOMAIN m.blocks |->
           IF Sayable(m.role, m.blocks[j]) THEN EncodeBlock(p, asked, m.blocks[j]) ELSE <<>>]
        = [j \in DOMAIN m.blocks |-> EncodeBlock(p, asked, m.blocks[j])]
    BY <2>5
  <2> QED BY <2>6 DEF Said, EncodeBlocks
<1> HIDE DEF s
<1>3. n \in Nat /\ DOMAIN s = 1..n /\ \A i \in 1..n : s[i] \in Sendable(p)
  BY <1>1, LenProperties, ElementOfSeq
<1>4. SaidItems(p, asked, m) = one
  BY <1>2, <1>3 DEF SaidItems
<1>5. \A i \in 1..n : /\ Turn(m.role, <<s[i]>>) \in TurnOf(Sendable(p))
                      /\ Turn(m.role, <<s[i]>>).content = <<s[i]>>
  BY <1>1, <1>3 DEF Turn, TurnOf
<1>6. one \in Seq(TurnOf(Sendable(p))) /\ Len(one) = n /\ DOMAIN one = 1..n
  BY <1>3, <1>5, IsASeq
<1>7. ContentOf(one) = [i \in DOMAIN s |-> <<s[i]>>]
  <2>1. \A i \in 1..n : one[i].content = <<s[i]>>
    BY <1>5
  <2> HIDE DEF one
  <2> QED BY <1>3, <1>6, <2>1 DEF ContentOf
<1>8. Concat(ContentOf(one)) = s
  BY <1>1, <1>7, ConcatOfSingles
<1>9. \A i \in 1..Len(one) : one[i].content # <<>>
  <2>1. \A x : <<x>> # <<>>
    OBVIOUS
  <2>2. \A i \in 1..n : one[i].content = <<s[i]>>
    BY <1>5
  <2> HIDE DEF one
  <2> QED BY <1>6, <2>1, <2>2
<1> QED BY <1>4, <1>6, <1>8, <1>9 DEF s

LEMMA ResponsesWhole ==
    ASSUME NEW p \in DOMAIN Profile, NEW asked \in BOOLEAN, NEW ms \in Seq(PromptMessage)
    PROVE  /\ ResponsesBody(p, asked, ms) \in Seq(TurnOf(Sendable(p)))
           /\ Concat(ContentOf(ResponsesBody(p, asked, ms))) = Sent(p, asked, ms)
           /\ \A t \in 1..Len(ResponsesBody(p, asked, ms)) :
                 ResponsesBody(p, asked, ms)[t].content # <<>>
<1> DEFINE n == Len(ms)
           S == Sendable(p)
           T == TurnOf(S)
           items == [k \in 1..n |-> SaidItems(p, asked, ms[k])]
<1>1. /\ n \in Nat /\ DOMAIN ms = 1..n /\ \A k \in 1..n : ms[k] \in PromptMessage
      /\ SentOf(p, asked, ms) \in Seq(Seq(S)) /\ Len(SentOf(p, asked, ms)) = n
      /\ \A k \in 1..n : SentOf(p, asked, ms)[k] = EncodeBlocks(p, asked, ms[k].blocks)
  BY SentTyped, LenProperties
<1>2. items \in Seq(Seq(T)) /\ Len(items) = n
  <2>1. \A k \in 1..n : SaidItems(p, asked, ms[k]) \in Seq(T)
    BY <1>1, ItemsOfMessage
  <2> QED BY <1>1, <2>1, IsASeq
<1>3. ResponsesBody(p, asked, ms) = Concat(items)
  <2>1. ResponsesBody(p, asked, ms) = FlattenSeq(items)
    BY <1>1 DEF ResponsesBody
  <2> HIDE DEF items
  <2> QED BY <1>2, <2>1, FlattenIsConcat
<1>4. \A k \in 1..n : items[k] = SaidItems(p, asked, ms[k])
  OBVIOUS
<1> HIDE DEF items
<1>5. PICK f \in [0..n -> Seq(T)] : ConcatsOf(items, f, n) /\ Concat(items) = f[n]
  BY <1>2, ConcatUpTo
<1>6. PICK h \in [0..n -> Seq(S)] :
         ConcatsOf(SentOf(p, asked, ms), h, n) /\ Concat(SentOf(p, asked, ms)) = h[n]
  BY <1>1, ConcatUpTo
<1> DEFINE Bad == {k \in 0..n : Concat(ContentOf(f[k])) # h[k]}
<1>7. ASSUME Bad # {} PROVE FALSE
  <2>1. PICK x \in Bad : \A y \in Bad : x <= y
    <3>1. Bad \subseteq Nat
      BY <1>1
    <3> HIDE DEF Bad
    <3> QED BY <1>7, <3>1, LeastNatural
  <2>2. x # 0
    <3>1. f[0] = <<>> /\ h[0] = <<>>
      BY <1>5, <1>6 DEF ConcatsOf
    <3>2. ContentOf(<<>>) = <<>>
      BY DEF ContentOf
    <3> QED BY <2>1, <3>1, <3>2, ConcatSmall
  <2>3. x \in 1..n /\ x - 1 \in 0..n /\ x - 1 \notin Bad
    BY <1>1, <2>1, <2>2
  <2> DEFINE its == SaidItems(p, asked, ms[x])
  <2>4. f[x] = f[x - 1] \o its /\ h[x] = h[x - 1] \o EncodeBlocks(p, asked, ms[x].blocks)
    BY <1>1, <1>4, <1>5, <1>6, <2>3 DEF ConcatsOf
  <2>5. its \in Seq(T) /\ Concat(ContentOf(its)) = EncodeBlocks(p, asked, ms[x].blocks)
    BY <1>1, <2>3, ItemsOfMessage
  <2>6. f[x - 1] \in Seq(T) /\ Concat(ContentOf(f[x - 1])) = h[x - 1]
    BY <2>3
  <2> HIDE DEF its
  <2>7. Concat(ContentOf(f[x])) = Concat(ContentOf(f[x - 1])) \o Concat(ContentOf(its))
    <3> DEFINE before == f[x - 1]
    <3>1. before \in Seq(TurnOf(S)) /\ its \in Seq(TurnOf(S))
      BY <2>5, <2>6
    <3> HIDE DEF before
    <3>2. Concat(ContentOf(before \o its)) = Concat(ContentOf(before)) \o Concat(ContentOf(its))
      BY <3>1, ContentOfJoin
    <3> QED BY <2>4, <3>2 DEF before
  <2> QED BY <2>1, <2>4, <2>5, <2>6, <2>7
<1>8. Concat(ContentOf(Concat(items))) = Sent(p, asked, ms)
  <2>1. Concat(ContentOf(f[n])) = h[n]
    BY <1>1, <1>7
  <2> QED BY <1>5, <1>6, <2>1, SentTyped
<1>9. ASSUME NEW t \in 1..Len(Concat(items)) PROVE Concat(items)[t].content # <<>>
  <2>1. PICK k \in 1..Len(items) : \E i \in 1..Len(items[k]) : Concat(items)[t] = items[k][i]
    BY <1>2, ConcatElement
  <2>2. PICK i \in 1..Len(items[k]) : Concat(items)[t] = items[k][i]
    BY <2>1
  <2>3. items[k] = SaidItems(p, asked, ms[k]) /\ ms[k] \in PromptMessage
    BY <1>1, <1>2, <1>4
  <2> QED BY <2>2, <2>3, ItemsOfMessage
<1> QED BY <1>2, <1>3, <1>8, <1>9, ConcatElement

\* A prompt is built of messages of the two roles.
PromptInv == prompt \in Seq(PromptMessage) /\ effort \in BOOLEAN

LEMMA PromptGrows == PromptInv /\ [Grow]_promptVars => PromptInv'
<1> SUFFICES ASSUME PromptInv, [Grow]_promptVars PROVE PromptInv'
  OBVIOUS
<1>1. CASE UNCHANGED promptVars
  BY <1>1 DEF promptVars, PromptInv
<1>2. CASE Grow
  <2>1. PICK role \in DOMAIN PromptBlock : \E b \in PromptBlocks[role] :
           \/ prompt' = Append(prompt, [role |-> role, blocks |-> <<b>>])
           \/ /\ prompt # <<>> /\ prompt[Len(prompt)].role = role
              /\ prompt' = [prompt EXCEPT ![Len(prompt)].blocks = Append(@, b)]
    BY <1>2 DEF Grow
  <2>2. PICK b \in PromptBlocks[role] :
           \/ prompt' = Append(prompt, [role |-> role, blocks |-> <<b>>])
           \/ /\ prompt # <<>> /\ prompt[Len(prompt)].role = role
              /\ prompt' = [prompt EXCEPT ![Len(prompt)].blocks = Append(@, b)]
    BY <2>1
  <2>3. b \in PromptBlock[role] /\ effort' = effort
    BY <1>2, PromptAssumption DEF Grow
  <2>4. CASE prompt' = Append(prompt, [role |-> role, blocks |-> <<b>>])
    <3>1. [role |-> role, blocks |-> <<b>>] \in PromptMessage
      BY <2>3 DEF PromptMessage
    <3> QED BY <2>3, <2>4, <3>1, AppendProperties DEF PromptInv
  <2>5. CASE /\ prompt # <<>> /\ prompt[Len(prompt)].role = role
             /\ prompt' = [prompt EXCEPT ![Len(prompt)].blocks = Append(@, b)]
    <3> DEFINE n == Len(prompt)
               m == prompt[n]
    <3>1. n \in 1..n /\ m \in PromptMessage
      BY <2>5, EmptySeq, ElementOfSeq DEF PromptInv
    <3>2. m.blocks \in Seq(PromptBlock[role]) /\ m = [role |-> role, blocks |-> m.blocks]
      BY <2>5, <3>1 DEF PromptMessage
    <3>3. Append(m.blocks, b) \in Seq(PromptBlock[role])
      BY <2>3, <3>2, AppendProperties
    <3>4. [m EXCEPT !.blocks = Append(@, b)] \in PromptMessage
      <4>1. [m EXCEPT !.blocks = Append(@, b)] = [role |-> role, blocks |-> Append(m.blocks, b)]
        <5> DEFINE old == m.blocks
                   grown == Append(old, b)
        <5>1. m = [role |-> role, blocks |-> old]
          BY <3>2
        <5>2. [m EXCEPT !.blocks = Append(@, b)] = [m EXCEPT !.blocks = grown]
          OBVIOUS
        <5> HIDE DEF m, old, grown
        <5>3. [m EXCEPT !.blocks = grown] = [role |-> role, blocks |-> grown]
          BY <5>1
        <5> QED BY <5>2, <5>3, SMTT(30) DEF grown, old
      <4> DEFINE grown == Append(m.blocks, b)
      <4>2. grown \in Seq(PromptBlock[role])
        BY <3>3
      <4> HIDE DEF grown
      <4>3. [role |-> role, blocks |-> grown] \in PromptMessage
        BY <4>2 DEF PromptMessage
      <4> QED BY <4>1, <4>3 DEF grown
    <3>5. prompt' = [prompt EXCEPT ![n] = [m EXCEPT !.blocks = Append(@, b)]]
      BY <2>5
    <3> QED BY <2>3, <3>1, <3>4, <3>5, ExceptSeq DEF PromptInv
  <2> QED BY <2>2, <2>4, <2>5
<1> QED BY <1>1, <1>2

LEMMA PromptEncodes == PromptInv => EncodingSound
<1> SUFFICES ASSUME PromptInv, NEW p \in DOMAIN Profile
             PROVE  LET body == Body(p, effort, prompt) IN
                    /\ Contents(body) = Sent(p, effort, prompt)
                    /\ \A k \in DOMAIN body :
                         /\ body[k].content # <<>>
                         /\ \A i \in DOMAIN body[k].content : PieceSound(p, body[k].content[i])
                    /\ Profile[p].api = "messages" /\ InPairs(prompt) => TurnsSound(body)
  BY DEF EncodingSound
<1> DEFINE body == Body(p, effort, prompt)
           S == Sendable(p)
<1>1. prompt \in Seq(PromptMessage) /\ effort \in BOOLEAN
  BY DEF PromptInv
<1>2. /\ body \in Seq(TurnOf(S)) /\ Concat(ContentOf(body)) = Sent(p, effort, prompt)
      /\ \A t \in 1..Len(body) : body[t].content # <<>>
      /\ Profile[p].api = "messages" /\ InPairs(prompt) => TurnsSound(body)
  <2>1. CASE Profile[p].api = "messages"
    <3>1. PICK g \in [0..Len(prompt) -> Seq(TurnOf(S))] :
             /\ BodiesOf(p, effort, prompt, g, Len(prompt))
             /\ MessagesBody(p, effort, prompt) = g[Len(prompt)]
      BY <1>1, BodyUpTo
    <3>2. body = g[Len(prompt)] /\ body \in Seq(TurnOf(S))
      <4>1. Len(prompt) \in 0..Len(prompt)
        BY <1>1, LenProperties
      <4>2. body = g[Len(prompt)]
        BY <2>1, <3>1 DEF Body
      <4> HIDE DEF body
      <4> QED BY <4>1, <4>2
    <3>3. /\ Concat(ContentOf(g[Len(prompt)])) = Sent(p, effort, prompt)
          /\ \A t \in 1..Len(g[Len(prompt)]) : g[Len(prompt)][t].content # <<>>
      BY <1>1, <3>1, MessagesWhole
    <3>4. InPairs(prompt) => TurnsSound(g[Len(prompt)])
      BY <1>1, <3>1, MessagesTurns
    <3> HIDE DEF body
    <3> QED BY <3>2, <3>3, <3>4
  <2>2. CASE Profile[p].api # "messages"
    <3>1. body = ResponsesBody(p, effort, prompt)
      BY <2>2 DEF Body
    <3> HIDE DEF body
    <3> QED BY <1>1, <2>2, <3>1, ResponsesWhole
  <2> QED BY <2>1, <2>2
<1> HIDE DEF body
<1>3. /\ DOMAIN body = 1..Len(body) /\ ContentOf(body) \in Seq(Seq(S))
      /\ \A k \in 1..Len(body) : body[k].content \in Seq(S)
  BY <1>2, ContentTyped
<1>4. Contents(body) = Concat(ContentOf(body))
  <2>1. Contents(body) = FlattenSeq(ContentOf(body))
    BY DEF Contents, ContentOf
  <2> QED BY <1>3, <2>1, FlattenIsConcat
<1>5. ASSUME NEW k \in 1..Len(body), NEW i \in DOMAIN body[k].content
      PROVE  PieceSound(p, body[k].content[i])
  <2>1. body[k].content[i] \in S
    BY <1>3, <1>5, ElementOfSeq, LenProperties
  <2> QED BY <2>1 DEF Sendable
<1> QED BY <1>2, <1>3, <1>4, <1>5 DEF body

\* Every prompt the projection may hand over is sent whole and in order by every
\* profile, in turns that alternate and keep uses next to their results where the
\* API asks for that, with nothing in it the profile cannot take (build_body).
THEOREM EncodingAlways == PromptSpec => []EncodingSound
<1>1. PromptInit => PromptInv
  BY EmptySeq DEF PromptInit, PromptInv
<1> QED BY <1>1, PromptGrows, PromptEncodes, PTL DEF PromptSpec
=============================================================================
