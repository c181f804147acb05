------------------------- MODULE PoolExecutorProofs -------------------------
(***************************************************************************)
(* For every plan and batch size: what execute_pool does to a pool.        *)
(*                                                                         *)
(* First what the operators that turn a plan into work compute: chunks,    *)
(* rounds and filters neither lose nor invent a name, and a command has    *)
(* each dataset once.  Where that is about positions of any number the     *)
(* proof takes the least counterexample.  Then the inductive invariant     *)
(* IInv: what is left to do is part of the plan, and without an error what *)
(* is not left has been done.  Then the properties, and PoolPromise.  Last *)
(* the processes: with every hook a call of run_hook, whatever the         *)
(* timeouts, a pool never has two processes at work, and all of this stays *)
(* true.                                                                   *)
(***************************************************************************)
EXTENDS HookedPool, FiniteSetTheorems, WellFoundedInduction, TLAPS

-----------------------------------------------------------------------------
(* Sequences *)

\* x is one of the members of a sequence.
Among(s, x) == \E k \in 1..Len(s) : s[k] = x

\* No two members are the same.
Distinct(s) == \A j, k \in 1..Len(s) : s[j] = s[k] => j = k

\* Two sequences share no member.
Apart(s, t) == \A j \in 1..Len(s), k \in 1..Len(t) : s[j] # t[k]

\* Of any numbers there is a least one.
LEMMA Least ==
  ASSUME NEW T, T \subseteq Nat, T # {}
  PROVE  \E n \in T : \A m \in T : n <= m
<1>1. PICK n \in T : \A m \in T : <<m, n>> \notin OpToRel(<, Nat)
  BY NatLessThanWellFounded, WFMin
<1>2. ASSUME NEW m \in T PROVE n <= m
  <2>1. ~(m < n)
    BY <1>1 DEF OpToRel
  <2> QED BY <2>1
<1> QED BY <1>2

\* Two sequences put together: what is where.
LEMMA Appended ==
  ASSUME NEW S, NEW s \in Seq(S), NEW t \in Seq(S)
  PROVE  /\ s \o t \in Seq(S)
         /\ \A x : Among(s \o t, x) <=> Among(s, x) \/ Among(t, x)
         /\ Distinct(s) /\ Distinct(t) /\ Apart(s, t) => Distinct(s \o t)
<1>1. /\ Len(s \o t) = Len(s) + Len(t) /\ Len(s) \in Nat /\ Len(t) \in Nat
      /\ \A k \in 1..Len(s) : (s \o t)[k] = s[k]
      /\ \A k \in 1..Len(t) : (s \o t)[Len(s) + k] = t[k]
  OBVIOUS
<1>2. ASSUME NEW k \in 1..Len(s \o t), k \notin 1..Len(s)
      PROVE  k - Len(s) \in 1..Len(t) /\ (s \o t)[k] = t[k - Len(s)]
  BY <1>1, <1>2
<1>3. ASSUME NEW x PROVE Among(s \o t, x) <=> Among(s, x) \/ Among(t, x)
  <2>1. ASSUME NEW k \in 1..Len(t) PROVE Len(s) + k \in 1..Len(s \o t)
    BY <1>1
  <2>2. ASSUME NEW k \in 1..Len(s) PROVE k \in 1..Len(s \o t)
    BY <1>1
  <2> QED BY <1>1, <1>2, <2>1, <2>2 DEF Among
<1>4. ASSUME Distinct(s), Distinct(t), Apart(s, t),
             NEW j \in 1..Len(s \o t), NEW k \in 1..Len(s \o t), (s \o t)[j] = (s \o t)[k]
      PROVE  j = k
  <2>1. CASE j \in 1..Len(s) /\ k \in 1..Len(s)
    BY <1>1, <1>4, <2>1 DEF Distinct
  <2>2. CASE j \notin 1..Len(s) /\ k \notin 1..Len(s)
    <3>1. j - Len(s) = k - Len(s)
      BY <1>2, <1>4, <2>2 DEF Distinct
    <3> QED BY <1>1, <3>1
  <2>3. CASE j \in 1..Len(s) /\ k \notin 1..Len(s)
    BY <1>1, <1>2, <1>4, <2>3 DEF Apart
  <2>4. CASE j \notin 1..Len(s) /\ k \in 1..Len(s)
    BY <1>1, <1>2, <1>4, <2>4 DEF Apart
  <2> QED BY <2>1, <2>2, <2>3, <2>4
<1> QED BY <1>3, <1>4 DEF Distinct

\* f[1], f[2], ... f[n] are the growing concatenations of the sequences ss.
Concatenates(f, ss, n) ==
  f = [i \in 1..n |-> IF i = 1 THEN ss[i] ELSE f[i - 1] \o ss[i]]

\* FlattenSeq is the last of the growing concatenations.
LEMMA Concatenations ==
  ASSUME NEW S, NEW ss \in Seq(Seq(S)), Len(ss) # 0
  PROVE  \E f : /\ FlattenSeq(ss) = f[Len(ss)]
                /\ \A k \in 1..Len(ss) :
                     f[k] = IF k = 1 THEN ss[k] ELSE f[k - 1] \o ss[k]
<1> DEFINE Without == {n \in 1..Len(ss) : ~\E f : Concatenates(f, ss, n)}
<1>1. Without = {}
  <2> SUFFICES ASSUME Without # {} PROVE FALSE
    OBVIOUS
  <2>1. PICK n \in Without : \A m \in Without : n <= m
    <3>1. Without \subseteq Nat
      OBVIOUS
    <3> HIDE DEF Without
    <3> QED BY <3>1, Least
  <2>2. n \in 1..Len(ss) /\ ~\E f : Concatenates(f, ss, n)
    BY <2>1
  <2>3. CASE n = 1
    <3>1. Concatenates([i \in 1..1 |-> ss[i]], ss, 1)
      BY DEF Concatenates
    <3> QED BY <2>2, <2>3, <3>1
  <2>4. CASE n # 1
    <3>1. n - 1 \in 1..Len(ss) /\ n - 1 \notin Without
      <4>1. n - 1 \in 1..Len(ss) /\ ~(n <= n - 1)
        BY <2>2, <2>4
      <4> HIDE DEF Without
      <4> QED BY <2>1, <4>1
    <3>2. PICK f : Concatenates(f, ss, n - 1)
      BY <3>1
    <3> DEFINE g == [i \in 1..n |-> IF i < n THEN f[i] ELSE f[n - 1] \o ss[n]]
    <3>3. ASSUME NEW i \in 1..n PROVE g[i] = IF i = 1 THEN ss[i] ELSE g[i - 1] \o ss[i]
      <4>1. CASE i < n
        <5>1. i \in 1..(n - 1) /\ (i # 1 => i - 1 \in 1..n /\ i - 1 < n)
          BY <2>2, <4>1
        <5>2. f[i] = IF i = 1 THEN ss[i] ELSE f[i - 1] \o ss[i]
          BY <3>2, <5>1 DEF Concatenates
        <5> QED BY <4>1, <5>1, <5>2
      <4>2. CASE i = n
        <5>1. n - 1 \in 1..n /\ n - 1 < n /\ n \in 1..n /\ ~(n < n)
          BY <2>2, <2>4
        <5>2. g[n - 1] = f[n - 1] /\ g[n] = f[n - 1] \o ss[n]
          BY <5>1
        <5> QED BY <2>4, <4>2, <5>2
      <4> QED BY <2>2, <4>1, <4>2
    <3>4. Concatenates(g, ss, n)
      BY <3>3 DEF Concatenates
    <3> QED BY <2>2, <3>4
  <2> QED BY <2>3, <2>4
<1>2. \E f : Concatenates(f, ss, Len(ss))
  <2>1. Len(ss) \in 1..Len(ss)
    OBVIOUS
  <2> QED BY <1>1, <2>1
<1> DEFINE flatten == CHOOSE f : Concatenates(f, ss, Len(ss))
<1>3. FlattenSeq(ss) = flatten[Len(ss)]
  BY DEF FlattenSeq, Concatenates
<1>4. Concatenates(flatten, ss, Len(ss))
  BY <1>2
<1> HIDE DEF flatten
<1>5. \A k \in 1..Len(ss) : flatten[k] = IF k = 1 THEN ss[k] ELSE flatten[k - 1] \o ss[k]
  BY <1>4 DEF Concatenates
<1> QED BY <1>3, <1>5

\* FlattenSeq: what it is a sequence of, and what is in it; nothing is in it
\* twice when nothing is in one of the sequences twice or in two of them.
LEMMA Flattened ==
  ASSUME NEW S, NEW ss \in Seq(Seq(S))
  PROVE  /\ FlattenSeq(ss) \in Seq(S)
         /\ \A x : Among(FlattenSeq(ss), x) <=> \E k \in 1..Len(ss) : Among(ss[k], x)
         /\ (/\ \A k \in 1..Len(ss) : Distinct(ss[k])
             /\ \A j, k \in 1..Len(ss) : j # k => Apart(ss[j], ss[k]))
              => Distinct(FlattenSeq(ss))
<1>1. CASE Len(ss) = 0
  <2>1. ss = <<>> /\ FlattenSeq(ss) = <<>>
    BY <1>1 DEF FlattenSeq
  <2>2. <<>> \in Seq(S) /\ \A k \in 1..Len(<<>>) : FALSE
    OBVIOUS
  <2>3. Distinct(<<>>) /\ \A x : ~Among(<<>>, x)
    BY ONLY <2>2 DEF Among, Distinct
  <2>4. \A k \in 1..Len(ss) : FALSE
    BY <1>1
  <2> QED BY <2>1, <2>2, <2>3, <2>4
<1>2. CASE Len(ss) # 0
  <2>1. PICK f : /\ FlattenSeq(ss) = f[Len(ss)]
                 /\ \A k \in 1..Len(ss) : f[k] = IF k = 1 THEN ss[k] ELSE f[k - 1] \o ss[k]
    BY <1>2, Concatenations
  <2> DEFINE Clear == /\ \A k \in 1..Len(ss) : Distinct(ss[k])
                      /\ \A j, k \in 1..Len(ss) : j # k => Apart(ss[j], ss[k])
             Good(n) == /\ f[n] \in Seq(S)
                        /\ \A x : Among(f[n], x) <=> \E k \in 1..n : Among(ss[k], x)
                        /\ Clear => Distinct(f[n])
             Bad == {n \in 1..Len(ss) : ~Good(n)}
  <2>2. Bad = {}
    <3> SUFFICES ASSUME Bad # {} PROVE FALSE
      OBVIOUS
    <3>1. PICK n \in Bad : \A m \in Bad : n <= m
      <4>1. Bad \subseteq Nat
        OBVIOUS
      <4> HIDE DEF Bad
      <4> QED BY <4>1, Least
    <3>2. n \in 1..Len(ss) /\ ss[n] \in Seq(S)
      BY <3>1
    <3>3. ~Good(n)
      BY <3>1
    <3>4. CASE n = 1
      <4>1. f[n] = ss[n]
        BY <2>1, <3>2, <3>4
      <4>2. \A k \in 1..n : k = n
        BY <3>4
      <4>3. Clear => Distinct(f[n])
        BY <3>2, <4>1
      <4>4. n \in 1..n
        BY <3>4
      <4> QED BY <3>2, <3>3, <4>1, <4>2, <4>3, <4>4
    <3>5. CASE n # 1
      <4>1. n - 1 \in 1..Len(ss) /\ n - 1 \notin Bad
        <5>1. n - 1 \in 1..Len(ss) /\ ~(n <= n - 1)
          BY <3>2, <3>5
        <5> HIDE DEF Bad
        <5> QED BY <3>1, <5>1
      <4>2. Good(n - 1)
        BY <4>1
      <4>3. f[n] = f[n - 1] \o ss[n]
        BY <2>1, <3>2, <3>5
      <4>4. f[n] \in Seq(S)
        BY <3>2, <4>2, <4>3
      <4>5. \A x : Among(f[n], x) <=> Among(f[n - 1], x) \/ Among(ss[n], x)
        <5> DEFINE before == f[n - 1]
        <5>1. before \in Seq(S) /\ f[n] = before \o ss[n]
          BY <4>2, <4>3
        <5> HIDE DEF before, Good, Bad, Clear
        <5>2. \A x : Among(f[n], x) <=> Among(before, x) \/ Among(ss[n], x)
          BY <3>2, <5>1, Appended
        <5> QED BY <5>2 DEF before
      <4>6. \A x : Among(f[n], x) <=> \E k \in 1..n : Among(ss[k], x)
        <5>1. \A k : k \in 1..n <=> k \in 1..(n - 1) \/ k = n
          BY <3>2
        <5> QED BY <4>2, <4>5, <5>1
      <4>7. ASSUME Clear PROVE Distinct(f[n])
        <5>1. Apart(f[n - 1], ss[n])
          <6> SUFFICES ASSUME NEW j \in 1..Len(f[n - 1]), NEW k \in 1..Len(ss[n]),
                              f[n - 1][j] = ss[n][k]
                       PROVE  FALSE
            BY DEF Apart
          <6>1. PICK l \in 1..(n - 1) : Among(ss[l], ss[n][k])
            BY <4>2 DEF Among
          <6>2. l \in 1..Len(ss) /\ l # n
            <7> HIDE DEF Good, Bad, Clear
            <7>1. n \in 1..Len(ss) /\ Len(ss) \in Nat /\ l \in 1..(n - 1)
              BY <3>2
            <7> QED BY ONLY <7>1
          <6> QED BY <3>2, <4>7, <6>1, <6>2 DEF Apart, Among
        <5>2. Distinct(ss[n]) /\ Distinct(f[n - 1])
          BY <3>2, <4>2, <4>7
        <5> QED BY <3>2, <4>2, <4>3, <5>1, <5>2, Appended
      <4> QED BY <3>3, <4>4, <4>6, <4>7
    <3> QED BY <3>4, <3>5
  <2>3. Good(Len(ss))
    <3>1. Len(ss) \in 1..Len(ss)
      BY <1>2
    <3> QED BY <2>2, <3>1
  <2> QED BY <2>1, <2>3
<1> QED BY <1>1, <1>2

\* Division with a remainder.
LEMMA Division ==
  ASSUME NEW a \in Nat, NEW d \in Nat, d > 0
  PROVE  a \div d \in Nat /\ (a \div d) * d <= a /\ a < (a \div d) * d + d
<1>1. a \div d \in Nat
  OBVIOUS
<1>2. (a \div d) * d <= a
  OBVIOUS
<1>3. a < (a \div d) * d + d
  OBVIOUS
<1> QED BY <1>1, <1>2, <1>3

\* The steps of a product.
LEMMA Multiples ==
  ASSUME NEW d \in Nat, d > 0, NEW k \in Nat \ {0}
  PROVE  /\ (k - 1) * d \in Nat /\ k * d = (k - 1) * d + d
         /\ \A m \in Nat : k <= m => k * d <= m * d
<1>1. (k - 1) * d \in Nat
  OBVIOUS
<1>2. k * d = (k - 1) * d + d
  OBVIOUS
<1>3. ASSUME NEW m \in Nat, k <= m PROVE k * d <= m * d
  BY <1>3
<1> QED BY <1>1, <1>2, <1>3

\* Every chunk begins inside the sequence, and every place is in a chunk.
LEMMA ChunkPlaces ==
  ASSUME NEW l \in Nat, NEW d \in Nat, d > 0
  PROVE  /\ (l + d - 1) \div d \in Nat
         /\ \A k \in 1..((l + d - 1) \div d) : (k - 1) * d < l
         /\ \A i \in 1..l : \E k \in 1..((l + d - 1) \div d) : (k - 1) * d < i /\ i <= k * d
<1> DEFINE m == (l + d - 1) \div d
<1>1. m \in Nat /\ m * d <= l + d - 1 /\ l + d - 1 < m * d + d
  <2>1. l + d - 1 \in Nat
    OBVIOUS
  <2> QED BY <2>1, Division
<1> HIDE DEF m
<1>2. m * d \in Nat
  BY <1>1
<1>3. ASSUME NEW k \in 1..m PROVE (k - 1) * d < l
  <2>1. k \in Nat \ {0} /\ k <= m
    BY <1>1
  <2>2. (k - 1) * d \in Nat /\ k * d = (k - 1) * d + d /\ k * d <= m * d
    BY <1>1, <2>1, Multiples
  <2> QED BY <1>1, <1>2, <2>2
<1>4. ASSUME NEW i \in 1..l PROVE \E k \in 1..m : (k - 1) * d < i /\ i <= k * d
  <2> DEFINE q == (i - 1) \div d
  <2>1. q \in Nat /\ q * d <= i - 1 /\ i - 1 < q * d + d
    <3>1. i - 1 \in Nat
      OBVIOUS
    <3> QED BY <3>1, Division
  <2> HIDE DEF q
  <2> DEFINE k == q + 1
  <2>2. k \in Nat \ {0} /\ k - 1 = q
    BY <2>1
  <2> HIDE DEF k
  <2>3. (k - 1) * d = q * d /\ q * d \in Nat /\ k * d = (k - 1) * d + d
    BY <2>2, Multiples
  <2>4. k <= m
    <3> SUFFICES ASSUME ~(k <= m) PROVE FALSE
      OBVIOUS
    <3>1. m <= q
      BY <1>1, <2>1, <2>2
    <3>2. m * d <= q * d
      BY <1>1, <2>1, <3>1
    <3> QED BY <1>1, <1>2, <2>1, <2>3, <3>2
  <2>5. k \in 1..m
    BY <1>1, <2>2, <2>4
  <2>6. (k - 1) * d < i /\ i <= k * d
    BY <2>1, <2>3
  <2> QED BY <2>5, <2>6
<1> QED BY <1>1, <1>3, <1>4 DEF m

\* What is in a piece of a sequence.
LEMMA Subsequence ==
  ASSUME NEW S, NEW s \in Seq(S), NEW m \in 1..Len(s), NEW n \in 1..Len(s), m <= n
  PROVE  /\ SubSeq(s, m, n) \in Seq(S) /\ Len(SubSeq(s, m, n)) = n - m + 1
         /\ \A j \in 1..Len(SubSeq(s, m, n)) : /\ m + j - 1 \in m..n
                                              /\ SubSeq(s, m, n)[j] = s[m + j - 1]
<1>1. SubSeq(s, m, n) \in Seq(S) /\ Len(SubSeq(s, m, n)) = n - m + 1
  OBVIOUS
<1>2. \A j \in 1..(n - m + 1) : m + j - 1 \in m..n /\ SubSeq(s, m, n)[j] = s[m + j - 1]
  OBVIOUS
<1> QED BY <1>1, <1>2

\* slice::chunks cuts a sequence into pieces of at most the given size, and
\* loses nothing.
LEMMA Chunked ==
  ASSUME NEW S, NEW s \in Seq(S), NEW size \in Nat, size > 0
  PROVE  /\ Chunks(s, size) \in Seq(Seq(S))
         /\ \A k \in 1..Len(Chunks(s, size)) :
              /\ Len(Chunks(s, size)[k]) \in 1..size
              /\ \A x : Among(Chunks(s, size)[k], x) => Among(s, x)
              /\ Distinct(s) => Distinct(Chunks(s, size)[k])
         /\ \A x : Among(s, x) => \E k \in 1..Len(Chunks(s, size)) : Among(Chunks(s, size)[k], x)
<1> DEFINE m == (Len(s) + size - 1) \div size
           first(k) == (k - 1) * size + 1
           last(k) == IF k * size < Len(s) THEN k * size ELSE Len(s)
           chunk(k) == SubSeq(s, first(k), last(k))
<1>1. m \in Nat /\ Len(s) \in Nat
  BY ChunkPlaces
<1>2. Chunks(s, size) = [k \in 1..m |-> chunk(k)]
  BY DEF Chunks
<1>3. ASSUME NEW k \in 1..m
      PROVE  /\ first(k) \in 1..Len(s) /\ last(k) \in 1..Len(s)
             /\ first(k) <= last(k) /\ last(k) < first(k) + size
  <2>1. k \in Nat \ {0}
    BY <1>1
  <2>2. (k - 1) * size \in Nat /\ k * size = (k - 1) * size + size
    BY <2>1, Multiples
  <2>3. (k - 1) * size < Len(s)
    BY <1>1, ChunkPlaces
  <2> QED BY <1>1, <2>2, <2>3
<1> HIDE DEF m, first, last
<1>4. ASSUME NEW k \in 1..m
      PROVE  /\ chunk(k) \in Seq(S) /\ Len(chunk(k)) = last(k) - first(k) + 1
             /\ \A j \in 1..Len(chunk(k)) : /\ first(k) + j - 1 \in first(k)..last(k)
                                           /\ chunk(k)[j] = s[first(k) + j - 1]
  BY <1>1, <1>3, Subsequence
<1> HIDE DEF chunk
<1>5. Chunks(s, size) \in Seq(Seq(S)) /\ Len(Chunks(s, size)) = m
  BY <1>1, <1>2, <1>4
<1>6. \A k \in 1..m : Chunks(s, size)[k] = chunk(k)
  BY <1>2
<1>7. ASSUME NEW k \in 1..m
      PROVE  /\ Len(chunk(k)) \in 1..size
             /\ \A x : Among(chunk(k), x) => Among(s, x)
             /\ Distinct(s) => Distinct(chunk(k))
  <2>1. Len(chunk(k)) \in 1..size
    BY <1>1, <1>3, <1>4
  <2>2. \A j \in 1..Len(chunk(k)) : first(k) + j - 1 \in 1..Len(s)
    BY <1>1, <1>3, <1>4
  <2>3. \A x : Among(chunk(k), x) => Among(s, x)
    BY <1>4, <2>2 DEF Among
  <2>4. ASSUME Distinct(s), NEW i \in 1..Len(chunk(k)), NEW j \in 1..Len(chunk(k)),
               chunk(k)[i] = chunk(k)[j]
        PROVE  i = j
    <3>1. s[first(k) + i - 1] = s[first(k) + j - 1]
      BY <1>4, <2>4
    <3>2. first(k) + i - 1 = first(k) + j - 1
      BY ONLY <2>2, <2>4, <3>1 DEF Distinct
    <3> QED BY <1>1, <1>3, <2>1, <3>2
  <2> QED BY <2>1, <2>3, <2>4 DEF Distinct
<1>8. ASSUME NEW x, Among(s, x) PROVE \E k \in 1..m : Among(chunk(k), x)
  <2>1. PICK i \in 1..Len(s) : s[i] = x
    BY <1>8 DEF Among
  <2>2. PICK k \in 1..m : (k - 1) * size < i /\ i <= k * size
    BY <1>1, ChunkPlaces DEF m
  <2>3. i \in first(k)..last(k)
    <3>1. k \in Nat \ {0}
      BY <1>1
    <3>2. (k - 1) * size \in Nat /\ k * size = (k - 1) * size + size
      BY <3>1, Multiples
    <3> QED BY <1>1, <2>2, <3>2 DEF first, last
  <2>4. i - first(k) + 1 \in 1..Len(chunk(k)) /\ first(k) + (i - first(k) + 1) - 1 = i
    BY <1>1, <1>3, <1>4, <2>3
  <2>5. chunk(k)[i - first(k) + 1] = x
    BY <1>4, <2>1, <2>4
  <2> QED BY <2>4, <2>5 DEF Among
<1> QED BY <1>5, <1>6, <1>7, <1>8

-----------------------------------------------------------------------------
(* From a plan to its commands *)

\* No dataset has two actions.
OneEach(actions) == \A j, k \in 1..Len(actions) : actions[j].ds = actions[k].ds => j = k

\* All targets there are.
Pairs == Datasets \X (Nat \ {0})

\* An action gives one target, or none.
LEMMA Single ==
  ASSUME NEW S, NEW x \in S
  PROVE  /\ <<x>> \in Seq(S) /\ <<>> \in Seq(S)
         /\ Distinct(<<x>>) /\ Distinct(<<>>)
         /\ \A y : (Among(<<x>>, y) <=> y = x) /\ ~Among(<<>>, y)
<1>1. <<x>> \in Seq(S) /\ <<>> \in Seq(S) /\ Len(<<x>>) = 1 /\ Len(<<>>) = 0 /\ <<x>>[1] = x
  OBVIOUS
<1>2. \A k : (k \in 1..1 <=> k = 1) /\ k \notin 1..0
  OBVIOUS
<1> QED BY <1>1, <1>2 DEF Distinct, Among

\* Choosing actions keeps what is chosen, and keeps one of each dataset.
LEMMA ChosenActions ==
  ASSUME NEW actions \in Seq(SnapshotActions), NEW set
  PROVE  /\ Chosen(actions, set) \in Seq(SnapshotActions)
         /\ \A a : Among(Chosen(actions, set), a) <=> Among(actions, a) /\ a \in set
         /\ OneEach(actions) => OneEach(Chosen(actions, set))
<1> DEFINE piece(k) == IF actions[k] \in set THEN <<actions[k]>> ELSE <<>>
           ss == [k \in 1..Len(actions) |-> piece(k)]
<1>1. ASSUME NEW k \in 1..Len(actions)
      PROVE  /\ actions[k] \in SnapshotActions /\ piece(k) \in Seq(SnapshotActions)
             /\ Distinct(piece(k))
             /\ \A x : Among(piece(k), x) <=> actions[k] \in set /\ x = actions[k]
  <2>1. actions[k] \in SnapshotActions
    OBVIOUS
  <2>2. CASE actions[k] \in set
    <3>1. piece(k) = <<actions[k]>>
      BY <2>2
    <3> HIDE DEF piece
    <3> QED BY <2>1, <2>2, <3>1, Single
  <2>3. CASE actions[k] \notin set
    <3>1. piece(k) = <<>>
      BY <2>3
    <3> HIDE DEF piece
    <3> QED BY <2>1, <2>3, <3>1, Single
  <2> QED BY <2>2, <2>3, <2>1
<1> HIDE DEF piece
<1>2. ss \in Seq(Seq(SnapshotActions)) /\ Len(ss) = Len(actions)
  BY <1>1
<1>3. \A k \in 1..Len(ss) : ss[k] = piece(k)
  BY <1>2
<1>4. Chosen(actions, set) = FlattenSeq(ss)
  BY DEF Chosen, piece
<1> HIDE DEF ss
<1>5. Chosen(actions, set) \in Seq(SnapshotActions)
  BY <1>2, <1>4, Flattened
<1>6. ASSUME NEW a PROVE Among(Chosen(actions, set), a) <=> Among(actions, a) /\ a \in set
  <2>1. Among(Chosen(actions, set), a) <=> \E k \in 1..Len(ss) : Among(ss[k], a)
    BY <1>2, <1>4, Flattened
  <2>2. (\E k \in 1..Len(ss) : Among(ss[k], a))
          <=> \E k \in 1..Len(actions) : actions[k] \in set /\ a = actions[k]
    BY <1>1, <1>2, <1>3
  <2>3. Among(actions, a) /\ a \in set
          <=> \E k \in 1..Len(actions) : actions[k] \in set /\ a = actions[k]
    BY DEF Among
  <2> QED BY <2>1, <2>2, <2>3
<1>7. ASSUME OneEach(actions) PROVE OneEach(Chosen(actions, set))
  <2>1. \A k \in 1..Len(ss) : Distinct(ss[k])
    BY <1>1, <1>2, <1>3
  <2>2. \A j, k \in 1..Len(ss) : j # k => Apart(ss[j], ss[k])
    <3> SUFFICES ASSUME NEW j \in 1..Len(ss), NEW k \in 1..Len(ss), j # k,
                        NEW x, Among(ss[j], x), Among(ss[k], x)
                 PROVE  FALSE
      BY DEF Apart, Among
    <3>1. actions[j] = x /\ actions[k] = x
      BY <1>1, <1>2, <1>3
    <3> QED BY <1>2, <1>7, <3>1 DEF OneEach
  <2>3. Distinct(Chosen(actions, set))
    BY <1>2, <1>4, <2>1, <2>2, Flattened
  <2> DEFINE c == Chosen(actions, set)
  <2> SUFFICES ASSUME NEW j \in 1..Len(c), NEW k \in 1..Len(c), c[j].ds = c[k].ds PROVE j = k
    BY DEF OneEach
  <2>4. Among(c, c[j]) /\ Among(c, c[k])
    BY DEF Among
  <2>5. Among(actions, c[j]) /\ Among(actions, c[k])
    BY <1>6, <2>4
  <2>6. c[j] = c[k]
    BY <1>7, <2>5 DEF OneEach, Among
  <2> QED BY <2>3, <2>6 DEF Distinct
<1> QED BY <1>5, <1>6, <1>7

\* A round has the names with its index, each dataset at most once.
LEMMA RoundTargets ==
  ASSUME NEW actions \in Seq(SnapshotActions), NEW i \in Nat \ {0}
  PROVE  /\ Round(actions, i) \in Seq(Pairs)
         /\ \A t : Among(Round(actions, i), t)
                     <=> \E k \in 1..Len(actions) : i <= actions[k].n /\ t = <<actions[k].ds, i>>
         /\ OneEach(actions) => Distinct(Round(actions, i))
<1> DEFINE piece(k) == IF actions[k].n >= i THEN << <<actions[k].ds, i>> >> ELSE <<>>
           ss == [k \in 1..Len(actions) |-> piece(k)]
<1>1. ASSUME NEW k \in 1..Len(actions)
      PROVE  /\ piece(k) \in Seq(Pairs) /\ Distinct(piece(k))
             /\ \A x : Among(piece(k), x) <=> i <= actions[k].n /\ x = <<actions[k].ds, i>>
  <2>1. actions[k] \in SnapshotActions
    OBVIOUS
  <2> DEFINE pair == <<actions[k].ds, i>>
  <2>2. pair \in Pairs /\ actions[k].n \in Nat
    BY <2>1 DEF SnapshotActions, Pairs
  <2>3. piece(k) = IF i <= actions[k].n THEN <<pair>> ELSE <<>>
    BY <2>2
  <2> HIDE DEF piece, pair
  <2>4. /\ piece(k) \in Seq(Pairs) /\ Distinct(piece(k))
        /\ \A x : Among(piece(k), x) <=> i <= actions[k].n /\ x = pair
    BY <2>2, <2>3, Single
  <2> QED BY <2>4 DEF pair
<1>2. Round(actions, i) = FlattenSeq(ss)
  BY DEF Round
<1> HIDE DEF piece
<1>3. /\ ss \in Seq(Seq(Pairs)) /\ Len(ss) = Len(actions)
      /\ \A k \in 1..Len(ss) : ss[k] = piece(k)
  BY <1>1
<1> HIDE DEF ss
<1>4. Round(actions, i) \in Seq(Pairs)
  BY <1>2, <1>3, Flattened
<1>5. ASSUME NEW t
      PROVE  Among(Round(actions, i), t)
               <=> \E k \in 1..Len(actions) : i <= actions[k].n /\ t = <<actions[k].ds, i>>
  <2>1. Among(Round(actions, i), t) <=> \E k \in 1..Len(ss) : Among(ss[k], t)
    BY <1>2, <1>3, Flattened
  <2> QED BY <2>1, <1>1, <1>3
<1>6. ASSUME OneEach(actions) PROVE Distinct(Round(actions, i))
  <2>1. \A k \in 1..Len(ss) : Distinct(ss[k])
    BY <1>1, <1>3
  <2>2. \A j, k \in 1..Len(ss) : j # k => Apart(ss[j], ss[k])
    <3> SUFFICES ASSUME NEW j \in 1..Len(ss), NEW k \in 1..Len(ss), j # k,
                        NEW x, Among(ss[j], x), Among(ss[k], x)
                 PROVE  FALSE
      BY DEF Apart, Among
    <3>1. x = <<actions[j].ds, i>> /\ x = <<actions[k].ds, i>>
      BY <1>1, <1>3
    <3>2. actions[j].ds = actions[k].ds
      BY <3>1
    <3> QED BY <1>3, <1>6, <3>2 DEF OneEach
  <2> QED BY <1>2, <1>3, <2>1, <2>2, Flattened
<1> QED BY <1>4, <1>5, <1>6

\* Of some numbers that none exceeds a bound there is a largest.
LEMMA Largest ==
  ASSUME NEW T, T \subseteq Nat, T # {}, NEW b \in Nat, \A x \in T : x <= b
  PROVE  Max(T) \in T /\ \A x \in T : x <= Max(T)
<1> DEFINE bounds == {c \in Nat : \A x \in T : x <= c}
<1>1. PICK c \in bounds : \A d \in bounds : c <= d
  <2>1. b \in bounds /\ bounds \subseteq Nat
    OBVIOUS
  <2> HIDE DEF bounds
  <2> QED BY <2>1, Least
<1>2. c \in T
  <2> SUFFICES ASSUME c \notin T PROVE FALSE
    OBVIOUS
  <2>1. \A x \in T : x < c
    BY <1>1
  <2>2. c > 0 /\ c - 1 \in Nat
    <3>1. PICK x \in T : TRUE
      OBVIOUS
    <3>2. x \in Nat /\ x < c /\ c \in Nat
      BY <1>1, <2>1
    <3> QED BY <3>2
  <2>3. c - 1 \in bounds
    BY <2>1, <2>2
  <2>4. ~(c <= c - 1)
    BY <1>1
  <2> HIDE DEF bounds
  <2> QED BY <1>1, <2>3, <2>4
<1>3. \E x \in T : \A y \in T : x >= y
  BY <1>1, <1>2
<1> QED BY <1>3 DEF Max

\* None of the first n actions has more than b names.
Bounds(actions, n, b) == \A k \in 1..n : actions[k].n <= b

\* Every index of a name is the index of a round.
LEMMA RoundsSuffice ==
  ASSUME NEW actions \in Seq(SnapshotActions)
  PROVE  MaxNames(actions) \in Nat /\ \A k \in 1..Len(actions) : actions[k].n <= MaxNames(actions)
<1>1. \A k \in 1..Len(actions) : actions[k].n \in Nat
  <2>1. \A k \in 1..Len(actions) : actions[k] \in SnapshotActions
    OBVIOUS
  <2> QED BY <2>1 DEF SnapshotActions
<1> DEFINE Bad == {n \in 0..Len(actions) : ~\E b \in Nat : Bounds(actions, n, b)}
<1>2. Bad = {}
  <2> SUFFICES ASSUME Bad # {} PROVE FALSE
    OBVIOUS
  <2>1. PICK n \in Bad : \A m \in Bad : n <= m
    <3>1. Bad \subseteq Nat
      OBVIOUS
    <3> HIDE DEF Bad
    <3> QED BY <3>1, Least
  <2>2. n \in 0..Len(actions) /\ ~\E b \in Nat : Bounds(actions, n, b)
    BY <2>1
  <2>3. CASE n = 0
    <3>1. Bounds(actions, 0, 0)
      BY DEF Bounds
    <3> QED BY <2>2, <2>3, <3>1
  <2>4. CASE n # 0
    <3>1. n - 1 \in 0..Len(actions) /\ n - 1 \notin Bad
      <4>1. n - 1 \in 0..Len(actions) /\ ~(n <= n - 1)
        BY <2>2, <2>4
      <4> HIDE DEF Bad
      <4> QED BY <2>1, <4>1
    <3>2. PICK b \in Nat : Bounds(actions, n - 1, b)
      BY <3>1
    <3> DEFINE l == actions[n].n
    <3>3. n \in 1..Len(actions) /\ l \in Nat
      BY <1>1, <2>2, <2>4
    <3> HIDE DEF l
    <3>4. PICK c \in Nat : b <= c /\ l <= c
      <4>1. l <= b \/ b <= l
        BY <3>3
      <4> QED BY <3>3, <4>1
    <3>5. ASSUME NEW k \in 1..n PROVE actions[k].n <= c
      <4>1. k \in 1..(n - 1) \/ k = n
        BY <2>2, <2>4
      <4>2. CASE k \in 1..(n - 1)
        <5>1. k \in 1..Len(actions)
          BY <3>3, <4>2
        <5>2. actions[k].n \in Nat /\ actions[k].n <= b
          BY <1>1, <3>2, <4>2, <5>1 DEF Bounds
        <5> QED BY <3>4, <5>2
      <4>3. CASE k = n
        BY <3>4, <4>3 DEF l
      <4> QED BY <4>1, <4>2, <4>3
    <3>6. Bounds(actions, n, c)
      BY <3>5 DEF Bounds
    <3> QED BY <2>2, <3>6
  <2> QED BY <2>3, <2>4
<1>3. PICK b \in Nat : \A k \in 1..Len(actions) : actions[k].n <= b
  <2>1. Len(actions) \in 0..Len(actions)
    OBVIOUS
  <2> QED BY <1>2, <2>1 DEF Bounds
<1> DEFINE T == {0} \cup {actions[k].n : k \in 1..Len(actions)}
<1>4. T \subseteq Nat /\ T # {} /\ \A x \in T : x <= b
  BY <1>1, <1>3
<1>5. \A k \in 1..Len(actions) : actions[k].n \in T
  OBVIOUS
<1>6. MaxNames(actions) = Max(T)
  BY DEF MaxNames
<1> HIDE DEF T
<1> QED BY <1>4, <1>5, <1>6, Largest

\* What the targets of one command have in common: they are names of one index
\* of these actions, as many as a command may have, each dataset once.
OfOneRound(actions, c) ==
  /\ Len(c) \in 1..SnapshotBatchSize
  /\ Distinct(c)
  /\ \E i \in Nat \ {0} : \A t : Among(c, t) =>
       \E k \in 1..Len(actions) : i <= actions[k].n /\ t = <<actions[k].ds, i>>

\* execute_snapshot_batches issues such commands, and every name is in one.
LEMMA BatchTargets ==
  ASSUME NEW actions \in Seq(SnapshotActions), OneEach(actions)
  PROVE  /\ Batches(actions) \in Seq(Seq(Pairs))
         /\ \A c : Among(Batches(actions), c) => OfOneRound(actions, c)
         /\ \A k \in 1..Len(actions) : \A i \in 1..actions[k].n :
              \E c : Among(Batches(actions), c) /\ Among(c, <<actions[k].ds, i>>)
<1> DEFINE chunks(i) == Chunks(Round(actions, i), SnapshotBatchSize)
           ss == [i \in 1..MaxNames(actions) |-> chunks(i)]
<1>1. SnapshotBatchSize \in Nat /\ SnapshotBatchSize > 0
  BY PoolExecutorAssumption
<1>2. MaxNames(actions) \in Nat
  BY RoundsSuffice
<1>3. ASSUME NEW i \in Nat \ {0}
      PROVE  /\ chunks(i) \in Seq(Seq(Pairs))
             /\ \A c : Among(chunks(i), c) => OfOneRound(actions, c)
             /\ \A t : Among(Round(actions, i), t) => \E c : Among(chunks(i), c) /\ Among(c, t)
  <2>1. Round(actions, i) \in Seq(Pairs) /\ Distinct(Round(actions, i))
    BY RoundTargets
  <2>2. /\ chunks(i) \in Seq(Seq(Pairs))
        /\ \A k \in 1..Len(chunks(i)) :
             /\ Len(chunks(i)[k]) \in 1..SnapshotBatchSize
             /\ \A t : Among(chunks(i)[k], t) => Among(Round(actions, i), t)
             /\ Distinct(chunks(i)[k])
        /\ \A t : Among(Round(actions, i), t)
             => \E k \in 1..Len(chunks(i)) : Among(chunks(i)[k], t)
    BY <1>1, <2>1, Chunked
  <2> HIDE DEF chunks
  <2>3. ASSUME NEW c, Among(chunks(i), c) PROVE OfOneRound(actions, c)
    <3>1. PICK k \in 1..Len(chunks(i)) : chunks(i)[k] = c
      BY <2>3 DEF Among
    <3>2. \A t : Among(c, t) =>
            \E j \in 1..Len(actions) : i <= actions[j].n /\ t = <<actions[j].ds, i>>
      BY <2>2, <3>1, RoundTargets
    <3> QED BY <2>2, <3>1, <3>2 DEF OfOneRound
  <2>4. \A k \in 1..Len(chunks(i)) : Among(chunks(i), chunks(i)[k])
    BY DEF Among
  <2> QED BY <2>2, <2>3, <2>4
<1> HIDE DEF chunks
<1>4. /\ ss \in Seq(Seq(Seq(Pairs))) /\ Len(ss) = MaxNames(actions)
      /\ \A i \in 1..Len(ss) : ss[i] = chunks(i)
  <2> DEFINE Q == Seq(Seq(Pairs))
  <2>1. \A i \in 1..MaxNames(actions) : chunks(i) \in Q
    BY <1>2, <1>3
  <2> HIDE DEF Q
  <2>2. ss \in Seq(Q) /\ Len(ss) = MaxNames(actions)
    BY <1>2, <2>1
  <2> QED BY <2>2 DEF Q
<1>5. Batches(actions) = FlattenSeq(ss)
  BY DEF Batches, chunks
<1> HIDE DEF ss
<1>6. /\ Batches(actions) \in Seq(Seq(Pairs))
      /\ \A c : Among(Batches(actions), c) <=> \E i \in 1..Len(ss) : Among(ss[i], c)
  BY <1>4, <1>5, Flattened
<1>7. ASSUME NEW c, Among(Batches(actions), c) PROVE OfOneRound(actions, c)
  BY <1>2, <1>3, <1>4, <1>6, <1>7
<1>8. ASSUME NEW k \in 1..Len(actions), NEW i \in 1..actions[k].n
      PROVE  \E c : Among(Batches(actions), c) /\ Among(c, <<actions[k].ds, i>>)
  <2>1. actions[k] \in SnapshotActions
    OBVIOUS
  <2>2. actions[k].n \in Nat
    BY <2>1 DEF SnapshotActions
  <2>3. i \in Nat \ {0} /\ i <= actions[k].n /\ i \in 1..MaxNames(actions)
    BY <1>2, <2>2, RoundsSuffice
  <2>4. Among(Round(actions, i), <<actions[k].ds, i>>)
    BY <2>3, RoundTargets
  <2> QED BY <1>3, <1>4, <1>6, <2>3, <2>4
<1> QED BY <1>6, <1>7, <1>8

\* A target is one of a sequence of work.
Covers(x, t) ==
  IF x.kind = "batch" THEN Among(x.targets, t) ELSE Among(Names(x.action), t)

\* What snapshot work consists of: batches and hooked snapshots.
SnapshotItems == {Batch(c) : c \in Seq(Pairs)} \cup {Hooked(a) : a \in SnapshotActions}

\* The two kinds of work.
LEMMA Kinds ==
  /\ \A c : /\ Batch(c).kind = "batch" /\ Batch(c).targets = c
            /\ \A t : Covers(Batch(c), t) <=> Among(c, t)
  /\ \A a : /\ Hooked(a).kind = "hooked" /\ Hooked(a).action = a
            /\ \A t : Covers(Hooked(a), t) <=> Among(Names(a), t)
BY DEF Batch, Hooked, Covers

\* A target is one of those of an action, or of some actions.
IsName(a, t) == \E i \in 1..a.n : t = <<a.ds, i>>
IsTarget(actions, t) == \E k \in 1..Len(actions) : IsName(actions[k], t)

\* The targets of an action are those of its names.
LEMMA NamesOf ==
  ASSUME NEW a, a.n \in Nat
  PROVE  \A t : Among(Names(a), t) <=> IsName(a, t)
<1>1. Len(Names(a)) = a.n /\ \A i \in 1..a.n : Names(a)[i] = <<a.ds, i>>
  BY DEF Names
<1> QED BY <1>1 DEF Among, IsName

\* Batches as work.
LEMMA BatchesAsWork ==
  ASSUME NEW chunks \in Seq(Seq(Pairs))
  PROVE  /\ AsBatches(chunks) \in Seq(SnapshotItems)
         /\ \A x : Among(AsBatches(chunks), x) <=> \E c : Among(chunks, c) /\ x = Batch(c)
<1>1. \A k \in 1..Len(chunks) : Batch(chunks[k]) \in SnapshotItems
  <2>1. \A k \in 1..Len(chunks) : chunks[k] \in Seq(Pairs)
    OBVIOUS
  <2> QED BY <2>1 DEF SnapshotItems
<1>2. /\ AsBatches(chunks) \in Seq(SnapshotItems) /\ Len(AsBatches(chunks)) = Len(chunks)
      /\ \A k \in 1..Len(chunks) : AsBatches(chunks)[k] = Batch(chunks[k])
  BY <1>1 DEF AsBatches
<1> QED BY <1>2 DEF Among

\* A hooked snapshot after batches: two are of two datasets.
HookedOnce(work) ==
  \A j, k \in 1..Len(work) :
    work[j].kind = "hooked" /\ work[k].kind = "hooked" /\ work[j].action.ds = work[k].action.ds
      => j = k

\* The snapshot work of a plan consists of commands for unhooked actions of one
\* kind and of the hooked actions, and covers every name of the plan.
LEMMA WorkOfPlan ==
  ASSUME NEW actions \in Seq(SnapshotActions), OneEach(actions)
  PROVE  /\ SnapshotWork(actions) \in Seq(SnapshotItems)
         /\ \A x : Among(SnapshotWork(actions), x) =>
              \/ \E c, r : /\ x = Batch(c) /\ r \in BOOLEAN
                           /\ OfOneRound(Chosen(actions, Batchable(r)), c)
              \/ \E a : x = Hooked(a) /\ Among(actions, a) /\ HasSnapshotHooks(a)
         /\ HookedOnce(SnapshotWork(actions))
         /\ \A a : Among(actions, a) /\ HasSnapshotHooks(a)
              => Among(SnapshotWork(actions), Hooked(a))
         /\ \A k \in 1..Len(actions) : \A i \in 1..actions[k].n :
              \E x : Among(SnapshotWork(actions), x) /\ Covers(x, <<actions[k].ds, i>>)
<1> DEFINE chosen(r) == Chosen(actions, Batchable(r))
           batches(r) == Batches(chosen(r))
           part(r) == AsBatches(batches(r))
           hs == Chosen(actions, WithHooks)
           hooks1 == [k \in 1..Len(hs) |-> Hooked(hs[k])]
           work == SnapshotWork(actions)
<1>1. ASSUME NEW r \in BOOLEAN
      PROVE  /\ chosen(r) \in Seq(SnapshotActions) /\ OneEach(chosen(r))
             /\ batches(r) \in Seq(Seq(Pairs))
             /\ part(r) \in Seq(SnapshotItems)
             /\ \A x : Among(part(r), x) <=> \E c : Among(batches(r), c) /\ x = Batch(c)
             /\ \A c : Among(batches(r), c) => OfOneRound(chosen(r), c)
             /\ \A k \in 1..Len(chosen(r)) : \A i \in 1..chosen(r)[k].n :
                  \E c : Among(batches(r), c) /\ Among(c, <<chosen(r)[k].ds, i>>)
  <2>1. chosen(r) \in Seq(SnapshotActions) /\ OneEach(chosen(r))
    BY ChosenActions
  <2> HIDE DEF chosen
  <2>2. /\ batches(r) \in Seq(Seq(Pairs))
        /\ \A c : Among(batches(r), c) => OfOneRound(chosen(r), c)
        /\ \A k \in 1..Len(chosen(r)) : \A i \in 1..chosen(r)[k].n :
             \E c : Among(batches(r), c) /\ Among(c, <<chosen(r)[k].ds, i>>)
    BY <2>1, BatchTargets
  <2> HIDE DEF batches
  <2>3. /\ part(r) \in Seq(SnapshotItems)
        /\ \A x : Among(part(r), x) <=> \E c : Among(batches(r), c) /\ x = Batch(c)
    BY <2>2, BatchesAsWork
  <2> QED BY <2>1, <2>2, <2>3
<1>2. hs \in Seq(SnapshotActions) /\ OneEach(hs)
  BY ChosenActions
<1>3. \A a : Among(hs, a) <=> Among(actions, a) /\ HasSnapshotHooks(a)
  <2>1. \A a : Among(actions, a) => a \in SnapshotActions
    BY DEF Among
  <2>2. \A a : Among(hs, a) <=> Among(actions, a) /\ a \in WithHooks
    BY ChosenActions
  <2> QED BY <2>1, <2>2 DEF WithHooks
<1> HIDE DEF hs
<1>4. /\ hooks1 \in Seq(SnapshotItems) /\ Len(hooks1) = Len(hs)
      /\ \A k \in 1..Len(hs) : hooks1[k] = Hooked(hs[k])
  <2>1. \A k \in 1..Len(hs) : hs[k] \in SnapshotActions
    BY <1>2
  <2>2. \A k \in 1..Len(hs) : Hooked(hs[k]) \in SnapshotItems
    BY <2>1 DEF SnapshotItems
  <2> QED BY <1>2, <2>2
<1>5. \A x : Among(hooks1, x) <=> \E a : Among(hs, a) /\ x = Hooked(a)
  BY <1>4 DEF Among
<1>6. work = part(FALSE) \o part(TRUE) \o hooks1
  BY DEF SnapshotWork, hs
<1> HIDE DEF hooks1, work, chosen, batches, part
<1> DEFINE front == part(FALSE) \o part(TRUE)
<1>7. /\ front \in Seq(SnapshotItems)
      /\ \A x : Among(front, x) <=> Among(part(FALSE), x) \/ Among(part(TRUE), x)
  BY <1>1, Appended
<1> HIDE DEF front
<1>8. /\ work \in Seq(SnapshotItems)
      /\ \A x : Among(work, x) <=> Among(front, x) \/ Among(hooks1, x)
  <2>1. work = front \o hooks1
    BY <1>6 DEF front
  <2> QED BY <1>4, <1>7, <2>1, Appended
<1>9. ASSUME NEW x, Among(front, x)
      PROVE  \E c, r : /\ x = Batch(c) /\ r \in BOOLEAN
                       /\ OfOneRound(Chosen(actions, Batchable(r)), c)
  <2>1. PICK r \in BOOLEAN : Among(part(r), x)
    BY <1>7, <1>9
  <2>2. PICK c : Among(batches(r), c) /\ x = Batch(c)
    BY <1>1, <2>1
  <2>3. OfOneRound(chosen(r), c)
    BY <1>1, <2>2
  <2> QED BY <2>2, <2>3 DEF chosen
<1>10. \A x : Among(work, x) =>
         \/ \E c, r : /\ x = Batch(c) /\ r \in BOOLEAN
                      /\ OfOneRound(Chosen(actions, Batchable(r)), c)
         \/ \E a : x = Hooked(a) /\ Among(actions, a) /\ HasSnapshotHooks(a)
  BY <1>3, <1>5, <1>8, <1>9
<1>11. HookedOnce(work)
  <2>1. ASSUME NEW k \in 1..Len(work), work[k].kind = "hooked"
        PROVE  k - Len(front) \in 1..Len(hs) /\ work[k] = Hooked(hs[k - Len(front)])
    <3>1. work = front \o hooks1
      BY <1>6 DEF front
    <3>2. k \notin 1..Len(front)
      <4> SUFFICES ASSUME k \in 1..Len(front) PROVE FALSE
        OBVIOUS
      <4>1. Among(front, work[k])
        BY <1>4, <1>7, <3>1 DEF Among
      <4> QED BY <1>9, <2>1, <4>1, Kinds
    <3>3. k - Len(front) \in 1..Len(hooks1) /\ work[k] = hooks1[k - Len(front)]
      BY <1>4, <1>7, <3>1, <3>2
    <3> QED BY <1>4, <3>3
  <2> SUFFICES ASSUME NEW j \in 1..Len(work), NEW k \in 1..Len(work),
                      work[j].kind = "hooked", work[k].kind = "hooked",
                      work[j].action.ds = work[k].action.ds
               PROVE  j = k
    BY DEF HookedOnce
  <2> DEFINE f == Len(front)
  <2>2. /\ j - f \in 1..Len(hs) /\ work[j].action = hs[j - f]
        /\ k - f \in 1..Len(hs) /\ work[k].action = hs[k - f]
    BY <2>1, Kinds
  <2>3. f \in Nat /\ j \in Int /\ k \in Int
    BY <1>7, <1>8
  <2> HIDE DEF f
  <2>4. j - f = k - f
    BY <1>2, <2>2 DEF OneEach
  <2> QED BY <2>3, <2>4
<1>12. \A a : Among(actions, a) /\ HasSnapshotHooks(a) => Among(work, Hooked(a))
  BY <1>3, <1>5, <1>8
<1>13. ASSUME NEW k \in 1..Len(actions), NEW i \in 1..actions[k].n
       PROVE  \E x : Among(work, x) /\ Covers(x, <<actions[k].ds, i>>)
  <2> DEFINE a == actions[k]
  <2>1. a \in SnapshotActions /\ Among(actions, a)
    BY DEF Among
  <2>2. a.n \in Nat /\ a.recursive \in BOOLEAN /\ i \in 1..a.n
    BY <2>1 DEF SnapshotActions
  <2> HIDE DEF a
  <2>3. CASE HasSnapshotHooks(a)
    <3>1. Among(Names(a), <<a.ds, i>>)
      BY <2>2, NamesOf DEF IsName
    <3>2. Covers(Hooked(a), <<a.ds, i>>)
      BY <3>1, Kinds
    <3> QED BY <1>12, <2>1, <2>3, <3>2 DEF a
  <2>4. CASE ~HasSnapshotHooks(a)
    <3> DEFINE r == a.recursive
    <3>1. Among(chosen(r), a)
      BY <2>1, <2>4, ChosenActions DEF chosen, Batchable
    <3>2. PICK m \in 1..Len(chosen(r)) : chosen(r)[m] = a
      BY <3>1 DEF Among
    <3>3. r \in BOOLEAN
      BY <2>2
    <3> HIDE DEF r
    <3>4. PICK c : Among(batches(r), c) /\ Among(c, <<a.ds, i>>)
      BY <1>1, <2>2, <3>2, <3>3
    <3>5. Among(part(r), Batch(c)) /\ Covers(Batch(c), <<a.ds, i>>)
      BY <1>1, <3>3, <3>4, Kinds
    <3>6. Among(work, Batch(c))
      BY <1>7, <1>8, <3>3, <3>5
    <3> QED BY <3>5, <3>6 DEF a
  <2> QED BY <2>3, <2>4
<1> QED BY <1>8, <1>10, <1>11, <1>12, <1>13 DEF work

\* A hooked prune is of one name.
PruneHooks == [target : Pairs, pre : BOOLEAN, post : BOOLEAN]

\* What prune work consists of.
PruneItems == {Batch(c) : c \in Seq(Pairs)} \cup {Hooked(a) : a \in PruneHooks}

\* A target is one of a sequence of prune work.
Destroys(x, t) == IF x.kind = "batch" THEN Among(x.targets, t) ELSE t = x.action.target

\* The targets of a plan.
LEMMA TargetsOf ==
  ASSUME NEW actions, \A k \in 1..Len(actions) : actions[k].n \in Nat
  PROVE  \A t : t \in Targets(actions) <=> IsTarget(actions, t)
<1>1. \A k \in 1..Len(actions) : \A t :
        t \in Range(Names(actions[k])) <=> \E i \in 1..actions[k].n : t = <<actions[k].ds, i>>
  BY DEF Names, Range
<1> QED BY <1>1 DEF Targets, IsTarget, IsName

\* The prune work of a plan covers its names and nothing else.
LEMMA PrunesOfPlan ==
  ASSUME NEW actions \in Seq(PruneActions)
  PROVE  /\ PruneWork(actions) \in Seq(PruneItems)
         /\ \A x : Among(PruneWork(actions), x) => \A t : Destroys(x, t) => IsTarget(actions, t)
         /\ \A t : IsTarget(actions, t) => \E x : Among(PruneWork(actions), x) /\ Destroys(x, t)
<1> DEFINE hook(k, i) == [target |-> <<actions[k].ds, i>>,
                          pre |-> actions[k].pre, post |-> actions[k].post]
           single(k) == [i \in 1..actions[k].n |-> Hooked(hook(k, i))]
           chunks(k) == Chunks(Names(actions[k]), PruneBatchSize)
           piece(k) == IF HasPruneHooks(actions[k]) THEN single(k) ELSE AsBatches(chunks(k))
           ss == [k \in 1..Len(actions) |-> piece(k)]
<1>1. ASSUME NEW k \in 1..Len(actions)
      PROVE  /\ piece(k) \in Seq(PruneItems)
             /\ \A x : Among(piece(k), x) => \A t : Destroys(x, t) => IsName(actions[k], t)
             /\ \A t : IsName(actions[k], t) => \E x : Among(piece(k), x) /\ Destroys(x, t)
  <2>1. actions[k] \in PruneActions
    OBVIOUS
  <2>2. actions[k].n \in Nat /\ \A i \in 1..actions[k].n : <<actions[k].ds, i>> \in Pairs
    BY <2>1 DEF PruneActions, Pairs
  <2>3. CASE HasPruneHooks(actions[k])
    <3>1. \A i \in 1..actions[k].n : hook(k, i) \in PruneHooks
      BY <2>1, <2>2 DEF PruneActions, PruneHooks
    <3>2. \A i \in 1..actions[k].n : hook(k, i).target = <<actions[k].ds, i>>
      OBVIOUS
    <3> HIDE DEF hook
    <3>3. \A i \in 1..actions[k].n :
            /\ Hooked(hook(k, i)) \in PruneItems
            /\ \A t : Destroys(Hooked(hook(k, i)), t) <=> t = <<actions[k].ds, i>>
      BY <3>1, <3>2 DEF PruneItems, Destroys, Hooked
    <3>4. /\ piece(k) \in Seq(PruneItems) /\ Len(piece(k)) = actions[k].n
          /\ \A i \in 1..actions[k].n : piece(k)[i] = Hooked(hook(k, i))
      BY <2>2, <2>3, <3>3
    <3> HIDE DEF piece
    <3> QED BY <3>3, <3>4 DEF Among, IsName
  <2>4. CASE ~HasPruneHooks(actions[k])
    <3>1. Names(actions[k]) \in Seq(Pairs)
      <4> DEFINE a == actions[k]
                 t(i) == <<a.ds, i>>
      <4>1. a.n \in Nat /\ \A i \in 1..a.n : t(i) \in Pairs
        BY <2>2
      <4>2. Names(a) = [i \in 1..a.n |-> t(i)]
        BY DEF Names
      <4> HIDE DEF a, t
      <4>3. Names(a) \in Seq(Pairs)
        BY <4>1, <4>2
      <4> QED BY <4>3 DEF a
    <3>2. PruneBatchSize \in Nat /\ PruneBatchSize > 0
      BY PoolExecutorAssumption
    <3>3. /\ chunks(k) \in Seq(Seq(Pairs))
          /\ \A j \in 1..Len(chunks(k)) :
               \A t : Among(chunks(k)[j], t) => Among(Names(actions[k]), t)
          /\ \A t : Among(Names(actions[k]), t)
               => \E j \in 1..Len(chunks(k)) : Among(chunks(k)[j], t)
      BY <3>1, <3>2, Chunked
    <3>4. piece(k) = AsBatches(chunks(k))
      BY <2>4
    <3> HIDE DEF piece, chunks
    <3>5. \A j \in 1..Len(chunks(k)) :
            /\ Batch(chunks(k)[j]) \in PruneItems
            /\ \A t : Destroys(Batch(chunks(k)[j]), t) <=> Among(chunks(k)[j], t)
      <4>1. \A j \in 1..Len(chunks(k)) : chunks(k)[j] \in Seq(Pairs)
        BY <3>3
      <4> QED BY <4>1 DEF PruneItems, Destroys, Batch
    <3>6. /\ piece(k) \in Seq(PruneItems) /\ Len(piece(k)) = Len(chunks(k))
          /\ \A j \in 1..Len(chunks(k)) : piece(k)[j] = Batch(chunks(k)[j])
      BY <3>3, <3>4, <3>5 DEF AsBatches
    <3>7. \A t : Among(Names(actions[k]), t) <=> IsName(actions[k], t)
      BY <2>2, NamesOf
    <3>8. \A x : Among(piece(k), x) <=> \E j \in 1..Len(chunks(k)) : x = Batch(chunks(k)[j])
      BY <3>6 DEF Among
    <3>9. ASSUME NEW x, Among(piece(k), x), NEW t, Destroys(x, t) PROVE IsName(actions[k], t)
      <4>1. PICK j \in 1..Len(chunks(k)) : x = Batch(chunks(k)[j])
        BY <3>8, <3>9
      <4>2. Among(chunks(k)[j], t)
        BY <3>5, <3>9, <4>1
      <4>3. Among(Names(actions[k]), t)
        BY <3>3, <4>2
      <4> QED BY <3>7, <4>3
    <3>10. \A t : IsName(actions[k], t) => \E x : Among(piece(k), x) /\ Destroys(x, t)
      BY <3>3, <3>5, <3>7, <3>8
    <3> QED BY <3>6, <3>9, <3>10
  <2> QED BY <2>3, <2>4
<1>2. PruneWork(actions) = FlattenSeq(ss)
  BY DEF PruneWork
<1> HIDE DEF piece
<1>3. /\ ss \in Seq(Seq(PruneItems)) /\ Len(ss) = Len(actions)
      /\ \A k \in 1..Len(ss) : ss[k] = piece(k)
  <2> DEFINE Q == Seq(PruneItems)
  <2>1. \A k \in 1..Len(actions) : piece(k) \in Q
    BY <1>1
  <2> HIDE DEF Q
  <2>2. ss \in Seq(Q) /\ Len(ss) = Len(actions)
    BY <2>1
  <2> QED BY <2>2 DEF Q
<1> HIDE DEF ss
<1>4. /\ PruneWork(actions) \in Seq(PruneItems)
      /\ \A x : Among(PruneWork(actions), x) <=> \E k \in 1..Len(ss) : Among(ss[k], x)
  BY <1>2, <1>3, Flattened
<1>5. ASSUME NEW x, Among(PruneWork(actions), x), NEW t, Destroys(x, t)
      PROVE  IsTarget(actions, t)
  <2>1. PICK k \in 1..Len(ss) : Among(ss[k], x)
    BY <1>4, <1>5
  <2>2. IsName(actions[k], t)
    BY <1>1, <1>3, <1>5, <2>1
  <2> QED BY <1>3, <2>2 DEF IsTarget
<1>6. ASSUME NEW t, IsTarget(actions, t)
      PROVE  \E x : Among(PruneWork(actions), x) /\ Destroys(x, t)
  <2>1. PICK k \in 1..Len(actions) : IsName(actions[k], t)
    BY <1>6 DEF IsTarget
  <2>2. PICK x : Among(piece(k), x) /\ Destroys(x, t)
    BY <1>1, <2>1
  <2>3. Among(PruneWork(actions), x)
    BY <1>3, <1>4, <2>2
  <2> QED BY <2>2, <2>3
<1> QED BY <1>4, <1>5, <1>6

\* The number of prunes to skip is a number.
LEMMA CountType ==
  ASSUME NEW actions \in Seq(PruneActions)
  PROVE  Count(actions) \in Nat
<1> DEFINE ss == [k \in 1..Len(actions) |-> Names(actions[k])]
           Q == Seq(Pairs)
<1>1. ASSUME NEW k \in 1..Len(actions) PROVE Names(actions[k]) \in Q
  <2>1. actions[k] \in PruneActions
    OBVIOUS
  <2> QED BY <2>1 DEF PruneActions, Names, Pairs
<1> HIDE DEF Q
<1>2. ss \in Seq(Q)
  BY <1>1
<1> HIDE DEF ss
<1>3. FlattenSeq(ss) \in Seq(Pairs)
  BY <1>2, Flattened DEF Q
<1> QED BY <1>3 DEF Count, ss

-----------------------------------------------------------------------------
(* The commands *)

\* Whether the actions whose datasets a command names are recursive.
KindsOf(actions, c) ==
  {a.recursive : a \in {a \in Range(actions) : \E t \in Range(c) : t[1] = a.ds}}

\* executor.rs:198-200 says this of a `zfs snapshot` with these targets.
WellFormed(actions, c) ==
  /\ Len(c) \in 1..SnapshotBatchSize
  /\ \A i, j \in 1..Len(c) : c[i][1] = c[j][1] => i = j
  /\ Cardinality(KindsOf(actions, c)) = 1

\* The members of a sequence are its range.
LEMMA RangeOf == ASSUME NEW S, NEW s \in Seq(S) PROVE \A x : x \in Range(s) <=> Among(s, x)
BY DEF Range, Among

\* All targets of a command are of actions of one kind.
AllOfKind(actions, c, r) ==
  \A t : Among(c, t) => \E a : Among(actions, a) /\ a.ds = t[1] /\ a.recursive = r

\* Targets of actions of one kind make one kind of command.
LEMMA OneKind ==
  ASSUME NEW actions \in Seq(SnapshotActions), OneEach(actions), NEW r,
         NEW c \in Seq(Pairs), Len(c) > 0,
         AllOfKind(actions, c, r)
  PROVE  Cardinality(KindsOf(actions, c)) = 1
<1> DEFINE used == {a \in Range(actions) : \E t \in Range(c) : t[1] = a.ds}
<1>1. ASSUME NEW a \in used PROVE a.recursive = r
  <2>1. PICK t : Among(c, t) /\ t[1] = a.ds
    BY RangeOf
  <2>2. PICK b : Among(actions, b) /\ b.ds = t[1] /\ b.recursive = r
    BY <2>1 DEF AllOfKind
  <2>3. Among(actions, a)
    BY RangeOf
  <2>4. a = b
    BY <2>1, <2>2, <2>3 DEF OneEach, Among
  <2> QED BY <2>2, <2>4
<1>2. \E a \in used : TRUE
  <2>1. Among(c, c[1])
    BY DEF Among
  <2>2. PICK a : Among(actions, a) /\ a.ds = c[1][1]
    BY <2>1 DEF AllOfKind
  <2>3. a \in Range(actions) /\ c[1] \in Range(c)
    BY <2>1, <2>2, RangeOf
  <2> QED BY <2>2, <2>3
<1> HIDE DEF used
<1>3. {a.recursive : a \in used} = {r}
  BY <1>1, <1>2
<1>4. Cardinality({r}) = 1
  BY FS_Singleton
<1> QED BY <1>3, <1>4 DEF used, KindsOf

\* A command of a batch is well formed.
LEMMA BatchWellFormed ==
  ASSUME NEW actions \in Seq(SnapshotActions), OneEach(actions), NEW r \in BOOLEAN,
         NEW c \in Seq(Pairs), OfOneRound(Chosen(actions, Batchable(r)), c)
  PROVE  WellFormed(actions, c) /\ \A t : Among(c, t) => IsTarget(actions, t)
<1> DEFINE chosen == Chosen(actions, Batchable(r))
<1>1. /\ chosen \in Seq(SnapshotActions)
      /\ \A a : Among(chosen, a) => Among(actions, a) /\ a.recursive = r
  BY ChosenActions DEF Batchable
<1> HIDE DEF chosen
<1>2. PICK i \in Nat \ {0} : \A t : Among(c, t) =>
        \E k \in 1..Len(chosen) : i <= chosen[k].n /\ t = <<chosen[k].ds, i>>
  BY DEF OfOneRound, chosen
<1>3. ASSUME NEW t, Among(c, t)
      PROVE  /\ t = <<t[1], i>> /\ IsTarget(actions, t)
             /\ \E a : Among(actions, a) /\ a.ds = t[1] /\ a.recursive = r
  <2>1. PICK k \in 1..Len(chosen) : i <= chosen[k].n /\ t = <<chosen[k].ds, i>>
    BY <1>2, <1>3
  <2>2. Among(chosen, chosen[k])
    BY DEF Among
  <2>3. Among(actions, chosen[k]) /\ chosen[k].recursive = r
    BY <1>1, <2>2
  <2>4. chosen[k].n \in Nat
    <3>1. chosen[k] \in SnapshotActions
      BY <1>1
    <3> QED BY <3>1 DEF SnapshotActions
  <2>5. IsName(chosen[k], t)
    BY <2>1, <2>4 DEF IsName
  <2>6. IsTarget(actions, t)
    BY <2>3, <2>5 DEF IsTarget, Among
  <2> QED BY <2>1, <2>3, <2>6
<1>4. Len(c) \in 1..SnapshotBatchSize /\ Distinct(c)
  BY DEF OfOneRound
<1>5. ASSUME NEW j \in 1..Len(c), NEW k \in 1..Len(c), c[j][1] = c[k][1] PROVE j = k
  <2>1. Among(c, c[j]) /\ Among(c, c[k])
    BY DEF Among
  <2>2. c[j] = c[k]
    BY <1>3, <1>5, <2>1
  <2> QED BY <1>4, <2>2 DEF Distinct
<1>6. Len(c) > 0
  BY <1>4
<1>7. Cardinality(KindsOf(actions, c)) = 1
  BY <1>3, <1>6, OneKind DEF AllOfKind
<1> QED BY <1>3, <1>4, <1>5, <1>7 DEF WellFormed

\* So is the command of one name of a hooked snapshot.
LEMMA SingleWellFormed ==
  ASSUME NEW actions \in Seq(SnapshotActions), OneEach(actions),
         NEW a, Among(actions, a), NEW i \in 1..a.n
  PROVE  /\ << <<a.ds, i>> >> \in Seq(Pairs)
         /\ WellFormed(actions, << <<a.ds, i>> >>)
         /\ IsTarget(actions, <<a.ds, i>>)
<1>1. a \in SnapshotActions
  BY DEF Among
<1> DEFINE t == <<a.ds, i>>
           c == <<t>>
<1>2. t \in Pairs /\ t[1] = a.ds
  BY <1>1 DEF SnapshotActions, Pairs
<1>3. IsTarget(actions, t)
  BY DEF IsTarget, IsName, Among
<1> HIDE DEF t
<1>4. c \in Seq(Pairs) /\ Len(c) = 1 /\ Distinct(c) /\ \A x : Among(c, x) <=> x = t
  BY <1>2, Single
<1> HIDE DEF c
<1> DEFINE r == a.recursive
<1>5. AllOfKind(actions, c, r) /\ Len(c) > 0
  BY <1>2, <1>4 DEF AllOfKind
<1> HIDE DEF r
<1>8. Cardinality(KindsOf(actions, c)) = 1
  BY <1>4, <1>5, OneKind
<1>6. Len(c) \in 1..SnapshotBatchSize
  BY <1>4, PoolExecutorAssumption
<1>7. WellFormed(actions, c)
  BY <1>4, <1>6, <1>8 DEF WellFormed
<1> QED BY <1>3, <1>4, <1>7 DEF c, t

\* What is left when the first of a sequence is done.
LEMMA Tails ==
  ASSUME NEW S, NEW s \in Seq(S), s # <<>>
  PROVE  /\ Tail(s) \in Seq(S) /\ Head(s) \in S /\ Among(s, Head(s))
         /\ \A x : Among(s, x) <=> x = Head(s) \/ Among(Tail(s), x)
         /\ HookedOnce(s) =>
              /\ HookedOnce(Tail(s))
              /\ \A x : Among(Tail(s), x) /\ x.kind = "hooked" /\ Head(s).kind = "hooked"
                          => x.action.ds # Head(s).action.ds
<1>1. /\ Tail(s) \in Seq(S) /\ Len(Tail(s)) = Len(s) - 1 /\ Len(s) \in Nat \ {0}
      /\ Head(s) = s[1] /\ Head(s) \in S
      /\ \A k \in 1..Len(Tail(s)) : k + 1 \in 1..Len(s) /\ Tail(s)[k] = s[k + 1]
  OBVIOUS
<1>2. ASSUME NEW k \in 1..Len(s), k # 1
      PROVE  k - 1 \in 1..Len(Tail(s)) /\ s[k] = Tail(s)[k - 1]
  <2>1. k - 1 \in 1..Len(Tail(s)) /\ (k - 1) + 1 = k
    BY <1>1, <1>2
  <2> QED BY <1>1, <2>1
<1>3. Among(s, Head(s))
  BY <1>1 DEF Among
<1>4. \A x : Among(s, x) <=> x = Head(s) \/ Among(Tail(s), x)
  BY <1>1, <1>2, <1>3 DEF Among
<1>5. ASSUME HookedOnce(s) PROVE HookedOnce(Tail(s))
  <2> SUFFICES ASSUME NEW j \in 1..Len(Tail(s)), NEW k \in 1..Len(Tail(s)),
                      Tail(s)[j].kind = "hooked", Tail(s)[k].kind = "hooked",
                      Tail(s)[j].action.ds = Tail(s)[k].action.ds
               PROVE  j = k
    BY DEF HookedOnce
  <2>1. j + 1 = k + 1
    BY <1>1, <1>5 DEF HookedOnce
  <2> QED BY <1>1, <2>1
<1>6. ASSUME HookedOnce(s), NEW x, Among(Tail(s), x), x.kind = "hooked",
             Head(s).kind = "hooked", x.action.ds = Head(s).action.ds
      PROVE  FALSE
  <2>1. PICK k \in 1..Len(Tail(s)) : Tail(s)[k] = x
    BY <1>6 DEF Among
  <2>2. k + 1 \in 1..Len(s) /\ s[k + 1] = x /\ 1 \in 1..Len(s) /\ s[1] = Head(s)
    BY <1>1, <2>1
  <2>3. k + 1 = 1
    BY <1>6, <2>2 DEF HookedOnce
  <2> QED BY <2>3
<1> QED BY <1>1, <1>3, <1>4, <1>5, <1>6

\* What is there when something is added.
LEMMA Pushed ==
  ASSUME NEW S, NEW s \in Seq(S), NEW x \in S
  PROVE  /\ Append(s, x) \in Seq(S)
         /\ \A y : y \in Range(Append(s, x)) <=> y \in Range(s) \/ y = x
<1>1. /\ Append(s, x) \in Seq(S) /\ Len(Append(s, x)) = Len(s) + 1 /\ Len(s) \in Nat
      /\ \A k \in 1..Len(s) : Append(s, x)[k] = s[k]
      /\ Append(s, x)[Len(s) + 1] = x
  OBVIOUS
<1>2. \A k : k \in 1..(Len(s) + 1) <=> k \in 1..Len(s) \/ k = Len(s) + 1
  BY <1>1
<1>3. \A y : Among(Append(s, x), y) <=> Among(s, y) \/ y = x
  BY <1>1, <1>2 DEF Among
<1> QED BY <1>1, <1>3, RangeOf

\* A sequence is one of whatever its members are.
LEMMA MembersIn ==
  ASSUME NEW S, NEW s \in Seq(S), NEW T, \A x : Among(s, x) => x \in T
  PROVE  s \in Seq(T)
<1>1. \A k \in 1..Len(s) : s[k] \in T
  BY DEF Among
<1> QED BY <1>1

-----------------------------------------------------------------------------
(* The inductive invariant *)

\* What is left to do.
Left ==
  /\ todo \in Seq(SnapshotItems)
  /\ dels \in Seq(PruneItems)

\* Where the worker is, and what it can be doing there.
Position ==
  /\ at \in {"names", "post"} => todo # <<>> /\ Head(todo).kind = "hooked"
  /\ at = "names" => name <= Head(todo).action.n
  /\ at \in {"prune", "destroy", "pruned", "done"} => todo = <<>>
  /\ at \in {"destroy", "pruned"} => dels # <<>> /\ Head(dels).kind = "hooked"
  /\ at = "done" => dels = <<>>
  /\ at \notin {"names", "post"} => preOk /\ ~flawed
  /\ at \in {"prune", "destroy", "pruned"} => ~snapshotFailed

\* A command of one round of the unhooked actions of one kind, or a hooked
\* action.
Sound(x) ==
  \/ \E c, r : /\ x = Batch(c) /\ c \in Seq(Pairs) /\ r \in BOOLEAN
               /\ OfOneRound(Chosen(plan.snapshots, Batchable(r)), c)
  \/ \E a : x = Hooked(a) /\ Among(plan.snapshots, a) /\ HasSnapshotHooks(a)

\* What is left to do is part of the plan, each hooked snapshot once.
SoundWork ==
  /\ \A x : Among(todo, x) => Sound(x)
  /\ HookedOnce(todo)
  /\ \A x : Among(dels, x) => \A t : Destroys(x, t) => t \in PlannedPrunes

\* Without an error nothing has failed and nothing was skipped.
ErrorsCount ==
  report.errors = 0 => ~snapshotFailed /\ ~flawed /\ preOk /\ report.skipped = 0

\* Every snapshot of the plan is taken or is left to take, and every one of its
\* prunes is done or is left to do.
TakenOrLeft ==
  \A t \in PlannedSnapshots : t \in made \/ \E x : Among(todo, x) /\ Covers(x, t)

DestroyedOrLeft ==
  \A t \in PlannedPrunes : t \in gone \/ \E x : Among(dels, x) /\ Destroys(x, t)

\* Of the hooked snapshot at hand the names before the next are taken, in the
\* end all; before its pruning script the target of a hooked prune is gone.
NamesTaken == \A i \in 1..(name - 1) : <<Head(todo).action.ds, i>> \in made
AllTaken == \A t : Covers(Head(todo), t) => t \in made

Taken == TakenOrLeft /\ (at = "names" => NamesTaken) /\ (at = "post" => AllTaken)
Destroyed == DestroyedOrLeft /\ (at = "pruned" => Head(dels).action.target \in gone)

\* Without an error nothing of the plan is lost.
Carried == report.errors = 0 => Taken /\ Destroyed

\* The worker is in the middle of this hooked snapshot.
AtHand(a) == at \in {"names", "post"} /\ Head(todo) = Hooked(a)

\* A script of a dataset has run, with this outcome.
Ran(script, a, ok) == <<script, a.ds, ok>> \in Range(hooks)

\* No script of a snapshot to come has run; of the one at hand the pre script
\* has if there is one, and preOk is its outcome; the post scripts of those that
\* are over have run when they should.
PairedOf(a) ==
  /\ Among(todo, Hooked(a)) /\ ~AtHand(a) =>
       \A ok \in BOOLEAN : ~Ran("pre", a, ok) /\ ~Ran("post", a, ok)
  /\ AtHand(a) => /\ \A ok \in BOOLEAN : ~Ran("post", a, ok)
                  /\ preOk <=> ~Ran("pre", a, FALSE)
  /\ a.post /\ ~Among(todo, Hooked(a)) =>
       ((Ran("post", a, TRUE) \/ Ran("post", a, FALSE))
          <=> (~Ran("pre", a, FALSE) \/ a.forcePost))

Paired == \A a : Among(plan.snapshots, a) => PairedOf(a)

\* The commands issued are well formed.
Issued == \A c : c \in Range(commands) => WellFormed(plan.snapshots, c)

\* Parts of each other: what is left, where the worker is and what has failed
\* decide what it has done so far.
IInv ==
  /\ TypeOK /\ Left /\ Position /\ SoundWork
  /\ ErrorsCount /\ Carried /\ Paired /\ Issued

\* What a plan is.
LEMMA PlanType ==
  ASSUME plan \in Works
  PROVE  /\ plan.snapshots \in Seq(SnapshotActions) /\ OneEach(plan.snapshots)
         /\ plan.prunes \in Seq(PruneActions)
         /\ \A t : t \in PlannedSnapshots <=> IsTarget(plan.snapshots, t)
         /\ \A t : t \in PlannedPrunes <=> IsTarget(plan.prunes, t)
<1>1. /\ plan.snapshots \in Seq(SnapshotActions) /\ OneEach(plan.snapshots)
      /\ plan.prunes \in Seq(PruneActions)
  BY PoolExecutorAssumption DEF OneEach
<1>2. \A k \in 1..Len(plan.snapshots) : plan.snapshots[k].n \in Nat
  <2>1. \A k \in 1..Len(plan.snapshots) : plan.snapshots[k] \in SnapshotActions
    BY <1>1
  <2> QED BY <2>1 DEF SnapshotActions
<1>3. \A k \in 1..Len(plan.prunes) : plan.prunes[k].n \in Nat
  <2>1. \A k \in 1..Len(plan.prunes) : plan.prunes[k] \in PruneActions
    BY <1>1
  <2> QED BY <2>1 DEF PruneActions
<1>4. \A t : t \in Targets(plan.snapshots) <=> IsTarget(plan.snapshots, t)
  BY <1>2, TargetsOf
<1>5. \A t : t \in Targets(plan.prunes) <=> IsTarget(plan.prunes, t)
  BY <1>3, TargetsOf
<1> QED BY <1>1, <1>4, <1>5 DEF PlannedSnapshots, PlannedPrunes

\* A batch of the work left.
LEMMA SoundBatch ==
  ASSUME plan \in Works, NEW x, Sound(x), x.kind = "batch"
  PROVE  /\ x.targets \in Seq(PlannedSnapshots) /\ WellFormed(plan.snapshots, x.targets)
         /\ Len(x.targets) \in Nat
         /\ \A t : Covers(x, t) <=> t \in Range(x.targets)
<1>1. PICK c, r : /\ x = Batch(c) /\ c \in Seq(Pairs) /\ r \in BOOLEAN
                  /\ OfOneRound(Chosen(plan.snapshots, Batchable(r)), c)
  BY Kinds DEF Sound
<1>2. x.targets = c /\ \A t : Covers(x, t) <=> Among(c, t)
  BY <1>1, Kinds
<1>3. WellFormed(plan.snapshots, c) /\ \A t : Among(c, t) => IsTarget(plan.snapshots, t)
  BY <1>1, PlanType, BatchWellFormed
<1>4. c \in Seq(PlannedSnapshots)
  BY <1>1, <1>3, PlanType, MembersIn
<1> QED BY <1>1, <1>2, <1>3, <1>4, RangeOf

\* A hooked snapshot of the work left.
LEMMA SoundHooked ==
  ASSUME plan \in Works, NEW x, Sound(x), x.kind = "hooked"
  PROVE  /\ x = Hooked(x.action) /\ Among(plan.snapshots, x.action)
         /\ x.action \in SnapshotActions
         /\ \A t : Covers(x, t) <=> IsName(x.action, t)
         /\ \A i \in 1..x.action.n :
              /\ << <<x.action.ds, i>> >> \in Seq(PlannedSnapshots)
              /\ WellFormed(plan.snapshots, << <<x.action.ds, i>> >>)
<1>1. PICK a : x = Hooked(a) /\ Among(plan.snapshots, a)
  BY Kinds DEF Sound
<1>2. x.action = a /\ \A t : Covers(x, t) <=> Among(Names(a), t)
  BY <1>1, Kinds
<1>3. a \in SnapshotActions
  BY <1>1, PlanType DEF Among
<1>4. \A t : Among(Names(a), t) <=> IsName(a, t)
  <2>1. a.n \in Nat
    BY <1>3 DEF SnapshotActions
  <2> QED BY <2>1, NamesOf
<1>5. ASSUME NEW i \in 1..a.n
      PROVE  /\ << <<a.ds, i>> >> \in Seq(PlannedSnapshots)
             /\ WellFormed(plan.snapshots, << <<a.ds, i>> >>)
  <2>1. WellFormed(plan.snapshots, << <<a.ds, i>> >>) /\ IsTarget(plan.snapshots, <<a.ds, i>>)
    BY <1>1, PlanType, SingleWellFormed
  <2>2. <<a.ds, i>> \in PlannedSnapshots
    BY <2>1, PlanType
  <2> DEFINE t == <<a.ds, i>>
  <2>3. t \in PlannedSnapshots
    BY <2>2
  <2> HIDE DEF t
  <2>4. <<t>> \in Seq(PlannedSnapshots)
    BY <2>3
  <2> QED BY <2>1, <2>4 DEF t
<1> QED BY <1>1, <1>2, <1>3, <1>4, <1>5

-----------------------------------------------------------------------------
(* The first state *)

\* The plan is all there is to do.
LEMMA InitInv == Init => IInv
<1> SUFFICES ASSUME Init PROVE IInv
  OBVIOUS
<1> USE DEF Init
<1>1. plan \in Works /\ plan.snapshots \in Seq(SnapshotActions) /\ OneEach(plan.snapshots)
  BY PlanType
<1>2. Left
  <2>1. todo \in Seq(SnapshotItems)
    BY <1>1, WorkOfPlan
  <2>2. dels \in Seq(PruneItems)
    BY PlanType, PrunesOfPlan
  <2> QED BY <2>1, <2>2 DEF Left
<1>3. SoundWork
  <2>1. \A x : Among(todo, x) => Sound(x)
    <3> SUFFICES ASSUME NEW x, Among(todo, x) PROVE Sound(x)
      OBVIOUS
    <3>1. \/ \E c, r : /\ x = Batch(c) /\ r \in BOOLEAN
                       /\ OfOneRound(Chosen(plan.snapshots, Batchable(r)), c)
          \/ \E a : x = Hooked(a) /\ Among(plan.snapshots, a) /\ HasSnapshotHooks(a)
      BY <1>1, WorkOfPlan
    <3>2. ASSUME NEW c, x = Batch(c) PROVE c \in Seq(Pairs)
      <4>1. x \in SnapshotItems
        BY <1>2 DEF Left, Among
      <4> QED BY <3>2, <4>1, Kinds DEF SnapshotItems
    <3> QED BY <3>1, <3>2 DEF Sound
  <2>2. HookedOnce(todo)
    BY <1>1, WorkOfPlan
  <2>3. \A x : Among(dels, x) => \A t : Destroys(x, t) => t \in PlannedPrunes
    BY PlanType, PrunesOfPlan
  <2> QED BY <2>1, <2>2, <2>3 DEF SoundWork
<1>4. Position /\ ErrorsCount
  BY DEF Position, ErrorsCount
<1>5. Carried
  <2>1. \A t \in PlannedSnapshots : \E x : Among(todo, x) /\ Covers(x, t)
    <3> SUFFICES ASSUME NEW t \in PlannedSnapshots PROVE \E x : Among(todo, x) /\ Covers(x, t)
      OBVIOUS
    <3>1. PICK k \in 1..Len(plan.snapshots) : IsName(plan.snapshots[k], t)
      BY PlanType DEF IsTarget
    <3>2. PICK i \in 1..plan.snapshots[k].n : t = <<plan.snapshots[k].ds, i>>
      BY <3>1 DEF IsName
    <3>3. \E x : Among(SnapshotWork(plan.snapshots), x) /\ Covers(x, <<plan.snapshots[k].ds, i>>)
      BY <1>1, WorkOfPlan
    <3> QED BY <3>2, <3>3
  <2>2. \A t \in PlannedPrunes : \E x : Among(dels, x) /\ Destroys(x, t)
    BY PlanType, PrunesOfPlan
  <2> QED BY <2>1, <2>2 DEF Carried, Taken, Destroyed, TakenOrLeft, DestroyedOrLeft
<1>6. Range(hooks) = {} /\ Range(commands) = {}
  BY DEF Range
<1>7. Paired
  <2> SUFFICES ASSUME NEW a, Among(plan.snapshots, a), a.post PROVE Among(todo, Hooked(a))
    BY <1>6 DEF Paired, PairedOf, AtHand, Ran
  <2>1. HasSnapshotHooks(a)
    BY DEF HasSnapshotHooks
  <2> QED BY <1>1, <2>1, WorkOfPlan
<1>8. Issued
  BY <1>6 DEF Issued
<1>9. TypeOK
  <2>1. \A x \in SnapshotItems \cup PruneItems : x.kind \in {"batch", "hooked"}
    BY Kinds DEF SnapshotItems, PruneItems
  <2>2. /\ \A k \in 1..Len(todo) : todo[k].kind \in {"batch", "hooked"}
        /\ \A k \in 1..Len(dels) : dels[k].kind \in {"batch", "hooked"}
    <3>1. /\ \A k \in 1..Len(todo) : todo[k] \in SnapshotItems
          /\ \A k \in 1..Len(dels) : dels[k] \in PruneItems
      BY <1>2 DEF Left
    <3> QED BY <2>1, <3>1
  <2>3. /\ commands \in Seq(Seq(PlannedSnapshots))
        /\ hooks \in Seq({"pre", "post", "prune", "pruned"} \X Datasets \X BOOLEAN)
    OBVIOUS
  <2>4. report \in [created : Nat, pruned : Nat, skipped : Nat, errors : Nat]
    OBVIOUS
  <2>5. /\ at \in {"next", "names", "post", "prune", "destroy", "pruned", "done"}
        /\ name \in Nat \ {0}
    OBVIOUS
  <2>6. preOk \in BOOLEAN /\ flawed \in BOOLEAN /\ snapshotFailed \in BOOLEAN
    OBVIOUS
  <2>7. made \subseteq PlannedSnapshots /\ gone \subseteq PlannedPrunes
    OBVIOUS
  <2> HIDE DEF Init
  <2> QED BY <1>1, <2>2, <2>3, <2>4, <2>5, <2>6, <2>7 DEF TypeOK
<1> QED BY <1>2, <1>3, <1>4, <1>5, <1>7, <1>8, <1>9 DEF IInv

-----------------------------------------------------------------------------
(* What the commands and the hooks do *)

\* What the worker reports, and the hooks it has run.
Reports == [created : Nat, pruned : Nat, skipped : Nat, errors : Nat]
HookRecords == {"pre", "post", "prune", "pruned"} \X Datasets \X BOOLEAN

\* What a step's report tells of a command or a hook: an error for a failure.
Counts(ok) ==
  /\ report' \in Reports
  /\ report'.skipped = report.skipped
  /\ report'.errors = 0 => report.errors = 0 /\ ok

\* invoke_zfs with a snapshot command.
LEMMA SnapshotEffect ==
  ASSUME TypeOK, NEW c \in Seq(PlannedSnapshots), NEW ok \in BOOLEAN, Snapshot(c, ok)
  PROVE  /\ Counts(ok)
         /\ commands' \in Seq(Seq(PlannedSnapshots))
         /\ \A y : y \in Range(commands') <=> y \in Range(commands) \/ y = c
         /\ made' \subseteq PlannedSnapshots /\ made \subseteq made'
         /\ ok => Range(c) \subseteq made'
         /\ \E more \in SUBSET PlannedSnapshots : made' = made \cup more
         /\ ~ok => made' = made
<1>1. Counts(ok)
  <2>1. report \in Reports /\ Len(c) \in Nat
    BY DEF TypeOK, Reports
  <2>2. CASE ok
    <3>1. report' = [report EXCEPT !.created = @ + Len(c)]
      BY <2>2 DEF Snapshot
    <3> QED BY <2>1, <2>2, <3>1 DEF Counts, Reports
  <2>3. CASE ~ok
    <3>1. report' = [report EXCEPT !.errors = @ + 1]
      BY <2>3 DEF Snapshot
    <3> QED BY <2>1, <3>1 DEF Counts, Reports
  <2> QED BY <2>2, <2>3
<1>2. /\ commands' \in Seq(Seq(PlannedSnapshots))
      /\ \A y : y \in Range(commands') <=> y \in Range(commands) \/ y = c
  <2> DEFINE Q == Seq(PlannedSnapshots)
  <2>1. commands \in Seq(Q) /\ c \in Q /\ commands' = Append(commands, c)
    BY DEF TypeOK, Snapshot
  <2> HIDE DEF Q
  <2>2. /\ commands' \in Seq(Q)
        /\ \A y : y \in Range(commands') <=> y \in Range(commands) \/ y = c
    BY <2>1, Pushed
  <2> QED BY <2>2 DEF Q
<1>3. Range(c) \subseteq PlannedSnapshots
  BY RangeOf DEF Among
<1>4. made \subseteq PlannedSnapshots
  BY DEF TypeOK
<1>5. made' = IF ok THEN made \cup Range(c) ELSE made
  BY DEF Snapshot
<1>6. \E more \in SUBSET PlannedSnapshots : made' = made \cup more
  <2>1. made' = made \cup Range(c) \/ made' = made \cup {}
    BY <1>5
  <2>2. Range(c) \in SUBSET PlannedSnapshots /\ {} \in SUBSET PlannedSnapshots
    BY <1>3
  <2> QED BY <2>1, <2>2
<1> QED BY <1>1, <1>2, <1>3, <1>4, <1>5, <1>6

\* invoke_zfs with a destroy command.
LEMMA DestroyEffect ==
  ASSUME TypeOK, NEW c \in Seq(PlannedPrunes), NEW ok \in BOOLEAN, Destroy(c, ok)
  PROVE  /\ Counts(ok)
         /\ gone' \subseteq PlannedPrunes /\ gone \subseteq gone'
         /\ ok => Range(c) \subseteq gone'
         /\ \E more \in SUBSET PlannedPrunes : gone' = gone \cup more
         /\ ~ok => gone' = gone
<1>1. Counts(ok)
  <2>1. report \in Reports /\ Len(c) \in Nat
    BY DEF TypeOK, Reports
  <2>2. CASE ok
    <3>1. report' = [report EXCEPT !.pruned = @ + Len(c)]
      BY <2>2 DEF Destroy
    <3> QED BY <2>1, <2>2, <3>1 DEF Counts, Reports
  <2>3. CASE ~ok
    <3>1. report' = [report EXCEPT !.errors = @ + 1]
      BY <2>3 DEF Destroy
    <3> QED BY <2>1, <3>1 DEF Counts, Reports
  <2> QED BY <2>2, <2>3
<1>2. Range(c) \subseteq PlannedPrunes
  BY RangeOf DEF Among
<1>3. gone \subseteq PlannedPrunes
  BY DEF TypeOK
<1>4. gone' = IF ok THEN gone \cup Range(c) ELSE gone
  BY DEF Destroy
<1>5. \E more \in SUBSET PlannedPrunes : gone' = gone \cup more
  <2>1. gone' = gone \cup Range(c) \/ gone' = gone \cup {}
    BY <1>4
  <2>2. Range(c) \in SUBSET PlannedPrunes /\ {} \in SUBSET PlannedPrunes
    BY <1>2
  <2> QED BY <2>1, <2>2
<1> QED BY <1>1, <1>2, <1>3, <1>4, <1>5

\* run_hook.
LEMMA HookEffect ==
  ASSUME TypeOK, NEW script \in {"pre", "post", "prune", "pruned"}, NEW ds \in Datasets,
         NEW ok \in BOOLEAN, NEW more \in {0, 1}, Hook(script, ds, ok, more)
  PROVE  /\ Counts(ok)
         /\ hooks' \in Seq(HookRecords)
         /\ \A y : y \in Range(hooks') <=> y \in Range(hooks) \/ y = <<script, ds, ok>>
<1>1. Counts(ok)
  <2>1. report \in Reports
    BY DEF TypeOK, Reports
  <2>2. report' = [report EXCEPT !.errors = IF ok THEN @ ELSE @ + 1 + more]
    BY DEF Hook
  <2>3. CASE ok
    BY <2>1, <2>2, <2>3 DEF Counts, Reports
  <2>4. CASE ~ok
    BY <2>1, <2>2, <2>4 DEF Counts, Reports
  <2> QED BY <2>3, <2>4
<1>2. hooks \in Seq(HookRecords) /\ <<script, ds, ok>> \in HookRecords
  BY DEF TypeOK, HookRecords
<1>3. hooks' = Append(hooks, <<script, ds, ok>>)
  BY DEF Hook
<1> DEFINE y == <<script, ds, ok>>
<1>4. y \in HookRecords /\ hooks' = Append(hooks, y)
  BY <1>2, <1>3
<1> HIDE DEF y
<1>5. hooks' \in Seq(HookRecords) /\ \A z : z \in Range(hooks') <=> z \in Range(hooks) \/ z = y
  BY <1>2, <1>4, Pushed
<1> QED BY <1>1, <1>5 DEF y

-----------------------------------------------------------------------------
(* Steps *)

\* Work is only ever taken off the front, or given up.
Shrinks ==
  /\ plan' = plan
  /\ todo' = todo \/ (todo # <<>> /\ todo' = Tail(todo))
  /\ dels' = dels \/ dels' = <<>> \/ (dels # <<>> /\ dels' = Tail(dels))

\* Every step only takes from what is left.
LEMMA StepShrinks == Position /\ [Next]_vars => Shrinks
<1> SUFFICES ASSUME Position, [Next]_vars PROVE Shrinks
  OBVIOUS
<1> USE DEF Shrinks
<1>1. CASE SnapshotBatch
  BY <1>1 DEF SnapshotBatch
<1>2. CASE PreSnapshotHook
  BY <1>2 DEF PreSnapshotHook
<1>3. CASE HookedSnapshot
  BY <1>3 DEF HookedSnapshot
<1>4. CASE PostSnapshotHook
  BY <1>4 DEF PostSnapshotHook
<1>5. CASE DecidePrune
  BY <1>5 DEF DecidePrune
<1>6. CASE PruneBatch
  BY <1>6 DEF PruneBatch
<1>7. CASE PrePruningHook
  BY <1>7 DEF PrePruningHook
<1>8. CASE HookedDestroy
  BY <1>8 DEF HookedDestroy, Position
<1>9. CASE PruningHook
  BY <1>9 DEF PruningHook, Position
<1>10. CASE EndPrunes
  BY <1>10 DEF EndPrunes
<1>11. CASE UNCHANGED vars
  BY <1>11 DEF vars
<1> QED BY <1>1, <1>2, <1>3, <1>4, <1>5, <1>6, <1>7, <1>8, <1>9, <1>10, <1>11 DEF Next

\* What is left stays part of the plan.
LEMMA SoundStep == Left /\ SoundWork /\ Shrinks => Left' /\ SoundWork'
<1> SUFFICES ASSUME Left, SoundWork, Shrinks PROVE Left' /\ SoundWork'
  OBVIOUS
<1>1. /\ todo' \in Seq(SnapshotItems) /\ HookedOnce(todo')
      /\ \A x : Among(todo', x) => Among(todo, x)
  <2>1. CASE todo' = todo
    BY <2>1 DEF Left, SoundWork
  <2>2. CASE todo # <<>> /\ todo' = Tail(todo)
    BY <2>2, Tails DEF Left, SoundWork
  <2> QED BY <2>1, <2>2 DEF Shrinks
<1>2. dels' \in Seq(PruneItems) /\ \A x : Among(dels', x) => Among(dels, x)
  <2>1. CASE dels' = dels
    BY <2>1 DEF Left
  <2>2. CASE dels' = <<>>
    BY <2>2 DEF Among
  <2>3. CASE dels # <<>> /\ dels' = Tail(dels)
    BY <2>3, Tails DEF Left
  <2> QED BY <2>1, <2>2, <2>3 DEF Shrinks
<1>3. \A x : Sound(x) => Sound(x)'
  BY DEF Shrinks, Sound
<1>4. PlannedPrunes' = PlannedPrunes
  BY DEF Shrinks, PlannedPrunes
<1>5. Left'
  BY <1>1, <1>2 DEF Left
<1>6. \A x : Among(todo', x) => Sound(x)'
  BY <1>1, <1>3 DEF SoundWork
<1>7. \A x : Among(dels', x) => \A t : Destroys(x, t) => t \in PlannedPrunes'
  BY <1>2, <1>4 DEF SoundWork
<1> QED BY <1>1, <1>5, <1>6, <1>7 DEF SoundWork

\* The first of the snapshots left is sound.
LEMMA FirstSnapshot ==
  ASSUME Left, SoundWork, todo # <<>>
  PROVE  Sound(Head(todo)) /\ Among(todo, Head(todo))
BY Tails DEF Left, SoundWork

\* So is the first of the prunes left.
LEMMA FirstPrune ==
  ASSUME TypeOK, Left, SoundWork, dels # <<>>
  PROVE  /\ Head(dels).kind = "batch" =>
              /\ Head(dels).targets \in Seq(PlannedPrunes)
              /\ \A t : Destroys(Head(dels), t) <=> t \in Range(Head(dels).targets)
         /\ Head(dels).kind = "hooked" =>
              /\ Head(dels).action.target \in PlannedPrunes
              /\ Head(dels).action.target[1] \in Datasets
              /\ <<Head(dels).action.target>> \in Seq(PlannedPrunes)
<1> DEFINE x == Head(dels)
<1>1. x \in PruneItems /\ Among(dels, x)
  BY Tails DEF Left
<1> HIDE DEF x
<1>2. \A t : Destroys(x, t) => t \in PlannedPrunes
  BY <1>1 DEF SoundWork
<1>3. ASSUME x.kind = "batch"
      PROVE  /\ x.targets \in Seq(PlannedPrunes)
             /\ \A t : Destroys(x, t) <=> t \in Range(x.targets)
  <2>1. PICK c \in Seq(Pairs) : x = Batch(c)
    BY <1>1, <1>3, Kinds DEF PruneItems
  <2>2. x.targets = c /\ \A t : Destroys(x, t) <=> Among(c, t)
    BY <1>3, <2>1, Kinds DEF Destroys
  <2>3. c \in Seq(PlannedPrunes)
    BY <1>2, <2>2, MembersIn
  <2> QED BY <2>2, <2>3, RangeOf
<1>4. ASSUME x.kind = "hooked"
      PROVE  /\ x.action.target \in PlannedPrunes /\ x.action.target[1] \in Datasets
             /\ <<x.action.target>> \in Seq(PlannedPrunes)
  <2>1. PICK a \in PruneHooks : x = Hooked(a)
    BY <1>1, <1>4, Kinds DEF PruneItems
  <2>2. x.action = a
    BY <2>1, Kinds
  <2>3. Destroys(x, x.action.target)
    BY <1>4 DEF Destroys
  <2>4. x.action.target \in PlannedPrunes
    BY <1>2, <2>3
  <2>5. x.action.target[1] \in Datasets
    BY <2>2 DEF PruneHooks, Pairs
  <2> DEFINE t == x.action.target
  <2>6. t \in PlannedPrunes
    BY <2>4
  <2> HIDE DEF t
  <2>7. <<t>> \in Seq(PlannedPrunes)
    BY <2>6
  <2> QED BY <2>4, <2>5, <2>7 DEF t
<1> QED BY <1>3, <1>4 DEF x

\* Every step leaves the worker where it can be.
LEMMA PositionStep ==
  ASSUME TypeOK, Left, SoundWork, Position, [Next]_vars
  PROVE  Position'
<1> USE DEF Position
<1>1. CASE SnapshotBatch
  BY <1>1 DEF SnapshotBatch, hooked
<1>2. CASE PreSnapshotHook
  <2>1. /\ todo' = todo /\ todo # <<>> /\ Head(todo).kind = "hooked" /\ name' = 1
        /\ at' \in {"names", "post"} /\ flawed' = ~preOk' /\ dels' = dels
    BY <1>2 DEF PreSnapshotHook
  <2>2. Head(todo).action \in SnapshotActions
    BY <2>1, FirstSnapshot, SoundHooked DEF TypeOK
  <2>3. 1 <= Head(todo).action.n
    BY <2>2 DEF SnapshotActions
  <2> QED BY <2>1, <2>3
<1>3. CASE HookedSnapshot
  <2>1. /\ todo' = todo /\ todo # <<>> /\ Head(todo).kind = "hooked" /\ name' = name + 1
        /\ at' = (IF name = Head(todo).action.n THEN "post" ELSE "names")
        /\ name <= Head(todo).action.n
    BY <1>3 DEF HookedSnapshot
  <2>2. Head(todo).action \in SnapshotActions
    BY <2>1, FirstSnapshot, SoundHooked DEF TypeOK
  <2>3. Head(todo).action.n \in Nat /\ name \in Nat
    BY <2>2 DEF SnapshotActions, TypeOK
  <2>4. at' = "names" => name' <= Head(todo).action.n
    BY <2>1, <2>3
  <2> QED BY <2>1, <2>4
<1>4. CASE PostSnapshotHook
  BY <1>4 DEF PostSnapshotHook
<1>5. CASE DecidePrune
  BY <1>5 DEF DecidePrune
<1>6. CASE PruneBatch
  BY <1>6 DEF PruneBatch, hooked
<1>7. CASE PrePruningHook
  BY <1>7 DEF PrePruningHook
<1>8. CASE HookedDestroy
  BY <1>8 DEF HookedDestroy
<1>9. CASE PruningHook
  BY <1>9 DEF PruningHook
<1>10. CASE EndPrunes
  BY <1>10 DEF EndPrunes
<1>11. CASE UNCHANGED vars
  BY <1>11 DEF vars, hooked
<1> QED BY <1>1, <1>2, <1>3, <1>4, <1>5, <1>6, <1>7, <1>8, <1>9, <1>10, <1>11 DEF Next

\* The types that need no effect of a command.
LEMMA KindsStep ==
  ASSUME Left, Left'
  PROVE  /\ \A k \in 1..Len(todo') : todo'[k].kind \in {"batch", "hooked"}
         /\ \A k \in 1..Len(dels') : dels'[k].kind \in {"batch", "hooked"}
<1>1. \A x \in SnapshotItems \cup PruneItems : x.kind \in {"batch", "hooked"}
  BY Kinds DEF SnapshotItems, PruneItems
<1>2. /\ \A k \in 1..Len(todo') : todo'[k] \in SnapshotItems
      /\ \A k \in 1..Len(dels') : dels'[k] \in PruneItems
  BY DEF Left
<1> QED BY <1>1, <1>2

\* What the worker reports and has done.
Outcome ==
  /\ report \in Reports
  /\ made \subseteq PlannedSnapshots /\ gone \subseteq PlannedPrunes
  /\ commands \in Seq(Seq(PlannedSnapshots))
  /\ hooks \in Seq(HookRecords)

\* Every step keeps its type.
LEMMA OutcomeStep ==
  ASSUME TypeOK, Left, SoundWork, Position, [Next]_vars
  PROVE  Outcome'
<1>1. Outcome
  BY DEF TypeOK, Outcome, Reports, HookRecords
<1>2. plan' = plan /\ PlannedSnapshots' = PlannedSnapshots /\ PlannedPrunes' = PlannedPrunes
  BY StepShrinks DEF Shrinks, PlannedSnapshots, PlannedPrunes
<1>3. plan \in Works
  BY DEF TypeOK
<1>4. CASE SnapshotBatch
  <2>1. Head(todo).targets \in Seq(PlannedSnapshots)
    BY <1>3, <1>4, FirstSnapshot, SoundBatch DEF SnapshotBatch
  <2>2. PICK ok \in BOOLEAN : Snapshot(Head(todo).targets, ok)
    BY <1>4 DEF SnapshotBatch
  <2>3. gone' = gone /\ hooks' = hooks
    BY <1>4 DEF SnapshotBatch
  <2> QED BY <1>1, <1>2, <2>1, <2>2, <2>3, SnapshotEffect DEF Outcome, Counts
<1>5. CASE PreSnapshotHook
  <2>1. UNCHANGED <<made, gone, commands>>
    BY <1>5 DEF PreSnapshotHook
  <2>2. Head(todo).action.ds \in Datasets
    <3>1. Head(todo).action \in SnapshotActions
      BY <1>3, <1>5, FirstSnapshot, SoundHooked DEF PreSnapshotHook
    <3> QED BY <3>1 DEF SnapshotActions
  <2>3. CASE UNCHANGED <<report, hooks>>
    BY <1>1, <1>2, <2>1, <2>3 DEF Outcome
  <2>4. CASE \E ok \in BOOLEAN, more \in {0, 1} : Hook("pre", Head(todo).action.ds, ok, more)
    BY <1>1, <1>2, <2>1, <2>2, <2>4, HookEffect DEF Outcome, Counts
  <2> QED BY <1>5, <2>3, <2>4 DEF PreSnapshotHook
<1>6. CASE HookedSnapshot
  <2> DEFINE c == << <<Head(todo).action.ds, name>> >>
  <2>1. c \in Seq(PlannedSnapshots)
    <3>1. todo # <<>> /\ Head(todo).kind = "hooked" /\ name <= Head(todo).action.n
      BY <1>6 DEF HookedSnapshot, Position
    <3>2. Head(todo).action \in SnapshotActions
      BY <1>3, <3>1, FirstSnapshot, SoundHooked
    <3>3. name \in 1..Head(todo).action.n
      BY <3>1, <3>2 DEF TypeOK, SnapshotActions
    <3> QED BY <1>3, <3>1, <3>3, FirstSnapshot, SoundHooked
  <2>2. PICK ok \in BOOLEAN : Snapshot(c, ok)
    BY <1>6 DEF HookedSnapshot
  <2>3. gone' = gone /\ hooks' = hooks
    BY <1>6 DEF HookedSnapshot
  <2> HIDE DEF c
  <2> QED BY <1>1, <1>2, <2>1, <2>2, <2>3, SnapshotEffect DEF Outcome, Counts
<1>7. CASE PostSnapshotHook
  <2>1. UNCHANGED <<made, gone, commands>>
    BY <1>7 DEF PostSnapshotHook
  <2>2. Head(todo).action.ds \in Datasets
    <3>1. Head(todo).action \in SnapshotActions
      BY <1>3, <1>7, FirstSnapshot, SoundHooked DEF PostSnapshotHook, Position
    <3> QED BY <3>1 DEF SnapshotActions
  <2>3. CASE UNCHANGED <<report, hooks>>
    BY <1>1, <1>2, <2>1, <2>3 DEF Outcome
  <2>4. CASE \E ok \in BOOLEAN : Hook("post", Head(todo).action.ds, ok, 0)
    BY <1>1, <1>2, <2>1, <2>2, <2>4, HookEffect DEF Outcome, Counts
  <2> QED BY <1>7, <2>3, <2>4 DEF PostSnapshotHook
<1>8. CASE DecidePrune
  <2>1. Count(plan.prunes) \in Nat
    BY <1>3, PlanType, CountType
  <2>2. report' = report \/ report' = [report EXCEPT !.skipped = Count(plan.prunes)]
    BY <1>8 DEF DecidePrune
  <2>3. report' \in Reports
    BY <1>1, <2>1, <2>2 DEF Outcome, Reports
  <2>4. UNCHANGED <<made, gone, commands, hooks>>
    BY <1>8 DEF DecidePrune, history
  <2> QED BY <1>1, <1>2, <2>3, <2>4 DEF Outcome
<1>9. CASE PruneBatch
  <2>1. Head(dels).targets \in Seq(PlannedPrunes)
    BY <1>9, FirstPrune DEF PruneBatch
  <2>2. PICK ok \in BOOLEAN : Destroy(Head(dels).targets, ok)
    BY <1>9 DEF PruneBatch
  <2>3. UNCHANGED <<made, commands, hooks>>
    BY <1>9 DEF PruneBatch, history
  <2> QED BY <1>1, <1>2, <2>1, <2>2, <2>3, DestroyEffect DEF Outcome, Counts
<1>10. CASE PrePruningHook
  <2>1. UNCHANGED <<made, gone, commands>>
    BY <1>10 DEF PrePruningHook
  <2>2. Head(dels).action.target[1] \in Datasets
    BY <1>10, FirstPrune DEF PrePruningHook
  <2>3. CASE UNCHANGED <<report, hooks>>
    BY <1>1, <1>2, <2>1, <2>3 DEF Outcome
  <2>4. CASE \E ok \in BOOLEAN : Hook("prune", Head(dels).action.target[1], ok, 1)
    BY <1>1, <1>2, <2>1, <2>2, <2>4, HookEffect DEF Outcome, Counts
  <2> QED BY <1>10, <2>3, <2>4 DEF PrePruningHook
<1>11. CASE HookedDestroy
  <2>1. <<Head(dels).action.target>> \in Seq(PlannedPrunes)
    BY <1>11, FirstPrune DEF HookedDestroy, Position
  <2>2. PICK ok \in BOOLEAN : Destroy(<<Head(dels).action.target>>, ok)
    BY <1>11 DEF HookedDestroy
  <2>3. UNCHANGED <<made, commands, hooks>>
    BY <1>11 DEF HookedDestroy, history
  <2> QED BY <1>1, <1>2, <2>1, <2>2, <2>3, DestroyEffect DEF Outcome, Counts
<1>12. CASE PruningHook
  <2>1. UNCHANGED <<made, gone, commands>>
    BY <1>12 DEF PruningHook
  <2>2. Head(dels).action.target[1] \in Datasets
    BY <1>12, FirstPrune DEF PruningHook, Position
  <2>3. PICK ok \in BOOLEAN : Hook("pruned", Head(dels).action.target[1], ok, 0)
    BY <1>12 DEF PruningHook
  <2> QED BY <1>1, <1>2, <2>1, <2>2, <2>3, HookEffect DEF Outcome, Counts
<1>13. CASE EndPrunes \/ UNCHANGED vars
  BY <1>1, <1>2, <1>13 DEF EndPrunes, vars, history, Outcome
<1> QED
  BY <1>4, <1>5, <1>6, <1>7, <1>8, <1>9, <1>10, <1>11, <1>12, <1>13 DEF Next

\* Every step keeps the types.
LEMMA TypeStep ==
  ASSUME TypeOK, Left, SoundWork, Position, [Next]_vars
  PROVE  TypeOK'
<1>1. Outcome' /\ plan' \in Works
  BY OutcomeStep, StepShrinks DEF TypeOK, Shrinks
<1>2. /\ \A k \in 1..Len(todo') : todo'[k].kind \in {"batch", "hooked"}
      /\ \A k \in 1..Len(dels') : dels'[k].kind \in {"batch", "hooked"}
  BY KindsStep, SoundStep, StepShrinks
<1>3. /\ at' \in {"next", "names", "post", "prune", "destroy", "pruned", "done"}
      /\ name' \in Nat \ {0}
  BY DEF TypeOK, Next, SnapshotBatch, PreSnapshotHook, HookedSnapshot, PostSnapshotHook,
         DecidePrune, PruneBatch, PrePruningHook, HookedDestroy, PruningHook, EndPrunes,
         hooked, vars
<1>4. preOk' \in BOOLEAN /\ flawed' \in BOOLEAN /\ snapshotFailed' \in BOOLEAN
  BY DEF TypeOK, Next, SnapshotBatch, PreSnapshotHook, HookedSnapshot, PostSnapshotHook,
         DecidePrune, PruneBatch, PrePruningHook, HookedDestroy, PruningHook, EndPrunes,
         hooked, vars
<1> QED BY <1>1, <1>2, <1>3, <1>4 DEF TypeOK, Outcome, Reports, HookRecords

\* The dataset of the hooked snapshot at hand.
LEMMA FirstHooked ==
  ASSUME TypeOK, Left, SoundWork, todo # <<>>, Head(todo).kind = "hooked"
  PROVE  /\ Head(todo).action \in SnapshotActions
         /\ Head(todo).action.ds \in Datasets /\ Head(todo).action.n \in Nat
         /\ \A t : Covers(Head(todo), t) <=> IsName(Head(todo).action, t)
         /\ name <= Head(todo).action.n =>
              << <<Head(todo).action.ds, name>> >> \in Seq(PlannedSnapshots)
<1>1. /\ Head(todo).action \in SnapshotActions
      /\ \A t : Covers(Head(todo), t) <=> IsName(Head(todo).action, t)
  BY FirstSnapshot, SoundHooked DEF TypeOK
<1>2. Head(todo).action.ds \in Datasets /\ Head(todo).action.n \in Nat
  BY <1>1 DEF SnapshotActions
<1>3. ASSUME name <= Head(todo).action.n
      PROVE  << <<Head(todo).action.ds, name>> >> \in Seq(PlannedSnapshots)
  <2>1. name \in 1..Head(todo).action.n
    BY <1>2, <1>3 DEF TypeOK
  <2> QED BY <2>1, FirstSnapshot, SoundHooked DEF TypeOK
<1> QED BY <1>1, <1>2, <1>3

\* Whatever fails is reported as an error.
LEMMA ErrorsStep ==
  ASSUME TypeOK, Left, SoundWork, Position, ErrorsCount, [Next]_vars
  PROVE  ErrorsCount' /\ (report'.errors = 0 => report.errors = 0)
<1> USE DEF ErrorsCount
<1>1. plan \in Works
  BY DEF TypeOK
<1>2. CASE SnapshotBatch
  <2>1. Head(todo).targets \in Seq(PlannedSnapshots)
    BY <1>1, <1>2, FirstSnapshot, SoundBatch DEF SnapshotBatch
  <2>2. PICK ok \in BOOLEAN : /\ Snapshot(Head(todo).targets, ok)
                              /\ snapshotFailed' = (snapshotFailed \/ ~ok)
    BY <1>2 DEF SnapshotBatch
  <2>3. Counts(ok)
    BY <2>1, <2>2, SnapshotEffect
  <2>4. flawed' = flawed /\ preOk' = preOk
    BY <1>2 DEF SnapshotBatch, hooked
  <2> QED BY <2>2, <2>3, <2>4 DEF Counts
<1>3. CASE PreSnapshotHook
  <2>1. Head(todo).action.ds \in Datasets
    BY <1>3, FirstHooked DEF PreSnapshotHook
  <2>2. snapshotFailed' = snapshotFailed /\ flawed' = ~preOk'
    BY <1>3 DEF PreSnapshotHook
  <2>3. CASE report' = report /\ preOk' = TRUE
    BY <2>2, <2>3
  <2>4. CASE \E ok \in BOOLEAN, more \in {0, 1} :
               preOk' = ok /\ Hook("pre", Head(todo).action.ds, ok, more)
    <3>1. PICK ok \in BOOLEAN, more \in {0, 1} :
            preOk' = ok /\ Hook("pre", Head(todo).action.ds, ok, more)
      BY <2>4
    <3>2. Counts(ok)
      BY <2>1, <3>1, HookEffect
    <3> QED BY <2>2, <3>1, <3>2 DEF Counts
  <2> QED BY <1>3, <2>3, <2>4 DEF PreSnapshotHook
<1>4. CASE HookedSnapshot
  <2>1. << <<Head(todo).action.ds, name>> >> \in Seq(PlannedSnapshots)
    BY <1>4, FirstHooked DEF HookedSnapshot, Position
  <2>2. PICK ok \in BOOLEAN : /\ Snapshot(<< <<Head(todo).action.ds, name>> >>, ok)
                              /\ flawed' = (flawed \/ ~ok)
    BY <1>4 DEF HookedSnapshot
  <2>3. Counts(ok)
    BY <2>1, <2>2, SnapshotEffect
  <2>4. preOk' = preOk /\ snapshotFailed' = snapshotFailed
    BY <1>4 DEF HookedSnapshot
  <2> QED BY <2>2, <2>3, <2>4 DEF Counts
<1>5. CASE PostSnapshotHook
  <2>1. Head(todo).action.ds \in Datasets
    BY <1>5, FirstHooked DEF PostSnapshotHook, Position
  <2>2. flawed' = FALSE /\ preOk' = TRUE
    BY <1>5 DEF PostSnapshotHook
  <2>3. CASE report' = report /\ snapshotFailed' = (snapshotFailed \/ flawed)
    BY <2>2, <2>3
  <2>4. CASE \E ok \in BOOLEAN : /\ Hook("post", Head(todo).action.ds, ok, 0)
                                 /\ snapshotFailed' = (snapshotFailed \/ flawed \/ ~ok)
    <3>1. PICK ok \in BOOLEAN : /\ Hook("post", Head(todo).action.ds, ok, 0)
                                /\ snapshotFailed' = (snapshotFailed \/ flawed \/ ~ok)
      BY <2>4
    <3>2. Counts(ok)
      BY <2>1, <3>1, HookEffect
    <3> QED BY <2>2, <3>1, <3>2 DEF Counts
  <2> QED BY <1>5, <2>3, <2>4 DEF PostSnapshotHook
<1>6. CASE DecidePrune
  <2>1. UNCHANGED <<preOk, flawed, snapshotFailed>>
    BY <1>6 DEF DecidePrune
  <2>2. \/ ~snapshotFailed /\ report' = report
        \/ snapshotFailed /\ report' = [report EXCEPT !.skipped = Count(plan.prunes)]
    BY <1>6 DEF DecidePrune
  <2>3. report'.errors = report.errors
    BY <2>2 DEF TypeOK
  <2> QED BY <2>1, <2>2, <2>3
<1>7. CASE PruneBatch
  <2>1. Head(dels).targets \in Seq(PlannedPrunes)
    BY <1>7, FirstPrune DEF PruneBatch
  <2>2. PICK ok \in BOOLEAN : Destroy(Head(dels).targets, ok)
    BY <1>7 DEF PruneBatch
  <2>3. Counts(ok)
    BY <2>1, <2>2, DestroyEffect
  <2>4. UNCHANGED <<preOk, flawed, snapshotFailed>>
    BY <1>7 DEF PruneBatch, hooked
  <2> QED BY <2>3, <2>4 DEF Counts
<1>8. CASE PrePruningHook
  <2>1. Head(dels).action.target[1] \in Datasets
    BY <1>8, FirstPrune DEF PrePruningHook
  <2>2. UNCHANGED <<preOk, flawed, snapshotFailed>>
    BY <1>8 DEF PrePruningHook
  <2>3. CASE report' = report
    BY <2>2, <2>3
  <2>4. CASE \E ok \in BOOLEAN : Hook("prune", Head(dels).action.target[1], ok, 1)
    BY <2>1, <2>2, <2>4, HookEffect DEF Counts
  <2> QED BY <1>8, <2>3, <2>4 DEF PrePruningHook
<1>9. CASE HookedDestroy
  <2>1. <<Head(dels).action.target>> \in Seq(PlannedPrunes)
    BY <1>9, FirstPrune DEF HookedDestroy, Position
  <2>2. PICK ok \in BOOLEAN : Destroy(<<Head(dels).action.target>>, ok)
    BY <1>9 DEF HookedDestroy
  <2>3. Counts(ok)
    BY <2>1, <2>2, DestroyEffect
  <2>4. UNCHANGED <<preOk, flawed, snapshotFailed>>
    BY <1>9 DEF HookedDestroy
  <2> QED BY <2>3, <2>4 DEF Counts
<1>10. CASE PruningHook
  <2>1. Head(dels).action.target[1] \in Datasets
    BY <1>10, FirstPrune DEF PruningHook, Position
  <2>2. UNCHANGED <<preOk, flawed, snapshotFailed>>
    BY <1>10 DEF PruningHook
  <2>3. PICK ok \in BOOLEAN : Hook("pruned", Head(dels).action.target[1], ok, 0)
    BY <1>10 DEF PruningHook
  <2>4. Counts(ok)
    BY <2>1, <2>3, HookEffect
  <2> QED BY <2>2, <2>4 DEF Counts
<1>11. CASE EndPrunes \/ UNCHANGED vars
  BY <1>11 DEF EndPrunes, vars, hooked
<1> QED BY <1>2, <1>3, <1>4, <1>5, <1>6, <1>7, <1>8, <1>9, <1>10, <1>11 DEF Next

\* Snapshots are not forgotten: what leaves the work is taken.
LEMMA StillTaken ==
  ASSUME Left, TakenOrLeft, plan' = plan, made \subseteq made',
         \/ todo' = todo
         \/ todo # <<>> /\ todo' = Tail(todo) /\ (\A t : Covers(Head(todo), t) => t \in made')
  PROVE  TakenOrLeft'
<1> SUFFICES ASSUME NEW t \in PlannedSnapshots', t \notin made'
             PROVE  \E x : Among(todo', x) /\ Covers(x, t)
  BY DEF TakenOrLeft
<1>1. t \in PlannedSnapshots /\ t \notin made
  BY DEF PlannedSnapshots
<1>2. PICK x : Among(todo, x) /\ Covers(x, t)
  BY <1>1 DEF TakenOrLeft
<1>3. CASE todo' = todo
  BY <1>2, <1>3
<1>4. CASE todo # <<>> /\ todo' = Tail(todo) /\ (\A u : Covers(Head(todo), u) => u \in made')
  <2>1. x # Head(todo)
    BY <1>2, <1>4
  <2>2. Among(Tail(todo), x)
    BY <1>2, <1>4, <2>1, Tails DEF Left
  <2> QED BY <1>2, <1>4, <2>2
<1> QED BY <1>3, <1>4

\* So with the prunes.
LEMMA StillDestroyed ==
  ASSUME Left, DestroyedOrLeft, plan' = plan, gone \subseteq gone',
         \/ dels' = dels
         \/ dels # <<>> /\ dels' = Tail(dels) /\ (\A t : Destroys(Head(dels), t) => t \in gone')
  PROVE  DestroyedOrLeft'
<1> SUFFICES ASSUME NEW t \in PlannedPrunes', t \notin gone'
             PROVE  \E x : Among(dels', x) /\ Destroys(x, t)
  BY DEF DestroyedOrLeft
<1>1. t \in PlannedPrunes /\ t \notin gone
  BY DEF PlannedPrunes
<1>2. PICK x : Among(dels, x) /\ Destroys(x, t)
  BY <1>1 DEF DestroyedOrLeft
<1>3. CASE dels' = dels
  BY <1>2, <1>3
<1>4. CASE dels # <<>> /\ dels' = Tail(dels) /\ (\A u : Destroys(Head(dels), u) => u \in gone')
  <2>1. x # Head(dels)
    BY <1>2, <1>4
  <2>2. Among(Tail(dels), x)
    BY <1>2, <1>4, <2>1, Tails DEF Left
  <2> QED BY <1>2, <1>4, <2>2
<1> QED BY <1>3, <1>4

\* While no error is reported no snapshot of the plan is lost.
LEMMA TakenStep ==
  ASSUME TypeOK, Left, SoundWork, Position, ErrorsCount, Taken, [Next]_vars,
         report.errors = 0, report'.errors = 0
  PROVE  Taken'
<1>1. plan' = plan /\ plan \in Works
  BY StepShrinks DEF Shrinks, TypeOK
<1>2. CASE SnapshotBatch
  <2> DEFINE x == Head(todo)
  <2>1. x.targets \in Seq(PlannedSnapshots) /\ \A t : Covers(x, t) <=> t \in Range(x.targets)
    BY <1>1, <1>2, FirstSnapshot, SoundBatch DEF SnapshotBatch
  <2>2. PICK ok \in BOOLEAN : Snapshot(x.targets, ok)
    BY <1>2 DEF SnapshotBatch
  <2>3. ok /\ made \subseteq made' /\ Range(x.targets) \subseteq made'
    BY <2>1, <2>2, SnapshotEffect DEF Counts
  <2>4. todo # <<>> /\ todo' = Tail(todo) /\ at' = "next"
    BY <1>2 DEF SnapshotBatch, hooked
  <2>5. TakenOrLeft'
    BY <1>1, <2>1, <2>3, <2>4, StillTaken DEF Taken
  <2> QED BY <2>4, <2>5 DEF Taken
<1>3. CASE PreSnapshotHook
  <2>1. /\ todo' = todo /\ made' = made /\ name' = 1 /\ Head(todo).action.ds \in Datasets
        /\ at' = IF preOk' \/ ~Head(todo).action.noInconsistent THEN "names" ELSE "post"
    BY <1>3, FirstHooked DEF PreSnapshotHook
  <2>2. preOk' = TRUE
    <3>1. CASE \E ok \in BOOLEAN, more \in {0, 1} :
                 preOk' = ok /\ Hook("pre", Head(todo).action.ds, ok, more)
      BY <2>1, <3>1, HookEffect DEF Counts
    <3> QED BY <1>3, <3>1 DEF PreSnapshotHook
  <2>3. at' = "names"
    BY <2>1, <2>2
  <2>4. TakenOrLeft'
    BY <1>1, <2>1, StillTaken DEF Taken
  <2>5. NamesTaken'
    BY <2>1 DEF NamesTaken
  <2> QED BY <2>3, <2>4, <2>5 DEF Taken
<1>4. CASE HookedSnapshot
  <2> DEFINE a == Head(todo).action
             t == <<a.ds, name>>
             c == <<t>>
  <2>1. /\ todo # <<>> /\ Head(todo).kind = "hooked" /\ name <= a.n
        /\ at = "names" /\ todo' = todo /\ name' = name + 1
        /\ at' = IF name = a.n THEN "post" ELSE "names"
    BY <1>4 DEF HookedSnapshot, Position
  <2>2. /\ c \in Seq(PlannedSnapshots) /\ a.n \in Nat /\ name \in Nat \ {0}
        /\ \A u : Covers(Head(todo), u) <=> IsName(a, u)
    BY <2>1, FirstHooked DEF TypeOK
  <2>3. PICK ok \in BOOLEAN : Snapshot(c, ok)
    BY <1>4 DEF HookedSnapshot
  <2>4. t \in Range(c)
    <3> HIDE DEF t
    <3> QED BY DEF Range
  <2>5. ok /\ made \subseteq made' /\ t \in made'
    <3> HIDE DEF c, t
    <3> QED BY <2>2, <2>3, <2>4, SnapshotEffect DEF Counts
  <2>6. \A i \in 1..name : <<a.ds, i>> \in made'
    <3> SUFFICES ASSUME NEW i \in 1..name PROVE <<a.ds, i>> \in made'
      OBVIOUS
    <3>1. i = name \/ i \in 1..(name - 1)
      BY <2>2
    <3> QED BY <2>1, <2>5, <3>1 DEF Taken, NamesTaken
  <2>7. TakenOrLeft'
    BY <1>1, <2>1, <2>5, StillTaken DEF Taken
  <2>8. NamesTaken'
    <3>1. name' - 1 = name
      BY <2>1, <2>2
    <3> QED BY <2>1, <2>6, <3>1 DEF NamesTaken
  <2>9. at' = "post" => AllTaken'
    <3> SUFFICES ASSUME name = a.n, NEW u, IsName(a, u) PROVE u \in made'
      BY <2>1, <2>2 DEF AllTaken
    <3> QED BY <2>6 DEF IsName
  <2> QED BY <2>7, <2>8, <2>9 DEF Taken
<1>5. CASE PostSnapshotHook
  <2>1. todo # <<>> /\ at = "post" /\ todo' = Tail(todo) /\ made' = made /\ at' = "next"
    BY <1>5 DEF PostSnapshotHook
  <2>2. TakenOrLeft'
    BY <1>1, <2>1, StillTaken DEF Taken, AllTaken
  <2> QED BY <2>1, <2>2 DEF Taken
<1>6. CASE DecidePrune \/ PruneBatch \/ PrePruningHook \/ HookedDestroy \/ PruningHook
             \/ EndPrunes
  <2>1. todo' = todo /\ made' = made /\ at' \notin {"names", "post"}
    BY <1>6 DEF DecidePrune, PruneBatch, PrePruningHook, HookedDestroy, PruningHook, EndPrunes,
                hooked
  <2>2. TakenOrLeft'
    BY <1>1, <2>1, StillTaken DEF Taken
  <2> QED BY <2>1, <2>2 DEF Taken
<1>7. CASE UNCHANGED vars
  <2>1. UNCHANGED <<todo, made, at, name>>
    BY <1>7 DEF vars, hooked
  <2>2. TakenOrLeft'
    BY <1>1, <2>1, StillTaken DEF Taken
  <2> QED BY <2>1, <2>2 DEF Taken, NamesTaken, AllTaken
<1> QED BY <1>2, <1>3, <1>4, <1>5, <1>6, <1>7 DEF Next

\* Nor is any prune of the plan.
LEMMA DestroyedStep ==
  ASSUME TypeOK, Left, SoundWork, Position, ErrorsCount, Destroyed, [Next]_vars,
         report.errors = 0, report'.errors = 0
  PROVE  Destroyed'
<1>1. plan' = plan /\ ~snapshotFailed
  BY StepShrinks DEF Shrinks, ErrorsCount
<1> DEFINE x == Head(dels)
<1>2. CASE SnapshotBatch \/ PreSnapshotHook \/ HookedSnapshot \/ PostSnapshotHook
             \/ DecidePrune \/ EndPrunes
  <2>1. dels' = dels /\ gone' = gone /\ at' # "pruned"
    BY <1>1, <1>2 DEF SnapshotBatch, PreSnapshotHook, HookedSnapshot, PostSnapshotHook,
                      DecidePrune, EndPrunes, hooked
  <2>2. DestroyedOrLeft'
    BY <1>1, <2>1, StillDestroyed DEF Destroyed
  <2> QED BY <2>1, <2>2 DEF Destroyed
<1>3. CASE PruneBatch
  <2>1. dels # <<>> /\ x.kind = "batch" /\ dels' = Tail(dels) /\ at' = "prune"
    BY <1>3 DEF PruneBatch, hooked
  <2>2. x.targets \in Seq(PlannedPrunes) /\ \A t : Destroys(x, t) <=> t \in Range(x.targets)
    BY <2>1, FirstPrune
  <2>3. PICK ok \in BOOLEAN : Destroy(x.targets, ok)
    BY <1>3 DEF PruneBatch
  <2>4. gone \subseteq gone' /\ Range(x.targets) \subseteq gone'
    BY <2>2, <2>3, DestroyEffect DEF Counts
  <2>5. DestroyedOrLeft'
    BY <1>1, <2>1, <2>2, <2>4, StillDestroyed DEF Destroyed
  <2> QED BY <2>1, <2>5 DEF Destroyed
<1>4. CASE PrePruningHook
  <2>1. /\ dels # <<>> /\ x.kind = "hooked" /\ gone' = gone
        /\ x.action.target[1] \in Datasets
    BY <1>4, FirstPrune DEF PrePruningHook
  <2>2. at' = "destroy" /\ dels' = dels
    <3>1. CASE \E ok \in BOOLEAN : /\ Hook("prune", x.action.target[1], ok, 1)
                                   /\ ok => at' = "destroy" /\ dels' = dels
      BY <2>1, <3>1, HookEffect DEF Counts
    <3> QED BY <1>4, <3>1 DEF PrePruningHook
  <2>3. DestroyedOrLeft'
    BY <1>1, <2>1, <2>2, StillDestroyed DEF Destroyed
  <2> QED BY <2>2, <2>3 DEF Destroyed
<1>5. CASE HookedDestroy
  <2> DEFINE t == x.action.target
             c == <<t>>
  <2>1. dels # <<>> /\ x.kind = "hooked" /\ c \in Seq(PlannedPrunes)
    BY <1>5, FirstPrune DEF HookedDestroy, Position
  <2>2. PICK ok \in BOOLEAN :
          /\ Destroy(c, ok)
          /\ \/ at' = "pruned" /\ dels' = dels
             \/ at' = "prune" /\ dels' = Tail(dels)
    BY <1>5 DEF HookedDestroy
  <2>3. t \in Range(c)
    <3> HIDE DEF t
    <3> QED BY DEF Range
  <2>4. gone \subseteq gone' /\ t \in gone'
    <3> HIDE DEF c, t
    <3> QED BY <2>1, <2>2, <2>3, DestroyEffect DEF Counts
  <2>5. \A u : Destroys(x, u) => u \in gone'
    BY <2>1, <2>4 DEF Destroys
  <2>6. DestroyedOrLeft'
    BY <1>1, <2>1, <2>2, <2>4, <2>5, StillDestroyed DEF Destroyed
  <2> QED BY <2>2, <2>4, <2>6 DEF Destroyed
<1>6. CASE PruningHook
  <2>1. /\ at = "pruned" /\ dels # <<>> /\ x.kind = "hooked"
        /\ dels' = Tail(dels) /\ gone' = gone /\ at' = "prune"
    BY <1>6 DEF PruningHook, Position
  <2>2. \A u : Destroys(x, u) => u \in gone'
    BY <2>1 DEF Destroys, Destroyed
  <2>3. DestroyedOrLeft'
    BY <1>1, <2>1, <2>2, StillDestroyed DEF Destroyed
  <2> QED BY <2>1, <2>3 DEF Destroyed
<1>7. CASE UNCHANGED vars
  <2>1. UNCHANGED <<dels, gone, at>>
    BY <1>7 DEF vars, hooked
  <2>2. DestroyedOrLeft'
    BY <1>1, <2>1, StillDestroyed DEF Destroyed
  <2> QED BY <2>1, <2>2 DEF Destroyed
<1> QED BY <1>2, <1>3, <1>4, <1>5, <1>6, <1>7 DEF Next

\* So nothing of the plan is.
LEMMA CarriedStep ==
  ASSUME TypeOK, Left, SoundWork, Position, ErrorsCount, Carried, [Next]_vars
  PROVE  Carried'
<1> SUFFICES ASSUME report'.errors = 0 PROVE Taken' /\ Destroyed'
  BY DEF Carried
<1>1. report.errors = 0
  BY ErrorsStep
<1>2. Taken /\ Destroyed
  BY <1>1 DEF Carried
<1> QED BY <1>1, <1>2, TakenStep, DestroyedStep

\* The snapshot scripts of a dataset that have run are the same after the step.
SameScripts(a) ==
  \A script \in {"pre", "post"}, ok \in BOOLEAN :
    <<script, a.ds, ok>> \in Range(hooks') <=> <<script, a.ds, ok>> \in Range(hooks)

\* A step that does nothing about a hooked snapshot.
LEMMA Undisturbed ==
  ASSUME NEW a, PairedOf(a), SameScripts(a),
         Among(todo', Hooked(a)) <=> Among(todo, Hooked(a)),
         AtHand(a)' <=> AtHand(a), AtHand(a) => preOk' = preOk
  PROVE  PairedOf(a)'
<1>1. \A ok \in BOOLEAN : /\ Ran("pre", a, ok)' <=> Ran("pre", a, ok)
                          /\ Ran("post", a, ok)' <=> Ran("post", a, ok)
  BY DEF SameScripts, Ran
<1>2. Among(todo, Hooked(a))' <=> Among(todo, Hooked(a))
  BY DEF Among
<1>3. CASE AtHand(a)
  <2>1. preOk' = preOk /\ AtHand(a)'
    BY <1>3
  <2>2. (\A ok \in BOOLEAN : ~Ran("post", a, ok)) /\ (preOk <=> ~Ran("pre", a, FALSE))
    BY <1>3 DEF PairedOf
  <2>3. (\A ok \in BOOLEAN : ~Ran("post", a, ok)') /\ (preOk' <=> ~Ran("pre", a, FALSE)')
    BY <1>1, <2>1, <2>2
  <2>4. a.post /\ ~Among(todo, Hooked(a)) =>
          ((Ran("post", a, TRUE)' \/ Ran("post", a, FALSE)')
             <=> (~Ran("pre", a, FALSE)' \/ a.forcePost))
    BY <1>1 DEF PairedOf
  <2> QED BY <1>2, <2>1, <2>3, <2>4 DEF PairedOf
<1>4. CASE ~AtHand(a)
  <2>1. ~AtHand(a)'
    BY <1>4
  <2>2. Among(todo, Hooked(a)) => \A ok \in BOOLEAN : ~Ran("pre", a, ok)' /\ ~Ran("post", a, ok)'
    BY <1>1, <1>4 DEF PairedOf
  <2>3. a.post /\ ~Among(todo, Hooked(a)) =>
          ((Ran("post", a, TRUE)' \/ Ran("post", a, FALSE)')
             <=> (~Ran("pre", a, FALSE)' \/ a.forcePost))
    BY <1>1 DEF PairedOf
  <2> QED BY <1>2, <2>1, <2>2, <2>3 DEF PairedOf
<1> QED BY <1>3, <1>4

\* A script that is another's.
LEMMA OtherScript ==
  ASSUME TypeOK, NEW script \in {"pre", "post", "prune", "pruned"}, NEW ds \in Datasets,
         NEW ok \in BOOLEAN, NEW more \in {0, 1}, Hook(script, ds, ok, more),
         NEW a, a.ds # ds \/ script \in {"prune", "pruned"}
  PROVE  SameScripts(a)
<1>1. \A y : y \in Range(hooks') <=> y \in Range(hooks) \/ y = <<script, ds, ok>>
  BY HookEffect
<1>2. \A other \in {"pre", "post"}, o \in BOOLEAN : <<other, a.ds, o>> # <<script, ds, ok>>
  OBVIOUS
<1> QED BY <1>1, <1>2 DEF SameScripts

\* Two hooked snapshots of a plan are of two datasets.
LEMMA TwoSnapshots ==
  ASSUME TypeOK, NEW a, NEW b, Among(plan.snapshots, a), Among(plan.snapshots, b), a.ds = b.ds
  PROVE  a = b
BY PlanType DEF TypeOK, OneEach, Among

\* The snapshot scripts run as they should.
LEMMA PairedStep ==
  ASSUME TypeOK, Left, SoundWork, Position, Paired, [Next]_vars
  PROVE  Paired'
<1> SUFFICES ASSUME NEW a, Among(plan.snapshots, a)' PROVE PairedOf(a)'
  BY DEF Paired
<1>1. plan' = plan /\ Among(plan.snapshots, a)
  BY StepShrinks DEF Shrinks, Among
<1>2. PairedOf(a)
  BY <1>1 DEF Paired
<1> DEFINE h == Head(todo).action
<1>3. ASSUME todo # <<>>, Head(todo).kind = "hooked"
      PROVE  /\ Head(todo) = Hooked(h) /\ Among(todo, Hooked(h)) /\ h.ds \in Datasets
             /\ Among(plan.snapshots, h) /\ (Hooked(a) = Head(todo) <=> a = h)
  <2>1. /\ Head(todo) = Hooked(h) /\ Among(plan.snapshots, h) /\ h \in SnapshotActions
        /\ Among(todo, Head(todo))
    BY <1>3, FirstSnapshot, SoundHooked DEF TypeOK
  <2>2. h.ds \in Datasets
    BY <2>1 DEF SnapshotActions
  <2> QED BY <2>1, <2>2, Kinds
<1>4. CASE SnapshotBatch
  <2>1. /\ todo # <<>> /\ Head(todo).kind = "batch" /\ todo' = Tail(todo)
        /\ UNCHANGED <<at, hooks, preOk>> /\ at = "next"
    BY <1>4 DEF SnapshotBatch, hooked
  <2>2. Hooked(a) # Head(todo)
    BY <2>1, Kinds
  <2>3. Among(todo', Hooked(a)) <=> Among(todo, Hooked(a))
    BY <2>1, <2>2, Tails DEF Left
  <2>4. ~AtHand(a) /\ ~AtHand(a)' /\ SameScripts(a)
    BY <2>1 DEF AtHand, SameScripts
  <2> QED BY <1>2, <2>3, <2>4, Undisturbed
<1>5. CASE PreSnapshotHook
  <2>1. /\ todo # <<>> /\ Head(todo).kind = "hooked" /\ todo' = todo
        /\ at = "next" /\ at' \in {"names", "post"}
    BY <1>5 DEF PreSnapshotHook
  <2>2. \/ preOk' = TRUE /\ hooks' = hooks
        \/ \E ok \in BOOLEAN, more \in {0, 1} : preOk' = ok /\ Hook("pre", h.ds, ok, more)
    BY <1>5 DEF PreSnapshotHook
  <2>3. ~AtHand(a) /\ (AtHand(a)' <=> a = h)
    BY <1>3, <2>1 DEF AtHand
  <2>4. CASE a = h
    <3>1. \A ok \in BOOLEAN : ~Ran("pre", a, ok) /\ ~Ran("post", a, ok)
      BY <1>2, <1>3, <2>1, <2>3, <2>4 DEF PairedOf
    <3>2. CASE preOk' = TRUE /\ hooks' = hooks
      BY <1>3, <2>1, <2>3, <2>4, <3>1, <3>2 DEF PairedOf, Ran
    <3>3. ASSUME NEW ok \in BOOLEAN, NEW more \in {0, 1},
                 preOk' = ok, Hook("pre", h.ds, ok, more)
          PROVE  PairedOf(a)'
      <4>1. \A y : y \in Range(hooks') <=> y \in Range(hooks) \/ y = <<"pre", h.ds, ok>>
        BY <1>3, <2>1, <3>3, HookEffect
      <4>2. \A o \in BOOLEAN : ~Ran("post", a, o)'
        BY <3>1, <4>1 DEF Ran
      <4>3. Ran("pre", a, FALSE)' <=> ok = FALSE
        BY <2>4, <3>1, <4>1 DEF Ran
      <4>4. preOk' <=> ~Ran("pre", a, FALSE)'
        BY <3>3, <4>3
      <4>5. Among(todo, Hooked(a))' /\ AtHand(a)'
        BY <1>3, <2>1, <2>3, <2>4 DEF Among
      <4> QED BY <4>2, <4>4, <4>5 DEF PairedOf
    <3> QED BY <2>2, <3>2, <3>3
  <2>5. CASE a # h
    <3>1. a.ds # h.ds
      BY <1>1, <1>3, <2>1, <2>5, TwoSnapshots
    <3>2. SameScripts(a)
      <4>1. CASE hooks' = hooks
        BY <4>1 DEF SameScripts
      <4>2. CASE \E ok \in BOOLEAN, more \in {0, 1} : Hook("pre", h.ds, ok, more)
        BY <1>3, <2>1, <3>1, <4>2, OtherScript
      <4> QED BY <2>2, <4>1, <4>2
    <3> QED BY <1>2, <2>1, <2>3, <2>5, <3>2, Undisturbed
  <2> QED BY <2>4, <2>5
<1>6. CASE HookedSnapshot
  <2>1. /\ UNCHANGED <<todo, hooks, preOk>>
        /\ at = "names" /\ at' \in {"names", "post"}
    BY <1>6 DEF HookedSnapshot
  <2>2. (AtHand(a)' <=> AtHand(a)) /\ SameScripts(a)
    BY <2>1 DEF AtHand, SameScripts
  <2> QED BY <1>2, <2>1, <2>2, Undisturbed
<1>7. CASE PostSnapshotHook
  <2>1. /\ todo # <<>> /\ Head(todo).kind = "hooked" /\ todo' = Tail(todo)
        /\ at = "post" /\ at' = "next"
    BY <1>7 DEF PostSnapshotHook, Position
  <2>2. \/ ~PostDue /\ hooks' = hooks
        \/ PostDue /\ \E ok \in BOOLEAN : Hook("post", h.ds, ok, 0)
    BY <1>7 DEF PostSnapshotHook
  <2>3. ~AtHand(a)' /\ (AtHand(a) <=> a = h)
    BY <1>3, <2>1 DEF AtHand
  <2>4. CASE a = h
    <3>1. ~Among(todo', Hooked(a))
      <4>1. /\ Hooked(a).kind = "hooked" /\ Hooked(a).action = a /\ Hooked(a) = Head(todo)
        BY <1>3, <2>1, <2>4, Kinds
      <4> QED BY <2>1, <4>1, Tails DEF Left, SoundWork
    <3>2. /\ \A ok \in BOOLEAN : ~Ran("post", a, ok)
          /\ preOk <=> ~Ran("pre", a, FALSE)
      BY <1>2, <2>3, <2>4 DEF PairedOf
    <3>3. PostDue <=> a.post /\ (~Ran("pre", a, FALSE) \/ a.forcePost)
      BY <2>4, <3>2 DEF PostDue
    <3>4. CASE ~PostDue /\ hooks' = hooks
      <4>1. ~Ran("post", a, TRUE)' /\ ~Ran("post", a, FALSE)'
        BY <3>2, <3>4 DEF Ran
      <4>2. Ran("pre", a, FALSE)' <=> Ran("pre", a, FALSE)
        BY <3>4 DEF Ran
      <4>3. ~Among(todo, Hooked(a))'
        BY <3>1 DEF Among
      <4> QED BY <2>3, <3>3, <3>4, <4>1, <4>2, <4>3 DEF PairedOf
    <3>5. ASSUME PostDue, NEW ok \in BOOLEAN, Hook("post", h.ds, ok, 0) PROVE PairedOf(a)'
      <4>1. \A y : y \in Range(hooks') <=> y \in Range(hooks) \/ y = <<"post", h.ds, ok>>
        BY <1>3, <2>1, <3>5, HookEffect
      <4>2. Ran("post", a, ok)'
        BY <2>4, <4>1 DEF Ran
      <4>3. Ran("pre", a, FALSE)' <=> Ran("pre", a, FALSE)
        BY <4>1 DEF Ran
      <4>4. ~Among(todo, Hooked(a))'
        BY <3>1 DEF Among
      <4>5. Ran("post", a, TRUE)' \/ Ran("post", a, FALSE)'
        BY <4>2
      <4> QED BY <2>3, <3>3, <3>5, <4>3, <4>4, <4>5 DEF PairedOf
    <3> QED BY <2>2, <3>4, <3>5
  <2>5. CASE a # h
    <3>1. a.ds # h.ds
      BY <1>1, <1>3, <2>1, <2>5, TwoSnapshots
    <3>2. SameScripts(a)
      <4>1. CASE hooks' = hooks
        BY <4>1 DEF SameScripts
      <4>2. CASE \E ok \in BOOLEAN : Hook("post", h.ds, ok, 0)
        BY <1>3, <2>1, <3>1, <4>2, OtherScript
      <4> QED BY <2>2, <4>1, <4>2
    <3>3. Among(todo', Hooked(a)) <=> Among(todo, Hooked(a))
      BY <1>3, <2>1, <2>5, Tails DEF Left
    <3> QED BY <1>2, <2>3, <2>5, <3>2, <3>3, Undisturbed
  <2> QED BY <2>4, <2>5
<1>8. CASE DecidePrune \/ PruneBatch \/ PrePruningHook \/ HookedDestroy \/ PruningHook
             \/ EndPrunes
  <2>1. /\ todo' = todo
        /\ at \notin {"names", "post"} /\ at' \notin {"names", "post"}
    BY <1>8 DEF DecidePrune, PruneBatch, PrePruningHook, HookedDestroy, PruningHook, EndPrunes,
                hooked
  <2>2. ~AtHand(a) /\ ~AtHand(a)'
    BY <2>1 DEF AtHand
  <2>3. SameScripts(a)
    <3>1. CASE hooks' = hooks
      BY <3>1 DEF SameScripts
    <3>2. CASE PrePruningHook
      <4>1. Head(dels).action.target[1] \in Datasets
        BY <3>2, FirstPrune DEF PrePruningHook
      <4>2. CASE \E ok \in BOOLEAN : Hook("prune", Head(dels).action.target[1], ok, 1)
        BY <4>1, <4>2, OtherScript
      <4> QED BY <3>1, <3>2, <4>2 DEF PrePruningHook
    <3>3. CASE PruningHook
      <4>1. Head(dels).action.target[1] \in Datasets
        BY <3>3, FirstPrune DEF PruningHook, Position
      <4>2. PICK ok \in BOOLEAN : Hook("pruned", Head(dels).action.target[1], ok, 0)
        BY <3>3 DEF PruningHook
      <4> QED BY <4>1, <4>2, OtherScript
    <3> QED
      BY <1>8, <3>1, <3>2, <3>3 DEF DecidePrune, PruneBatch, HookedDestroy, EndPrunes, history
  <2> QED BY <1>2, <2>1, <2>2, <2>3, Undisturbed
<1>9. CASE UNCHANGED vars
  <2>1. UNCHANGED <<todo, at, hooks, preOk>>
    BY <1>9 DEF vars, hooked, history
  <2>2. (AtHand(a)' <=> AtHand(a)) /\ SameScripts(a)
    BY <2>1 DEF AtHand, SameScripts
  <2> QED BY <1>2, <2>1, <2>2, Undisturbed
<1> QED BY <1>4, <1>5, <1>6, <1>7, <1>8, <1>9 DEF Next

\* Every command that is issued is well formed.
LEMMA IssuedStep ==
  ASSUME TypeOK, Left, SoundWork, Position, Issued, [Next]_vars
  PROVE  Issued'
<1>1. plan' = plan /\ plan \in Works
  BY StepShrinks DEF Shrinks, TypeOK
<1>2. ASSUME NEW c \in Seq(PlannedSnapshots), WellFormed(plan.snapshots, c),
             NEW ok \in BOOLEAN, Snapshot(c, ok)
      PROVE  Issued'
  BY <1>1, <1>2, SnapshotEffect DEF Issued
<1>3. CASE SnapshotBatch
  <2>1. /\ Head(todo).targets \in Seq(PlannedSnapshots)
        /\ WellFormed(plan.snapshots, Head(todo).targets)
    BY <1>1, <1>3, FirstSnapshot, SoundBatch DEF SnapshotBatch
  <2> QED BY <1>2, <1>3, <2>1 DEF SnapshotBatch
<1>4. CASE HookedSnapshot
  <2> DEFINE c == << <<Head(todo).action.ds, name>> >>
  <2>1. todo # <<>> /\ Head(todo).kind = "hooked" /\ name <= Head(todo).action.n
    BY <1>4 DEF HookedSnapshot, Position
  <2>2. name \in 1..Head(todo).action.n
    BY <2>1, FirstHooked DEF TypeOK
  <2>3. c \in Seq(PlannedSnapshots) /\ WellFormed(plan.snapshots, c)
    BY <1>1, <2>1, <2>2, FirstSnapshot, SoundHooked
  <2>4. PICK ok \in BOOLEAN : Snapshot(c, ok)
    BY <1>4 DEF HookedSnapshot
  <2> HIDE DEF c
  <2> QED BY <1>2, <2>3, <2>4
<1>5. CASE commands' = commands
  BY <1>1, <1>5 DEF Issued
<1> QED
  BY <1>3, <1>4, <1>5
     DEF Next, PreSnapshotHook, PostSnapshotHook, DecidePrune, PruneBatch, PrePruningHook,
         HookedDestroy, PruningHook, EndPrunes, vars, history

\* Every step keeps the invariant.
LEMMA StepInv == IInv /\ [Next]_vars => IInv'
<1> SUFFICES ASSUME IInv, [Next]_vars PROVE IInv'
  OBVIOUS
<1>1. TypeOK /\ Left /\ Position /\ SoundWork /\ ErrorsCount /\ Carried /\ Paired /\ Issued
  BY DEF IInv
<1>2. Left' /\ SoundWork'
  BY <1>1, StepShrinks, SoundStep
<1>3. TypeOK' /\ Position'
  BY <1>1, TypeStep, PositionStep
<1>4. ErrorsCount' /\ Carried'
  BY <1>1, ErrorsStep, CarriedStep
<1>5. Paired' /\ Issued'
  BY <1>1, PairedStep, IssuedStep
<1> QED BY <1>2, <1>3, <1>4, <1>5 DEF IInv

\* The invariant holds in every state of the worker (execute_pool).
LEMMA InvAlways == Spec => []IInv
BY InitInv, StepInv, PTL DEF Spec

-----------------------------------------------------------------------------
(* What the worker guarantees *)

\* The variables of the worker keep their types.
THEOREM PoolTypes == Spec => []TypeOK
<1>1. IInv => TypeOK
  BY DEF IInv
<1> QED BY <1>1, InvAlways, PTL

\* executor.rs:198-200: whatever the plan and the batch size, no `zfs snapshot`
\* has two names of one dataset, is longer than a batch or mixes -r with plain
\* targets.
THEOREM CommandsWellFormed == Spec => []WellFormedCommands
<1>1. IInv => WellFormedCommands
  <2> SUFFICES ASSUME IInv, NEW c \in Range(commands) PROVE WellFormed(plan.snapshots, c)
    BY DEF WellFormedCommands, WellFormed, KindsOf
  <2> QED BY DEF IInv, Issued
<1> QED BY <1>1, InvAlways, PTL

\* A pool that reports no error has taken and destroyed all its plan names, which
\* is what main.rs:433-453 updates the status cache from.
THEOREM PlanCarriedOut == Spec => []SuccessIsComplete
<1>1. IInv => SuccessIsComplete
  <2> SUFFICES ASSUME IInv, at = "done", report.errors = 0
               PROVE  made = PlannedSnapshots /\ gone = PlannedPrunes /\ report.skipped = 0
    BY DEF SuccessIsComplete
  <2>1. todo = <<>> /\ dels = <<>>
    BY DEF IInv, Position
  <2>2. PlannedSnapshots \subseteq made /\ PlannedPrunes \subseteq gone
    BY <2>1 DEF IInv, Carried, Taken, Destroyed, TakenOrLeft, DestroyedOrLeft, Among
  <2>3. made \subseteq PlannedSnapshots /\ gone \subseteq PlannedPrunes
    BY DEF IInv, TypeOK
  <2>4. report.skipped = 0
    BY DEF IInv, ErrorsCount
  <2> QED BY <2>2, <2>3, <2>4
<1> QED BY <1>1, InvAlways, PTL

\* execute_hooked_snapshot: once a snapshot is over its post script has run
\* exactly if its pre script did not fail or the post script is forced.
THEOREM HooksPaired == Spec => []PostFollowsPre
<1>1. IInv => PostFollowsPre
  <2> SUFFICES ASSUME IInv, NEW a \in Range(plan.snapshots), a.post, Hooked(a) \notin Range(todo)
               PROVE  (Ran("post", a, TRUE) \/ Ran("post", a, FALSE))
                        = (~Ran("pre", a, FALSE) \/ a.forcePost)
    BY DEF PostFollowsPre, Ran
  <2>1. Among(plan.snapshots, a)
    BY PlanType, RangeOf DEF IInv, TypeOK
  <2>2. ~Among(todo, Hooked(a))
    BY RangeOf DEF IInv, Left
  <2>3. (Ran("post", a, TRUE) \/ Ran("post", a, FALSE)) <=> (~Ran("pre", a, FALSE) \/ a.forcePost)
    BY <2>1, <2>2 DEF IInv, Paired, PairedOf
  <2>4. a.forcePost \in BOOLEAN
    <3>1. a \in SnapshotActions
      BY <2>1, PlanType DEF Among, IInv, TypeOK
    <3> QED BY <3>1 DEF SnapshotActions
  <2> QED BY <2>3, <2>4
<1> QED BY <1>1, InvAlways, PTL

-----------------------------------------------------------------------------
(* The worker keeps its promise *)

\* `failed` of the promise.
Failed == snapshotFailed \/ flawed

\* Every step of the worker is one of the promise's, or none.
LEMMA PromiseStep == IInv /\ [Next]_vars => [Promise!Next]_(Promise!vars)
<1> SUFFICES ASSUME IInv, [Next]_vars PROVE [Promise!Next]_(Promise!vars)
  OBVIOUS
<1>1. TypeOK /\ Left /\ SoundWork /\ Position
  BY DEF IInv
<1>2. /\ plan' = plan /\ plan \in Works
      /\ PlannedSnapshots' = PlannedSnapshots /\ PlannedPrunes' = PlannedPrunes
  BY <1>1, StepShrinks DEF Shrinks, TypeOK, PlannedSnapshots, PlannedPrunes
<1>3. Failed \in BOOLEAN /\ Failed' \in BOOLEAN
  BY <1>1, TypeStep DEF TypeOK, Failed
<1>4. ASSUME Stage = "snapshot", Stage' = Stage, gone' = gone,
             NEW c \in Seq(PlannedSnapshots), NEW ok \in BOOLEAN, Snapshot(c, ok),
             Failed' <=> (Failed \/ ~ok)
      PROVE  [Promise!Next]_(Promise!vars)
  <2>1. CASE ok
    <3>1. PICK more \in SUBSET PlannedSnapshots : made' = made \cup more
      BY <1>1, <1>4, SnapshotEffect
    <3> DEFINE batch == more \ made
    <3>2. batch \in SUBSET PlannedSnapshots /\ batch \subseteq PlannedSnapshots \ made
          /\ made' = made \cup batch
      BY <3>1
    <3>3. Failed' = Failed
      BY <1>3, <1>4, <2>1
    <3>4. Promise!Take(batch)
      BY <1>2, <1>4, <3>2, <3>3 DEF Promise!Take, Failed
    <3> QED BY <3>2, <3>4 DEF Promise!Next
  <2>2. CASE ~ok
    <3>1. made' = made
      BY <1>1, <1>4, <2>2, SnapshotEffect
    <3>2. Failed' = TRUE
      BY <1>3, <1>4, <2>2
    <3>3. Promise!Fail
      BY <1>2, <1>4, <3>1, <3>2 DEF Promise!Fail, Failed
    <3> QED BY <3>3 DEF Promise!Next
  <2> QED BY <2>1, <2>2
<1>5. ASSUME Stage = "snapshot", Stage' = Stage, made' = made, gone' = gone, Failed => Failed'
      PROVE  [Promise!Next]_(Promise!vars)
  <2>1. CASE Failed'
    <3>1. Promise!Fail
      BY <1>2, <1>3, <1>5, <2>1 DEF Promise!Fail, Failed
    <3> QED BY <3>1 DEF Promise!Next
  <2>2. CASE ~Failed'
    <3>1. Failed' = Failed
      BY <1>3, <1>5, <2>2
    <3> QED BY <1>2, <1>5, <3>1 DEF Promise!vars, Failed
  <2> QED BY <2>1, <2>2
<1>6. ASSUME Stage = "prune", Stage' = Stage, made' = made, Failed' = Failed,
             NEW c \in Seq(PlannedPrunes), NEW ok \in BOOLEAN, Destroy(c, ok)
      PROVE  [Promise!Next]_(Promise!vars)
  <2>1. PICK more \in SUBSET PlannedPrunes : gone' = gone \cup more
    BY <1>1, <1>6, DestroyEffect
  <2> DEFINE batch == more \ gone
  <2>2. batch \in SUBSET PlannedPrunes /\ batch \subseteq PlannedPrunes \ gone
        /\ gone' = gone \cup batch
    BY <2>1
  <2>3. Promise!Destroy(batch)
    BY <1>2, <1>6, <2>2 DEF Promise!Destroy, Failed
  <2> QED BY <2>2, <2>3 DEF Promise!Next
<1>7. CASE SnapshotBatch
  <2>1. Head(todo).targets \in Seq(PlannedSnapshots)
    BY <1>1, <1>2, <1>7, FirstSnapshot, SoundBatch DEF SnapshotBatch
  <2>2. PICK ok \in BOOLEAN : /\ Snapshot(Head(todo).targets, ok)
                              /\ snapshotFailed' = (snapshotFailed \/ ~ok)
    BY <1>7 DEF SnapshotBatch
  <2>3. at = "next" /\ UNCHANGED <<at, flawed, gone>>
    BY <1>7 DEF SnapshotBatch, hooked
  <2>4. Stage = "snapshot" /\ Stage' = Stage
    BY <2>3 DEF Stage
  <2>5. Failed' <=> (Failed \/ ~ok)
    BY <2>2, <2>3 DEF Failed
  <2> QED BY <1>4, <2>1, <2>2, <2>3, <2>4, <2>5
<1>8. CASE PreSnapshotHook
  <2>1. /\ at = "next" /\ at' \in {"names", "post"}
        /\ UNCHANGED <<made, gone, snapshotFailed>>
    BY <1>8 DEF PreSnapshotHook
  <2>2. Stage = "snapshot" /\ Stage' = Stage
    BY <2>1 DEF Stage
  <2>3. Failed => Failed'
    BY <1>1, <2>1 DEF Failed, Position
  <2> QED BY <1>5, <2>1, <2>2, <2>3
<1>9. CASE HookedSnapshot
  <2> DEFINE c == << <<Head(todo).action.ds, name>> >>
  <2>1. c \in Seq(PlannedSnapshots)
    BY <1>1, <1>9, FirstHooked DEF HookedSnapshot, Position
  <2>2. PICK ok \in BOOLEAN : Snapshot(c, ok) /\ flawed' = (flawed \/ ~ok)
    BY <1>9 DEF HookedSnapshot
  <2>3. at = "names" /\ at' \in {"names", "post"} /\ UNCHANGED <<snapshotFailed, gone>>
    BY <1>9 DEF HookedSnapshot
  <2>4. Stage = "snapshot" /\ Stage' = Stage
    BY <2>3 DEF Stage
  <2>5. Failed' <=> (Failed \/ ~ok)
    BY <2>2, <2>3 DEF Failed
  <2> HIDE DEF c
  <2> QED BY <1>4, <2>1, <2>2, <2>3, <2>4, <2>5
<1>10. CASE PostSnapshotHook
  <2>1. /\ at = "post" /\ at' = "next" /\ flawed' = FALSE
        /\ UNCHANGED <<made, gone>>
        /\ snapshotFailed \/ flawed => snapshotFailed'
    BY <1>10 DEF PostSnapshotHook
  <2>2. Stage = "snapshot" /\ Stage' = Stage
    BY <2>1 DEF Stage
  <2>3. Failed => Failed'
    BY <2>1 DEF Failed
  <2> QED BY <1>5, <2>1, <2>2, <2>3
<1>11. CASE DecidePrune
  <2>1. /\ at = "next" /\ UNCHANGED <<made, gone, snapshotFailed, flawed>>
        /\ ~flawed /\ at' = IF snapshotFailed THEN "done" ELSE "prune"
    BY <1>1, <1>11 DEF DecidePrune, Position
  <2>2. Stage = "snapshot" /\ Failed' = Failed /\ (Failed <=> snapshotFailed)
    BY <2>1 DEF Stage, Failed
  <2>3. CASE snapshotFailed
    <3>1. Promise!End
      BY <1>2, <2>1, <2>2, <2>3 DEF Promise!End, Failed, Stage
    <3> QED BY <3>1 DEF Promise!Next
  <2>4. CASE ~snapshotFailed
    <3>1. Promise!BeginPrune
      BY <1>2, <2>1, <2>2, <2>4 DEF Promise!BeginPrune, Failed, Stage
    <3> QED BY <3>1 DEF Promise!Next
  <2> QED BY <2>3, <2>4
<1>12. CASE PruneBatch
  <2>1. Head(dels).targets \in Seq(PlannedPrunes)
    BY <1>1, <1>12, FirstPrune DEF PruneBatch
  <2>2. PICK ok \in BOOLEAN : Destroy(Head(dels).targets, ok)
    BY <1>12 DEF PruneBatch
  <2>3. at = "prune" /\ UNCHANGED <<at, flawed, snapshotFailed, made>>
    BY <1>12 DEF PruneBatch, hooked
  <2>4. Stage = "prune" /\ Stage' = Stage /\ Failed' = Failed
    BY <2>3 DEF Stage, Failed
  <2> QED BY <1>6, <2>1, <2>2, <2>3, <2>4
<1>13. CASE HookedDestroy
  <2> DEFINE c == <<Head(dels).action.target>>
  <2>1. c \in Seq(PlannedPrunes)
    BY <1>1, <1>13, FirstPrune DEF HookedDestroy, Position
  <2>2. PICK ok \in BOOLEAN : Destroy(c, ok)
    BY <1>13 DEF HookedDestroy
  <2>3. /\ at = "destroy" /\ at' \in {"prune", "pruned"}
        /\ UNCHANGED <<flawed, snapshotFailed, made>>
    BY <1>13 DEF HookedDestroy
  <2>4. Stage = "prune" /\ Stage' = Stage /\ Failed' = Failed
    BY <2>3 DEF Stage, Failed
  <2> HIDE DEF c
  <2> QED BY <1>6, <2>1, <2>2, <2>3, <2>4
<1>14. CASE PrePruningHook \/ PruningHook
  <2>1. /\ at \in {"prune", "pruned"} /\ at' \in {"prune", "destroy"}
        /\ UNCHANGED <<flawed, snapshotFailed, made, gone>>
    BY <1>14 DEF PrePruningHook, PruningHook
  <2>2. Stage' = Stage /\ Failed' = Failed
    BY <2>1 DEF Stage, Failed
  <2> QED BY <1>2, <2>1, <2>2 DEF Promise!vars, Failed
<1>15. CASE EndPrunes
  <2>1. at = "prune" /\ at' = "done" /\ UNCHANGED <<flawed, snapshotFailed, made, gone>>
    BY <1>15 DEF EndPrunes
  <2>2. Stage = "prune" /\ Stage' = "done" /\ Failed' = Failed
    BY <2>1 DEF Stage, Failed
  <2>3. Promise!End
    BY <1>2, <2>1, <2>2 DEF Promise!End, Failed
  <2> QED BY <2>3 DEF Promise!Next
<1>16. CASE UNCHANGED vars
  <2>1. UNCHANGED <<at, flawed, snapshotFailed, made, gone>>
    BY <1>16 DEF vars, hooked
  <2>2. Stage' = Stage /\ Failed' = Failed
    BY <2>1 DEF Stage, Failed
  <2> QED BY <1>2, <2>1, <2>2 DEF Promise!vars, Failed
<1> QED
  BY <1>7, <1>8, <1>9, <1>10, <1>11, <1>12, <1>13, <1>14, <1>15, <1>16 DEF Next

\* README.md:139-140, whatever the plan: snapshots before prunes, and nothing is
\* destroyed once a snapshot or a snapshot hook of the pool has failed.
THEOREM PromiseKept == Spec => KeepsPromise
<1>1. Init => Promise!Init
  BY DEF Init, Promise!Init, Stage
<1> QED BY <1>1, PromiseStep, InvAlways, PTL DEF Spec, KeepsPromise, Promise!Spec

-----------------------------------------------------------------------------
(* Hooks as processes *)

\* A call is what run_hook has left of it, and the worker is inside one only where
\* its next step is one.
CallInv ==
  /\ HookOK
  /\ runner # "idle" => HookDue

\* Each step of a call of run_hook, and of its script, keeps the call's own
\* invariant.
LEMMA CallStep == HookOK /\ HookNext => HookOK'
<1> SUFFICES ASSUME HookOK, HookNext PROVE HookOK'
  OBVIOUS
<1> USE HookRunnerAssumption DEF HookOK, Returns
<1>1. CASE SpawnHook
  BY <1>1 DEF SpawnHook
<1>2. CASE SpawnHookFails
  BY <1>2 DEF SpawnHookFails
<1>3. CASE TryWait
  BY <1>3 DEF TryWait
<1>4. CASE TryWaitFails
  BY <1>4 DEF TryWaitFails
<1>5. CASE Deadline
  BY <1>5 DEF Deadline
<1>6. CASE NotYet
  BY <1>6 DEF NotYet
<1>7. CASE Wake
  BY <1>7 DEF Wake
<1>8. CASE Wait
  BY <1>8 DEF Wait
<1>9. CASE ScriptEnds
  BY <1>9 DEF ScriptEnds
<1>10. CASE Dies
  BY <1>10 DEF Dies
<1>11. CASE TimePasses
  BY <1>11 DEF TimePasses
<1> QED
  BY <1>1, <1>2, <1>3, <1>4, <1>5, <1>6, <1>7, <1>8, <1>9, <1>10, <1>11
     DEF HookNext, RunnerStep

\* A step that leaves the worker where it is leaves its next step what it is.
LEMMA DueKept == UNCHANGED vars => HookDue' = HookDue
BY DEF vars, hooked, history, HookDue, PostDue

\* Every step of the pool keeps the invariant.
LEMMA CallInvStep == CallInv /\ [HookedNext]_<<vars, hookVars>> => CallInv'
<1> SUFFICES ASSUME CallInv, [HookedNext]_<<vars, hookVars>> PROVE CallInv'
  OBVIOUS
<1> USE DEF CallInv
<1>1. CASE WorkerStep
  BY <1>1 DEF WorkerStep, hookVars, HookOK
<1>2. CASE RunHook
  BY <1>2, CallStep, DueKept DEF RunHook, HookNext
<1>3. CASE HookReturns
  <2>1. HookOK'
    BY <1>3 DEF HookReturns, HookOK
  <2> QED BY <2>1, <1>3 DEF HookReturns
<1>4. CASE Process
  <2>1. HookNext /\ UNCHANGED vars /\ runner' = runner
    BY <1>4 DEF Process, HookNext, ScriptEnds, Dies, TimePasses
  <2> QED BY <2>1, CallStep, DueKept
<1>5. CASE UNCHANGED <<vars, hookVars>>
  <2>1. UNCHANGED vars /\ UNCHANGED hookVars
    BY <1>5
  <2>2. HookOK'
    BY <2>1 DEF hookVars, HookOK
  <2> QED BY <2>1, <2>2, DueKept DEF hookVars
<1> QED
  BY <1>1, <1>2, <1>3, <1>4, <1>5 DEF HookedNext

\* The invariant holds in every state of a pool (execute_pool and run_hook
\* together).
LEMMA CallInvariant == HookedSpec => []CallInv
<1>1. HookedInit => CallInv
  BY HookRunnerAssumption DEF HookedInit, HookInit, CallInv, HookOK
<1> QED
  BY <1>1, CallInvStep, PTL DEF HookedSpec

\* A ZFS command and the next script start only when the last script's process
\* is dead and reaped, unless zsnap failed to wait for it (run_hook).
THEOREM NothingBesideAHook == HookedSpec => OneProcessAtATime
<1> DEFINE Busy == commands' # commands \/ gone' # gone \/ hooks' # hooks \/ SpawnHook
<1>1. CallInv /\ [HookedNext]_<<vars, hookVars>> => (Busy => child = "none")
  <2> SUFFICES ASSUME CallInv, [HookedNext]_<<vars, hookVars>>, Busy
               PROVE  child = "none"
    OBVIOUS
  <2> USE DEF CallInv, HookOK
  <2>1. CASE WorkerStep
    BY <2>1 DEF WorkerStep
  <2>2. CASE HookReturns
    BY <2>2 DEF HookReturns
  <2>3. CASE UNCHANGED vars
    BY <2>3 DEF vars, history, SpawnHook
  <2> QED
    BY <2>1, <2>2, <2>3 DEF HookedNext, RunHook, Process
<1>2. CallInv /\ [HookedNext]_<<vars, hookVars>> => [Busy => child = "none"]_<<vars, hookVars>>
  BY <1>1
<1> QED
  BY <1>2, CallInvariant, PTL DEF HookedSpec, OneProcessAtATime

\* Taken with its hooks as processes, the worker only takes steps it takes
\* without them: a call of run_hook is one of its hook steps.
LEMMA HooksRefineWorker == HookedSpec => Spec
<1>1. HookedInit => Init
  BY DEF HookedInit
<1>2. [HookedNext]_<<vars, hookVars>> => [Next]_vars
  BY DEF HookedNext, WorkerStep, RunHook, HookReturns, Process
<1> QED BY <1>1, <1>2, PTL DEF HookedSpec, Spec

\* All that is proved of the worker holds with the processes of its hooks
\* (execute_pool and run_hook together).
THEOREM WorkerWithHooks ==
  HookedSpec => /\ [](TypeOK /\ WellFormedCommands /\ SuccessIsComplete /\ PostFollowsPre)
                /\ KeepsPromise
BY HooksRefineWorker, PoolTypes, CommandsWellFormed, PlanCarriedOut, HooksPaired, PromiseKept,
   PTL
=============================================================================
