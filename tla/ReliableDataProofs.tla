--------------------------- MODULE ReliableDataProofs ---------------------------
(***************************************************************************)
(* Proofs about ReliableData, for any number of publications, resumes and  *)
(* any threshold: the task's buffered amount is exact, and the queues from *)
(* which packets are sent and sent again are sound.                        *)
(***************************************************************************)
EXTENDS ReliableData, FiniteSetTheorems, TLAPS

-----------------------------------------------------------------------------
(* Induction *)

\* A nonempty set of numbers has a least one: the intervals that end in them are
\* well-founded.
LEMMA LeastNumber ==
    ASSUME NEW S, S \subseteq Nat, S # {}
    PROVE  \E n \in S : \A m \in S : n <= m
<1> DEFINE T == {0..n : n \in S}
<1>1. T \subseteq FiniteSubsetsOf(Nat)
  <2>1. ASSUME NEW n \in S PROVE 0..n \in FiniteSubsetsOf(Nat)
    <3>1. n \in Int /\ 0 \in Int /\ 0..n \subseteq Nat
      OBVIOUS
    <3>2. IsFiniteSet(0..n)
      BY <3>1, FS_Interval
    <3> QED
      BY <3>1, <3>2 DEF FiniteSubsetsOf
  <2> QED
    BY <2>1
<1>2. T # {}
  OBVIOUS
<1> HIDE DEF T
<1>3. \E x \in T : \A y \in T : <<y, x>> \notin StrictSubsetOrdering(Nat)
  BY <1>1, <1>2, WFMin, FS_StrictSubsetOrderingWellFounded
<1> USE DEF T
<1>4. PICK n \in S : \A m \in S : <<0..m, 0..n>> \notin StrictSubsetOrdering(Nat)
  BY <1>3
<1>5. ASSUME NEW m \in S, m < n PROVE FALSE
  <2>1. <<0..m, 0..n>> \in (SUBSET Nat) \X (SUBSET Nat) /\ 0..m \subseteq 0..n
    BY <1>5
  <2>2. n \in 0..n /\ n \notin 0..m
    BY <1>5
  <2> QED
    BY <1>4, <2>1, <2>2 DEF StrictSubsetOrdering
<1> QED
  BY <1>5

\* Induction over the numbers, for a set of them.
LEMMA Induction ==
    ASSUME NEW S, S \subseteq Nat, 0 \in S, \A n \in S : n + 1 \in S
    PROVE  S = Nat
<1> SUFFICES ASSUME Nat \ S # {} PROVE FALSE
  OBVIOUS
<1>1. PICK n \in Nat \ S : \A m \in Nat \ S : n <= m
  BY LeastNumber
<1>2. n # 0 /\ n - 1 \in S
  BY <1>1
<1> QED
  BY <1>1, <1>2

\* The partial sums of a sequence of numbers exist.
LEMMA PartialSums ==
    ASSUME NEW N \in Nat, NEW a \in [1..N -> Nat]
    PROVE  \E f \in [0..N -> Nat] :
              f[0] = 0 /\ \A i \in 1..N : f[i] = f[i - 1] + a[i]
<1> DEFINE Computes(f, n) == /\ f \in [0..n -> Nat]
                             /\ f[0] = 0 /\ \A i \in 1..n : f[i] = f[i - 1] + a[i]
           S == {n \in Nat : n <= N => \E f : Computes(f, n)}
<1>1. 0 \in S
  <2>1. Computes([i \in 0..0 |-> 0], 0)
    OBVIOUS
  <2> QED
    BY <2>1
<1>2. ASSUME NEW n \in Nat, n + 1 <= N, NEW f, Computes(f, n)
      PROVE  \E g : Computes(g, n + 1)
  <2> DEFINE g == [i \in 0..(n + 1) |-> IF i = n + 1 THEN f[n] + a[n + 1] ELSE f[i]]
  <2>2. f[n] + a[n + 1] \in Nat
    BY <1>2
  <2>3. g \in [0..(n + 1) -> Nat]
    BY <1>2, <2>2
  <2>4. g[0] = 0
    BY <1>2
  <2>5. ASSUME NEW i \in 1..(n + 1) PROVE g[i] = g[i - 1] + a[i]
    <3>1. CASE i = n + 1
      BY <1>2, <3>1
    <3>2. CASE i \in 1..n
      BY <1>2, <3>2
    <3> QED
      BY <1>2, <3>1, <3>2
  <2> HIDE DEF g
  <2> QED
    BY <2>3, <2>4, <2>5
<1> HIDE DEF Computes
<1>3. ASSUME NEW n \in S PROVE n + 1 \in S
  BY <1>2
<1>4. S = Nat
  BY <1>1, <1>3, Induction
<1>5. N \in S
  <2> HIDE DEF S
  <2> QED
    BY <1>4
<1>6. \E f : Computes(f, N)
  BY <1>5
<1> QED
  BY <1>6 DEF Computes

-----------------------------------------------------------------------------
(* The sum of the reported amounts *)

LEMMA SentType == ASSUME NEW e \in Events, NEW k \in Kinds PROVE Sent(e, k) \in Nat
BY DEF Sent, Events, Changes

\* SumOf is the last of the partial sums, whoever computes them.
LEMMA SumUnfolds ==
    ASSUME NEW log \in Seq(Events), NEW k \in Kinds
    PROVE  \E sum \in [0..Len(log) -> Nat] :
              /\ sum[0] = 0
              /\ \A i \in 1..Len(log) : sum[i] = sum[i - 1] + Sent(log[i], k)
              /\ SumOf(log, k) = sum[Len(log)]
<1> DEFINE N == Len(log)
           sent == [i \in 1..N |-> Sent(log[i], k)]
           Body(f) == [i \in 0..N |-> IF i = 0 THEN 0 ELSE f[i - 1] + Sent(log[i], k)]
<1>1. N \in Nat /\ \A i \in 1..N : Sent(log[i], k) \in Nat
  BY SentType
<1>2. sent \in [1..N -> Nat] /\ \A i \in 1..N : sent[i] = Sent(log[i], k)
  BY <1>1
<1>3. PICK f \in [0..N -> Nat] :
          f[0] = 0 /\ \A i \in 1..N : f[i] = f[i - 1] + Sent(log[i], k)
  <2> HIDE DEF sent, N
  <2>1. PICK f \in [0..N -> Nat] : f[0] = 0 /\ \A i \in 1..N : f[i] = f[i - 1] + sent[i]
    BY <1>1, <1>2, PartialSums
  <2> QED
    BY <1>2, <2>1
<1>4. f = Body(f)
  <2>1. ASSUME NEW i \in 0..N PROVE f[i] = Body(f)[i]
    <3>1. CASE i = 0
      BY <1>3, <3>1
    <3>2. CASE i \in 1..N
      <4>1. i - 1 \in 0..N /\ i # 0
        BY <1>1, <3>2
      <4>2. f[i - 1] \in Nat
        BY <1>3, <4>1
      <4> QED
        BY <1>3, <3>2, <4>1, <4>2
    <3> QED
      BY <1>1, <3>1, <3>2
  <2> QED
    BY <1>3, <2>1
<1> DEFINE g == CHOOSE sum : sum = Body(sum)
<1>5. g = Body(g)
  BY <1>4
<1>6. SumOf(log, k) = g[N]
  BY DEF SumOf
<1> HIDE DEF g
<1>7. g[0] = 0 /\ \A i \in 1..N : g[i] = g[i - 1] + Sent(log[i], k)
  BY <1>1, <1>5
<1>8. g \in [0..N -> Nat]
  <2> DEFINE S == {n \in Nat : n <= N => g[n] \in Nat}
  <2>1. 0 \in S
    BY <1>7
  <2>2. ASSUME NEW n \in S PROVE n + 1 \in S
    BY <1>1, <1>7, <2>2
  <2>3. S = Nat
    BY <2>1, <2>2, Induction
  <2>4. \A i \in 0..N : g[i] \in Nat
    BY <1>1, <2>3
  <2>5. DOMAIN g = 0..N /\ g = [i \in 0..N |-> g[i]]
    BY <1>5
  <2> QED
    BY <2>4, <2>5
<1> QED
  BY <1>6, <1>7, <1>8

LEMMA SumIs ==
    ASSUME NEW log \in Seq(Events), NEW k \in Kinds, NEW g \in [0..Len(log) -> Int],
           g[0] = 0,
           \A i \in 1..Len(log) : g[i] = g[i - 1] + Sent(log[i], k)
    PROVE  SumOf(log, k) = g[Len(log)]
<1> DEFINE N == Len(log)
<1>1. PICK sum \in [0..N -> Nat] :
          /\ sum[0] = 0
          /\ \A i \in 1..N : sum[i] = sum[i - 1] + Sent(log[i], k)
          /\ SumOf(log, k) = sum[N]
  BY SumUnfolds
<1> DEFINE S == {n \in Nat : n <= N => sum[n] = g[n]}
<1>2. N \in Nat
  OBVIOUS
<1>3. 0 \in S
  BY <1>1
<1>4. ASSUME NEW n \in S PROVE n + 1 \in S
  BY <1>1, <1>2, <1>4
<1>5. S = Nat
  BY <1>3, <1>4, Induction
<1> QED
  BY <1>1, <1>2, <1>5

LEMMA SumType ==
    ASSUME NEW log \in Seq(Events), NEW k \in Kinds PROVE SumOf(log, k) \in Nat
<1>1. PICK sum \in [0..Len(log) -> Nat] : SumOf(log, k) = sum[Len(log)]
  BY SumUnfolds
<1> QED
  BY <1>1

LEMMA SumAppend ==
    ASSUME NEW log \in Seq(Events), NEW e \in Events, NEW k \in Kinds
    PROVE  SumOf(Append(log, e), k) = SumOf(log, k) + Sent(e, k)
<1> DEFINE N == Len(log)
           more == Append(log, e)
<1>1. PICK sum \in [0..N -> Nat] :
          /\ sum[0] = 0
          /\ \A i \in 1..N : sum[i] = sum[i - 1] + Sent(log[i], k)
          /\ SumOf(log, k) = sum[N]
  BY SumUnfolds
<1> DEFINE g == [i \in 0..(N + 1) |-> IF i = N + 1 THEN sum[N] + Sent(e, k) ELSE sum[i]]
<1>2. N \in Nat /\ more \in Seq(Events) /\ Len(more) = N + 1 /\ Sent(e, k) \in Nat
  BY SentType
<1>3. g \in [0..(N + 1) -> Int] /\ g[0] = 0
  BY <1>1, <1>2
<1>4. ASSUME NEW i \in 1..(N + 1) PROVE g[i] = g[i - 1] + Sent(more[i], k)
  <2>1. CASE i = N + 1
    BY <1>2, <2>1
  <2>2. CASE i \in 1..N
    <3>1. more[i] = log[i]
      BY <2>2
    <3> QED
      BY <1>1, <1>2, <2>2, <3>1
  <2> QED
    BY <1>2, <2>1, <2>2
<1>5. g[N + 1] = sum[N] + Sent(e, k)
  BY <1>2
<1> HIDE DEF g, more
<1>6. SumOf(more, k) = g[N + 1]
  BY <1>2, <1>3, <1>4, SumIs
<1> QED
  BY <1>1, <1>5, <1>6 DEF more

LEMMA SumTail ==
    ASSUME NEW log \in Seq(Events), log # <<>>, NEW k \in Kinds
    PROVE  SumOf(log, k) = Sent(Head(log), k) + SumOf(Tail(log), k)
<1> DEFINE N == Len(log)
           rest == Tail(log)
<1>1. PICK sum \in [0..N -> Nat] :
          /\ sum[0] = 0
          /\ \A i \in 1..N : sum[i] = sum[i - 1] + Sent(log[i], k)
          /\ SumOf(log, k) = sum[N]
  BY SumUnfolds
<1> DEFINE first == Sent(Head(log), k)
           g == [i \in 0..(N - 1) |-> sum[i + 1] - first]
<1>2. N \in Nat /\ N > 0 /\ rest \in Seq(Events) /\ Len(rest) = N - 1 /\ Head(log) = log[1]
  OBVIOUS
<1>3. first \in Nat
  BY SentType, <1>2
<1>4. g \in [0..(N - 1) -> Int] /\ g[0] = 0
  BY <1>1, <1>2, <1>3
<1>5. ASSUME NEW i \in 1..(N - 1) PROVE g[i] = g[i - 1] + Sent(rest[i], k)
  <2>1. rest[i] = log[i + 1]
    BY <1>2
  <2>2. sum[i + 1] = sum[i] + Sent(rest[i], k)
    BY <1>1, <1>2, <2>1
  <2>3. g[i] = sum[i + 1] - first /\ g[i - 1] = sum[i] - first
    BY <1>2
  <2>4. sum[i] \in Nat /\ sum[i + 1] \in Nat
    BY <1>1, <1>2
  <2>5. Sent(rest[i], k) \in Nat
    BY <1>2, SentType
  <2> QED
    BY <1>3, <2>2, <2>3, <2>4, <2>5
<1>6. g[N - 1] = sum[N] - first
  BY <1>2
<1>7. sum[N] \in Nat
  BY <1>1, <1>2
<1> HIDE DEF g, rest, first
<1>8. SumOf(rest, k) = g[N - 1]
  BY <1>2, <1>4, <1>5, SumIs
<1> QED
  BY <1>1, <1>3, <1>6, <1>7, <1>8 DEF rest, first

\* Events that report nothing add nothing.
LEMMA SumConcat ==
    ASSUME NEW log \in Seq(Events), NEW other \in Seq(Events), NEW k \in Kinds,
           \A i \in 1..Len(other) : Sent(other[i], k) = 0
    PROVE  SumOf(log \o other, k) = SumOf(log, k)
<1> DEFINE N == Len(log)
           M == Len(other)
           all == log \o other
<1>1. PICK sum \in [0..N -> Nat] :
          /\ sum[0] = 0
          /\ \A i \in 1..N : sum[i] = sum[i - 1] + Sent(log[i], k)
          /\ SumOf(log, k) = sum[N]
  BY SumUnfolds
<1> DEFINE g == [i \in 0..(N + M) |-> IF i <= N THEN sum[i] ELSE sum[N]]
<1>2. N \in Nat /\ M \in Nat /\ all \in Seq(Events) /\ Len(all) = N + M
  OBVIOUS
<1>3. g \in [0..(N + M) -> Int] /\ g[0] = 0
  BY <1>1, <1>2
<1>4. ASSUME NEW i \in 1..(N + M) PROVE g[i] = g[i - 1] + Sent(all[i], k)
  <2>1. CASE i \in 1..N
    <3>1. all[i] = log[i]
      BY <2>1
    <3> QED
      BY <1>1, <1>2, <2>1, <3>1
  <2>2. CASE i > N
    <3>1. all[i] = other[i - N] /\ i - N \in 1..M
      BY <1>2, <2>2
    <3>2. Sent(all[i], k) = 0
      BY <3>1
    <3>3. sum[N] \in Nat
      BY <1>1, <1>2
    <3>4. i \in 0..(N + M) /\ i - 1 \in 0..(N + M) /\ ~(i <= N)
      BY <1>2, <2>2
    <3>5. g[i] = sum[N]
      BY <3>4
    <3>6. i - 1 <= N => i - 1 = N
      BY <1>2, <2>2
    <3>7. g[i - 1] = sum[N]
      BY <3>4, <3>6
    <3> QED
      BY <3>2, <3>3, <3>5, <3>7
  <2> QED
    BY <1>2, <2>1, <2>2
<1>5. g[N + M] = sum[N]
  <2>1. N + M \in 0..(N + M) /\ (N + M <= N => N + M = N)
    BY <1>2
  <2> QED
    BY <2>1
<1> HIDE DEF g, all
<1>6. SumOf(all, k) = g[N + M]
  BY <1>2, <1>3, <1>4, SumIs
<1> QED
  BY <1>1, <1>5, <1>6 DEF all

LEMMA SumEmpty == ASSUME NEW k \in Kinds PROVE SumOf(<<>>, k) = 0
<1>1. <<>> \in Seq(Events) /\ Len(<<>>) = 0
  OBVIOUS
<1>2. PICK sum \in [0..0 -> Nat] : sum[0] = 0 /\ SumOf(<<>>, k) = sum[0]
  BY <1>1, SumUnfolds
<1> QED
  BY <1>2

-----------------------------------------------------------------------------
(* The packets of a queue that are queued again *)

\* Missing is the last of the sequences its loop builds.
LEMMA MissingUnfolds ==
    ASSUME NEW q \in Packets, NEW last \in Nat
    PROVE  \E missing \in [0..Len(q) -> Packets] :
              /\ missing[0] = <<>>
              /\ \A i \in 1..Len(q) :
                    missing[i] = IF sequence[q[i]] > last THEN Append(missing[i - 1], q[i])
                                 ELSE missing[i - 1]
              /\ Missing(q, last) = missing[Len(q)]
<1> DEFINE N == Len(q)
           Next1(m, i) == IF sequence[q[i]] > last THEN Append(m, q[i]) ELSE m
           Body(f) == [i \in 0..N |-> IF i = 0 THEN <<>>
                                      ELSE IF sequence[q[i]] > last THEN Append(f[i - 1], q[i])
                                      ELSE f[i - 1]]
           Computes(f, n) == /\ f \in [0..n -> Packets]
                             /\ f[0] = <<>> /\ \A i \in 1..n : f[i] = Next1(f[i - 1], i)
           S == {n \in Nat : n <= N => \E f : Computes(f, n)}
<1>1. N \in Nat /\ \A i \in 1..N : q[i] \in Publications
  BY DEF Packets
<1>2. ASSUME NEW m \in Packets, NEW i \in 1..N PROVE Next1(m, i) \in Packets
  BY <1>1 DEF Packets
<1>3. 0 \in S
  <2>1. <<>> \in Packets
    BY DEF Packets
  <2>2. Computes([i \in 0..0 |-> <<>>], 0)
    BY <2>1
  <2> QED
    BY <2>2
<1>4. ASSUME NEW n \in Nat, n + 1 <= N, NEW f, Computes(f, n)
      PROVE  \E g : Computes(g, n + 1)
  <2> DEFINE g == [i \in 0..(n + 1) |-> IF i = n + 1 THEN Next1(f[n], n + 1) ELSE f[i]]
  <2>1. n + 1 \in 1..N /\ f[n] \in Packets
    BY <1>1, <1>4
  <2>2. Next1(f[n], n + 1) \in Packets
    BY <1>2, <2>1
  <2> HIDE DEF Next1
  <2>3. g \in [0..(n + 1) -> Packets]
    BY <1>4, <2>2
  <2>4. g[0] = <<>>
    BY <1>4
  <2>5. ASSUME NEW i \in 1..(n + 1) PROVE g[i] = Next1(g[i - 1], i)
    <3>1. CASE i = n + 1
      BY <1>4, <3>1
    <3>2. CASE i \in 1..n
      BY <1>4, <3>2
    <3> QED
      BY <1>4, <3>1, <3>2
  <2> HIDE DEF g
  <2>6. Computes(g, n + 1)
    BY <2>3, <2>4, <2>5
  <2> QED
    BY <2>6
<1> HIDE DEF Computes
<1>5. ASSUME NEW n \in S PROVE n + 1 \in S
  BY <1>4
<1>6. S = Nat
  BY <1>3, <1>5, Induction
<1>7. N \in S
  <2> HIDE DEF S
  <2> QED
    BY <1>1, <1>6
<1>8. \E f : Computes(f, N)
  BY <1>7
<1> USE DEF Computes
<1>9. PICK f \in [0..N -> Packets] : f[0] = <<>> /\ \A i \in 1..N : f[i] = Next1(f[i - 1], i)
  BY <1>8
<1>10. f = Body(f)
  <2>1. ASSUME NEW i \in 0..N PROVE f[i] = Body(f)[i]
    <3>1. i = 0 \/ (i \in 1..N /\ i # 0)
      BY <1>1
    <3> QED
      BY <1>9, <3>1
  <2> QED
    BY <1>9, <2>1
<1> DEFINE g == CHOOSE missing : missing = Body(missing)
<1>11. g = Body(g)
  BY <1>10
<1>12. Missing(q, last) = g[N]
  BY DEF Missing
<1> HIDE DEF g
<1>13. g[0] = <<>> /\ \A i \in 1..N : g[i] = Next1(g[i - 1], i)
  <2>1. \A i \in 0..N : g[i] = Body(g)[i]
    BY <1>11
  <2>2. 0 \in 0..N /\ \A i \in 1..N : i \in 0..N /\ i # 0
    BY <1>1
  <2> QED
    BY <2>1, <2>2
<1>14. g \in [0..N -> Packets]
  <2> DEFINE T == {n \in Nat : n <= N => g[n] \in Packets}
  <2>1. 0 \in T
    <3>1. <<>> \in Packets
      BY DEF Packets
    <3> QED
      BY <1>13, <3>1
  <2>2. ASSUME NEW n \in T PROVE n + 1 \in T
    <3> SUFFICES ASSUME n + 1 <= N PROVE g[n + 1] \in Packets
      OBVIOUS
    <3>1. n + 1 \in 1..N /\ g[n] \in Packets /\ n + 1 - 1 = n
      BY <1>1, <2>2
    <3>2. g[n + 1] = Next1(g[n], n + 1)
      BY <1>13, <3>1
    <3> QED
      BY <1>2, <3>1, <3>2
  <2>3. T = Nat
    BY <2>1, <2>2, Induction
  <2>4. \A i \in 0..N : g[i] \in Packets
    BY <1>1, <2>3
  <2>5. DOMAIN g = 0..N /\ g = [i \in 0..N |-> g[i]]
    BY <1>11
  <2> QED
    BY <2>4, <2>5
<1> QED
  BY <1>12, <1>13, <1>14

\* They are packets of the queue that come after the sequence, each once when
\* the queue holds it once.
LEMMA MissingIs ==
    ASSUME NEW q \in Packets, NEW last \in Nat
    PROVE  LET again == Missing(q, last) IN
           /\ again \in Packets
           /\ \A i \in DOMAIN again :
                 \E j \in DOMAIN q : again[i] = q[j] /\ sequence[q[j]] > last
           /\ (\A a, b \in DOMAIN q : q[a] = q[b] => a = b) =>
                 \A a, b \in DOMAIN again : again[a] = again[b] => a = b
<1> DEFINE N == Len(q)
<1>1. PICK missing \in [0..N -> Packets] :
          /\ missing[0] = <<>>
          /\ \A i \in 1..N :
                missing[i] = IF sequence[q[i]] > last THEN Append(missing[i - 1], q[i])
                             ELSE missing[i - 1]
          /\ Missing(q, last) = missing[N]
  BY MissingUnfolds
<1> DEFINE Of(m, n) == \A i \in 1..Len(m) :
                          \E j \in 1..n : m[i] = q[j] /\ sequence[q[j]] > last
           Once(m, n) == \A a, b \in 1..Len(m) : m[a] = m[b] => a = b
           QueueOnce == \A a, b \in 1..N : q[a] = q[b] => a = b
           Good(n) == Of(missing[n], n) /\ (QueueOnce => Once(missing[n], n))
           S == {n \in Nat : n <= N => Good(n)}
<1>2. N \in Nat /\ \A i \in 1..N : q[i] \in Publications
  BY DEF Packets
<1>3. 0 \in S
  BY <1>1
<1>4. ASSUME NEW n \in Nat, n + 1 <= N, Good(n) PROVE Good(n + 1)
  <2> DEFINE m == missing[n]
  <2>1. n \in 0..N /\ n + 1 \in 1..N /\ n + 1 - 1 = n
    BY <1>2, <1>4
  <2>2. m \in Packets
    BY <1>1, <2>1
  <2>3. missing[n + 1] = IF sequence[q[n + 1]] > last THEN Append(m, q[n + 1]) ELSE m
    BY <1>1, <2>1
  <2>4. CASE ~(sequence[q[n + 1]] > last)
    <3>1. missing[n + 1] = m
      BY <2>3, <2>4
    <3>2. 1..n \subseteq 1..(n + 1)
      BY <1>4
    <3> HIDE DEF m
    <3> QED
      BY <1>4, <3>1, <3>2 DEF m
  <2>5. CASE sequence[q[n + 1]] > last
    <3> DEFINE x == Append(m, q[n + 1])
    <3>1. missing[n + 1] = x
      BY <2>3, <2>5
    <3>2. Len(m) \in Nat /\ Len(x) = Len(m) + 1 /\ x[Len(m) + 1] = q[n + 1]
          /\ \A i \in 1..Len(m) : x[i] = m[i]
      BY <1>2, <2>1, <2>2 DEF Packets
    <3> HIDE DEF m, x
    <3>3. Of(m, n)
      BY <1>4 DEF m
    <3>4. Of(x, n + 1)
      BY <1>4, <2>5, <3>2, <3>3
    <3>5. ASSUME QueueOnce PROVE Once(x, n + 1)
      <4>1. Once(m, n)
        BY <1>4, <3>5 DEF m
      <4>2. ASSUME NEW i \in 1..Len(m) PROVE m[i] # q[n + 1]
        BY <1>4, <3>3, <3>5, <2>1
      <4> QED
        BY <3>2, <4>1, <4>2
    <3> QED
      BY <3>1, <3>4, <3>5
  <2> QED
    BY <2>4, <2>5
<1> HIDE DEF Good
<1>5. ASSUME NEW n \in S PROVE n + 1 \in S
  BY <1>2, <1>4
<1>6. S = Nat
  BY <1>3, <1>5, Induction
<1>7. N \in S
  <2> HIDE DEF S
  <2> QED
    BY <1>2, <1>6
<1>8. Good(N)
  BY <1>2, <1>7
<1>9. missing[N] \in Packets
  BY <1>1, <1>2
<1>10. DOMAIN q = 1..N /\ DOMAIN missing[N] = 1..Len(missing[N])
  BY <1>9 DEF Packets
<1> QED
  BY <1>1, <1>8, <1>9, <1>10 DEF Good

-----------------------------------------------------------------------------
(* Operators of the model *)

LEMMA MaxSeqType == MaxSeq \in Nat
BY PublicationsAssumption, FS_CardinalityType DEF MaxSeq

\* Sendable takes as many packets of the queue as bring the amount past the
\* threshold, and no more.
LEMMA SendableIs ==
    ASSUME NEW q \in Packets, NEW buffered \in Nat
    PROVE  /\ Sendable(q, buffered) \in 0..Len(q)
           /\ Sendable(q, buffered) = 0 \/ buffered + Sendable(q, buffered) <= Threshold + 1
<1> DEFINE n == IF buffered > Threshold THEN 0
                ELSE IF Len(q) <= Threshold + 1 - buffered THEN Len(q)
                ELSE Threshold + 1 - buffered
<1>1. Len(q) \in Nat /\ DOMAIN q = 1..Len(q) /\ Threshold \in Nat
  BY BoundsAssumption DEF Packets
<1>2. n \in Nat /\ n <= Len(q) /\ (n = 0 \/ buffered + n <= Threshold + 1)
  BY <1>1
<1>3. {i \in DOMAIN q : buffered + (i - 1) <= Threshold} = 1..n
  BY <1>1
<1> HIDE DEF n
<1>4. Cardinality(1..n) = n
  <2>1. 1 \in Int /\ n \in Int /\ (1 > n => n = 0) /\ n - 1 + 1 = n
    BY <1>2
  <2> QED
    BY <2>1, FS_Interval
<1>5. Sendable(q, buffered) = n
  BY <1>3, <1>4 DEF Sendable
<1> QED
  BY <1>1, <1>2, <1>5

\* The server names the sequence of a packet it has, or 0.
LEMMA HighestType ==
    ASSUME NEW log \in Packets, sequence \in [Publications -> 0..MaxSeq]
    PROVE  Highest(log) \in 0..MaxSeq
<1> DEFINE Above == {n \in 0..MaxSeq : \A p \in ToSet(log) : sequence[p] <= n}
<1>1. \A p \in ToSet(log) : p \in Publications /\ sequence[p] \in 0..MaxSeq
  BY DEF ToSet, Packets
<1>2. MaxSeq \in Above /\ Above \subseteq Nat
  BY <1>1, MaxSeqType
<1>3. PICK n \in Above : \A m \in Above : n <= m
  BY <1>2, LeastNumber
<1>4. n = 0 \/ \E p \in ToSet(log) : sequence[p] = n
  <2> SUFFICES ASSUME n # 0, \A p \in ToSet(log) : sequence[p] # n PROVE FALSE
    OBVIOUS
  <2>1. n - 1 \in 0..MaxSeq
    BY <1>3, MaxSeqType
  <2>2. \A p \in ToSet(log) : sequence[p] <= n - 1
    BY <1>1, <1>3
  <2>3. n - 1 \in Above
    BY <2>1, <2>2
  <2> QED
    BY <1>3, <2>3
<1>5. \E m \in 0..MaxSeq : /\ \A p \in ToSet(log) : sequence[p] <= m
                           /\ m = 0 \/ \E p \in ToSet(log) : sequence[p] = m
  BY <1>3, <1>4
<1> QED
  BY <1>5 DEF Highest

LEMMA EventTypes ==
    /\ \A p \in Publications : PublishPacket(p) \in Events /\ PublishData(p) \in Events
    /\ \A k \in Kinds, n \in Nat : BufferedAmountChange(k, n) \in Changes
    /\ Changes \subseteq Events
    /\ \A n \in 0..MaxSeq : RetryFrom(n) \in Events
    /\ \A e \in Events : /\ e.type \in {"PublishPacket", "PublishData"} => e.packet \in Publications
                         /\ e.type = "PublishPacket" => e = PublishPacket(e.packet)
                         /\ e.type = "PublishData" => e = PublishData(e.packet)
                         /\ e.type = "BufferedAmountChange" => e.kind \in Kinds /\ e.sent \in Nat
                         /\ e.type = "RetryFrom" => e.last \in 0..MaxSeq
BY DEF Events, Changes, PublishPacket, PublishData, BufferedAmountChange, RetryFrom

LEMMA KindType == \A p \in Publications : KindOf(p) \in Kinds
BY DEF KindOf, Kinds

\* What SendUntilThreshold does to the variables it changes.
LEMMA SendTypes ==
    ASSUME TypeOK, NEW k \in Kinds, NEW q \in Packets, NEW buffered \in Nat,
           k = "reliable" => \A i \in DOMAIN q : q[i] \in Reliable,
           SendUntilThreshold(k, q, buffered)
    PROVE  /\ amount' \in [Kinds -> Nat] /\ request_queue' \in [Kinds -> Packets]
           /\ dc_buffer' \in [Kinds -> Packets]
           /\ result' \in [Publications -> {"none", "waiting", "ok", "err"}]
           /\ handed' \subseteq Reliable
           /\ Retained(k, q, buffered) \in Packets
<1> DEFINE n == Sendable(q, buffered)
           out == SubSeq(q, 1, n)
<1>1. n \in 0..Len(q) /\ Len(q) \in Nat
  BY SendableIs DEF Packets
<1>2. out \in Packets /\ SubSeq(q, n + 1, Len(q)) \in Packets
  BY <1>1 DEF Packets
<1>3. \A p \in ToSet(out) : \E i \in DOMAIN q : p = q[i]
  BY <1>1 DEF ToSet, Packets
<1> HIDE DEF n
<1>4. retry_queue \o out \in Packets /\ retry_queue \in Packets
      /\ dc_buffer[k] \o out \in Packets
  BY <1>2, SMTT(20) DEF TypeOK, Packets
<1> HIDE DEF out
<1>5. amount' \in [Kinds -> Nat] /\ request_queue' \in [Kinds -> Packets]
  <2>1. amount \in [Kinds -> Nat] /\ request_queue \in [Kinds -> Packets]
    BY DEF TypeOK
  <2>2. buffered + n \in Nat
    BY <1>1
  <2>3. amount' = [amount EXCEPT ![k] = buffered + n]
        /\ request_queue' = [request_queue EXCEPT ![k] = SubSeq(q, n + 1, Len(q))]
    BY DEF SendUntilThreshold, n
  <2> QED
    BY <1>2, <2>1, <2>2, <2>3
<1>6. dc_buffer' \in [Kinds -> Packets]
  BY <1>4 DEF TypeOK, SendUntilThreshold, n, out
<1>7. result' \in [Publications -> {"none", "waiting", "ok", "err"}]
  BY DEF TypeOK, SendUntilThreshold, n, out
<1>8. handed' \subseteq Reliable
  BY <1>3, SMTT(20) DEF TypeOK, SendUntilThreshold, n, out
<1>9. Retained(k, q, buffered) \in Packets
  BY <1>4 DEF Retained, n, out
<1> QED
  BY <1>5, <1>6, <1>7, <1>8, <1>9

LEMMA TrimType == ASSUME NEW q \in Packets, NEW n \in Nat PROVE Trim(q, n) \in Packets
BY DEF Trim, Packets

\* The events of a retry.
LEMMA RetryType ==
    ASSUME NEW again \in Packets
    PROVE  /\ [i \in DOMAIN again |-> PublishData(again[i])] \in Seq(Events)
           /\ Len([i \in DOMAIN again |-> PublishData(again[i])]) = Len(again)
<1>1. Len(again) \in Nat /\ DOMAIN again = 1..Len(again)
      /\ \A i \in 1..Len(again) : PublishData(again[i]) \in Events
  BY EventTypes DEF Packets
<1> HIDE DEF Packets
<1> DEFINE r == [i \in 1..Len(again) |-> PublishData(again[i])]
<1>2. r \in [1..Len(again) -> Events]
  BY <1>1
<1> HIDE DEF r
<1>3. r \in Seq(Events) /\ Len(r) = Len(again)
  BY <1>1, <1>2
<1> QED
  BY <1>1, <1>3 DEF r

-----------------------------------------------------------------------------
(* The inductive invariant *)

Sequenced == {p \in Reliable : sequence[p] > 0}

\* The sequence numbers are 1 to next_sequence - 1, one packet each; a packet
\* that waits for its number has none, and waits once.
NumberedOnce ==
    /\ next_sequence = Cardinality(Sequenced) + 1
    /\ \A p \in Sequenced : sequence[p] < next_sequence
    /\ \A p, q \in Sequenced : sequence[p] = sequence[q] => p = q
    /\ \A n \in 1..(next_sequence - 1) : \E p \in Sequenced : sequence[p] = n
    /\ \A p \in Publications : result[p] = "none" => sequence[p] = 0
    /\ \A i \in DOMAIN events : events[i].type = "PublishPacket" =>
          result[events[i].packet] # "none" /\ sequence[events[i].packet] = 0
    /\ \A i, j \in DOMAIN events :
          events[i].type = "PublishPacket" /\ events[i] = events[j] => i = j

\* A set of packets has no gap when it holds, with a packet, all the earlier ones.
Earlier(seq, h) ==
    /\ \A p \in h : p \in Reliable /\ seq[p] > 0
    /\ \A p \in h, q \in Reliable : 0 < seq[q] /\ seq[q] < seq[p] => q \in h

Unsent(seq, h) == {p \in Reliable : seq[p] > 0 /\ p \notin h}

\* The packets of the retry queue were sent.
RetriesWereSent(r, h) == \A i \in DOMAIN r : r[i] \in h

\* What waits in the request queue or as an event has its number.
WaitingAreNumbered(seq, q, e) ==
    /\ \A i \in DOMAIN q : q[i] \in Reliable /\ seq[q[i]] > 0
    /\ \A i \in DOMAIN e, p \in Reliable : e[i] = PublishData(p) => seq[p] > 0

\* A packet has one place.
OnePlace(r, q, e) ==
    /\ \A i, j \in DOMAIN r : r[i] = r[j] => i = j
    /\ \A i, j \in DOMAIN q : q[i] = q[j] => i = j
    /\ \A i, j \in DOMAIN e, p \in Reliable :
          e[i] = PublishData(p) /\ e[j] = PublishData(p) => i = j
    /\ \A i \in DOMAIN r, j \in DOMAIN q : r[i] # q[j]
    /\ \A i \in DOMAIN e, j \in DOMAIN r : e[i] # PublishData(r[j])
    /\ \A i \in DOMAIN e, j \in DOMAIN q : e[i] # PublishData(q[j])

\* What was not sent yet has a place.
UnsentWait(seq, q, e, h) ==
    \A p \in Unsent(seq, h) : \/ \E i \in DOMAIN q : q[i] = p
                              \/ \E i \in DOMAIN e : e[i] = PublishData(p)

\* What was not sent yet waits in the order of its numbers: the request queue
\* first, the events after it.
UnsentInOrder(seq, q, e, h) ==
    \A a, b \in Unsent(seq, h) : seq[a] < seq[b] =>
        /\ \A i, j \in DOMAIN q : q[i] = a /\ q[j] = b => i < j
        /\ \A i, j \in DOMAIN e : e[i] = PublishData(a) /\ e[j] = PublishData(b) => i < j
        /\ \A i \in DOMAIN e, j \in DOMAIN q : ~(e[i] = PublishData(a) /\ q[j] = b)

\* The three queues r (retries), q (requests) and e (events) are sound for the
\* numbers seq and the packets h that were sent.
Sound(seq, r, q, e, h) ==
    /\ Earlier(seq, h)
    /\ RetriesWereSent(r, h)
    /\ WaitingAreNumbered(seq, q, e)
    /\ OnePlace(r, q, e)
    /\ UnsentWait(seq, q, e, h)
    /\ UnsentInOrder(seq, q, e, h)

Placed ==
    /\ Earlier(sequence, handed)
    /\ task = "running" =>
          Sound(sequence, retry_queue, request_queue["reliable"], events, handed)
    /\ task = "ended" =>
          events = <<>> /\ retry_queue = <<>> /\ \A k \in Kinds : request_queue[k] = <<>>

IInv == TypeOK /\ NumberedOnce /\ Placed /\ AmountIsExact

-----------------------------------------------------------------------------
(* Every variable keeps its type *)

LEMMA TailType ==
    ASSUME NEW T, NEW s \in Seq(T), s # <<>>
    PROVE  /\ Tail(s) \in Seq(T) /\ Head(s) \in T /\ Head(s) = s[1] /\ 1 \in DOMAIN s
           /\ Len(Tail(s)) = Len(s) - 1
           /\ \A i \in DOMAIN Tail(s) : Tail(s)[i] = s[i + 1] /\ i + 1 \in DOMAIN s
OBVIOUS

\* There are no more numbers than reliable packets.
LEMMA CardSequenced ==
    /\ IsFiniteSet(Sequenced) /\ Cardinality(Sequenced) \in Nat
    /\ Cardinality(Sequenced) <= MaxSeq
    /\ Sequenced # Reliable => Cardinality(Sequenced) < MaxSeq
BY PublicationsAssumption, FS_Subset, FS_CardinalityType DEF Sequenced, MaxSeq

LEMMA TypeStep ==
    ASSUME TypeOK, NumberedOnce, Placed, [Next]_vars
    PROVE  TypeOK'
<1> USE MaxSeqType, KindType
<1>1. ASSUME NEW p \in Publications, publish_data(p) PROVE TypeOK'
  <2>1. result' \in [Publications -> {"none", "waiting", "ok", "err"}]
    BY <1>1 DEF publish_data, TypeOK
  <2>2. PublishPacket(p) \in Events /\ events \in Seq(Events)
    BY <1>1, EventTypes DEF TypeOK
  <2>3. Append(events, PublishPacket(p)) \in Seq(Events)
    BY <2>2
  <2>4. events' \in Seq(Events)
    BY <1>1, <2>2, <2>3 DEF publish_data
  <2> QED
    BY <1>1, <2>1, <2>4 DEF publish_data, TypeOK, dcVars, subVars, boundVars
<1>2. CASE OnPublishPacket
  <2> DEFINE p == Head(events).packet
  <2>1. p \in Publications /\ Head(events) \in Events /\ Tail(events) \in Seq(Events)
        /\ Head(events) = events[1] /\ 1 \in DOMAIN events
    BY <1>2, TailType, EventTypes DEF OnPublishPacket, IsEvent, TypeOK
  <2>2. sequence[p] = 0
    BY <1>2, <2>1 DEF OnPublishPacket, IsEvent, NumberedOnce
  <2>3. CASE p \in Reliable
    <3>1. p \notin Sequenced
      BY <2>2 DEF Sequenced
    <3>2. next_sequence \in 1..MaxSeq
      BY <2>3, <3>1, CardSequenced DEF NumberedOnce
    <3>3. next_sequence' = next_sequence + 1
          /\ sequence' = [sequence EXCEPT ![p] = next_sequence]
      BY <1>2, <2>3 DEF OnPublishPacket
    <3> HIDE DEF p
    <3>4. next_sequence' \in 1..(MaxSeq + 1) /\ sequence' \in [Publications -> 0..MaxSeq]
      <4>1. next_sequence \in 0..MaxSeq /\ next_sequence + 1 \in 1..(MaxSeq + 1)
        BY <3>2
      <4>2. sequence \in [Publications -> 0..MaxSeq]
        BY DEF TypeOK
      <4> QED
        BY <3>3, <4>1, <4>2
    <3>5. events' \in Seq(Events)
      BY <1>2, <2>1, EventTypes DEF OnPublishPacket, p
    <3> QED
      BY <1>2, <3>4, <3>5 DEF OnPublishPacket, TypeOK, dcVars, subVars, boundVars
  <2>4. CASE p \notin Reliable
    <3>1. events' \in Seq(Events)
      BY <1>2, <2>1, EventTypes DEF OnPublishPacket
    <3> QED
      BY <1>2, <2>4, <3>1 DEF OnPublishPacket, TypeOK, dcVars, subVars, boundVars
  <2> QED
    BY <2>3, <2>4
<1>3. CASE OnPublishData
  <2> DEFINE p == Head(events).packet
             k == KindOf(p)
             q == Append(request_queue[k], p)
  <2>1. p \in Publications /\ Tail(events) \in Seq(Events)
    BY <1>3, TailType, EventTypes DEF OnPublishData, IsEvent, TypeOK
  <2>2. k \in Kinds /\ q \in Packets /\ amount[k] \in Nat
    BY <2>1 DEF TypeOK, Packets
  <2>3. k = "reliable" => \A i \in DOMAIN q : q[i] \in Reliable
    <3>1. k = "reliable" => p \in Reliable
      BY DEF KindOf
    <3>2. \A i \in DOMAIN request_queue["reliable"] : request_queue["reliable"][i] \in Reliable
      BY <1>3 DEF OnPublishData, IsEvent, Placed, Sound, WaitingAreNumbered
    <3> SUFFICES ASSUME k = "reliable", NEW i \in DOMAIN q PROVE q[i] \in Reliable
      OBVIOUS
    <3>3. request_queue[k] \in Seq(Publications)
      BY <2>2 DEF TypeOK, Packets
    <3>4. q[i] = p \/ (i \in DOMAIN request_queue[k] /\ q[i] = request_queue[k][i])
      BY <3>3
    <3> QED
      BY <3>1, <3>2, <3>4
  <2>4. SendUntilThreshold(k, q, amount[k]) /\ retry_queue' = Retained(k, q, amount[k])
    BY <1>3 DEF OnPublishData
  <2> HIDE DEF p, k, q
  <2>5. /\ amount' \in [Kinds -> Nat] /\ request_queue' \in [Kinds -> Packets]
        /\ dc_buffer' \in [Kinds -> Packets]
        /\ result' \in [Publications -> {"none", "waiting", "ok", "err"}]
        /\ handed' \subseteq Reliable
        /\ Retained(k, q, amount[k]) \in Packets
    BY <2>2, <2>3, <2>4, SendTypes
  <2> QED
    BY <1>3, <2>1, <2>4, <2>5 DEF OnPublishData, TypeOK, subVars, boundVars
<1>4. CASE OnBufferedAmountChange
  <2> DEFINE k == Head(events).kind
             sent == Head(events).sent
             left == IF amount[k] < sent THEN 0 ELSE amount[k] - sent
             q == request_queue[k]
  <2>1. k \in Kinds /\ sent \in Nat /\ Tail(events) \in Seq(Events)
    BY <1>4, TailType, EventTypes DEF OnBufferedAmountChange, IsEvent, TypeOK
  <2>2. q \in Packets /\ left \in Nat
    BY <2>1 DEF TypeOK
  <2>3. k = "reliable" => \A i \in DOMAIN q : q[i] \in Reliable
    BY <1>4 DEF OnBufferedAmountChange, IsEvent, Placed, Sound, WaitingAreNumbered
  <2>4. /\ SendUntilThreshold(k, q, left)
        /\ retry_queue' = IF k = "reliable" THEN Trim(Retained(k, q, left), sent)
                          ELSE retry_queue
    BY <1>4 DEF OnBufferedAmountChange
  <2> HIDE DEF k, sent, left, q
  <2>5. /\ amount' \in [Kinds -> Nat] /\ request_queue' \in [Kinds -> Packets]
        /\ dc_buffer' \in [Kinds -> Packets]
        /\ result' \in [Publications -> {"none", "waiting", "ok", "err"}]
        /\ handed' \subseteq Reliable
        /\ Retained(k, q, left) \in Packets
    BY <2>1, <2>2, <2>3, <2>4, SendTypes
  <2>6. retry_queue' \in Packets
    BY <2>1, <2>4, <2>5, TrimType DEF TypeOK
  <2> QED
    BY <1>4, <2>1, <2>5, <2>6 DEF OnBufferedAmountChange, TypeOK, subVars, boundVars
<1>5. CASE OnRetryFrom
  <2> DEFINE last == Head(events).last
             again == Missing(retry_queue, last)
             retries == [i \in DOMAIN again |-> PublishData(again[i])]
  <2>1. last \in Nat /\ Tail(events) \in Seq(Events)
    BY <1>5, TailType, EventTypes DEF OnRetryFrom, IsEvent, TypeOK
  <2>2. again \in Packets
    BY <2>1, MissingIs DEF TypeOK
  <2>3. events' = Tail(events) \o retries /\ retry_queue' = <<>>
    BY <1>5 DEF OnRetryFrom
  <2> HIDE DEF again
  <2>4. retries \in Seq(Events)
    BY <2>2, RetryType
  <2> HIDE DEF retries
  <2>5. events' \in Seq(Events) /\ retry_queue' \in Packets
    BY <2>1, <2>3, <2>4 DEF Packets
  <2> QED
    BY <1>5, <2>5 DEF OnRetryFrom, TypeOK, dcVars, subVars, boundVars
<1>6. CASE TaskEnds
  <2>1. <<>> \in Packets /\ <<>> \in Seq(Events)
    BY DEF Packets
  <2>2. request_queue' \in [Kinds -> Packets]
    BY <1>6, <2>1 DEF TaskEnds
  <2> QED
    BY <1>6, <2>1, <2>2 DEF TaskEnds, TypeOK, dcVars, subVars, boundVars
<1>7. CASE OnRtcBufferedAmountChange
  <2>1. Tail(rtc_events) \in Seq(Changes) /\ Head(rtc_events) \in Events
    BY <1>7, TailType, EventTypes DEF OnRtcBufferedAmountChange, TypeOK
  <2>2. Append(events, Head(rtc_events)) \in Seq(Events) /\ events \in Seq(Events)
    BY <2>1 DEF TypeOK
  <2>3. events' \in Seq(Events) /\ rtc_events' \in Seq(Changes)
    BY <1>7, <2>1, <2>2 DEF OnRtcBufferedAmountChange
  <2> QED
    BY <1>7, <2>3 DEF OnRtcBufferedAmountChange, TypeOK, dcVars, subVars, boundVars
<1>8. ASSUME NEW k \in Kinds, NEW n \in 1..Cardinality(Publications), DcSent(k, n) PROVE TypeOK'
  <2>1. n \in Nat /\ n \in 1..Len(dc_buffer[k]) /\ dc_buffer[k] \in Packets
    BY <1>8 DEF DcSent, TypeOK, Packets
  <2>2. SubSeq(dc_buffer[k], 1, n) \in Packets
        /\ SubSeq(dc_buffer[k], n + 1, Len(dc_buffer[k])) \in Packets
    BY <2>1 DEF Packets
  <2>3. rtc_events' \in Seq(Changes)
    BY <1>8, <2>1, EventTypes DEF DcSent, TypeOK
  <2>4. wire' \in Packets
    BY <1>8, <2>2 DEF DcSent, TypeOK, Packets
  <2>5. dc_buffer' \in [Kinds -> Packets]
    BY <1>8, <2>2 DEF DcSent, TypeOK
  <2> QED
    BY <1>8, <2>3, <2>4, <2>5 DEF DcSent, TypeOK, subVars, boundVars
<1>9. CASE ServerReceives
  <2>1. Tail(wire) \in Packets /\ Head(wire) \in Publications
    BY <1>9 DEF ServerReceives, TypeOK, Packets
  <2>2. Append(server, Head(wire)) \in Packets /\ Append(downlink, Head(wire)) \in Packets
    BY <2>1 DEF TypeOK, Packets
  <2> QED
    BY <1>9, <2>1, <2>2 DEF ServerReceives, TypeOK, pubVars, boundVars
<1>10. CASE DcCloses
  <2>1. <<>> \in Packets
    BY DEF Packets
  <2> QED
    BY <1>10, <2>1 DEF DcCloses, TypeOK, pubVars, subVars, boundVars
<1>11. CASE LinkLost \/ LinkBack
  BY <1>11 DEF LinkLost, LinkBack, TypeOK, pubVars, subVars, boundVars
<1>12. CASE Resume
  <2>1. Highest(server) \in 0..MaxSeq
    BY HighestType DEF TypeOK
  <2>2. events' \in Seq(Events)
    BY <1>12, <2>1, EventTypes DEF Resume, TypeOK
  <2>3. pub_resumes' \in 0..PubResumes
    BY <1>12, BoundsAssumption DEF Resume, TypeOK
  <2>4. wire' \in Packets
    BY <1>12 DEF Resume, TypeOK, Packets
  <2> QED
    BY <1>12, <2>2, <2>3, <2>4 DEF Resume, TypeOK, subVars
<1>13. CASE OnData
  <2>1. Tail(downlink) \in Packets /\ Head(downlink) \in Publications
    BY <1>13 DEF OnData, TypeOK, Packets
  <2>2. rx_state' \in 0..MaxSeq
    BY <1>13, <2>1 DEF OnData, update_packet_rx_state, TypeOK
  <2>3. emitted' \in [Publications -> Nat]
    BY <1>13, <2>1 DEF OnData, TypeOK
  <2> QED
    BY <1>13, <2>1, <2>2, <2>3 DEF OnData, TypeOK, pubVars, dcVars, boundVars
<1>14. CASE DownlinkLost
  <2>1. <<>> \in Packets
    BY DEF Packets
  <2> QED
    BY <1>14, <2>1 DEF DownlinkLost, TypeOK, pubVars, dcVars, boundVars
<1>15. CASE SyncStateSent
  <2>1. sync' \in Seq(0..MaxSeq)
    BY <1>15 DEF SyncStateSent, TypeOK
  <2>2. sub_resumes' \in 0..SubResumes
    BY <1>15, BoundsAssumption DEF SyncStateSent, TypeOK
  <2> QED
    BY <1>15, <2>1, <2>2 DEF SyncStateSent, TypeOK, pubVars, dcVars
<1>16. CASE ServerSyncs
  <2>1. Head(sync) \in Nat /\ Tail(sync) \in Seq(0..MaxSeq)
    BY <1>16 DEF ServerSyncs, TypeOK
  <2>2. Missing(server, Head(sync)) \in Packets
    BY <2>1, MissingIs DEF TypeOK
  <2>3. downlink' \in Packets
    BY <1>16, <2>2 DEF ServerSyncs, TypeOK, Packets
  <2> QED
    BY <1>16, <2>1, <2>3 DEF ServerSyncs, TypeOK, pubVars, dcVars, boundVars
<1>17. CASE UNCHANGED vars
  BY <1>17 DEF TypeOK, vars, pubVars, dcVars, subVars, boundVars
<1> QED
  BY <1>1, <1>2, <1>3, <1>4, <1>5, <1>6, <1>7, <1>8, <1>9, <1>10, <1>11, <1>12, <1>13,
     <1>14, <1>15, <1>16, <1>17 DEF Next, DataChannelTask, Network

-----------------------------------------------------------------------------
(* The numbers *)

\* Which actions leave the numbers alone: the events that wait for a number only
\* get fewer, and a publication that was made stays made.
LEMMA NumbersKept ==
    ASSUME TypeOK, TypeOK', NumberedOnce, UNCHANGED <<next_sequence, sequence>>,
           \A p \in Publications : result'[p] = "none" => result[p] = "none",
           NEW from \in [DOMAIN events' -> Nat],
           \A i \in DOMAIN events' : events'[i].type = "PublishPacket" =>
              from[i] \in DOMAIN events /\ events'[i] = events[from[i]],
           \A i, j \in DOMAIN events' :
              events'[i].type = "PublishPacket" /\ events'[j].type = "PublishPacket"
              /\ from[i] = from[j] => i = j
    PROVE  NumberedOnce'
<1>1. Sequenced' = Sequenced
  BY DEF Sequenced
<1>2. \A i \in DOMAIN events' : events'[i].type = "PublishPacket" =>
          result'[events'[i].packet] # "none" /\ sequence[events'[i].packet] = 0
  <2> SUFFICES ASSUME NEW i \in DOMAIN events', events'[i].type = "PublishPacket"
               PROVE  result'[events'[i].packet] # "none" /\ sequence[events'[i].packet] = 0
    OBVIOUS
  <2>1. events'[i] = events[from[i]] /\ from[i] \in DOMAIN events
    OBVIOUS
  <2>2. events[from[i]].packet \in Publications
    BY <2>1, EventTypes DEF TypeOK
  <2> QED
    BY <2>1, <2>2 DEF NumberedOnce
<1>3. \A i, j \in DOMAIN events' :
          events'[i].type = "PublishPacket" /\ events'[i] = events'[j] => i = j
  BY DEF NumberedOnce
<1> QED
  BY <1>1, <1>2, <1>3 DEF NumberedOnce

\* NumbersKept for the usual changes of the queue of events: none, one more at its
\* end that is no PublishPacket, or its head gone and others behind.
LEMMA NumbersKeptSame ==
    ASSUME TypeOK, TypeOK', NumberedOnce, UNCHANGED <<next_sequence, sequence, events>>,
           \A p \in Publications : result'[p] = "none" => result[p] = "none"
    PROVE  NumberedOnce'
<1> DEFINE from == [i \in DOMAIN events' |-> i]
<1>1. from \in [DOMAIN events' -> Nat]
  BY DEF TypeOK
<1>2. \A i \in DOMAIN events' : from[i] \in DOMAIN events /\ events'[i] = events[from[i]]
  OBVIOUS
<1>3. \A i, j \in DOMAIN events' : from[i] = from[j] => i = j
  OBVIOUS
<1> HIDE DEF from
<1> QED
  BY <1>1, <1>2, <1>3, NumbersKept

LEMMA NumbersKeptAppend ==
    ASSUME TypeOK, TypeOK', NumberedOnce, UNCHANGED <<next_sequence, sequence, result>>,
           NEW e \in Events, e.type # "PublishPacket", events' = Append(events, e)
    PROVE  NumberedOnce'
<1> DEFINE from == [i \in DOMAIN events' |-> i]
<1>1. events \in Seq(Events) /\ DOMAIN events' = 1..(Len(events) + 1) /\ Len(events) \in Nat
      /\ events'[Len(events) + 1] = e /\ DOMAIN events = 1..Len(events)
      /\ \A i \in DOMAIN events : events'[i] = events[i]
  BY DEF TypeOK
<1>2. from \in [DOMAIN events' -> Nat]
  BY <1>1
<1>3. \A i \in DOMAIN events' : events'[i].type = "PublishPacket" =>
          from[i] \in DOMAIN events /\ events'[i] = events[from[i]]
  BY <1>1
<1>4. \A i, j \in DOMAIN events' : from[i] = from[j] => i = j
  OBVIOUS
<1> HIDE DEF from
<1> QED
  BY <1>2, <1>3, <1>4, NumbersKept

LEMMA NumbersKeptTail ==
    ASSUME TypeOK, TypeOK', NumberedOnce, UNCHANGED <<next_sequence, sequence>>,
           \A p \in Publications : result'[p] = "none" => result[p] = "none",
           events # <<>>,
           NEW other \in Seq(Events), events' = Tail(events) \o other,
           \A i \in DOMAIN other : other[i].type # "PublishPacket"
    PROVE  NumberedOnce'
<1> DEFINE from == [i \in DOMAIN events' |-> i + 1]
           N == Len(events)
<1>1. events \in Seq(Events) /\ N \in Nat /\ N > 0 /\ Len(other) \in Nat
      /\ DOMAIN events = 1..N /\ DOMAIN events' = 1..(N - 1 + Len(other))
  BY DEF TypeOK
<1>2. \A i \in 1..(N - 1) : events'[i] = events[i + 1]
  BY <1>1
<1>3. ASSUME NEW i \in DOMAIN events', i > N - 1 PROVE events'[i].type # "PublishPacket"
  <2>1. events'[i] = other[i - (N - 1)] /\ i - (N - 1) \in DOMAIN other
    BY <1>1, <1>3
  <2> QED
    BY <2>1
<1>4. from \in [DOMAIN events' -> Nat]
  BY <1>1
<1>5. \A i \in DOMAIN events' : events'[i].type = "PublishPacket" =>
          from[i] \in DOMAIN events /\ events'[i] = events[from[i]]
  <2> SUFFICES ASSUME NEW i \in DOMAIN events', events'[i].type = "PublishPacket"
               PROVE  i + 1 \in DOMAIN events /\ events'[i] = events[i + 1]
    OBVIOUS
  <2>1. i \in 1..(N - 1)
    BY <1>1, <1>3
  <2> QED
    BY <1>1, <1>2, <2>1
<1>6. \A i, j \in DOMAIN events' : from[i] = from[j] => i = j
  BY <1>1
<1> HIDE DEF from, N
<1> QED
  BY <1>4, <1>5, <1>6, NumbersKept

\* A result never becomes "none".
LEMMA SendResult ==
    ASSUME NEW k, NEW q, NEW b, SendUntilThreshold(k, q, b)
    PROVE  \A p \in Publications : result'[p] = "none" => result[p] = "none"
BY DEF SendUntilThreshold

LEMMA NumbersKeptHead ==
    ASSUME TypeOK, TypeOK', NumberedOnce, UNCHANGED <<next_sequence, sequence>>,
           \A p \in Publications : result'[p] = "none" => result[p] = "none",
           events # <<>>, events' = Tail(events)
    PROVE  NumberedOnce'
<1>1. events' = Tail(events) \o <<>> /\ <<>> \in Seq(Events)
  BY DEF TypeOK
<1>2. \A i \in DOMAIN <<>> : <<>>[i].type # "PublishPacket"
  OBVIOUS
<1> QED
  BY <1>1, <1>2, NumbersKeptTail

LEMMA NumberStep ==
    ASSUME TypeOK, TypeOK', NumberedOnce, [Next]_vars
    PROVE  NumberedOnce'
<1>1. ASSUME NEW p \in Publications, publish_data(p) PROVE NumberedOnce'
  <2>1. result[p] = "none" /\ result' = [result EXCEPT ![p] = result'[p]] /\ result'[p] # "none"
        /\ UNCHANGED <<next_sequence, sequence>>
    BY <1>1 DEF publish_data, TypeOK
  <2>2. CASE task # "running"
    <3>1. \A r \in Publications : result'[r] = "none" => result[r] = "none"
      BY <2>1 DEF TypeOK
    <3>2. UNCHANGED events
      BY <1>1, <2>2 DEF publish_data
    <3> QED
      BY <2>1, <3>1, <3>2, NumbersKeptSame
  <2>3. CASE task = "running"
    <3> DEFINE N == Len(events)
               e == PublishPacket(p)
    <3>1. events' = Append(events, e) /\ events \in Seq(Events)
      BY <1>1, <2>3 DEF publish_data, TypeOK
    <3>2. N \in Nat /\ DOMAIN events = 1..N /\ DOMAIN events' = 1..(N + 1)
          /\ events'[N + 1] = e /\ \A i \in 1..N : events'[i] = events[i]
      BY <3>1
    <3>3. e.packet = p /\ e.type = "PublishPacket" /\ sequence[p] = 0
      BY <2>1 DEF PublishPacket, NumberedOnce
    <3> HIDE DEF e, N
    <3>4. \A i \in 1..N : events[i].type = "PublishPacket" =>
              events[i].packet \in Publications /\ events[i].packet # p
      BY <2>1, <3>1, <3>2, EventTypes DEF NumberedOnce
    <3>5. \A r \in Publications : result'[r] = "none" => result[r] = "none" /\ r # p
      BY <2>1 DEF TypeOK
    <3>6. \A i \in DOMAIN events' : events'[i].type = "PublishPacket" =>
             result'[events'[i].packet] # "none" /\ sequence[events'[i].packet] = 0
      <4> SUFFICES ASSUME NEW i \in DOMAIN events', events'[i].type = "PublishPacket"
                   PROVE  result'[events'[i].packet] # "none"
                          /\ sequence[events'[i].packet] = 0
        OBVIOUS
      <4>1. CASE i = N + 1
        BY <2>1, <3>2, <3>3, <4>1
      <4>2. CASE i \in 1..N
        BY <3>2, <3>4, <3>5, <4>2 DEF NumberedOnce
      <4> QED
        BY <3>2, <4>1, <4>2
    <3>7. \A i, j \in DOMAIN events' :
             events'[i].type = "PublishPacket" /\ events'[i] = events'[j] => i = j
      BY <3>2, <3>3, <3>4 DEF NumberedOnce
    <3>8. Sequenced' = Sequenced
      BY <2>1 DEF Sequenced
    <3> QED
      BY <2>1, <3>5, <3>6, <3>7, <3>8 DEF NumberedOnce
  <2> QED
    BY <2>2, <2>3
<1>2. CASE OnPublishPacket
  <2> DEFINE p == Head(events).packet
             rest == Tail(events)
  <2>1. events \in Seq(Events) /\ events # <<>> /\ p \in Publications
        /\ rest \in Seq(Events) /\ PublishData(p) \in Events
        /\ Head(events) = events[1] /\ 1 \in DOMAIN events /\ events[1] \in Events
        /\ events[1].type = "PublishPacket"
    BY <1>2, TailType, EventTypes DEF OnPublishPacket, IsEvent, TypeOK
  <2>2. events' = Append(rest, PublishData(p)) /\ UNCHANGED result
    BY <1>2 DEF OnPublishPacket
  <2>3. CASE p \notin Reliable
    <3>1. rest \o <<PublishData(p)>> = Append(rest, PublishData(p))
          /\ <<PublishData(p)>> \in Seq(Events)
      BY <2>1
    <3>2. \A i \in DOMAIN <<PublishData(p)>> : <<PublishData(p)>>[i].type # "PublishPacket"
      BY DEF PublishData
    <3>3. UNCHANGED <<next_sequence, sequence>>
      BY <1>2, <2>3 DEF OnPublishPacket
    <3> QED
      BY <2>1, <2>2, <3>1, <3>2, <3>3, NumbersKeptTail
  <2>4. CASE p \in Reliable
    <3>1. sequence[p] = 0 /\ result[p] # "none"
      BY <2>1 DEF NumberedOnce
    <3>2. sequence' = [sequence EXCEPT ![p] = next_sequence] /\ next_sequence' = next_sequence + 1
      BY <1>2, <2>4 DEF OnPublishPacket
    <3> DEFINE N == Len(events)
               d == PublishData(p)
    <3>3. N \in Nat /\ N > 0 /\ DOMAIN events = 1..N /\ DOMAIN events' = 1..N
          /\ events'[N] = d /\ \A i \in 1..(N - 1) : events'[i] = events[i + 1]
      BY <2>1, <2>2
    <3>4. d.type # "PublishPacket"
      BY DEF PublishData
    <3> HIDE DEF d, N, rest, p
    <3>5. p = events[1].packet
      BY <2>1 DEF p
    <3>6. ASSUME NEW i \in 1..N, i # 1, events[i].type = "PublishPacket"
          PROVE  events[i].packet \in Publications /\ events[i].packet # p
      <4>1. events[i] \in Events
        BY <2>1, <3>3
      <4>2. events[i] # events[1]
        <5>1. \A a, b \in DOMAIN events :
                 events[a].type = "PublishPacket" /\ events[a] = events[b] => a = b
          BY DEF NumberedOnce
        <5>2. i \in DOMAIN events
          BY <3>3
        <5> QED
          BY <2>1, <3>6, <5>1, <5>2, Zenon
      <4> QED
        BY <2>1, <3>5, <3>6, <4>1, <4>2, EventTypes
    <3>7. \A i \in DOMAIN events' : events'[i].type = "PublishPacket" =>
             i \in 1..(N - 1) /\ i + 1 \in 1..N /\ i + 1 # 1 /\ events'[i] = events[i + 1]
      BY <3>3, <3>4
    <3>8. \A i \in DOMAIN events' : events'[i].type = "PublishPacket" =>
             result'[events'[i].packet] # "none" /\ sequence'[events'[i].packet] = 0
      <4> SUFFICES ASSUME NEW i \in DOMAIN events', events'[i].type = "PublishPacket"
                   PROVE  result'[events'[i].packet] # "none"
                          /\ sequence'[events'[i].packet] = 0
        OBVIOUS
      <4>1. i + 1 \in 1..N /\ i + 1 # 1 /\ events'[i] = events[i + 1]
        BY <3>7
      <4>2. events[i + 1].packet \in Publications /\ events[i + 1].packet # p
        BY <3>6, <4>1
      <4>3. result[events[i + 1].packet] # "none" /\ sequence[events[i + 1].packet] = 0
        BY <3>3, <4>1 DEF NumberedOnce
      <4>4. sequence'[events[i + 1].packet] = sequence[events[i + 1].packet]
        BY <3>2, <4>2 DEF TypeOK
      <4> QED
        BY <2>2, <4>1, <4>3, <4>4
    <3>9. \A i, j \in DOMAIN events' :
             events'[i].type = "PublishPacket" /\ events'[i] = events'[j] => i = j
      BY <3>3, <3>7 DEF NumberedOnce
    <3>10. next_sequence \in Nat \ {0}
      BY DEF TypeOK
    <3>11. Sequenced' = Sequenced \cup {p} /\ p \notin Sequenced
      BY <2>1, <2>4, <3>1, <3>2, <3>10, SMTT(20) DEF Sequenced, TypeOK
    <3>12. Cardinality(Sequenced') = Cardinality(Sequenced) + 1
      BY <3>11, CardSequenced, FS_AddElement
    <3>13. \A r \in Sequenced : r # p /\ r \in Publications /\ sequence'[r] = sequence[r]
      BY <2>1, <3>1, <3>2 DEF Sequenced, TypeOK, Publications
    <3>14. sequence'[p] = next_sequence
      BY <2>1, <3>2 DEF TypeOK
    <3>15. \A r \in Sequenced' : sequence'[r] < next_sequence'
      <4>1. \A r \in Sequenced : sequence[r] \in Nat /\ sequence[r] < next_sequence
        BY <3>13 DEF NumberedOnce, TypeOK
      <4> QED
        BY <3>2, <3>10, <3>11, <3>13, <3>14, <4>1
    <3>16. \A r, t \in Sequenced' : sequence'[r] = sequence'[t] => r = t
      <4>1. \A r \in Sequenced : sequence[r] \in Nat /\ sequence[r] < next_sequence
        BY <3>13 DEF NumberedOnce, TypeOK
      <4>2. \A r, t \in Sequenced : sequence[r] = sequence[t] => r = t
        BY DEF NumberedOnce
      <4> QED
        BY <3>10, <3>11, <3>13, <3>14, <4>1, <4>2
    <3>17. \A n \in 1..(next_sequence' - 1) : \E r \in Sequenced' : sequence'[r] = n
      <4> SUFFICES ASSUME NEW n \in 1..(next_sequence' - 1)
                   PROVE  \E r \in Sequenced' : sequence'[r] = n
        OBVIOUS
      <4>1. n = next_sequence \/ n \in 1..(next_sequence - 1)
        BY <3>2, <3>10
      <4> QED
        BY <3>11, <3>13, <3>14, <4>1 DEF NumberedOnce
    <3>18. \A r \in Publications : result'[r] = "none" => sequence'[r] = 0
      BY <2>2, <3>1, <3>2 DEF NumberedOnce, TypeOK
    <3> QED
      BY <3>2, <3>12, <3>15, <3>16, <3>17, <3>18, <3>8, <3>9, CardSequenced DEF NumberedOnce
  <2> QED
    BY <2>3, <2>4
<1>3. CASE OnPublishData
  <2>1. \A p \in Publications : result'[p] = "none" => result[p] = "none"
    BY <1>3, SendResult DEF OnPublishData
  <2> QED
    BY <1>3, <2>1, NumbersKeptHead DEF OnPublishData, IsEvent
<1>4. CASE OnBufferedAmountChange
  <2>1. \A p \in Publications : result'[p] = "none" => result[p] = "none"
    BY <1>4, SendResult DEF OnBufferedAmountChange
  <2> QED
    BY <1>4, <2>1, NumbersKeptHead DEF OnBufferedAmountChange, IsEvent
<1>5. CASE OnRetryFrom
  <2> DEFINE again == Missing(retry_queue, Head(events).last)
             retries == [i \in DOMAIN again |-> PublishData(again[i])]
  <2>1. Head(events).last \in Nat /\ events # <<>>
    BY <1>5, TailType, EventTypes DEF OnRetryFrom, IsEvent, TypeOK
  <2>2. again \in Packets
    BY <2>1, MissingIs DEF TypeOK
  <2>3. events' = Tail(events) \o retries /\ UNCHANGED <<next_sequence, sequence, result>>
    BY <1>5 DEF OnRetryFrom
  <2> HIDE DEF again
  <2>4. retries \in Seq(Events)
    BY <2>2, RetryType
  <2>5. \A i \in DOMAIN retries : retries[i].type # "PublishPacket"
    BY DEF PublishData
  <2> HIDE DEF retries
  <2> QED
    BY <2>1, <2>3, <2>4, <2>5, NumbersKeptTail
<1>6. CASE TaskEnds
  <2>1. Sequenced' = Sequenced
    BY <1>6 DEF TaskEnds, Sequenced
  <2> QED
    BY <1>6, <2>1 DEF TaskEnds, NumberedOnce, TypeOK
<1>7. CASE OnRtcBufferedAmountChange
  <2>1. Head(rtc_events) \in Events /\ Head(rtc_events).type # "PublishPacket"
    <3>1. Head(rtc_events) \in Changes
      BY <1>7, TailType DEF OnRtcBufferedAmountChange, TypeOK
    <3> QED
      BY <3>1 DEF Changes, Events
  <2>2. CASE task = "running"
    <3>1. events' = Append(events, Head(rtc_events))
          /\ UNCHANGED <<next_sequence, sequence, result>>
      BY <1>7, <2>2 DEF OnRtcBufferedAmountChange
    <3> QED
      BY <2>1, <3>1, NumbersKeptAppend
  <2>3. CASE task # "running"
    <3>1. UNCHANGED <<next_sequence, sequence, events, result>>
      BY <1>7, <2>3 DEF OnRtcBufferedAmountChange
    <3> QED
      BY <3>1, NumbersKeptSame
  <2> QED
    BY <2>2, <2>3
<1>8. CASE Resume
  <2>1. RetryFrom(Highest(server)) \in Events
        /\ RetryFrom(Highest(server)).type # "PublishPacket"
    BY HighestType, EventTypes DEF TypeOK, RetryFrom
  <2> QED
    BY <1>8, <2>1, NumbersKeptAppend DEF Resume
<1>9. CASE UNCHANGED pubVars
  BY <1>9, NumbersKeptSame DEF pubVars
<1>10. CASE Network
  <2>1. UNCHANGED <<next_sequence, sequence, events, result>>
    BY <1>10 DEF Network, DcSent, ServerReceives, ServerSyncs, pubVars
  <2> QED
    BY <2>1, NumbersKeptSame
<1> QED
  BY <1>1, <1>2, <1>3, <1>4, <1>5, <1>6, <1>7, <1>8, <1>9, <1>10
  DEF Next, DataChannelTask, LinkLost, LinkBack, DcCloses, OnData, DownlinkLost, SyncStateSent, vars

-----------------------------------------------------------------------------
(* The buffered amount *)

LEMMA ChangesAreEvents == ASSUME NEW s \in Seq(Changes) PROVE s \in Seq(Events)
<1>1. \A i \in 1..Len(s) : s[i] \in Events
  BY EventTypes
<1> QED
  BY <1>1

\* What the task sends within AmountIsExact: the amount follows the channel's
\* buffer, and passes the threshold by one packet at the most.
LEMMA SendIsExact ==
    ASSUME TypeOK, NEW k \in Kinds, NEW q \in Packets, NEW buffered \in Nat,
           dc_open, SendUntilThreshold(k, q, buffered), buffered <= Threshold + 1
    PROVE  /\ amount'[k] + Len(dc_buffer[k]) = buffered + Len(dc_buffer'[k])
           /\ amount'[k] <= Threshold + 1
           /\ \A l \in Kinds : l # k => amount'[l] = amount[l] /\ dc_buffer'[l] = dc_buffer[l]
<1> DEFINE n == Sendable(q, buffered)
           out == SubSeq(q, 1, n)
<1>1. n \in 0..Len(q) /\ Len(q) \in Nat /\ (n = 0 \/ buffered + n <= Threshold + 1)
  BY SendableIs DEF Packets
<1>2. out \in Seq(Publications) /\ Len(out) = n
  BY <1>1 DEF Packets
<1>3. amount' = [amount EXCEPT ![k] = buffered + n]
      /\ dc_buffer' = [dc_buffer EXCEPT ![k] = @ \o out]
  BY DEF SendUntilThreshold
<1> HIDE DEF n, out
<1>4. amount \in [Kinds -> Nat] /\ dc_buffer \in [Kinds -> Seq(Publications)]
  BY DEF TypeOK, Packets
<1>5. amount'[k] = buffered + n /\ dc_buffer'[k] = dc_buffer[k] \o out
  BY <1>3, <1>4
<1>6. Len(dc_buffer[k] \o out) = Len(dc_buffer[k]) + n /\ Len(dc_buffer[k]) \in Nat
  <2>1. dc_buffer[k] \in Seq(Publications)
    BY <1>4
  <2> QED
    BY <1>2, <2>1
<1>7. n \in Nat
  BY <1>1
<1>8. buffered + n <= Threshold + 1
  BY <1>1, BoundsAssumption
<1>9. \A l \in Kinds : l # k => amount'[l] = amount[l] /\ dc_buffer'[l] = dc_buffer[l]
  BY <1>3, <1>4
<1>10. amount'[k] + Len(dc_buffer[k]) = buffered + Len(dc_buffer'[k])
  <2> DEFINE len == Len(dc_buffer[k])
  <2>1. len \in Nat /\ Len(dc_buffer'[k]) = len + n
    BY <1>5, <1>6
  <2> HIDE DEF len
  <2>2. buffered + n + len = buffered + (len + n)
    BY <1>7, <2>1
  <2> QED
    BY <1>5, <2>1, <2>2 DEF len
<1>11. amount'[k] <= Threshold + 1
  BY <1>5, <1>8
<1> QED
  BY <1>9, <1>10, <1>11

LEMMA AmountStep ==
    ASSUME TypeOK, TypeOK', AmountIsExact, [Next]_vars
    PROVE  AmountIsExact'
<1> SUFFICES ASSUME task' = "running", dc_open', NEW l \in Kinds
             PROVE  /\ amount'[l] = Len(dc_buffer'[l]) + SumOf(events', l) + SumOf(rtc_events', l)
                    /\ amount'[l] <= Threshold + 1
  BY DEF AmountIsExact
<1>1. task = "running" /\ dc_open
  BY DEF Next, vars, pubVars, dcVars, publish_data, DataChannelTask, OnPublishPacket,
         OnPublishData, OnBufferedAmountChange, OnRetryFrom, TaskEnds,
         OnRtcBufferedAmountChange, Network, DcSent, ServerReceives, ServerSyncs, LinkLost, LinkBack,
         Resume, DcCloses, OnData, DownlinkLost, SyncStateSent, SendUntilThreshold
<1>2. \A k \in Kinds :
         /\ amount[k] = Len(dc_buffer[k]) + SumOf(events, k) + SumOf(rtc_events, k)
         /\ amount[k] <= Threshold + 1
  BY <1>1 DEF AmountIsExact
<1>3. \A k \in Kinds : /\ amount[k] \in Nat /\ Len(dc_buffer[k]) \in Nat
                       /\ SumOf(events, k) \in Nat /\ SumOf(rtc_events, k) \in Nat
  <2> SUFFICES ASSUME NEW k \in Kinds
               PROVE  /\ amount[k] \in Nat /\ Len(dc_buffer[k]) \in Nat
                      /\ SumOf(events, k) \in Nat /\ SumOf(rtc_events, k) \in Nat
    OBVIOUS
  <2>1. amount[k] \in Nat /\ dc_buffer[k] \in Seq(Publications)
    BY DEF TypeOK, Packets
  <2>2. events \in Seq(Events) /\ rtc_events \in Seq(Events)
    BY ChangesAreEvents DEF TypeOK
  <2> QED
    BY <2>1, <2>2, SumType
<1>4. events \in Seq(Events) /\ rtc_events \in Seq(Changes) /\ rtc_events \in Seq(Events)
  BY ChangesAreEvents DEF TypeOK
<1>5. \A e \in Events : e.type # "BufferedAmountChange" => Sent(e, l) = 0
  BY DEF Sent
<1>6. ASSUME NEW e \in Events, e.type # "BufferedAmountChange", events' = Append(events, e),
             UNCHANGED <<amount, dc_buffer, rtc_events>>
      PROVE  amount'[l] = Len(dc_buffer'[l]) + SumOf(events', l) + SumOf(rtc_events', l)
             /\ amount'[l] <= Threshold + 1
  <2>1. SumOf(events', l) = SumOf(events, l) + 0
    BY <1>4, <1>5, <1>6, SumAppend
  <2> QED
    BY <1>2, <1>3, <1>6, <2>1
<1>7. ASSUME events # <<>>, Head(events).type # "BufferedAmountChange"
      PROVE  SumOf(Tail(events), l) = SumOf(events, l)
             /\ Tail(events) \in Seq(Events) /\ Head(events) \in Events
  <2>1. Tail(events) \in Seq(Events) /\ Head(events) \in Events
    BY <1>4, <1>7, TailType
  <2>2. SumOf(events, l) = 0 + SumOf(Tail(events), l)
    BY <1>4, <1>5, <1>7, <2>1, SumTail
  <2>3. SumOf(Tail(events), l) \in Nat
    BY <2>1, SumType
  <2> QED
    BY <2>1, <2>2, <2>3
<1>8. ASSUME NEW p \in Publications, publish_data(p)
      PROVE  amount'[l] = Len(dc_buffer'[l]) + SumOf(events', l) + SumOf(rtc_events', l)
             /\ amount'[l] <= Threshold + 1
  <2>1. PublishPacket(p) \in Events /\ PublishPacket(p).type # "BufferedAmountChange"
    BY EventTypes DEF PublishPacket
  <2>2. events' = Append(events, PublishPacket(p)) /\ UNCHANGED <<amount, dc_buffer, rtc_events>>
    BY <1>1, <1>8 DEF publish_data, dcVars
  <2> QED
    BY <1>6, <2>1, <2>2
<1>9. CASE OnPublishPacket
  <2> DEFINE p == Head(events).packet
  <2>1. events # <<>> /\ Head(events).type # "BufferedAmountChange" /\ p \in Publications
    BY <1>4, <1>9, TailType, EventTypes DEF OnPublishPacket, IsEvent
  <2>2. PublishData(p) \in Events /\ PublishData(p).type # "BufferedAmountChange"
    BY <2>1, EventTypes DEF PublishData
  <2>3. events' = Append(Tail(events), PublishData(p)) /\ UNCHANGED <<amount, dc_buffer, rtc_events>>
    BY <1>9 DEF OnPublishPacket, dcVars
  <2>4. SumOf(events', l) = SumOf(events, l) + 0
    BY <1>5, <1>7, <2>1, <2>2, <2>3, SumAppend
  <2> QED
    BY <1>2, <1>3, <2>3, <2>4
<1>10. CASE OnPublishData
  <2> DEFINE p == Head(events).packet
             k == KindOf(p)
             q == Append(request_queue[k], p)
  <2>1. events # <<>> /\ Head(events).type # "BufferedAmountChange" /\ p \in Publications
    BY <1>4, <1>10, TailType, EventTypes DEF OnPublishData, IsEvent
  <2>2. k \in Kinds
    BY <2>1, KindType
  <2>3. q \in Packets
    BY <2>1, <2>2 DEF TypeOK, Packets
  <2>4. SendUntilThreshold(k, q, amount[k]) /\ events' = Tail(events) /\ UNCHANGED rtc_events
    BY <1>10 DEF OnPublishData
  <2>5. SumOf(events', l) = SumOf(events, l)
    BY <1>7, <2>1, <2>4
  <2> HIDE DEF p, k, q
  <2>6. /\ amount'[k] + Len(dc_buffer[k]) = amount[k] + Len(dc_buffer'[k])
        /\ amount'[k] <= Threshold + 1
        /\ \A j \in Kinds : j # k => amount'[j] = amount[j] /\ dc_buffer'[j] = dc_buffer[j]
    BY <1>1, <1>2, <1>3, <2>2, <2>3, <2>4, SendIsExact
  <2>7. amount'[k] \in Nat /\ Len(dc_buffer'[k]) \in Nat
    BY <2>2 DEF TypeOK, Packets
  <2>8. CASE l = k
    <3>1. amount[l] = Len(dc_buffer[l]) + SumOf(events, l) + SumOf(rtc_events, l)
      BY <1>2
    <3>2. amount'[l] + Len(dc_buffer[l]) = amount[l] + Len(dc_buffer'[l])
          /\ amount'[l] <= Threshold + 1 /\ amount'[l] \in Nat /\ Len(dc_buffer'[l]) \in Nat
      BY <2>6, <2>7, <2>8
    <3>3. amount[l] \in Nat /\ Len(dc_buffer[l]) \in Nat
          /\ SumOf(events, l) \in Nat /\ SumOf(rtc_events, l) \in Nat
      BY <1>3
    <3>4. SumOf(rtc_events', l) = SumOf(rtc_events, l)
      BY <2>4
    <3>5. amount'[l] = Len(dc_buffer'[l]) + SumOf(events, l) + SumOf(rtc_events, l)
      <4> DEFINE a == amount[l]
                 b == Len(dc_buffer[l])
                 e == SumOf(events, l)
                 r == SumOf(rtc_events, l)
                 newA == amount'[l]
                 newB == Len(dc_buffer'[l])
      <4>1. a \in Nat /\ b \in Nat /\ e \in Nat /\ r \in Nat /\ newA \in Nat /\ newB \in Nat
            /\ a = b + e + r /\ newA + b = a + newB
        BY <3>1, <3>2, <3>3
      <4> HIDE DEF a, b, e, r, newA, newB
      <4>2. newA = newB + e + r
        BY <4>1
      <4> QED
        BY <4>2 DEF newA, newB, e, r
    <3> QED
      BY <2>5, <3>2, <3>4, <3>5
  <2>9. CASE l # k
    BY <1>2, <1>3, <2>4, <2>5, <2>6, <2>9
  <2> QED
    BY <2>8, <2>9
<1>11. CASE OnBufferedAmountChange
  <2> DEFINE k == Head(events).kind
             sent == Head(events).sent
             left == IF amount[k] < sent THEN 0 ELSE amount[k] - sent
             q == request_queue[k]
  <2>1. /\ events # <<>> /\ Head(events) \in Events /\ Tail(events) \in Seq(Events)
        /\ Head(events).type = "BufferedAmountChange" /\ k \in Kinds /\ sent \in Nat
    BY <1>4, <1>11, TailType, EventTypes DEF OnBufferedAmountChange, IsEvent
  <2>2. q \in Packets
    BY <2>1 DEF TypeOK
  <2>3. SendUntilThreshold(k, q, left) /\ events' = Tail(events) /\ UNCHANGED rtc_events
    BY <1>11 DEF OnBufferedAmountChange
  <2>4. \A j \in Kinds : SumOf(events, j) = Sent(Head(events), j) + SumOf(events', j)
                         /\ SumOf(events', j) \in Nat
    BY <1>4, <2>1, <2>3, SumTail, SumType
  <2>5. Sent(Head(events), k) = sent /\ \A j \in Kinds : j # k => Sent(Head(events), j) = 0
    BY <2>1 DEF Sent
  <2> HIDE DEF k, sent, q
  <2>6. amount[k] >= sent /\ SumOf(events, k) = sent + SumOf(events', k)
    <3>1. amount[k] = Len(dc_buffer[k]) + SumOf(events, k) + SumOf(rtc_events, k)
      BY <1>2, <2>1
    <3>2. amount[k] \in Nat /\ Len(dc_buffer[k]) \in Nat /\ SumOf(rtc_events, k) \in Nat
      BY <1>3, <2>1
    <3>3. SumOf(events, k) = sent + SumOf(events', k) /\ SumOf(events', k) \in Nat
      BY <2>1, <2>4, <2>5
    <3> QED
      BY <2>1, <3>1, <3>2, <3>3
  <2>7. left = amount[k] - sent /\ left \in Nat /\ left <= Threshold + 1
    BY <1>2, <1>3, <2>1, <2>6, BoundsAssumption
  <2> HIDE DEF left
  <2>8. /\ amount'[k] + Len(dc_buffer[k]) = left + Len(dc_buffer'[k])
        /\ amount'[k] <= Threshold + 1
        /\ \A j \in Kinds : j # k => amount'[j] = amount[j] /\ dc_buffer'[j] = dc_buffer[j]
    BY <1>1, <2>1, <2>2, <2>3, <2>7, SendIsExact
  <2>9. amount'[k] \in Nat /\ Len(dc_buffer'[k]) \in Nat
    BY <2>1 DEF TypeOK, Packets
  <2>10. CASE l = k
    <3>1. amount[l] = Len(dc_buffer[l]) + SumOf(events, l) + SumOf(rtc_events, l)
      BY <1>2
    <3>2. amount'[l] + Len(dc_buffer[l]) = amount[l] - sent + Len(dc_buffer'[l])
          /\ amount'[l] <= Threshold + 1 /\ amount'[l] \in Nat /\ Len(dc_buffer'[l]) \in Nat
      BY <2>7, <2>8, <2>9, <2>10
    <3>3. amount[l] \in Nat /\ Len(dc_buffer[l]) \in Nat /\ SumOf(rtc_events, l) \in Nat
      BY <1>3
    <3>4. SumOf(events, l) = sent + SumOf(events', l) /\ SumOf(events', l) \in Nat
      BY <2>4, <2>6, <2>10
    <3>5. SumOf(rtc_events', l) = SumOf(rtc_events, l)
      BY <2>3
    <3>6. amount'[l] = Len(dc_buffer'[l]) + SumOf(events', l) + SumOf(rtc_events, l)
      <4> DEFINE a == amount[l]
                 b == Len(dc_buffer[l])
                 e == SumOf(events, l)
                 r == SumOf(rtc_events, l)
                 newA == amount'[l]
                 newB == Len(dc_buffer'[l])
                 newE == SumOf(events', l)
      <4>1. a \in Nat /\ b \in Nat /\ e \in Nat /\ r \in Nat /\ newA \in Nat /\ newB \in Nat
            /\ newE \in Nat /\ a = b + e + r /\ newA + b = a - sent + newB /\ e = sent + newE
        BY <2>1, <3>1, <3>2, <3>3, <3>4
      <4> HIDE DEF a, b, e, r, newA, newB, newE
      <4>2. newA = newB + newE + r
        BY <2>1, <4>1
      <4> QED
        BY <4>2 DEF newA, newB, newE, r
    <3> QED
      BY <3>2, <3>5, <3>6
  <2>11. CASE l # k
    BY <1>2, <1>3, <2>3, <2>4, <2>5, <2>8, <2>11
  <2> QED
    BY <2>10, <2>11
<1>12. CASE OnRetryFrom
  <2> DEFINE again == Missing(retry_queue, Head(events).last)
             retries == [i \in DOMAIN again |-> PublishData(again[i])]
  <2>1. events # <<>> /\ Head(events).type # "BufferedAmountChange" /\ Head(events).last \in Nat
    BY <1>4, <1>12, TailType, EventTypes DEF OnRetryFrom, IsEvent
  <2>2. again \in Packets
    BY <2>1, MissingIs DEF TypeOK
  <2>3. events' = Tail(events) \o retries /\ UNCHANGED <<amount, dc_buffer, rtc_events>>
    BY <1>12 DEF OnRetryFrom, dcVars
  <2> HIDE DEF again
  <2>4. retries \in Seq(Events) /\ Len(retries) = Len(again)
    BY <2>2, RetryType
  <2>5. \A i \in 1..Len(retries) : Sent(retries[i], l) = 0
    <3>1. DOMAIN again = 1..Len(again)
      BY <2>2 DEF Packets
    <3> QED
      BY <2>4, <3>1 DEF Sent, PublishData
  <2> HIDE DEF retries
  <2>6. SumOf(events', l) = SumOf(events, l)
    BY <1>7, <2>1, <2>3, <2>4, <2>5, SumConcat
  <2> QED
    BY <1>2, <1>3, <2>3, <2>6
<1>13. CASE OnRtcBufferedAmountChange
  <2>1. /\ rtc_events # <<>> /\ Head(rtc_events) \in Events /\ Tail(rtc_events) \in Seq(Events)
        /\ events' = Append(events, Head(rtc_events)) /\ rtc_events' = Tail(rtc_events)
        /\ UNCHANGED <<amount, dc_buffer>>
    BY <1>1, <1>4, <1>13, TailType DEF OnRtcBufferedAmountChange, dcVars
  <2>2. SumOf(events', l) = SumOf(events, l) + Sent(Head(rtc_events), l)
    BY <1>4, <2>1, SumAppend
  <2>3. SumOf(rtc_events, l) = Sent(Head(rtc_events), l) + SumOf(rtc_events', l)
    BY <1>4, <2>1, SumTail
  <2>4. Sent(Head(rtc_events), l) \in Nat /\ SumOf(rtc_events', l) \in Nat
    BY <2>1, SentType, SumType
  <2> QED
    <3>1. amount[l] = Len(dc_buffer[l]) + SumOf(events, l) + SumOf(rtc_events, l)
          /\ amount[l] <= Threshold + 1
      BY <1>2
    <3>2. amount[l] \in Nat /\ Len(dc_buffer[l]) \in Nat /\ SumOf(events, l) \in Nat
      BY <1>3
    <3>3. amount' = amount /\ dc_buffer' = dc_buffer
      BY <2>1
    <3> QED
      BY <2>2, <2>3, <2>4, <3>1, <3>2, <3>3
<1>14. ASSUME NEW k \in Kinds, NEW n \in 1..Cardinality(Publications), DcSent(k, n)
       PROVE  amount'[l] = Len(dc_buffer'[l]) + SumOf(events', l) + SumOf(rtc_events', l)
              /\ amount'[l] <= Threshold + 1
  <2> DEFINE b == dc_buffer[k]
             e == BufferedAmountChange(k, n)
  <2>1. /\ b \in Seq(Publications) /\ n \in 1..Len(b) /\ Len(b) \in Nat
        /\ dc_buffer' = [dc_buffer EXCEPT ![k] = SubSeq(b, n + 1, Len(b))]
        /\ rtc_events' = Append(rtc_events, e) /\ UNCHANGED <<events, amount>>
        /\ dc_buffer \in [Kinds -> Seq(Publications)]
    <3>1. dc_buffer \in [Kinds -> Seq(Publications)]
      BY DEF TypeOK, Packets
    <3>2. b \in Seq(Publications) /\ Len(b) \in Nat
      BY <3>1
    <3> QED
      BY <1>14, <3>1, <3>2 DEF DcSent
  <2>2. e \in Events /\ Sent(e, k) = n /\ (l # k => Sent(e, l) = 0)
    BY <2>1, EventTypes DEF Sent, BufferedAmountChange
  <2> HIDE DEF e
  <2>3. SumOf(rtc_events', l) = SumOf(rtc_events, l) + Sent(e, l)
    BY <1>4, <2>1, <2>2, SumAppend
  <2>4. Len(SubSeq(b, n + 1, Len(b))) = Len(b) - n
    BY <2>1
  <2>5. dc_buffer'[k] = SubSeq(b, n + 1, Len(b)) /\ (l # k => dc_buffer'[l] = dc_buffer[l])
    BY <2>1
  <2>6. CASE l = k
    BY <1>2, <1>3, <2>1, <2>2, <2>3, <2>4, <2>5, <2>6
  <2>7. CASE l # k
    BY <1>2, <1>3, <2>1, <2>2, <2>3, <2>5, <2>7
  <2> QED
    BY <2>6, <2>7
<1>15. CASE Resume
  <2>1. RetryFrom(Highest(server)) \in Events
        /\ RetryFrom(Highest(server)).type # "BufferedAmountChange"
    BY HighestType, EventTypes DEF TypeOK, RetryFrom
  <2>2. events' = Append(events, RetryFrom(Highest(server)))
        /\ UNCHANGED <<amount, dc_buffer, rtc_events>>
    BY <1>15 DEF Resume
  <2> QED
    BY <1>6, <2>1, <2>2
<1>16. CASE UNCHANGED <<amount, dc_buffer, events, rtc_events>>
  BY <1>2, <1>16
<1> QED
  BY <1>8, <1>9, <1>10, <1>11, <1>12, <1>13, <1>14, <1>15, <1>16
  DEF Next, DataChannelTask, Network, TaskEnds, LinkLost, LinkBack, DcCloses, OnData, DownlinkLost,
      SyncStateSent, ServerReceives, ServerSyncs, vars, pubVars, dcVars

-----------------------------------------------------------------------------
(* The queues stay sound: one lemma per thing that happens to them *)

LEMMA ConcatIs ==
    ASSUME NEW T, NEW a \in Seq(T), NEW b \in Seq(T)
    PROVE  a \o b \in Seq(T) /\ Len(a \o b) = Len(a) + Len(b)
OBVIOUS

LEMMA PublishDataOnce == \A p, q : PublishData(p) = PublishData(q) => p = q
BY DEF PublishData

\* The first n packets of the request queue are sent and kept for a retry.
LEMMA SendKeepsSound ==
    ASSUME NEW seq \in [Publications -> Nat], NEW r \in Packets, NEW q \in Packets,
           NEW e \in Seq(Events), NEW h, NEW n \in 0..Len(q), Sound(seq, r, q, e, h)
    PROVE  Sound(seq, r \o SubSeq(q, 1, n), SubSeq(q, n + 1, Len(q)), e,
                 h \cup ToSet(SubSeq(q, 1, n)))
<1> DEFINE R == Len(r)
           Q == Len(q)
           out == SubSeq(q, 1, n)
           r2 == r \o out
           q2 == SubSeq(q, n + 1, Q)
           h2 == h \cup ToSet(out)
<1>1. R \in Nat /\ Q \in Nat /\ n \in 0..Q /\ DOMAIN r = 1..R /\ DOMAIN q = 1..Q
  BY DEF Packets
<1>2. Len(out) = n /\ out \in Seq(Publications) /\ \A i \in 1..n : out[i] = q[i] /\ i \in 1..Q
  BY <1>1 DEF Packets
<1>3. DOMAIN r2 = 1..(R + n)
      /\ \A i \in 1..(R + n) : \/ i \in 1..R /\ r2[i] = r[i]
                               \/ i - R \in 1..n /\ r2[i] = q[i - R]
  <2> HIDE DEF out
  <2>1. r \in Seq(Publications) /\ DOMAIN r2 = 1..(R + n)
    <3>1. r \in Seq(Publications) /\ out \in Seq(Publications) /\ Len(out) = n
      BY <1>2 DEF Packets
    <3>2. Len(r \o out) = Len(r) + Len(out) /\ r2 \in Seq(Publications)
      BY <3>1, ConcatIs
    <3>3. Len(r2) = R + n
      BY <3>1, <3>2
    <3> QED
      BY <3>1, <3>2, <3>3
  <2>2. \A i \in 1..R : r2[i] = r[i]
    BY <1>1, <1>2, <2>1
  <2>3. ASSUME NEW i \in 1..(R + n), i > R PROVE r2[i] = out[i - R] /\ i - R \in 1..n
    BY <1>1, <1>2, <2>1, <2>3
  <2> HIDE DEF r2, R
  <2> QED
    BY <1>1, <1>2, <2>1, <2>2, <2>3
<1>4. DOMAIN q2 = 1..(Q - n) /\ \A i \in 1..(Q - n) : q2[i] = q[i + n] /\ i + n \in 1..Q
  BY <1>1 DEF Packets
<1>5. \A x : x \in h2 <=> x \in h \/ \E i \in 1..n : x = q[i]
  <2> HIDE DEF out
  <2>1. DOMAIN out = 1..n
    BY <1>2
  <2> QED
    BY <1>2, <2>1 DEF ToSet
<1> HIDE DEF R, Q, out, r2, q2, h2
<1> USE DEF Unsent
<1>6. \A i \in 1..Q : q[i] \in Reliable /\ seq[q[i]] > 0
  BY <1>1 DEF Sound, WaitingAreNumbered
<1>7. Earlier(seq, h2)
  <2>1. \A p \in h2 : p \in Reliable /\ seq[p] > 0
    BY <1>2, <1>5, <1>6 DEF Sound, Earlier
  <2>2. ASSUME NEW p \in h2, NEW t \in Reliable, 0 < seq[t], seq[t] < seq[p], t \notin h
        PROVE  t \in h2
    <3>1. p \notin h
      BY <2>2 DEF Sound, Earlier
    <3>2. PICK j \in 1..n : p = q[j]
      BY <1>5, <3>1
    <3>3. p \in Unsent(seq, h) /\ t \in Unsent(seq, h)
      BY <2>1, <2>2, <3>1
    <3>4. j \in 1..Q
      BY <1>2
    <3>5. \A i \in DOMAIN e : e[i] # PublishData(t)
      BY <1>1, <2>2, <3>2, <3>3, <3>4 DEF Sound, UnsentInOrder
    <3>6. PICK i \in 1..Q : q[i] = t
      BY <1>1, <3>3, <3>5 DEF Sound, UnsentWait
    <3>7. i < j
      BY <1>1, <2>2, <3>2, <3>3, <3>4, <3>6 DEF Sound, UnsentInOrder
    <3>8. i \in 1..n
      BY <1>1, <3>7
    <3> QED
      BY <1>5, <3>6, <3>8
  <2>3. \A p \in h2, t \in Reliable : 0 < seq[t] /\ seq[t] < seq[p] => t \in h2
    BY <1>5, <2>2
  <2> QED
    BY <2>1, <2>3 DEF Earlier
<1>8. RetriesWereSent(r2, h2)
  BY <1>1, <1>3, <1>5 DEF Sound, RetriesWereSent
<1>9. WaitingAreNumbered(seq, q2, e)
  BY <1>4, <1>6 DEF Sound, WaitingAreNumbered
<1>10. OnePlace(r2, q2, e)
  <2> USE DEF Sound, OnePlace
  <2>1. \A i, j \in 1..(R + n) : r2[i] = r2[j] => i = j
    <3> SUFFICES ASSUME NEW i \in 1..(R + n), NEW j \in 1..(R + n), r2[i] = r2[j] PROVE i = j
      OBVIOUS
    <3>1. \A a \in 1..R, b \in 1..Q : r[a] # q[b]
      BY <1>1
    <3>2. \A a, b \in 1..R : r[a] = r[b] => a = b
      BY <1>1
    <3>3. \A a, b \in 1..Q : q[a] = q[b] => a = b
      BY <1>1
    <3>4. \/ i \in 1..R /\ r2[i] = r[i]
          \/ i - R \in 1..Q /\ r2[i] = q[i - R]
      BY <1>2, <1>3
    <3>5. \/ j \in 1..R /\ r2[j] = r[j]
          \/ j - R \in 1..Q /\ r2[j] = q[j - R]
      BY <1>2, <1>3
    <3> HIDE DEF Sound, OnePlace
    <3>6. CASE i \in 1..R /\ r2[i] = r[i]
      BY <3>1, <3>2, <3>5, <3>6
    <3>7. CASE i - R \in 1..Q /\ r2[i] = q[i - R]
      <4>1. j - R \in 1..Q /\ r2[j] = q[j - R]
        BY <3>1, <3>5, <3>7
      <4>2. i - R = j - R
        BY <3>3, <3>7, <4>1
      <4> QED
        BY <1>1, <4>2
    <3> QED
      BY <3>4, <3>6, <3>7
  <2>2. \A i, j \in 1..(Q - n) : q2[i] = q2[j] => i = j
    <3> SUFFICES ASSUME NEW i \in 1..(Q - n), NEW j \in 1..(Q - n), q2[i] = q2[j] PROVE i = j
      OBVIOUS
    <3>1. i + n = j + n
      BY <1>1, <1>4
    <3> QED
      BY <1>1, <3>1
  <2>3. \A i \in 1..(R + n), j \in 1..(Q - n) : r2[i] # q2[j]
    <3> SUFFICES ASSUME NEW i \in 1..(R + n), NEW j \in 1..(Q - n), r2[i] = q2[j] PROVE FALSE
      OBVIOUS
    <3>1. q2[j] = q[j + n] /\ j + n \in 1..Q
      BY <1>4
    <3>2. CASE i \in 1..R /\ r2[i] = r[i]
      BY <1>1, <3>1, <3>2
    <3>3. CASE i - R \in 1..n /\ r2[i] = q[i - R]
      <4>1. i - R \in 1..Q
        BY <1>2, <3>3
      <4>2. i - R = j + n
        BY <1>1, <3>1, <3>3, <4>1
      <4> QED
        BY <1>1, <3>3, <4>2
    <3> QED
      BY <1>3, <3>2, <3>3
  <2>4. \A i \in DOMAIN e, j \in 1..(R + n) : e[i] # PublishData(r2[j])
    <3> SUFFICES ASSUME NEW i \in DOMAIN e, NEW j \in 1..(R + n) PROVE e[i] # PublishData(r2[j])
      OBVIOUS
    <3>1. (j \in 1..R /\ r2[j] = r[j]) \/ (j - R \in 1..Q /\ r2[j] = q[j - R])
      BY <1>2, <1>3
    <3> QED
      BY <1>1, <3>1
  <2>5. \A i \in DOMAIN e, j \in 1..(Q - n) : e[i] # PublishData(q2[j])
    BY <1>1, <1>4
  <2>6. \A i, j \in DOMAIN e, p \in Reliable :
            e[i] = PublishData(p) /\ e[j] = PublishData(p) => i = j
    OBVIOUS
  <2> HIDE DEF Sound
  <2> QED
    BY <1>3, <1>4, <2>1, <2>2, <2>3, <2>4, <2>5, <2>6
<1>11. Unsent(seq, h2) \subseteq Unsent(seq, h) /\ \A p \in Unsent(seq, h2) : p \notin h2
  BY <1>5
<1>12. UnsentWait(seq, q2, e, h2)
  <2> SUFFICES ASSUME NEW p \in Unsent(seq, h2), \A i \in DOMAIN e : e[i] # PublishData(p)
               PROVE  \E i \in DOMAIN q2 : q2[i] = p
    BY DEF UnsentWait
  <2>1. PICK i \in 1..Q : q[i] = p
    BY <1>1, <1>11 DEF Sound, UnsentWait
  <2>2. i \notin 1..n
    BY <1>5, <1>11, <2>1
  <2>3. i - n \in 1..(Q - n) /\ i - n + n = i
    BY <1>1, <2>2
  <2>4. q2[i - n] = p
    BY <1>4, <2>1, <2>3
  <2> QED
    BY <1>4, <2>3, <2>4
<1>13. UnsentInOrder(seq, q2, e, h2)
  <2> SUFFICES ASSUME NEW a \in Unsent(seq, h2), NEW b \in Unsent(seq, h2), seq[a] < seq[b]
               PROVE  /\ \A i, j \in DOMAIN q2 : q2[i] = a /\ q2[j] = b => i < j
                      /\ \A i, j \in DOMAIN e :
                            e[i] = PublishData(a) /\ e[j] = PublishData(b) => i < j
                      /\ \A i \in DOMAIN e, j \in DOMAIN q2 :
                            ~(e[i] = PublishData(a) /\ q2[j] = b)
    BY DEF UnsentInOrder
  <2>1. /\ \A i, j \in 1..Q : q[i] = a /\ q[j] = b => i < j
        /\ \A i, j \in DOMAIN e : e[i] = PublishData(a) /\ e[j] = PublishData(b) => i < j
        /\ \A i \in DOMAIN e, j \in 1..Q : ~(e[i] = PublishData(a) /\ q[j] = b)
    BY <1>1, <1>11 DEF Sound, UnsentInOrder
  <2>2. \A i, j \in 1..(Q - n) : q2[i] = a /\ q2[j] = b => i < j
    <3> SUFFICES ASSUME NEW i \in 1..(Q - n), NEW j \in 1..(Q - n), q2[i] = a, q2[j] = b
                 PROVE  i < j
      OBVIOUS
    <3>1. i + n < j + n
      BY <1>4, <2>1
    <3> QED
      BY <1>1, <3>1
  <2>3. \A i \in DOMAIN e, j \in 1..(Q - n) : ~(e[i] = PublishData(a) /\ q2[j] = b)
    BY <1>4, <2>1
  <2> QED
    BY <1>4, <2>1, <2>2, <2>3
<1> QED
  BY <1>7, <1>8, <1>9, <1>10, <1>12, <1>13 DEF Sound, R, Q, out, r2, q2, h2

\* The retry queue is trimmed.
LEMMA TrimKeepsSound ==
    ASSUME NEW seq, NEW r \in Packets, NEW q, NEW e, NEW h, NEW n \in Nat,
           Sound(seq, r, q, e, h)
    PROVE  Sound(seq, Trim(r, n), q, e, h)
<1> DEFINE R == Len(r)
           r2 == Trim(r, n)
           off == IF R <= n THEN 0 ELSE R - n
<1>1. R \in Nat /\ DOMAIN r = 1..R
  BY DEF Packets
<1>2. off \in 0..R /\ DOMAIN r2 = 1..(R - off)
      /\ \A i \in 1..(R - off) : r2[i] = r[i + off] /\ i + off \in 1..R
  <2>1. CASE R <= n
    BY <1>1, <2>1 DEF Trim
  <2>2. CASE R > n
    <3>1. r2 = SubSeq(r, R - n + 1, R)
      BY <1>1, <2>2 DEF Trim
    <3> HIDE DEF R
    <3>2. off = R - n /\ off \in 0..R /\ R - n + 1 \in 1..(R + 1) /\ n = R - off
      BY <1>1, <2>2
    <3> HIDE DEF off, r2
    <3>3. r \in Seq(Publications) /\ R = Len(r)
      BY DEF Packets, R
    <3>4. DOMAIN r2 = 1..n /\ \A i \in 1..n : r2[i] = r[R - n + 1 + i - 1]
      BY <1>1, <2>2, <3>1, <3>3
    <3>5. \A i \in 1..n : R - n + 1 + i - 1 = i + off /\ i + off \in 1..R
      BY <1>1, <2>2, <3>2
    <3> QED
      BY <3>2, <3>4, <3>5
  <2> QED
    BY <1>1, <2>1, <2>2
<1> HIDE DEF R, r2, off
<1>3. RetriesWereSent(r2, h)
  BY <1>1, <1>2 DEF Sound, RetriesWereSent
<1>4. OnePlace(r2, q, e)
  <2>1. \A i, j \in 1..(R - off) : r2[i] = r2[j] => i = j
    <3> SUFFICES ASSUME NEW i \in 1..(R - off), NEW j \in 1..(R - off), r2[i] = r2[j]
                 PROVE  i = j
      OBVIOUS
    <3>1. i + off = j + off
      BY <1>1, <1>2 DEF Sound, OnePlace
    <3> QED
      BY <1>2, <3>1
  <2>2. /\ \A i \in 1..(R - off), j \in DOMAIN q : r2[i] # q[j]
        /\ \A i \in DOMAIN e, j \in 1..(R - off) : e[i] # PublishData(r2[j])
    BY <1>1, <1>2 DEF Sound, OnePlace
  <2> QED
    BY <1>2, <2>1, <2>2 DEF Sound, OnePlace
<1> QED
  BY <1>3, <1>4 DEF Sound, r2

\* The head of the events is taken and is, or becomes, no packet to be sent; or it
\* is a packet of the other kind.
LEMMA HeadKeepsSound ==
    ASSUME NEW seq, NEW r, NEW q, NEW e \in Seq(Events), NEW h, e # <<>>,
           \A p \in Reliable : Head(e) # PublishData(p), Sound(seq, r, q, e, h)
    PROVE  Sound(seq, r, q, Tail(e), h)
<1> DEFINE N == Len(e)
           e2 == Tail(e)
<1>1. /\ N \in Nat /\ N > 0 /\ DOMAIN e = 1..N /\ DOMAIN e2 = 1..(N - 1)
      /\ \A i \in 1..(N - 1) : e2[i] = e[i + 1] /\ i + 1 \in 1..N
      /\ Head(e) = e[1]
  OBVIOUS
<1>6. \A i \in 1..N : i # 1 => i - 1 \in 1..(N - 1) /\ e2[i - 1] = e[i]
  OBVIOUS
<1> HIDE DEF N, e2
<1>2. WaitingAreNumbered(seq, q, e2)
  <2>1. WaitingAreNumbered(seq, q, e)
    BY DEF Sound
  <2> QED
    BY <1>1, <2>1 DEF WaitingAreNumbered
<1>3. OnePlace(r, q, e2)
  <2> OnePlace(r, q, e)
    BY DEF Sound
  <2>0. \A i, j \in 1..N, p \in Reliable :
            e[i] = PublishData(p) /\ e[j] = PublishData(p) => i = j
    BY <1>1 DEF OnePlace
  <2>1. ASSUME NEW i \in 1..(N - 1), NEW j \in 1..(N - 1), NEW p \in Reliable,
               e2[i] = PublishData(p), e2[j] = PublishData(p)
        PROVE  i = j
    <3>0. e[i + 1] = PublishData(p) /\ e[j + 1] = PublishData(p) /\ i + 1 \in 1..N /\ j + 1 \in 1..N
      BY <1>1, <2>1
    <3>1. i + 1 = j + 1
      BY <2>0, <3>0
    <3> QED
      BY <1>1, <3>1
  <2>2. \A i \in 1..(N - 1), j \in DOMAIN r : e2[i] # PublishData(r[j])
    BY <1>1 DEF OnePlace
  <2>3. \A i \in 1..(N - 1), j \in DOMAIN q : e2[i] # PublishData(q[j])
    BY <1>1 DEF OnePlace
  <2>4. DOMAIN e2 = 1..(N - 1)
    BY <1>1
  <2> QED
    BY <2>1, <2>2, <2>3, <2>4 DEF OnePlace
<1>4. UnsentWait(seq, q, e2, h)
  <2> SUFFICES ASSUME NEW p \in Unsent(seq, h), \A i \in DOMAIN q : q[i] # p
               PROVE  \E i \in DOMAIN e2 : e2[i] = PublishData(p)
    BY DEF UnsentWait
  <2>1. PICK i \in 1..N : e[i] = PublishData(p)
    BY <1>1 DEF Sound, UnsentWait
  <2>2. i # 1
    BY <1>1, <2>1 DEF Unsent
  <2> QED
    BY <1>1, <1>6, <2>1, <2>2
<1>5. UnsentInOrder(seq, q, e2, h)
  <2> SUFFICES ASSUME NEW a \in Unsent(seq, h), NEW b \in Unsent(seq, h), seq[a] < seq[b]
               PROVE  /\ \A i, j \in DOMAIN q : q[i] = a /\ q[j] = b => i < j
                      /\ \A i, j \in DOMAIN e2 :
                            e2[i] = PublishData(a) /\ e2[j] = PublishData(b) => i < j
                      /\ \A i \in DOMAIN e2, j \in DOMAIN q :
                            ~(e2[i] = PublishData(a) /\ q[j] = b)
    BY DEF UnsentInOrder
  <2>1. /\ \A i, j \in DOMAIN q : q[i] = a /\ q[j] = b => i < j
        /\ \A i, j \in 1..N : e[i] = PublishData(a) /\ e[j] = PublishData(b) => i < j
        /\ \A i \in 1..N, j \in DOMAIN q : ~(e[i] = PublishData(a) /\ q[j] = b)
    BY <1>1 DEF Sound, UnsentInOrder
  <2>2. ASSUME NEW i \in 1..(N - 1), NEW j \in 1..(N - 1),
               e2[i] = PublishData(a), e2[j] = PublishData(b)
        PROVE  i < j
    <3>1. i + 1 < j + 1
      BY <1>1, <2>1, <2>2
    <3> QED
      BY <1>1, <3>1
  <2> QED
    BY <1>1, <2>1, <2>2
<1> QED
  BY <1>2, <1>3, <1>4, <1>5 DEF Sound, e2

\* An event that is no packet to be sent joins the queue of events.
LEMMA EventKeepsSound ==
    ASSUME NEW seq, NEW r, NEW q, NEW e \in Seq(Events), NEW h, NEW x \in Events,
           \A p \in Reliable : x # PublishData(p), Sound(seq, r, q, e, h)
    PROVE  Sound(seq, r, q, Append(e, x), h)
<1> DEFINE N == Len(e)
           e2 == Append(e, x)
<1>1. /\ N \in Nat /\ DOMAIN e = 1..N /\ DOMAIN e2 = 1..(N + 1)
      /\ \A i \in 1..N : e2[i] = e[i] /\ i \in 1..(N + 1)
      /\ e2[N + 1] = x /\ \A i \in 1..(N + 1) : i \in 1..N \/ i = N + 1
  OBVIOUS
<1> HIDE DEF N, e2
<1>2. \A i \in DOMAIN e2, p \in Reliable : e2[i] = PublishData(p) =>
         i \in DOMAIN e /\ e[i] = PublishData(p)
  BY <1>1
<1>3. \A i \in DOMAIN e : i \in DOMAIN e2 /\ e2[i] = e[i]
  BY <1>1
<1>4. WaitingAreNumbered(seq, q, e2)
  BY <1>2 DEF Sound, WaitingAreNumbered
<1>5. OnePlace(r, q, e2)
  <2>1. \A i \in DOMAIN r : r[i] \in Reliable
    BY DEF Sound, RetriesWereSent, Earlier
  <2>2. \A i \in DOMAIN q : q[i] \in Reliable
    BY DEF Sound, WaitingAreNumbered
  <2> QED
    BY <1>2, <2>1, <2>2 DEF Sound, OnePlace
<1>6. UnsentWait(seq, q, e2, h)
  BY <1>3 DEF Sound, UnsentWait
<1>7. UnsentInOrder(seq, q, e2, h)
  BY <1>2 DEF Sound, UnsentInOrder, Unsent
<1> QED
  BY <1>4, <1>5, <1>6, <1>7 DEF Sound, e2

\* The packet at the head of the events joins the request queue.
LEMMA RequestKeepsSound ==
    ASSUME NEW seq \in [Publications -> Nat], NEW r, NEW q \in Packets,
           NEW e \in Seq(Events), NEW h, e # <<>>,
           NEW p \in Reliable, Head(e) = PublishData(p), Sound(seq, r, q, e, h)
    PROVE  Sound(seq, r, Append(q, p), Tail(e), h)
<1> DEFINE N == Len(e)
           e2 == Tail(e)
           Q == Len(q)
           q2 == Append(q, p)
<1>1. /\ N \in Nat /\ N > 0 /\ DOMAIN e = 1..N /\ DOMAIN e2 = 1..(N - 1)
      /\ \A i \in 1..(N - 1) : e2[i] = e[i + 1] /\ i + 1 \in 1..N /\ i + 1 # 1
      /\ 1 \in 1..N /\ e[1] = PublishData(p)
  OBVIOUS
<1>9. \A i \in 1..N : i # 1 => i - 1 \in 1..(N - 1) /\ e2[i - 1] = e[i]
  OBVIOUS
<1>2. /\ Q \in Nat /\ DOMAIN q = 1..Q /\ DOMAIN q2 = 1..(Q + 1) /\ q2[Q + 1] = p
      /\ \A i \in 1..Q : q2[i] = q[i] /\ i \in 1..(Q + 1) /\ i < Q + 1
      /\ \A i \in 1..(Q + 1) : i = Q + 1 \/ i \in 1..Q
  BY DEF Packets
<1> HIDE DEF N, e2, Q, q2
<1> /\ OnePlace(r, q, e) /\ WaitingAreNumbered(seq, q, e)
    /\ UnsentWait(seq, q, e, h) /\ UnsentInOrder(seq, q, e, h)
  BY DEF Sound
<1>3. \A i \in 1..(N - 1) : e2[i] # PublishData(p)
  BY <1>1 DEF OnePlace
<1>4. (\A i \in 1..Q : q[i] # p) /\ (\A i \in DOMAIN r : r[i] # p)
  BY <1>1, <1>2, SMTT(20) DEF OnePlace
<1>5. WaitingAreNumbered(seq, q2, e2)
  <2>1. \A i \in 1..(Q + 1) : q2[i] \in Reliable /\ seq[q2[i]] > 0
    <3>1. \A i \in 1..Q : q[i] \in Reliable /\ seq[q[i]] > 0
      BY <1>2 DEF WaitingAreNumbered
    <3>2. seq[p] > 0
      BY <1>1 DEF WaitingAreNumbered
    <3> QED
      BY <1>2, <3>1, <3>2
  <2>2. \A i \in 1..(N - 1), t \in Reliable : e2[i] = PublishData(t) => seq[t] > 0
    BY <1>1 DEF WaitingAreNumbered
  <2>3. DOMAIN e2 = 1..(N - 1) /\ DOMAIN q2 = 1..(Q + 1)
    BY <1>1, <1>2
  <2> QED
    BY <2>1, <2>2, <2>3 DEF WaitingAreNumbered
<1>6. OnePlace(r, q2, e2)
  <2>1. ASSUME NEW i \in 1..(N - 1), NEW j \in 1..(N - 1), NEW t \in Reliable,
               e2[i] = PublishData(t), e2[j] = PublishData(t)
        PROVE  i = j
    <3>1. i + 1 = j + 1
      BY <1>1, <2>1 DEF OnePlace
    <3> QED
      BY <1>1, <3>1
  <2>2. \A i, j \in 1..(Q + 1) : q2[i] = q2[j] => i = j
    BY <1>2, <1>4 DEF OnePlace
  <2>3. \A i \in DOMAIN r, j \in 1..(Q + 1) : r[i] # q2[j]
    BY <1>2, <1>4 DEF OnePlace
  <2>4. \A i \in 1..(N - 1), j \in DOMAIN r : e2[i] # PublishData(r[j])
    BY <1>1 DEF OnePlace
  <2>5. \A i \in 1..(N - 1), j \in 1..(Q + 1) : e2[i] # PublishData(q2[j])
    BY <1>1, <1>2, <1>3, SMTT(20) DEF OnePlace
  <2>6. \A i, j \in DOMAIN r : r[i] = r[j] => i = j
    BY DEF OnePlace
  <2> QED
    BY <1>1, <1>2, <2>1, <2>2, <2>3, <2>4, <2>5, <2>6 DEF OnePlace
<1>7. UnsentWait(seq, q2, e2, h)
  <2> SUFFICES ASSUME NEW t \in Unsent(seq, h), \A i \in DOMAIN e2 : e2[i] # PublishData(t)
               PROVE  \E i \in DOMAIN q2 : q2[i] = t
    BY DEF UnsentWait
  <2>1. CASE t = p
    BY <1>2, <2>1
  <2>2. CASE t # p
    <3>1. \A i \in 1..N : e[i] # PublishData(t)
      BY <1>1, <1>9, <2>2, PublishDataOnce
    <3>2. \E i \in 1..Q : q[i] = t
      BY <1>1, <1>2, <3>1 DEF UnsentWait
    <3> QED
      BY <1>2, <3>2
  <2> QED
    BY <2>1, <2>2
<1>8. UnsentInOrder(seq, q2, e2, h)
  <2> SUFFICES ASSUME NEW a \in Unsent(seq, h), NEW b \in Unsent(seq, h), seq[a] < seq[b]
               PROVE  /\ \A i, j \in 1..(Q + 1) : q2[i] = a /\ q2[j] = b => i < j
                      /\ \A i, j \in 1..(N - 1) :
                            e2[i] = PublishData(a) /\ e2[j] = PublishData(b) => i < j
                      /\ \A i \in 1..(N - 1), j \in 1..(Q + 1) :
                            ~(e2[i] = PublishData(a) /\ q2[j] = b)
    BY <1>1, <1>2 DEF UnsentInOrder
  <2>1. /\ \A i, j \in 1..Q : q[i] = a /\ q[j] = b => i < j
        /\ \A i, j \in 1..N : e[i] = PublishData(a) /\ e[j] = PublishData(b) => i < j
        /\ \A i \in 1..N, j \in 1..Q : ~(e[i] = PublishData(a) /\ q[j] = b)
    <3>1. DOMAIN e = 1..N /\ DOMAIN q = 1..Q
      BY <1>1, <1>2
    <3> QED
      BY <3>1 DEF UnsentInOrder
  <2>2. a # b /\ a \in Reliable /\ b \in Reliable /\ seq[a] \in Nat /\ seq[b] \in Nat
    BY DEF Unsent, Publications
  <2>3. ASSUME NEW i \in 1..(Q + 1), NEW j \in 1..(Q + 1), q2[i] = a, q2[j] = b PROVE i < j
    <3>1. CASE j = Q + 1
      BY <1>2, <2>2, <2>3, <3>1
    <3>2. CASE i = Q + 1 /\ j \in 1..Q
      \* then a is the packet at the head, and b was already requested
      BY <1>1, <1>2, <2>1, <2>3, <3>2
    <3>3. CASE i \in 1..Q /\ j \in 1..Q
      BY <1>2, <2>1, <2>3, <3>3
    <3> QED
      BY <1>2, <3>1, <3>2, <3>3
  <2>4. ASSUME NEW i \in 1..(N - 1), NEW j \in 1..(N - 1),
               e2[i] = PublishData(a), e2[j] = PublishData(b)
        PROVE  i < j
    <3>1. i + 1 < j + 1
      BY <1>1, <2>1, <2>4
    <3> QED
      BY <1>1, <3>1
  <2>5. ASSUME NEW i \in 1..(N - 1), NEW j \in 1..(Q + 1), e2[i] = PublishData(a), q2[j] = b
        PROVE  FALSE
    <3>1. e[i + 1] = PublishData(a) /\ i + 1 \in 1..N
      BY <1>1, <2>5
    <3>2. CASE j = Q + 1
      \* the packet b at the head would have been queued before a
      <4>1. e[1] = PublishData(b)
        BY <1>1, <1>2, <2>5, <3>2
      <4>2. i + 1 < 1
        BY <1>1, <2>1, <3>1, <4>1
      <4> QED
        BY <1>1, <4>2
    <3>3. CASE j \in 1..Q
      BY <1>2, <2>1, <2>5, <3>1, <3>3
    <3> QED
      BY <1>2, <3>2, <3>3
  <2> QED
    BY <2>3, <2>4, <2>5
<1> QED
  BY <1>5, <1>6, <1>7, <1>8 DEF Sound, e2, q2

\* What the server has not got is queued again, behind the events.
LEMMA RetryKeepsSound ==
    ASSUME NEW seq, NEW r \in Packets, NEW q, NEW e \in Seq(Events), NEW h,
           NEW again \in Packets,
           \A i \in DOMAIN again : \E j \in DOMAIN r : again[i] = r[j],
           \A a, b \in DOMAIN again : again[a] = again[b] => a = b,
           Sound(seq, r, q, e, h)
    PROVE  Sound(seq, <<>>, q, e \o [i \in DOMAIN again |-> PublishData(again[i])], h)
<1> DEFINE N == Len(e)
           M == Len(again)
           retries == [i \in DOMAIN again |-> PublishData(again[i])]
           e2 == e \o retries
<1>1. N \in Nat /\ M \in Nat /\ DOMAIN e = 1..N /\ DOMAIN again = 1..M
      /\ retries \in Seq(Events) /\ Len(retries) = M
      /\ \A i \in 1..M : retries[i] = PublishData(again[i])
  <2>1. N \in Nat /\ M \in Nat /\ DOMAIN e = 1..N /\ DOMAIN again = 1..M
    BY DEF Packets
  <2> HIDE DEF M, N
  <2> QED
    BY <2>1, RetryType DEF M
<1> HIDE DEF retries
<1>2. DOMAIN e2 = 1..(N + M)
      /\ \A i \in 1..(N + M) : \/ i \in 1..N /\ e2[i] = e[i]
                               \/ i - N \in 1..M /\ e2[i] = PublishData(again[i - N])
  <2>1. Len(e2) = N + M /\ e2 \in Seq(Events)
    BY <1>1
  <2>2. \A i \in 1..N : e2[i] = e[i]
    BY <1>1
  <2>3. ASSUME NEW i \in 1..(N + M), i > N PROVE e2[i] = retries[i - N] /\ i - N \in 1..M
    BY <1>1, <2>3
  <2> HIDE DEF e2, N, M
  <2> QED
    BY <1>1, <2>1, <2>2, <2>3
<1>3. \A i \in 1..N : i \in 1..(N + M) /\ e2[i] = e[i]
  BY <1>1
<1> HIDE DEF N, M, e2
<1>4. \A i \in 1..M : /\ again[i] \in h /\ again[i] \in Reliable /\ seq[again[i]] > 0
                      /\ \A j \in DOMAIN q : again[i] # q[j]
                      /\ \A j \in 1..N : e[j] # PublishData(again[i])
  BY <1>1 DEF Sound, RetriesWereSent, Earlier, OnePlace
<1>5. \A a, b \in 1..M : again[a] = again[b] => a = b
  BY <1>1 DEF Sound, OnePlace
<1>6. RetriesWereSent(<<>>, h)
  BY DEF RetriesWereSent
<1>7. WaitingAreNumbered(seq, q, e2)
  <2>1. ASSUME NEW i \in 1..(N + M), NEW p \in Reliable, e2[i] = PublishData(p)
        PROVE  seq[p] > 0
    <3>1. CASE i \in 1..N /\ e2[i] = e[i]
      BY <1>1, <2>1, <3>1 DEF Sound, WaitingAreNumbered
    <3>2. CASE i - N \in 1..M /\ e2[i] = PublishData(again[i - N])
      <4>1. p = again[i - N]
        BY <2>1, <3>2, PublishDataOnce
      <4> QED
        BY <1>4, <3>2, <4>1
    <3> QED
      BY <1>2, <3>1, <3>2
  <2> QED
    BY <1>2, <2>1 DEF Sound, WaitingAreNumbered
<1>8. OnePlace(<<>>, q, e2)
  <2>1. ASSUME NEW i \in 1..(N + M), NEW j \in 1..(N + M), NEW p \in Reliable,
               e2[i] = PublishData(p), e2[j] = PublishData(p)
        PROVE  i = j
    <3>1. CASE i \in 1..N /\ e2[i] = e[i]
      <4>1. j \in 1..N /\ e2[j] = e[j]
        BY <1>2, <1>4, <2>1, <3>1, PublishDataOnce
      <4>2. \A a, b \in 1..N, t \in Reliable :
               e[a] = PublishData(t) /\ e[b] = PublishData(t) => a = b
        BY <1>1 DEF Sound, OnePlace
      <4> QED
        BY <2>1, <3>1, <4>1, <4>2
    <3>2. CASE i - N \in 1..M /\ e2[i] = PublishData(again[i - N])
      <4>1. p = again[i - N]
        BY <2>1, <3>2, PublishDataOnce
      <4>2. j - N \in 1..M /\ e2[j] = PublishData(again[j - N])
        BY <1>2, <1>4, <2>1, <3>2, <4>1
      <4>3. p = again[j - N]
        BY <2>1, <4>2, PublishDataOnce
      <4>4. i - N = j - N
        BY <1>5, <3>2, <4>1, <4>2, <4>3
      <4> QED
        BY <1>1, <4>4
    <3> QED
      BY <1>2, <3>1, <3>2
  <2>2. ASSUME NEW i \in 1..(N + M), NEW j \in DOMAIN q PROVE e2[i] # PublishData(q[j])
    <3>1. CASE i \in 1..N /\ e2[i] = e[i]
      BY <1>1, <3>1 DEF Sound, OnePlace
    <3>2. CASE i - N \in 1..M /\ e2[i] = PublishData(again[i - N])
      BY <1>4, <3>2, PublishDataOnce
    <3> QED
      BY <1>2, <3>1, <3>2
  <2>3. \A i, j \in DOMAIN q : q[i] = q[j] => i = j
    BY DEF Sound, OnePlace
  <2> QED
    BY <1>2, <2>1, <2>2, <2>3 DEF OnePlace
<1>9. UnsentWait(seq, q, e2, h)
  BY <1>1, <1>2, <1>3 DEF Sound, UnsentWait
<1>10. \A i \in 1..(N + M), p \in Unsent(seq, h) : e2[i] = PublishData(p) =>
          i \in 1..N /\ e[i] = PublishData(p)
  BY <1>2, <1>4, PublishDataOnce DEF Unsent
<1>11. UnsentInOrder(seq, q, e2, h)
  BY <1>1, <1>2, <1>10 DEF Sound, UnsentInOrder
<1> QED
  BY <1>6, <1>7, <1>8, <1>9, <1>11 DEF Sound, e2, retries

\* A packet gets the next number and is queued behind the events.
LEMMA NumberKeepsSound ==
    ASSUME NEW seq \in [Publications -> Nat], NEW r, NEW q, NEW e \in Seq(Events), NEW h,
           NEW p \in Reliable, seq[p] = 0, NEW next \in Nat, next > 0,
           \A t \in Reliable : seq[t] < next, Sound(seq, r, q, e, h)
    PROVE  Sound([seq EXCEPT ![p] = next], r, q, Append(e, PublishData(p)), h)
<1> DEFINE N == Len(e)
           e2 == Append(e, PublishData(p))
           seq2 == [seq EXCEPT ![p] = next]
<1>1. p \in Publications /\ PublishData(p) \in Events
  BY EventTypes DEF Publications
<1>2. /\ N \in Nat /\ DOMAIN e = 1..N /\ DOMAIN e2 = 1..(N + 1)
      /\ \A i \in 1..N : e2[i] = e[i] /\ i \in 1..(N + 1) /\ i < N + 1
      /\ e2[N + 1] = PublishData(p) /\ \A i \in 1..(N + 1) : i \in 1..N \/ i = N + 1
  BY <1>1
<1>3. seq2[p] = next /\ \A t \in Reliable : t # p => seq2[t] = seq[t]
  BY <1>1 DEF Publications
<1>4. \A t \in Reliable : seq[t] \in Nat
  BY DEF Publications
<1> HIDE DEF N, e2, seq2
<1> /\ Earlier(seq, h) /\ RetriesWereSent(r, h) /\ OnePlace(r, q, e)
    /\ WaitingAreNumbered(seq, q, e) /\ UnsentWait(seq, q, e, h) /\ UnsentInOrder(seq, q, e, h)
  BY DEF Sound
<1>5. p \notin h /\ (\A i \in DOMAIN q : q[i] # p) /\ (\A i \in DOMAIN r : r[i] # p)
  BY <1>4 DEF Earlier, WaitingAreNumbered, RetriesWereSent
<1>6. \A i \in 1..N : e[i] # PublishData(p)
  BY <1>2, <1>4 DEF WaitingAreNumbered
<1>7. Earlier(seq2, h)
  <2>1. ASSUME NEW a \in h PROVE a \in Reliable /\ a # p /\ seq2[a] > 0 /\ seq2[a] = seq[a]
    BY <1>3, <1>5 DEF Earlier
  <2>2. ASSUME NEW a \in h, NEW t \in Reliable, 0 < seq2[t], seq2[t] < seq2[a] PROVE t \in h
    <3>1. t # p
      BY <1>3, <1>4, <2>1, <2>2
    <3> QED
      BY <1>3, <2>1, <2>2, <3>1 DEF Earlier
  <2> QED
    BY <2>1, <2>2 DEF Earlier
<1>8. WaitingAreNumbered(seq2, q, e2)
  <2>1. \A i \in DOMAIN q : q[i] \in Reliable /\ seq2[q[i]] > 0
    BY <1>3, <1>5 DEF WaitingAreNumbered
  <2>2. ASSUME NEW i \in 1..(N + 1), NEW t \in Reliable, e2[i] = PublishData(t) PROVE seq2[t] > 0
    <3>1. CASE i = N + 1
      BY <1>2, <1>3, <2>2, <3>1, PublishDataOnce
    <3>2. CASE i \in 1..N
      <4>1. e[i] = PublishData(t) /\ t # p
        BY <1>2, <1>6, <2>2, <3>2
      <4> QED
        BY <1>2, <1>3, <3>2, <4>1 DEF WaitingAreNumbered
    <3> QED
      BY <1>2, <3>1, <3>2
  <2> QED
    BY <1>2, <2>1, <2>2 DEF WaitingAreNumbered
<1>9. OnePlace(r, q, e2)
  <2>0. \A i, j \in 1..N, t \in Reliable :
            e[i] = PublishData(t) /\ e[j] = PublishData(t) => i = j
    BY <1>2 DEF OnePlace
  <2>1. ASSUME NEW i \in 1..(N + 1), NEW j \in 1..(N + 1), NEW t \in Reliable,
               e2[i] = PublishData(t), e2[j] = PublishData(t)
        PROVE  i = j
    <3>1. CASE t = p
      <4>1. i = N + 1 /\ j = N + 1
        BY <1>2, <1>6, <2>1, <3>1
      <4> QED
        BY <4>1
    <3>2. CASE t # p
      <4>1. i \in 1..N /\ j \in 1..N
        BY <1>2, <2>1, <3>2, PublishDataOnce
      <4>2. e[i] = PublishData(t) /\ e[j] = PublishData(t)
        BY <1>2, <2>1, <4>1
      <4> QED
        BY <2>0, <4>1, <4>2
    <3> QED
      BY <3>1, <3>2
  <2>2. ASSUME NEW i \in 1..(N + 1), NEW j \in DOMAIN r PROVE e2[i] # PublishData(r[j])
    <3>1. CASE i = N + 1
      BY <1>2, <1>5, <3>1, PublishDataOnce
    <3>2. CASE i \in 1..N
      BY <1>2, <3>2 DEF OnePlace
    <3> QED
      BY <1>2, <3>1, <3>2
  <2>3. ASSUME NEW i \in 1..(N + 1), NEW j \in DOMAIN q PROVE e2[i] # PublishData(q[j])
    <3>1. CASE i = N + 1
      BY <1>2, <1>5, <3>1, PublishDataOnce
    <3>2. CASE i \in 1..N
      BY <1>2, <3>2 DEF OnePlace
    <3> QED
      BY <1>2, <3>1, <3>2
  <2>4. DOMAIN e2 = 1..(N + 1)
    BY <1>2
  <2> QED
    BY <2>1, <2>2, <2>3, <2>4 DEF OnePlace
<1>10. \A t \in Unsent(seq2, h) : t = p \/ (t # p /\ t \in Unsent(seq, h) /\ seq2[t] = seq[t])
  BY <1>3 DEF Unsent
<1>11. UnsentWait(seq2, q, e2, h)
  <2> SUFFICES ASSUME NEW t \in Unsent(seq2, h), \A i \in DOMAIN q : q[i] # t
               PROVE  \E i \in 1..(N + 1) : e2[i] = PublishData(t)
    BY <1>2 DEF UnsentWait
  <2>1. CASE t = p
    <3>1. N + 1 \in 1..(N + 1)
      BY <1>2
    <3> QED
      BY <1>2, <2>1, <3>1
  <2>2. CASE t # p
    <3>1. PICK i \in 1..N : e[i] = PublishData(t)
      BY <1>2, <1>10, <2>2 DEF UnsentWait
    <3> QED
      BY <1>2, <3>1
  <2> QED
    BY <2>1, <2>2
<1>12. UnsentInOrder(seq2, q, e2, h)
  <2> SUFFICES ASSUME NEW a \in Unsent(seq2, h), NEW b \in Unsent(seq2, h), seq2[a] < seq2[b]
               PROVE  /\ \A i, j \in DOMAIN q : q[i] = a /\ q[j] = b => i < j
                      /\ \A i, j \in 1..(N + 1) :
                            e2[i] = PublishData(a) /\ e2[j] = PublishData(b) => i < j
                      /\ \A i \in 1..(N + 1), j \in DOMAIN q :
                            ~(e2[i] = PublishData(a) /\ q[j] = b)
    BY <1>2 DEF UnsentInOrder
  <2>1. a # p
    <3> SUFFICES ASSUME a = p PROVE FALSE
      OBVIOUS
    <3>1. b \in Reliable /\ (b = p \/ seq2[b] = seq[b])
      BY <1>10 DEF Unsent
    <3> QED
      BY <1>3, <1>4, <3>1
  <2>2. a \in Unsent(seq, h) /\ seq2[a] = seq[a]
    BY <1>10, <2>1
  <2>3. CASE b = p
    <3>1. ASSUME NEW i \in 1..(N + 1), NEW j \in 1..(N + 1),
                 e2[i] = PublishData(a), e2[j] = PublishData(b)
          PROVE  i < j
      <4>1. j = N + 1
        BY <1>2, <1>6, <2>3, <3>1
      <4>2. i \in 1..N
        BY <1>2, <2>1, <3>1, PublishDataOnce
      <4> QED
        BY <1>2, <4>1, <4>2
    <3> QED
      BY <1>5, <2>3, <3>1
  <2>4. CASE b # p
    <3>1. b \in Unsent(seq, h) /\ seq[a] < seq[b]
      BY <1>10, <2>2, <2>4
    <3>2. /\ \A i, j \in DOMAIN q : q[i] = a /\ q[j] = b => i < j
          /\ \A i, j \in 1..N : e[i] = PublishData(a) /\ e[j] = PublishData(b) => i < j
          /\ \A i \in 1..N, j \in DOMAIN q : ~(e[i] = PublishData(a) /\ q[j] = b)
      BY <1>2, <2>2, <3>1 DEF UnsentInOrder
    <3>3. \A i \in 1..(N + 1) : /\ e2[i] = PublishData(a) => i \in 1..N /\ e[i] = PublishData(a)
                                /\ e2[i] = PublishData(b) => i \in 1..N /\ e[i] = PublishData(b)
      BY <1>2, <2>1, <2>4, PublishDataOnce
    <3> QED
      BY <3>2, <3>3
  <2> QED
    BY <2>3, <2>4
<1> QED
  BY <1>7, <1>8, <1>9, <1>11, <1>12 DEF Sound, e2, seq2

-----------------------------------------------------------------------------
(* The queues of the session stay sound *)

\* What a step of the task sends.
LEMMA SendStep ==
    ASSUME TypeOK, NEW k \in Kinds, NEW q \in Packets, NEW buffered \in Nat,
           SendUntilThreshold(k, q, buffered), NEW e \in Seq(Events),
           Sound(sequence, retry_queue, IF k = "reliable" THEN q ELSE request_queue["reliable"],
                 e, handed)
    PROVE  /\ Sound(sequence, Retained(k, q, buffered), request_queue'["reliable"], e, handed')
           /\ Earlier(sequence, handed')
<1>1. sequence \in [Publications -> Nat] /\ retry_queue \in Packets
      /\ request_queue \in [Kinds -> Packets] /\ "reliable" \in Kinds
  BY DEF TypeOK, Kinds
<1>2. CASE k = "reliable"
  <2> DEFINE n == Sendable(q, buffered)
  <2>1. n \in 0..Len(q)
    BY SendableIs
  <2>2. /\ request_queue' = [request_queue EXCEPT ![k] = SubSeq(q, n + 1, Len(q))]
        /\ handed' = handed \cup ToSet(SubSeq(q, 1, n))
        /\ Retained(k, q, buffered) = retry_queue \o SubSeq(q, 1, n)
    BY <1>2 DEF SendUntilThreshold, Retained
  <2> HIDE DEF n
  <2>3. request_queue'["reliable"] = SubSeq(q, n + 1, Len(q))
    BY <1>1, <1>2, <2>2
  <2>4. Sound(sequence, retry_queue, q, e, handed)
    BY <1>2
  <2>5. Sound(sequence, retry_queue \o SubSeq(q, 1, n), SubSeq(q, n + 1, Len(q)), e,
              handed \cup ToSet(SubSeq(q, 1, n)))
    BY <1>1, <2>1, <2>4, SendKeepsSound
  <2> QED
    BY <2>2, <2>3, <2>5 DEF Sound
<1>3. CASE k # "reliable"
  <2>1. request_queue'["reliable"] = request_queue["reliable"] /\ UNCHANGED handed
        /\ Retained(k, q, buffered) = retry_queue
    BY <1>1, <1>3 DEF SendUntilThreshold, Retained
  <2>2. Sound(sequence, retry_queue, request_queue["reliable"], e, handed)
    BY <1>3
  <2> QED
    BY <2>1, <2>2 DEF Sound
<1> QED
  BY <1>2, <1>3

LEMMA PlacedStep ==
    ASSUME TypeOK, TypeOK', NumberedOnce, Placed, [Next]_vars
    PROVE  Placed'
<1>1. sequence \in [Publications -> Nat] /\ retry_queue \in Packets /\ events \in Seq(Events)
      /\ request_queue \in [Kinds -> Packets] /\ "reliable" \in Kinds
      /\ request_queue["reliable"] \in Packets
  BY DEF TypeOK, Kinds
<1> DEFINE requests == request_queue["reliable"]
<1>2. ASSUME task = "running"
      PROVE  Sound(sequence, retry_queue, requests, events, handed)
  BY <1>2 DEF Placed
<1>3. ASSUME task = "running", UNCHANGED <<task, handed>>, Earlier(sequence', handed'),
             Sound(sequence', retry_queue', request_queue'["reliable"], events', handed')
      PROVE  Placed'
  BY <1>3 DEF Placed
<1>4. ASSUME NEW p \in Publications, publish_data(p) PROVE Placed'
  <2>1. CASE task = "running"
    <3>1. PublishPacket(p) \in Events /\ \A t \in Reliable : PublishPacket(p) # PublishData(t)
      BY EventTypes DEF PublishPacket, PublishData
    <3>2. events' = Append(events, PublishPacket(p))
          /\ UNCHANGED <<sequence, retry_queue, request_queue, handed, task>>
      BY <1>4, <2>1 DEF publish_data
    <3>3. Sound(sequence, retry_queue, requests, Append(events, PublishPacket(p)), handed)
      BY <1>1, <1>2, <2>1, <3>1, EventKeepsSound
    <3> QED
      BY <2>1, <3>2, <3>3 DEF Placed, Sound
  <2>2. CASE task # "running"
    <3>1. UNCHANGED <<events, sequence, retry_queue, request_queue, handed, task>>
      BY <1>4, <2>2 DEF publish_data
    <3> QED
      BY <3>1 DEF Placed
  <2> QED
    BY <2>1, <2>2
<1>5. CASE OnPublishPacket
  <2> DEFINE p == Head(events).packet
             rest == Tail(events)
  <2>1. /\ task = "running" /\ events # <<>> /\ Head(events) = events[1] /\ 1 \in DOMAIN events
        /\ Head(events).type = "PublishPacket" /\ p \in Publications /\ rest \in Seq(Events)
    BY <1>1, <1>5, TailType, EventTypes DEF OnPublishPacket, IsEvent
  <2>2. PublishData(p) \in Events /\ \A t \in Reliable : Head(events) # PublishData(t)
    BY <2>1, EventTypes DEF PublishData
  <2>3. events' = Append(rest, PublishData(p))
        /\ UNCHANGED <<retry_queue, request_queue, handed, task>>
    BY <1>5 DEF OnPublishPacket
  <2>4. Sound(sequence, retry_queue, requests, rest, handed)
    BY <1>1, <1>2, <2>1, <2>2, HeadKeepsSound
  <2> HIDE DEF rest
  <2>5. CASE p \in Reliable
    <3>1. sequence' = [sequence EXCEPT ![p] = next_sequence]
      BY <1>5, <2>5 DEF OnPublishPacket
    <3>2. sequence[p] = 0
      BY <2>1 DEF NumberedOnce
    <3>3. next_sequence \in Nat /\ next_sequence > 0
      BY MaxSeqType DEF TypeOK
    <3>4. \A t \in Reliable : sequence[t] < next_sequence
      <4> SUFFICES ASSUME NEW t \in Reliable PROVE sequence[t] < next_sequence
        OBVIOUS
      <4>1. sequence[t] \in Nat
        BY <1>1 DEF Publications
      <4>2. sequence[t] > 0 => sequence[t] < next_sequence
        BY DEF NumberedOnce, Sequenced
      <4> QED
        BY <3>3, <4>1, <4>2
    <3> HIDE DEF p
    <3>5. Sound([sequence EXCEPT ![p] = next_sequence], retry_queue, requests,
                Append(rest, PublishData(p)), handed)
      BY <1>1, <2>1, <2>4, <2>5, <3>2, <3>3, <3>4, NumberKeepsSound
    <3> QED
      BY <2>1, <2>3, <3>1, <3>5 DEF Placed, Sound
  <2>6. CASE p \notin Reliable
    <3>1. UNCHANGED sequence
      BY <1>5, <2>6 DEF OnPublishPacket
    <3>2. \A t \in Reliable : PublishData(p) # PublishData(t)
      BY <2>6, PublishDataOnce
    <3> HIDE DEF p
    <3>3. Sound(sequence, retry_queue, requests, Append(rest, PublishData(p)), handed)
      BY <2>1, <2>2, <2>4, <3>2, EventKeepsSound
    <3> QED
      BY <2>1, <2>3, <3>1, <3>3 DEF Placed, Sound
  <2> QED
    BY <2>5, <2>6
<1>6. CASE OnPublishData
  <2> DEFINE p == Head(events).packet
             k == KindOf(p)
             q == Append(request_queue[k], p)
             rest == Tail(events)
  <2>1. /\ task = "running" /\ events # <<>> /\ Head(events) = PublishData(p)
        /\ p \in Publications /\ rest \in Seq(Events)
    BY <1>1, <1>6, TailType, EventTypes DEF OnPublishData, IsEvent
  <2>2. k \in Kinds /\ (k = "reliable" <=> p \in Reliable)
    BY <2>1, KindType DEF KindOf
  <2>3. q \in Packets /\ amount[k] \in Nat
    <3>1. request_queue[k] \in Seq(Publications)
      BY <1>1, <2>2 DEF Packets
    <3> QED
      BY <2>1, <2>2, <3>1 DEF TypeOK, Packets
  <2>4. /\ SendUntilThreshold(k, q, amount[k])
        /\ retry_queue' = Retained(k, q, amount[k])
        /\ events' = rest /\ UNCHANGED <<sequence, task>>
    BY <1>6 DEF OnPublishData
  <2>5. Sound(sequence, retry_queue, IF k = "reliable" THEN q ELSE requests, rest, handed)
    <3>1. CASE p \in Reliable
      <4>1. Sound(sequence, retry_queue, Append(requests, p), rest, handed)
        BY <1>1, <1>2, <2>1, <3>1, RequestKeepsSound
      <4> QED
        BY <2>2, <3>1, <4>1
    <3>2. CASE p \notin Reliable
      <4>1. \A t \in Reliable : Head(events) # PublishData(t)
        BY <2>1, <3>2, PublishDataOnce
      <4>2. Sound(sequence, retry_queue, requests, rest, handed)
        BY <1>1, <1>2, <2>1, <4>1, HeadKeepsSound
      <4> QED
        BY <2>2, <3>2, <4>2
    <3> QED
      BY <3>1, <3>2
  <2> HIDE DEF k, q, rest
  <2>6. /\ Sound(sequence, Retained(k, q, amount[k]), request_queue'["reliable"], rest, handed')
        /\ Earlier(sequence, handed')
    BY <2>1, <2>2, <2>3, <2>4, <2>5, SendStep
  <2> QED
    BY <2>1, <2>4, <2>6 DEF Placed
<1>7. CASE OnBufferedAmountChange
  <2> DEFINE k == Head(events).kind
             sent == Head(events).sent
             left == IF amount[k] < sent THEN 0 ELSE amount[k] - sent
             q == request_queue[k]
             rest == Tail(events)
  <2>1. /\ task = "running" /\ events # <<>> /\ Head(events).type = "BufferedAmountChange"
        /\ k \in Kinds /\ sent \in Nat /\ rest \in Seq(Events)
    BY <1>1, <1>7, TailType, EventTypes DEF OnBufferedAmountChange, IsEvent
  <2>2. q \in Packets /\ left \in Nat
    <3>1. amount[k] \in Nat
      BY <2>1 DEF TypeOK
    <3> HIDE DEF k, sent
    <3> QED
      BY <1>1, <2>1, <3>1
  <2>3. /\ SendUntilThreshold(k, q, left)
        /\ retry_queue' = IF k = "reliable" THEN Trim(Retained(k, q, left), sent)
                          ELSE retry_queue
        /\ events' = rest /\ UNCHANGED <<sequence, task>>
    BY <1>7 DEF OnBufferedAmountChange
  <2>4. Sound(sequence, retry_queue, requests, rest, handed)
    <3>1. \A t \in Reliable : Head(events) # PublishData(t)
      BY <2>1 DEF PublishData
    <3> QED
      BY <1>1, <1>2, <2>1, <3>1, HeadKeepsSound
  <2>5. Sound(sequence, retry_queue, IF k = "reliable" THEN q ELSE requests, rest, handed)
    BY <2>4
  <2>6. Retained(k, q, left) \in Packets
    <3>1. k = "reliable" => \A i \in DOMAIN q : q[i] \in Reliable
      BY <1>2, <2>1 DEF Sound, WaitingAreNumbered
    <3> HIDE DEF k, q, left
    <3> QED
      BY <2>1, <2>2, <2>3, <3>1, SendTypes
  <2>7. k # "reliable" => Retained(k, q, left) = retry_queue
    BY DEF Retained
  <2> HIDE DEF k, q, left, rest, sent
  <2>8. /\ Sound(sequence, Retained(k, q, left), request_queue'["reliable"], rest, handed')
        /\ Earlier(sequence, handed')
    BY <2>1, <2>2, <2>3, <2>5, SendStep
  <2>9. Sound(sequence, retry_queue', request_queue'["reliable"], rest, handed')
    BY <2>1, <2>3, <2>6, <2>7, <2>8, TrimKeepsSound
  <2> QED
    BY <2>1, <2>3, <2>8, <2>9 DEF Placed
<1>8. CASE OnRetryFrom
  <2> DEFINE last == Head(events).last
             again == Missing(retry_queue, last)
             rest == Tail(events)
  <2>1. /\ task = "running" /\ events # <<>> /\ Head(events).type = "RetryFrom"
        /\ last \in Nat /\ rest \in Seq(Events)
    BY <1>1, <1>8, TailType, EventTypes DEF OnRetryFrom, IsEvent
  <2>2. /\ again \in Packets
        /\ \A i \in DOMAIN again : \E j \in DOMAIN retry_queue : again[i] = retry_queue[j]
        /\ (\A a, b \in DOMAIN retry_queue : retry_queue[a] = retry_queue[b] => a = b) =>
              \A a, b \in DOMAIN again : again[a] = again[b] => a = b
    BY <1>1, <2>1, MissingIs, SMTT(20)
  <2>3. /\ events' = rest \o [i \in DOMAIN again |-> PublishData(again[i])]
        /\ retry_queue' = <<>> /\ UNCHANGED <<sequence, request_queue, handed, task>>
    BY <1>8 DEF OnRetryFrom
  <2>4. Sound(sequence, retry_queue, requests, rest, handed)
    <3>1. \A t \in Reliable : Head(events) # PublishData(t)
      BY <2>1 DEF PublishData
    <3> QED
      BY <1>1, <1>2, <2>1, <3>1, HeadKeepsSound
  <2> HIDE DEF last, again, rest
  <2>5. Sound(sequence, <<>>, requests, rest \o [i \in DOMAIN again |-> PublishData(again[i])],
              handed)
    <3>1. \A a, b \in DOMAIN again : again[a] = again[b] => a = b
      <4>1. \A a, b \in DOMAIN retry_queue : retry_queue[a] = retry_queue[b] => a = b
        BY <2>4 DEF Sound, OnePlace
      <4> QED
        BY <2>2, <4>1
    <3>2. \A i \in DOMAIN again : \E j \in DOMAIN retry_queue : again[i] = retry_queue[j]
      BY <2>2
    <3>3. again \in Packets /\ rest \in Seq(Events)
      BY <2>1, <2>2
    <3>4. retry_queue \in Packets
      BY <1>1
    <3> QED
      BY <2>4, <3>1, <3>2, <3>3, <3>4, RetryKeepsSound
  <2> QED
    BY <2>1, <2>3, <2>5 DEF Placed, Sound
<1>9. CASE TaskEnds
  BY <1>9 DEF TaskEnds, Placed
<1>10. CASE OnRtcBufferedAmountChange
  <2>1. CASE task = "running"
    <3>1. Head(rtc_events) \in Changes
      BY <1>10, TailType DEF OnRtcBufferedAmountChange, TypeOK
    <3>2. Head(rtc_events) \in Events /\ \A t \in Reliable : Head(rtc_events) # PublishData(t)
      BY <3>1 DEF Changes, Events, PublishData
    <3>3. events' = Append(events, Head(rtc_events))
          /\ UNCHANGED <<sequence, retry_queue, request_queue, handed, task>>
      BY <1>10, <2>1 DEF OnRtcBufferedAmountChange
    <3>4. Sound(sequence, retry_queue, requests, Append(events, Head(rtc_events)), handed)
      BY <1>1, <1>2, <2>1, <3>2, EventKeepsSound
    <3> QED
      BY <2>1, <3>3, <3>4 DEF Placed, Sound
  <2>2. CASE task # "running"
    <3>1. UNCHANGED <<events, sequence, retry_queue, request_queue, handed, task>>
      BY <1>10, <2>2 DEF OnRtcBufferedAmountChange
    <3> QED
      BY <3>1 DEF Placed
  <2> QED
    BY <2>1, <2>2
<1>11. CASE Resume
  <2>1. RetryFrom(Highest(server)) \in Events
        /\ \A t \in Reliable : RetryFrom(Highest(server)) # PublishData(t)
    BY HighestType, EventTypes DEF TypeOK, RetryFrom, PublishData
  <2>2. task = "running" /\ events' = Append(events, RetryFrom(Highest(server)))
        /\ UNCHANGED <<sequence, retry_queue, request_queue, handed, task>>
    BY <1>11 DEF Resume
  <2> DEFINE x == RetryFrom(Highest(server))
  <2> HIDE DEF x
  <2>3. Sound(sequence, retry_queue, requests, Append(events, x), handed)
    BY <1>1, <1>2, <2>1, <2>2, EventKeepsSound DEF x
  <2> QED
    BY <2>2, <2>3 DEF Placed, Sound, x
<1>12. CASE UNCHANGED <<events, sequence, retry_queue, request_queue, handed, task>>
  BY <1>12 DEF Placed
<1> QED
  BY <1>4, <1>5, <1>6, <1>7, <1>8, <1>9, <1>10, <1>11, <1>12
  DEF Next, DataChannelTask, Network, DcSent, ServerReceives, ServerSyncs, LinkLost, LinkBack,
      DcCloses, OnData, DownlinkLost, SyncStateSent, vars, pubVars

-----------------------------------------------------------------------------
(* The theorems *)

LEMMA InitHolds == Init => IInv
<1> SUFFICES ASSUME Init PROVE IInv
  OBVIOUS
<1> USE DEF Init
<1>1. TypeOK
  BY MaxSeqType, BoundsAssumption DEF TypeOK, Packets, Kinds
<1>2. NumberedOnce
  <2>1. Sequenced = {}
    BY DEF Sequenced, Publications
  <2>2. Cardinality(Sequenced) = 0
    BY <2>1, FS_EmptySet
  <2> QED
    BY <2>1, <2>2 DEF NumberedOnce
<1>3. Placed
  <2>1. "reliable" \in Kinds /\ request_queue["reliable"] = <<>>
    BY DEF Kinds
  <2>2. \A p \in Reliable : sequence[p] = 0
    BY DEF Publications
  <2> QED
    BY <2>1, <2>2 DEF Placed, Sound, Earlier, RetriesWereSent, WaitingAreNumbered, OnePlace,
       UnsentWait, UnsentInOrder, Unsent
<1>4. AmountIsExact
  <2>1. \A k \in Kinds : SumOf(events, k) = 0 /\ SumOf(rtc_events, k) = 0
    BY SumEmpty
  <2>2. \A k \in Kinds : amount[k] = 0 /\ Len(dc_buffer[k]) = 0
    OBVIOUS
  <2> QED
    BY <2>1, <2>2, BoundsAssumption DEF AmountIsExact
<1> QED
  BY <1>1, <1>2, <1>3, <1>4 DEF IInv

LEMMA NextHolds == IInv /\ [Next]_vars => IInv'
<1> SUFFICES ASSUME IInv, [Next]_vars PROVE IInv'
  OBVIOUS
<1>1. TypeOK'
  BY TypeStep DEF IInv
<1> QED
  BY <1>1, NumberStep, PlacedStep, AmountStep DEF IInv

\* The strengthened invariant is inductive.
THEOREM Inductive == Spec => []IInv
<1>1. Spec => Safe
  BY DEF Spec
<1>2. Safe => []IInv
  BY InitHolds, NextHolds, PTL DEF Safe
<1> QED
  BY <1>1, <1>2

\* Every variable keeps its type; no sequence number is given beyond the number
\* of reliable packets.
THEOREM TypeCorrect == Spec => []TypeOK
<1>1. IInv => TypeOK
  BY DEF IInv
<1> QED
  BY <1>1, Inductive, PTL

\* The buffered amount that data_channel_task keeps is, of each kind, what the channel
\* holds plus the changes under way, and passes the threshold by one packet at the most.
THEOREM AmountExact == Spec => []AmountIsExact
<1>1. IInv => AmountIsExact
  BY DEF IInv
<1> QED
  BY <1>1, Inductive, PTL

LEMMA NoGapsHolds == IInv => NoGaps
<1> SUFFICES ASSUME IInv PROVE NoGaps
  OBVIOUS
<1> DEFINE seen == {sequence[p] : p \in handed}
           Open == {n \in Nat \ {0} : n \notin seen}
           N == next_sequence
<1>1. handed \subseteq Sequenced /\ \A p \in handed, q \in Reliable :
          0 < sequence[q] /\ sequence[q] < sequence[p] => q \in handed
  BY DEF IInv, Placed, Earlier, Sequenced
<1>2. N \in Nat \ {0} /\ \A p \in Sequenced : sequence[p] \in 1..(N - 1)
  BY MaxSeqType DEF IInv, TypeOK, NumberedOnce, Sequenced, Publications
<1>3. seen \subseteq 1..(N - 1)
  BY <1>1, <1>2
<1>4. N \in Open
  BY <1>2, <1>3
<1>5. PICK n \in Open : \A m \in Open : n <= m
  BY <1>4, LeastNumber
<1>6. seen = 1..(n - 1)
  <2>1. ASSUME NEW m \in 1..(n - 1) PROVE m \in seen
    BY <1>5
  <2>2. ASSUME NEW m \in seen PROVE m \in 1..(n - 1)
    <3> SUFFICES ASSUME n < m PROVE FALSE
      BY <1>3, <1>5, <2>2
    <3>1. PICK p \in handed : sequence[p] = m
      BY <2>2
    <3>2. n \in 1..(N - 1)
      <4>1. n \in Nat \ {0} /\ m \in 1..(N - 1) /\ N \in Nat
        BY <1>2, <1>3, <1>5, <2>2
      <4> HIDE DEF N
      <4> QED
        BY <4>1
    <3>3. PICK q \in Sequenced : sequence[q] = n
      BY <3>2 DEF IInv, NumberedOnce
    <3>4. q \in Reliable /\ 0 < sequence[q] /\ sequence[q] < sequence[p]
      BY <1>5, <3>1, <3>3 DEF Sequenced
    <3>5. q \in handed
      BY <1>1, <3>1, <3>4
    <3> QED
      BY <1>5, <3>3, <3>5
  <2> QED
    BY <2>1, <2>2
<1>7. Cardinality(1..(n - 1)) = n - 1
  <2>1. 1 \in Int /\ n - 1 \in Int /\ n \in Nat \ {0}
    BY <1>5
  <2>2. Cardinality(1..(n - 1)) = IF 1 > n - 1 THEN 0 ELSE n - 1 - 1 + 1
    BY <2>1, FS_Interval
  <2> QED
    BY <2>1, <2>2
<1> QED
  BY <1>6, <1>7 DEF NoGaps

LEMMA OneCopyHolds == IInv => OneCopyQueued
<1> SUFFICES ASSUME IInv, NEW p \in Reliable, NEW a \in Places(p), NEW b \in Places(p)
             PROVE  a = b
  BY DEF OneCopyQueued
<1> DEFINE r == retry_queue
           q == request_queue["reliable"]
<1>1. OnePlace(r, q, events)
  <2>1. CASE task = "running"
    BY <2>1 DEF IInv, Placed, Sound
  <2>2. CASE task = "ended"
    BY <2>2 DEF IInv, Placed, OnePlace, Kinds
  <2> QED
    BY <2>1, <2>2 DEF IInv, TypeOK
<1>2. \A x \in Places(p) :
         \/ \E i \in DOMAIN r : x = <<"retry", i>> /\ r[i] = p
         \/ \E i \in DOMAIN q : x = <<"request", i>> /\ q[i] = p
         \/ \E i \in DOMAIN events : x = <<"event", i>> /\ events[i] = PublishData(p)
  BY DEF Places
<1> HIDE DEF r, q
<1>3. CASE \E i \in DOMAIN r : a = <<"retry", i>> /\ r[i] = p
  BY <1>1, <1>2, <1>3 DEF OnePlace
<1>4. CASE \E i \in DOMAIN q : a = <<"request", i>> /\ q[i] = p
  BY <1>1, <1>2, <1>4 DEF OnePlace
<1>5. CASE \E i \in DOMAIN events : a = <<"event", i>> /\ events[i] = PublishData(p)
  BY <1>1, <1>2, <1>5 DEF OnePlace
<1> QED
  BY <1>2, <1>3, <1>4, <1>5

\* First transmissions leave in the order of their sequence without a gap, and a
\* reliable packet is held in one place: two resumes in a row do not multiply it.
THEOREM QueuesSound == Spec => []QueuesAreSound
<1>1. IInv => QueuesAreSound
  BY NoGapsHolds, OneCopyHolds DEF QueuesAreSound
<1> QED
  BY <1>1, Inductive, PTL

=============================================================================
