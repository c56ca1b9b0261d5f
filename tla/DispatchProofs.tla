--------------------------- MODULE DispatchProofs ---------------------------
(***************************************************************************)
(* Proofs about the topic table, the handler calls and the statistics, for *)
(* every built-in table, every configuration file and every number of      *)
(* messages.                                                               *)
(*                                                                         *)
(* loadTopics and Total are recursive functions.  What they compute is     *)
(* proved by induction on a set of numbers: first that a function with the *)
(* defining equation exists, then what it returns.                         *)
(***************************************************************************)
EXTENDS Dispatch, WellFoundedInduction, TLAPS

-----------------------------------------------------------------------------
(* The loading loop of initTopicConf. *)

\* Induction: a set with 0 that is closed under the successor has every number.
LEMMA Numbers ==
    ASSUME NEW S, 0 \in S, \A n \in Nat : n \in S => n + 1 \in S
    PROVE  Nat \subseteq S
<1> DEFINE T == {n \in Nat : n \notin S}
<1>1. SUFFICES ASSUME T # {} PROVE FALSE
  OBVIOUS
<1>2. PICK x \in T : \A y \in T : ~(<<y, x>> \in OpToRel(<, Nat))
  BY <1>1, WFMin, NatLessThanWellFounded
<1>3. x \in Nat /\ x # 0
  OBVIOUS
<1>4. x - 1 \in Nat /\ x - 1 < x /\ (x - 1) + 1 = x
  BY <1>3
<1>5. <<x - 1, x>> \in OpToRel(<, Nat)
  BY <1>3, <1>4 DEF OpToRel
<1>6. x - 1 \notin T
  BY <1>2, <1>5, Zenon
<1>7. x - 1 \in S
  BY <1>4, <1>6
<1> QED
  BY <1>3, <1>4, <1>7

\* The recursive function of loadTopics, the table after each turn of the loop,
\* is defined for every number of turns.
LEMMA LoadExists ==
    ASSUME NEW n \in Nat
    PROVE  \E f : f = [i \in 0..n |-> IF i = 0 THEN <<>>
                                ELSE IF enabled(i) THEN Append(f[i - 1], i) ELSE f[i - 1]]
<1> DEFINE IsLoad(f, m) ==
              f = [i \in 0..m |-> IF i = 0 THEN <<>>
                                  ELSE IF enabled(i) THEN Append(f[i - 1], i) ELSE f[i - 1]]
           S == {m \in Nat : \E f : IsLoad(f, m)}
<1>1. 0 \in S
  <2>1. IsLoad([i \in 0..0 |-> <<>>], 0)
    OBVIOUS
  <2> QED BY <2>1
<1>2. ASSUME NEW m \in Nat, m \in S
      PROVE  m + 1 \in S
  <2>1. PICK f : IsLoad(f, m)
    BY <1>2
  <2> DEFINE last == IF enabled(m + 1) THEN Append(f[m], m + 1) ELSE f[m]
             g == [i \in 0..(m + 1) |-> IF i <= m THEN f[i] ELSE last]
  <2>2. ASSUME NEW i \in 0..(m + 1)
        PROVE  g[i] = IF i = 0 THEN <<>>
                      ELSE IF enabled(i) THEN Append(g[i - 1], i) ELSE g[i - 1]
    <3>1. CASE i <= m
      <4>1. g[i] = f[i] /\ i \in 0..m /\ (i # 0 => g[i - 1] = f[i - 1])
        BY <3>1
      <4>2. f[i] = IF i = 0 THEN <<>>
                      ELSE IF enabled(i) THEN Append(f[i - 1], i) ELSE f[i - 1]
        BY <2>1, <4>1
      <4> QED BY <4>1, <4>2
    <3>2. CASE i = m + 1
      BY <3>2
    <3> QED BY <3>1, <3>2
  <2>3. IsLoad(g, m + 1)
    <3> HIDE DEF last
    <3> QED BY <2>2
  <2> HIDE DEF IsLoad, g
  <2> QED BY <2>3
<1>3. n \in S
  BY <1>1, <1>2, Numbers
<1> QED BY <1>3

\* s lists the enabled ones of the first n entries, in order and once each.
Loaded(s, n) ==
    /\ s \in Seq(1..n)
    /\ \A i, j \in 1..Len(s) : i < j => s[i] < s[j]
    /\ \A k \in 1..n : enabled(k) <=> \E i \in 1..Len(s) : s[i] = k

\* There are no more entries than topics considered: the table fits what
\* initTopicConf allocated for it.
LEMMA LoadedLength ==
    ASSUME NEW n \in Nat, NEW s, Loaded(s, n)
    PROVE  Len(s) \in Nat /\ Len(s) <= n
<1>1. /\ s \in Seq(1..n) /\ Len(s) \in Nat /\ \A i \in 1..Len(s) : s[i] \in 1..n
      /\ \A i, j \in 1..Len(s) : i < j => s[i] < s[j]
  BY DEF Loaded
<1> DEFINE S == {i \in Nat : i \in 1..Len(s) => i <= s[i]}
<1>2. 0 \in S
  OBVIOUS
<1>3. ASSUME NEW i \in S PROVE i + 1 \in S
  <2> SUFFICES ASSUME i + 1 \in 1..Len(s) PROVE i + 1 <= s[i + 1]
    OBVIOUS
  <2>1. s[i + 1] \in 1..n
    BY <1>1
  <2>2. CASE i = 0
    BY <2>1, <2>2
  <2>3. CASE i # 0
    <3>1. i \in 1..Len(s) /\ i < i + 1
      BY <1>1, <2>3
    <3>2. s[i] < s[i + 1] /\ i <= s[i] /\ s[i] \in 1..n
      BY <1>1, <3>1
    <3> QED BY <2>1, <3>2
  <2> QED BY <2>2, <2>3
<1>4. Nat \subseteq S
  <2> HIDE DEF S
  <2> QED BY <1>2, <1>3, Numbers
<1>5. CASE Len(s) # 0
  <2>1. Len(s) \in 1..Len(s) /\ Len(s) \in S
    BY <1>1, <1>4, <1>5
  <2> QED BY <1>1, <2>1
<1> QED BY <1>1, <1>5

\* One turn of the loop keeps that so: the entry is copied if it is enabled.
LEMMA LoadedGrows ==
    ASSUME NEW n \in Nat, NEW s, Loaded(s, n)
    PROVE  Loaded(IF enabled(n + 1) THEN Append(s, n + 1) ELSE s, n + 1)
<1>1. s \in Seq(1..(n + 1)) /\ \A i \in 1..Len(s) : s[i] \in 1..n
  BY DEF Loaded
<1>2. CASE enabled(n + 1)
  <2> DEFINE r == Append(s, n + 1)
  <2>1. /\ r \in Seq(1..(n + 1)) /\ Len(r) = Len(s) + 1 /\ r[Len(r)] = n + 1
        /\ \A i \in 1..Len(s) : r[i] = s[i]
    BY <1>1
  <2> HIDE DEF r
  <2>2. ASSUME NEW i \in 1..Len(r), NEW j \in 1..Len(r), i < j
        PROVE  r[i] < r[j]
    <3>1. i \in 1..Len(s) /\ r[i] = s[i] /\ s[i] \in 1..n
      BY <1>1, <2>1, <2>2, SMTT(60), ZenonT(60)
    <3>2. CASE j = Len(r)
      BY <3>1, <3>2, <2>1
    <3>3. CASE j # Len(r)
      <4>1. j \in 1..Len(s) /\ r[j] = s[j]
        BY <1>1, <2>1, <3>3
      <4> QED BY <3>1, <4>1, <2>2 DEF Loaded
    <3> QED BY <3>2, <3>3
  <2>3. ASSUME NEW k \in 1..(n + 1)
        PROVE  enabled(k) <=> \E i \in 1..Len(r) : r[i] = k
    <3>1. CASE k = n + 1
      <4>1. Len(r) \in 1..Len(r)
        BY <1>1, <2>1
      <4> QED BY <1>2, <2>1, <3>1, <4>1
    <3>2. CASE k # n + 1
      <4>1. k \in 1..n
        BY <3>2
      <4>2. ASSUME enabled(k) PROVE \E i \in 1..Len(r) : r[i] = k
        <5>1. PICK i \in 1..Len(s) : s[i] = k
          BY <4>1, <4>2 DEF Loaded
        <5>2. i \in 1..Len(r) /\ r[i] = k
          BY <1>1, <2>1, <5>1, SMTT(60), ZenonT(60)
        <5> QED BY <5>2
      <4>3. ASSUME NEW i \in 1..Len(r), r[i] = k PROVE enabled(k)
        <5>1. i # Len(r)
          BY <2>1, <3>2, <4>3
        <5>2. i \in 1..Len(s) /\ s[i] = k
          BY <1>1, <2>1, <4>3, <5>1
        <5> QED BY <4>1, <5>2 DEF Loaded
      <4> QED BY <4>2, <4>3
    <3> QED BY <3>1, <3>2
  <2>4. Loaded(r, n + 1)
    BY <2>1, <2>2, <2>3 DEF Loaded
  <2> QED BY <1>2, <2>4 DEF r
<1>3. CASE ~enabled(n + 1)
  <2>1. ASSUME NEW k \in 1..(n + 1)
        PROVE  enabled(k) <=> \E i \in 1..Len(s) : s[i] = k
    <3>1. CASE k = n + 1
      BY <1>1, <1>3, <3>1
    <3>2. CASE k # n + 1
      BY <3>2 DEF Loaded
    <3> QED BY <3>1, <3>2
  <2> QED BY <1>1, <1>3, <2>1 DEF Loaded
<1> QED BY <1>2, <1>3

\* The loop leaves the enabled topics below its bound, in the order of the table.
LEMMA LoadTopics ==
    ASSUME NEW n \in Nat
    PROVE  Loaded(loadTopics(n), n)
<1> DEFINE load == CHOOSE f : f = [i \in 0..n |-> IF i = 0 THEN <<>>
                                ELSE IF enabled(i) THEN Append(f[i - 1], i) ELSE f[i - 1]]
           S == {i \in Nat : i <= n => Loaded(load[i], i)}
<1>1. load = [i \in 0..n |-> IF i = 0 THEN <<>>
                 ELSE IF enabled(i) THEN Append(load[i - 1], i) ELSE load[i - 1]]
  BY LoadExists, Zenon
<1>2. loadTopics(n) = load[n]
  BY DEF loadTopics
<1> HIDE DEF load
<1>3. 0 \in S
  <2>1. load[0] = <<>>
    BY <1>1
  <2>2. Loaded(<<>>, 0)
    BY DEF Loaded
  <2> QED BY <2>1, <2>2
<1>4. ASSUME NEW i \in Nat, i \in S PROVE i + 1 \in S
  <2>1. SUFFICES ASSUME i + 1 <= n PROVE Loaded(load[i + 1], i + 1)
    OBVIOUS
  <2>2. load[i + 1] = IF enabled(i + 1) THEN Append(load[i], i + 1) ELSE load[i]
    <3>1. i + 1 \in 0..n /\ i + 1 # 0 /\ (i + 1) - 1 = i
      BY <2>1
    <3>2. load[i + 1] = IF i + 1 = 0 THEN <<>>
                        ELSE IF enabled(i + 1) THEN Append(load[(i + 1) - 1], i + 1)
                        ELSE load[(i + 1) - 1]
      BY <1>1, <3>1
    <3> QED BY <3>1, <3>2
  <2>3. Loaded(load[i], i)
    BY <1>4, <2>1
  <2> QED BY <2>2, <2>3, LoadedGrows
<1>5. n \in S
  BY <1>3, <1>4, Numbers
<1> QED BY <1>2, <1>5

-----------------------------------------------------------------------------
(* Sums of counters. *)

\* The recursive function of Total is defined for every number of counters.
LEMMA SumExists ==
    ASSUME NEW f, NEW n \in Nat
    PROVE  \E s : s = [i \in 0..n |-> IF i = 0 THEN 0 ELSE s[i - 1] + f[i]]
<1> DEFINE IsSum(s, m) == s = [i \in 0..m |-> IF i = 0 THEN 0 ELSE s[i - 1] + f[i]]
           S == {m \in Nat : \E s : IsSum(s, m)}
<1>1. 0 \in S
  <2>1. IsSum([i \in 0..0 |-> 0], 0)
    OBVIOUS
  <2> QED BY <2>1
<1>2. ASSUME NEW m \in Nat, m \in S
      PROVE  m + 1 \in S
  <2>1. PICK s : IsSum(s, m)
    BY <1>2
  <2> DEFINE last == s[m] + f[m + 1]
             t == [i \in 0..(m + 1) |-> IF i <= m THEN s[i] ELSE last]
  <2>2. ASSUME NEW i \in 0..(m + 1)
        PROVE  t[i] = IF i = 0 THEN 0 ELSE t[i - 1] + f[i]
    <3>1. CASE i <= m
      <4>1. t[i] = s[i] /\ i \in 0..m /\ (i # 0 => t[i - 1] = s[i - 1])
        BY <3>1
      <4>2. s[i] = IF i = 0 THEN 0 ELSE s[i - 1] + f[i]
        BY <2>1, <4>1
      <4> QED BY <4>1, <4>2
    <3>2. CASE i = m + 1
      BY <3>2
    <3> QED BY <3>1, <3>2
  <2>3. IsSum(t, m + 1)
    <3> HIDE DEF last
    <3> QED BY <2>2
  <2> HIDE DEF IsSum, t
  <2> QED BY <2>3
<1>3. n \in S
  BY <1>1, <1>2, Numbers
<1> QED BY <1>3

\* s holds the partial sums of f.
Sums(s, f) ==
    /\ \A i \in 0..Len(f) : s[i] \in Nat
    /\ s[0] = 0 /\ \A i \in 1..Len(f) : s[i] = s[i - 1] + f[i]
    /\ Total(f) = s[Len(f)]

\* Total is the last of the partial sums.
LEMMA TotalSums ==
    ASSUME NEW f \in Seq(Nat)
    PROVE  \E s : Sums(s, f)
<1> DEFINE sum == CHOOSE s : s = [i \in 0..Len(f) |-> IF i = 0 THEN 0 ELSE s[i - 1] + f[i]]
<1>1. Len(f) \in Nat /\ \A i \in 1..Len(f) : f[i] \in Nat
  OBVIOUS
<1>2. sum = [i \in 0..Len(f) |-> IF i = 0 THEN 0 ELSE sum[i - 1] + f[i]]
  BY <1>1, SumExists, Zenon
<1>3. Total(f) = sum[Len(f)]
  BY DEF Total
<1> HIDE DEF sum
<1>4. sum[0] = 0
  BY <1>1, <1>2
<1>5. ASSUME NEW i \in 1..Len(f) PROVE sum[i] = sum[i - 1] + f[i]
  <2>1. i \in 0..Len(f) /\ i # 0
    BY <1>1
  <2> QED BY <1>2, <2>1
<1> DEFINE S == {i \in Nat : i <= Len(f) => sum[i] \in Nat}
<1>6. ASSUME NEW i \in Nat, i \in S PROVE i + 1 \in S
  <2>1. SUFFICES ASSUME i + 1 <= Len(f) PROVE sum[i + 1] \in Nat
    OBVIOUS
  <2>2. i + 1 \in 1..Len(f) /\ (i + 1) - 1 = i /\ sum[i] \in Nat
    BY <1>1, <1>6, <2>1
  <2> QED BY <1>1, <1>5, <2>2
<1>7. 0 \in S
  BY <1>4
<1>8. Nat \subseteq S
  BY <1>6, <1>7, Numbers
<1>9. \A i \in 0..Len(f) : sum[i] \in Nat
  BY <1>1, <1>8
<1> QED BY <1>3, <1>4, <1>5, <1>9 DEF Sums

\* A sum of counters is a number.
LEMMA TotalType == \A f \in Seq(Nat) : Total(f) \in Nat
<1> SUFFICES ASSUME NEW f \in Seq(Nat) PROVE Total(f) \in Nat
  OBVIOUS
<1>1. PICK s : Sums(s, f)
  BY TotalSums
<1>2. Len(f) \in 0..Len(f)
  OBVIOUS
<1> QED BY <1>1, <1>2 DEF Sums

\* Larger counters have a larger sum.
LEMMA TotalMonotone ==
    ASSUME NEW f \in Seq(Nat), NEW g \in Seq(Nat), Len(f) = Len(g),
           \A i \in 1..Len(f) : f[i] <= g[i]
    PROVE  Total(f) <= Total(g)
<1>1. PICK s : Sums(s, f)
  BY TotalSums
<1>2. PICK t : Sums(t, g)
  BY TotalSums
<1> DEFINE n == Len(f)
           S == {i \in Nat : i <= n => s[i] <= t[i]}
<1>3. n \in Nat /\ \A i \in 1..n : f[i] \in Nat /\ g[i] \in Nat
  OBVIOUS
<1> HIDE DEF n
<1>4. ASSUME NEW i \in Nat, i \in S PROVE i + 1 \in S
  <2>1. SUFFICES ASSUME i + 1 <= n PROVE s[i + 1] <= t[i + 1]
    OBVIOUS
  <2>2. i + 1 \in 1..n /\ i \in 0..n /\ (i + 1) - 1 = i /\ s[i] <= t[i]
    BY <1>3, <1>4, <2>1
  <2>3. s[i + 1] = s[i] + f[i + 1] /\ t[i + 1] = t[i] + g[i + 1]
    BY <1>1, <1>2, <2>2 DEF Sums, n
  <2>4. s[i] \in Nat /\ t[i] \in Nat
    BY <1>1, <1>2, <2>2 DEF Sums, n
  <2>5. f[i + 1] <= g[i + 1] /\ f[i + 1] \in Nat /\ g[i + 1] \in Nat
    BY <1>3, <2>2 DEF n
  <2> QED BY <2>2, <2>3, <2>4, <2>5, SMTT(60), ZenonT(60)
<1>5. 0 \in S
  BY <1>1, <1>2 DEF Sums
<1>6. n \in S
  BY <1>3, <1>4, <1>5, Numbers
<1> QED BY <1>1, <1>2, <1>3, <1>6 DEF Sums, n

\* Counting one message, cnt++ of one entry, adds one to the sum.
LEMMA TotalBump ==
    ASSUME NEW f \in Seq(Nat), NEW k \in 1..Len(f)
    PROVE  Total([f EXCEPT ![k] = @ + 1]) = Total(f) + 1
<1> DEFINE g == [f EXCEPT ![k] = @ + 1]
           n == Len(f)
<1>1. /\ g \in Seq(Nat) /\ Len(g) = n /\ n \in Nat /\ k \in 1..n
      /\ \A i \in 1..n : f[i] \in Nat /\ g[i] = IF i = k THEN f[i] + 1 ELSE f[i]
  OBVIOUS
<1>2. PICK s : Sums(s, f)
  BY TotalSums
<1> HIDE DEF g, n
<1>3. PICK t : Sums(t, g)
  BY <1>1, TotalSums
<1> DEFINE S == {i \in Nat : i <= n => t[i] = IF i < k THEN s[i] ELSE s[i] + 1}
<1>4. ASSUME NEW i \in Nat, i \in S PROVE i + 1 \in S
  <2>1. SUFFICES ASSUME i + 1 <= n
                 PROVE  t[i + 1] = IF i + 1 < k THEN s[i + 1] ELSE s[i + 1] + 1
    OBVIOUS
  <2>2. /\ i + 1 \in 1..n /\ i \in 0..n /\ (i + 1) - 1 = i
        /\ t[i] = IF i < k THEN s[i] ELSE s[i] + 1
    BY <1>1, <1>4, <2>1
  <2>3. s[i + 1] = s[i] + f[i + 1] /\ t[i + 1] = t[i] + g[i + 1] /\ s[i] \in Nat
    BY <1>1, <1>2, <1>3, <2>2 DEF Sums, n
  <2>4. f[i + 1] \in Nat /\ g[i + 1] = IF i + 1 = k THEN f[i + 1] + 1 ELSE f[i + 1]
    BY <1>1, <2>2
  <2>5. CASE i + 1 < k
    BY <1>1, <2>2, <2>3, <2>4, <2>5
  <2>6. CASE i + 1 = k
    <3>1. i < k /\ ~(i + 1 < k) /\ t[i] = s[i] /\ g[i + 1] = f[i + 1] + 1
      BY <2>2, <2>4, <2>6
    <3>2. t[i + 1] = s[i + 1] + 1
      BY <2>3, <2>4, <3>1
    <3> QED BY <3>1, <3>2
  <2>7. CASE i + 1 > k
    BY <1>1, <2>2, <2>3, <2>4, <2>7, SMTT(60), ZenonT(60)
  <2> QED BY <1>1, <2>5, <2>6, <2>7
<1>5. 0 \in S
  BY <1>1, <1>2, <1>3 DEF Sums
<1>6. n \in S
  BY <1>1, <1>4, <1>5, Numbers
<1>7. Total(g) = t[n] /\ Total(f) = s[n] /\ t[n] = s[n] + 1
  BY <1>1, <1>2, <1>3, <1>6 DEF Sums, n
<1> QED BY <1>7 DEF g

\* Fresh counters have the sum zero.
LEMMA TotalZero ==
    ASSUME NEW n \in Nat
    PROVE  Total([i \in 1..n |-> 0]) = 0
<1> DEFINE f == [i \in 1..n |-> 0]
<1>1. f \in Seq(Nat) /\ Len(f) = n /\ \A i \in 1..n : f[i] = 0
  OBVIOUS
<1> HIDE DEF f
<1>2. PICK s : Sums(s, f)
  BY <1>1, TotalSums
<1> DEFINE S == {i \in Nat : i <= n => s[i] = 0}
<1>3. ASSUME NEW i \in Nat, i \in S PROVE i + 1 \in S
  <2>1. SUFFICES ASSUME i + 1 <= n PROVE s[i + 1] = 0
    OBVIOUS
  <2>2. i + 1 \in 1..n /\ (i + 1) - 1 = i /\ s[i] = 0
    BY <1>3, <2>1
  <2>3. s[i + 1] = s[i] + f[i + 1] /\ f[i + 1] = 0
    BY <1>1, <1>2, <2>2 DEF Sums
  <2> QED BY <2>2, <2>3
<1>4. 0 \in S
  BY <1>2 DEF Sums
<1>5. n \in S
  BY <1>3, <1>4, Numbers
<1>6. Total(f) = 0
  BY <1>1, <1>2, <1>5 DEF Sums
<1> QED BY <1>6 DEF f

-----------------------------------------------------------------------------
(* The table and the handler calls. *)

Halls == {"conf", "reg", "stats", "rows", "idle"}

\* The table is empty until initTopicConf has returned and what the loop made of
\* the configuration from then on.
TableInv ==
    /\ conf \in Configs
    /\ hall \in Halls
    /\ hall = "conf" => handleTableLocal = <<>>
    /\ hall # "conf" => /\ configuredNum \in Indices
                        /\ Loaded(handleTableLocal, configuredNum)

\* The last handler call was made through an entry of the table.
CallInv ==
    /\ pHandle \in Nat
    /\ lastCall # <<>> =>
          \E i \in 1..topicNumLocal :
              lastCall = <<ctr_handle_tab[handleTableLocal[i]], handleTableLocal[i]>>

\* The number of built-in topics.
LEMMA TableSize == ctr_table_size \in Nat /\ Indices = 1..ctr_table_size
BY DispatchAssumption DEF ctr_table_size, Indices

\* initTopicConf truncates the configured number at the size of the table.
LEMMA ConfiguredNum ==
    ASSUME conf \in Configs
    PROVE  configuredNum \in Int /\ configuredNum <= ctr_table_size
BY TableSize, DispatchAssumption DEF configuredNum

\* Steps that leave the table and the configuration alone.
LEMMA TableFrame ==
    ASSUME TableInv, UNCHANGED <<conf, handleTableLocal>>
    PROVE  /\ UNCHANGED hall => TableInv'
           /\ hall # "conf" /\ hall' \in Halls \ {"conf"} => TableInv'
BY DEF TableInv, configuredNum, Loaded, enabled, iDefault

\* Steps that leave the table and the last call alone.
LEMMA CallFrame ==
    ASSUME CallInv, UNCHANGED <<handleTableLocal, lastCall>>, pHandle' \in Nat
    PROVE  CallInv'
BY DEF CallInv, topicNumLocal

\* Every step of the two threads preserves both.
LEMMA TableStep ==
    ASSUME TableInv, CallInv, DispatchNext
    PROVE  TableInv' /\ CallInv'
<1>1. CASE initTopicConf
  <2>1. hall = "conf" /\ hall' = "reg" /\ configuredNum > 0 /\ conf \in Configs
    BY <1>1 DEF initTopicConf, TableInv
  <2>2. configuredNum \in Indices /\ configuredNum \in Nat
    BY <2>1, TableSize, ConfiguredNum
  <2>3. Loaded(loadTopics(configuredNum), configuredNum)
    BY <2>2, LoadTopics
  <2>4. UNCHANGED conf /\ handleTableLocal' = loadTopics(configuredNum)
    BY <1>1 DEF initTopicConf
  <2>5. TableInv'
    BY <2>1, <2>2, <2>3, <2>4 DEF TableInv, Halls, configuredNum, Loaded, enabled, iDefault
  <2>6. lastCall = <<>> /\ UNCHANGED <<lastCall, pHandle>>
    BY <1>1, <2>1 DEF initTopicConf, TableInv, CallInv, topicNumLocal
  <2> QED BY <2>5, <2>6 DEF CallInv
<1>2. CASE initTopicConfExit
  BY <1>2, TableFrame, CallFrame DEF initTopicConfExit, recvVars, CallInv
<1>3. CASE \E t \in Topics : regTopic(t)
  BY <1>3, TableFrame, CallFrame DEF regTopic, recvVars, CallInv
<1>4. CASE regDone
  BY <1>4, TableFrame, CallFrame DEF regDone, recvVars, CallInv, Halls
<1>5. CASE statsTotal
  BY <1>5, TableFrame, CallFrame DEF statsTotal, recvVars, CallInv, Halls
<1>6. CASE statsRow
  BY <1>6, TableFrame, CallFrame DEF statsRow, recvVars, CallInv
<1>7. CASE statsDone
  BY <1>7, TableFrame, CallFrame DEF statsDone, recvVars, CallInv, Halls
<1>8. CASE \E t \in Topics : recvMsg(t) \/ recvMsgNoDb(t)
  BY <1>8, TableFrame, CallFrame DEF recvMsg, recvMsgNoDb, hallVars, CallInv
<1>9. CASE dispatchMsg
  <2>1. TableInv' /\ UNCHANGED handleTableLocal
    BY <1>9, TableFrame DEF dispatchMsg, hallVars
  <2>2. topicNumLocal \in Nat
    BY DEF TableInv, Loaded, topicNumLocal
  <2>3. CASE warn
    BY <2>1, <2>2, <2>3, CallFrame DEF warn, CallInv
  <2>4. ASSUME NEW i \in lookup(cur), handle(i)
        PROVE  CallInv'
    <3>1. i \in 1..topicNumLocal /\ names(i, cur)
      BY <1>9, <2>2 DEF lookup, dispatchMsg, CallInv, names
    <3> QED
      BY <2>1, <2>4, <3>1 DEF handle, names, CallInv, topicNumLocal
  <2> QED BY <1>9, <2>1, <2>3, <2>4 DEF dispatchMsg
<1>10. CASE Quiet \/ Halted
  BY <1>10, TableFrame, CallFrame DEF Quiet, Halted, dispatchVars, hallVars, recvVars, CallInv
<1> QED
  BY <1>1, <1>2, <1>3, <1>4, <1>5, <1>6, <1>7, <1>8, <1>9, <1>10 DEF DispatchNext

\* At the start.
LEMMA TableInit == DispatchInit => TableInv /\ CallInv
BY DEF DispatchInit, TableInv, CallInv, Halls

\* And in every step.
LEMMA TableKept == TableInv /\ CallInv /\ [DispatchNext]_dispatchVars => (TableInv /\ CallInv)'
<1>1. CASE DispatchNext
  BY <1>1, TableStep
<1>2. CASE UNCHANGED dispatchVars
  BY <1>2, TableFrame, CallFrame DEF dispatchVars, hallVars, recvVars, CallInv
<1> QED BY <1>1, <1>2

\* The table holds what the configuration enables and the handlers are called
\* through it, whatever the threads do.
THEOREM TableInvariant == DispatchSpec => [](TableInv /\ CallInv)
BY TableInit, TableKept, PTL DEF DispatchSpec

\* decode_msg_handle passes a message only to the enabled handler of its topic:
\* a stale cache entry never decides.
THEOREM HandlersAreRight == DispatchSpec => []RightHandler
<1>1. TableInv /\ CallInv => RightHandler
  <2> SUFFICES ASSUME TableInv, CallInv, lastCall # <<>>
               PROVE  /\ ctr_handle_tab[lastCall[2]] = lastCall[1]
                      /\ enabled(lastCall[2])
    BY DEF RightHandler
  <2>1. PICK i \in 1..topicNumLocal :
           lastCall = <<ctr_handle_tab[handleTableLocal[i]], handleTableLocal[i]>>
    BY DEF CallInv
  <2>2. /\ configuredNum \in Indices
        /\ Loaded(handleTableLocal, configuredNum)
    BY <2>1 DEF TableInv, topicNumLocal
  <2>3. enabled(handleTableLocal[i])
    <3>1. i \in 1..Len(handleTableLocal)
      BY <2>1 DEF topicNumLocal
    <3>2. handleTableLocal[i] \in 1..configuredNum
      BY <2>2, <3>1, TableSize DEF Loaded
    <3> QED BY <2>2, <3>1, <3>2 DEF Loaded
  <2> QED BY <2>1, <2>3
<1> QED BY <1>1, TableInvariant, PTL

\* initTopicConf loads exactly the enabled topics below the configured number,
\* in order, for every section [TOPIC].
THEOREM TableIsLoaded == DispatchSpec => []LoadedInOrder
<1>1. TableInv => LoadedInOrder
  <2> SUFFICES ASSUME TableInv, hall # "conf" PROVE LoadedInOrder
    BY DEF LoadedInOrder
  <2>1. /\ Loaded(handleTableLocal, configuredNum) /\ configuredNum \in Indices
        /\ conf.NUM \in Int /\ conf.DEFAULT \in Int
        /\ conf.entry \in [Indices -> Int \cup {Absent}] /\ Absent \notin Int
    BY DispatchAssumption DEF TableInv
  <2>2. \A k \in Indices : (conf.NUM # 0 => k <= conf.NUM) <=> k \in 1..configuredNum
    BY <2>1, TableSize DEF configuredNum
  <2>3. \A k \in Indices :
           enabled(k) <=> \/ conf.entry[k] = 1
                          \/ conf.entry[k] = Absent /\ conf.DEFAULT = 1
    BY <2>1 DEF enabled, iDefault
  <2>4. \A i \in 1..topicNumLocal :
           handleTableLocal[i] \in 1..configuredNum /\ handleTableLocal[i] \in Indices
    BY <2>1, TableSize DEF Loaded, topicNumLocal
  <2>5. \A k \in 1..configuredNum :
           enabled(k) <=> \E i \in 1..topicNumLocal : handleTableLocal[i] = k
    BY <2>1 DEF Loaded, topicNumLocal
  <2>6. \A i, j \in 1..topicNumLocal : i < j => handleTableLocal[i] < handleTableLocal[j]
    BY <2>1 DEF Loaded, topicNumLocal
  <2> QED BY <2>2, <2>3, <2>4, <2>5, <2>6 DEF LoadedInOrder
<1> QED BY <1>1, TableInvariant, PTL

-----------------------------------------------------------------------------
(* The statistics. *)

\* Every message received is counted by one entry, counted as unregistered or
\* still in the hands of decode_msg_handle.
CountInv ==
    /\ msgcnt \in Nat /\ unregistered \in Nat
    /\ cnt \in Seq(Nat) /\ Len(cnt) = topicNumLocal
    /\ msgcnt = Total(cnt) + unregistered + (IF cur = None THEN 0 ELSE 1)

\* snap are the counters as they may have been when print_stats read the total:
\* no later counter and no row printed since is smaller.
Snapshot(snap) ==
    /\ snap \in Seq(Nat) /\ Len(snap) = topicNumLocal
    /\ shown.total <= Total(snap) + unregistered + 1
    /\ \A i \in 1..topicNumLocal : snap[i] <= cnt[i]
    /\ \A i \in 1..Len(shown.rows) : snap[i] <= shown.rows[i]

\* What print_stats has printed so far goes with such counters.
ShownInv ==
    /\ shown \in [total : Nat, rows : Seq(Nat)]
    /\ hall \in {"rows", "idle"} =>
          /\ Len(shown.rows) <= topicNumLocal
          /\ hall = "idle" => Len(shown.rows) = topicNumLocal
          /\ \E snap : Snapshot(snap)

\* The inductive invariant behind StatsLag.
StatsInv == TableInv /\ CallInv /\ CountInv /\ ShownInv

\* Steps that count nothing.
LEMMA CountFrame ==
    ASSUME CountInv, UNCHANGED <<msgcnt, unregistered, cnt, cur, handleTableLocal>>
    PROVE  CountInv'
BY DEF CountInv, topicNumLocal

\* Steps that print and count nothing.
LEMMA ShownFrame ==
    ASSUME ShownInv, UNCHANGED <<shown, handleTableLocal, cnt, unregistered>>
    PROVE  /\ UNCHANGED hall => ShownInv'
           /\ hall' \notin {"rows", "idle"} => ShownInv'
BY DEF ShownInv, Snapshot, topicNumLocal

\* Messages counted between the total and the rows only make the rows larger.
LEMMA ShownCounted ==
    ASSUME ShownInv, CountInv, UNCHANGED <<shown, handleTableLocal, hall>>,
           NEW k \in Nat, unregistered' = unregistered + k,
           cnt' \in Seq(Nat), Len(cnt') = Len(cnt),
           \A i \in 1..Len(cnt) : cnt[i] <= cnt'[i]
    PROVE  ShownInv'
<1> SUFFICES ASSUME hall \in {"rows", "idle"}
             PROVE  \E snap : Snapshot(snap)'
  BY DEF ShownInv, topicNumLocal
<1>1. PICK snap : Snapshot(snap)
  BY DEF ShownInv
<1>2. snap \in Seq(Nat) /\ Len(snap) = Len(cnt) /\ topicNumLocal' = topicNumLocal
      /\ Len(cnt) = topicNumLocal /\ topicNumLocal \in Nat
      /\ cnt \in Seq(Nat) /\ unregistered \in Nat /\ shown.total \in Nat
  BY <1>1 DEF Snapshot, CountInv, topicNumLocal, ShownInv
<1>3. Total(snap) \in Nat
  BY <1>2, TotalType
<1>4. ASSUME NEW i \in 1..topicNumLocal PROVE snap[i] <= cnt'[i]
  <2>1. snap[i] \in Nat /\ cnt[i] \in Nat /\ cnt'[i] \in Nat
    BY <1>2, SMTT(60), ZenonT(60)
  <2>2. snap[i] <= cnt[i] /\ cnt[i] <= cnt'[i]
    BY <1>1, <1>2 DEF Snapshot
  <2> QED BY <2>1, <2>2
<1>5. Snapshot(snap)'
  BY <1>1, <1>2, <1>3, <1>4 DEF Snapshot
<1> QED BY <1>5

\* Every step of the two threads preserves the account and what was printed.
LEMMA StatsStep ==
    ASSUME StatsInv, DispatchNext
    PROVE  CountInv' /\ ShownInv'
<1> USE DEF StatsInv
<1>1. CASE initTopicConf
  <2>1. /\ hall = "conf" /\ hall' = "reg" /\ configuredNum > 0 /\ conf \in Configs
        /\ UNCHANGED <<msgcnt, unregistered, cur, shown>>
        /\ handleTableLocal' = loadTopics(configuredNum)
        /\ cnt' = [i \in 1..Len(loadTopics(configuredNum)) |-> 0]
    BY <1>1 DEF initTopicConf, TableInv
  <2>2. configuredNum \in Nat
    BY <2>1, TableSize, ConfiguredNum
  <2> DEFINE n == Len(loadTopics(configuredNum))
  <2>3. n \in Nat
    BY <2>2, LoadTopics DEF Loaded
  <2>4. cnt = [i \in 1..0 |-> 0]
    <3>1. cnt \in Seq(Nat) /\ Len(cnt) = 0
      BY <2>1 DEF TableInv, CountInv, topicNumLocal
    <3>2. cnt = <<>>
      BY <3>1
    <3> QED BY <3>2
  <2>5. Total(cnt) = 0 /\ Total(cnt') = 0
    BY <2>1, <2>3, <2>4, TotalZero
  <2>6. cnt' \in Seq(Nat) /\ Len(cnt') = n
    BY <2>1, <2>3
  <2>7. CountInv'
    BY <2>1, <2>5, <2>6 DEF CountInv, topicNumLocal
  <2> QED BY <2>1, <2>7 DEF ShownInv
<1>2. CASE initTopicConfExit
  BY <1>2, CountFrame, ShownFrame DEF initTopicConfExit, recvVars
<1>3. CASE \E t \in Topics : regTopic(t)
  BY <1>3, CountFrame, ShownFrame DEF regTopic, recvVars
<1>4. CASE regDone
  BY <1>4, CountFrame, ShownFrame DEF regDone, recvVars
<1>5. CASE statsTotal
  <2>1. CountInv' /\ UNCHANGED <<cnt, unregistered, handleTableLocal>>
    BY <1>5, CountFrame DEF statsTotal, recvVars
  <2>2. shown' = [total |-> msgcnt, rows |-> <<>>] /\ hall' = "rows"
    BY <1>5 DEF statsTotal
  <2>3. Len(cnt) = topicNumLocal /\ cnt \in Seq(Nat) /\ msgcnt \in Nat /\ unregistered \in Nat
        /\ topicNumLocal \in Nat /\ topicNumLocal' = topicNumLocal
    BY <2>1 DEF CountInv, topicNumLocal
  <2>4. Total(cnt) \in Nat /\ msgcnt <= Total(cnt) + unregistered + 1
    BY <2>3, TotalType DEF CountInv
  <2>5. Snapshot(cnt)'
    BY <2>1, <2>2, <2>3, <2>4 DEF Snapshot
  <2> QED BY <2>1, <2>2, <2>3, <2>5 DEF ShownInv
<1>6. CASE statsRow
  <2>1. CountInv' /\ UNCHANGED <<cnt, unregistered, handleTableLocal, hall>>
    BY <1>6, CountFrame DEF statsRow, recvVars
  <2>2. /\ hall = "rows" /\ Len(shown.rows) < topicNumLocal
        /\ shown' = [shown EXCEPT !.rows = Append(@, cnt[Len(@) + 1])]
        /\ shown \in [total : Nat, rows : Seq(Nat)]
    BY <1>6 DEF statsRow, ShownInv
  <2>3. Len(cnt) = topicNumLocal /\ cnt \in Seq(Nat) /\ topicNumLocal \in Nat
        /\ topicNumLocal' = topicNumLocal
    BY <2>1 DEF CountInv, topicNumLocal
  <2> DEFINE k == Len(shown.rows) + 1
             rows == Append(shown.rows, cnt[k])
  <2>4. k \in 1..topicNumLocal /\ cnt[k] \in Nat
    BY <2>2, <2>3
  <2>5. shown'.total = shown.total /\ shown'.rows = rows /\ shown' \in [total : Nat, rows : Seq(Nat)]
    <3>1. rows \in Seq(Nat) /\ shown.total \in Nat
      BY <2>2, <2>4
    <3>2. shown' = [total |-> shown.total, rows |-> rows]
      BY <2>2
    <3> QED BY <3>1, <3>2
  <2>6. Len(rows) = k /\ rows[k] = cnt[k] /\ \A i \in 1..(k - 1) : rows[i] = shown.rows[i]
    BY <2>2, <2>4
  <2>7. PICK snap : Snapshot(snap)
    BY <2>2 DEF ShownInv
  <2> HIDE DEF k, rows
  <2>8. ASSUME NEW i \in 1..k PROVE snap[i] <= rows[i]
    <3>1. CASE i = k
      BY <2>4, <2>6, <2>7, <3>1 DEF Snapshot
    <3>2. CASE i # k
      <4>1. i \in 1..(k - 1) /\ k - 1 = Len(shown.rows)
        BY <2>2, <2>4, <3>2 DEF k
      <4> QED BY <2>6, <2>7, <4>1 DEF Snapshot
    <3> QED BY <3>1, <3>2
  <2>9. Snapshot(snap)'
    BY <2>1, <2>3, <2>5, <2>6, <2>7, <2>8 DEF Snapshot
  <2> QED BY <2>1, <2>2, <2>3, <2>4, <2>5, <2>6, <2>9 DEF ShownInv
<1>7. CASE statsDone
  <2>1. CountInv'
    BY <1>7, CountFrame DEF statsDone, recvVars
  <2>2. ShownInv'
    BY <1>7 DEF statsDone, recvVars, ShownInv, Snapshot, topicNumLocal
  <2> QED BY <2>1, <2>2
<1>8. ASSUME NEW t \in Topics, recvMsg(t) \/ recvMsgNoDb(t)
      PROVE  CountInv' /\ ShownInv'
  <2>1. /\ cur = None /\ msgcnt' = msgcnt + 1 /\ cur' = t
        /\ UNCHANGED <<cnt, unregistered, handleTableLocal, shown, hall>>
    BY <1>8 DEF recvMsg, recvMsgNoDb, hallVars
  <2>2. t # None
    BY DispatchAssumption
  <2>3. Total(cnt) \in Nat
    BY TotalType DEF CountInv
  <2>4. CountInv'
    BY <2>1, <2>2, <2>3 DEF CountInv, topicNumLocal
  <2> QED BY <2>1, <2>4, ShownFrame
<1>9. CASE dispatchMsg
  <2>1. /\ cur # None /\ cur' = None /\ UNCHANGED <<msgcnt, handleTableLocal, shown, hall>>
    BY <1>9 DEF dispatchMsg, hallVars
  <2>2. /\ topicNumLocal \in Nat /\ topicNumLocal' = topicNumLocal /\ Len(cnt) = topicNumLocal
        /\ cnt \in Seq(Nat) /\ unregistered \in Nat /\ Total(cnt) \in Nat
    BY <2>1, TotalType DEF CountInv, topicNumLocal
  <2>3. CASE warn
    <3>1. unregistered' = unregistered + 1 /\ UNCHANGED cnt
      BY <2>3 DEF warn
    <3>2. CountInv'
      BY <2>1, <2>2, <3>1 DEF CountInv
    <3>3. \A i \in 1..Len(cnt) : cnt[i] <= cnt'[i]
      BY <2>2, <3>1
    <3> QED BY <2>1, <2>2, <3>1, <3>2, <3>3, ShownCounted
  <2>4. ASSUME NEW i \in lookup(cur), handle(i)
        PROVE  CountInv' /\ ShownInv'
    <3>1. i \in 1..Len(cnt)
      BY <1>9, <2>2 DEF lookup, dispatchMsg, CallInv, names
    <3>2. cnt' = [cnt EXCEPT ![i] = @ + 1] /\ unregistered' = unregistered + 0
      BY <2>2, <2>4 DEF handle
    <3>3. cnt' \in Seq(Nat) /\ Len(cnt') = Len(cnt) /\ \A j \in 1..Len(cnt) : cnt[j] <= cnt'[j]
      BY <2>2, <3>1, <3>2
    <3>4. Total(cnt') = Total(cnt) + 1
      BY <2>2, <3>1, <3>2, TotalBump
    <3>5. CountInv'
      BY <2>1, <2>2, <3>2, <3>3, <3>4 DEF CountInv
    <3> QED BY <2>1, <3>2, <3>3, <3>5, ShownCounted
  <2> QED BY <1>9, <2>3, <2>4 DEF dispatchMsg
<1>10. CASE Quiet \/ Halted
  BY <1>10, CountFrame, ShownFrame DEF Quiet, Halted, dispatchVars, hallVars, recvVars
<1> QED
  BY <1>1, <1>2, <1>3, <1>4, <1>5, <1>6, <1>7, <1>8, <1>9, <1>10 DEF DispatchNext

\* The account of the messages and of what was printed holds throughout.
THEOREM StatsInvariant == DispatchSpec => []StatsInv
<1>1. DispatchInit => CountInv /\ ShownInv
  <2> SUFFICES ASSUME DispatchInit PROVE CountInv /\ ShownInv
    OBVIOUS
  <2>1. cnt = [i \in 1..0 |-> 0]
    BY DEF DispatchInit
  <2>2. Total(cnt) = 0
    BY <2>1, TotalZero
  <2> QED BY <2>2 DEF DispatchInit, CountInv, ShownInv, topicNumLocal
<1>2. StatsInv /\ [DispatchNext]_dispatchVars => (CountInv /\ ShownInv)'
  <2>1. ASSUME StatsInv, UNCHANGED dispatchVars PROVE CountInv' /\ ShownInv'
    BY <2>1, CountFrame, ShownFrame DEF dispatchVars, hallVars, recvVars, StatsInv
  <2> QED BY <2>1, StatsStep
<1> QED BY <1>1, <1>2, TableInvariant, PTL DEF DispatchSpec, StatsInv

\* The total print_stats shows never exceeds the rows it shows by more than the
\* unregistered messages and the one being decoded, without any lock.
THEOREM StatsLagBehindOne == DispatchSpec => []StatsLag
<1>1. StatsInv => StatsLag
  <2> SUFFICES ASSUME CountInv, ShownInv, hall = "idle"
               PROVE  shown.total <= Total(shown.rows) + unregistered + 1
    BY DEF StatsLag, StatsInv
  <2>1. PICK snap : Snapshot(snap)
    BY DEF ShownInv
  <2>2. /\ snap \in Seq(Nat) /\ shown.rows \in Seq(Nat) /\ Len(snap) = Len(shown.rows)
        /\ shown.total \in Nat /\ unregistered \in Nat
        /\ \A i \in 1..Len(snap) : snap[i] <= shown.rows[i]
    BY <2>1 DEF Snapshot, ShownInv, CountInv
  <2>3. /\ Total(snap) \in Nat /\ Total(shown.rows) \in Nat
        /\ Total(snap) <= Total(shown.rows)
    BY <2>2, TotalType, TotalMonotone
  <2> QED BY <2>1, <2>2, <2>3 DEF Snapshot
<1> QED BY <1>1, StatsInvariant, PTL
=============================================================================
