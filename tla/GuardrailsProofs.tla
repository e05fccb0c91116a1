-------------------------- MODULE GuardrailsProofs --------------------------
(***************************************************************************)
(* Lemmas about the operators of Guardrails, for messages of any kind and  *)
(* conversations of any length: what a guardrail looks at, what a cut      *)
(* leaves out, and in which order the rest stays.                          *)
(***************************************************************************)
EXTENDS Guardrails, FiniteSetTheorems, SequenceTheorems, WellFoundedInduction, TLAPS

-----------------------------------------------------------------------------
(* The first and the last of some places, and the k-th.                    *)

\* Min answers a member that is below all others.
LEMMA LeastIs ==
  ASSUME NEW S \in SUBSET Nat, S # {}
  PROVE  Min(S) \in S /\ \A i \in S: Min(S) <= i
<1>1. PICK m \in S: \A u \in S: ~(<<u, m>> \in OpToRel(<, Nat))
  BY WFMin, NatLessThanWellFounded
<1>2. \A i \in S: m <= i
  <2>1. \A i \in S: ~(i < m)
    BY <1>1 DEF OpToRel
  <2>2. m \in Nat /\ \A i \in S: i \in Nat
    OBVIOUS
  <2> HIDE DEF OpToRel
  <2> QED BY <2>1, <2>2
<1>3. Min(S) \in S /\ \A i \in S: Min(S) <= i
  BY <1>2, Zenon DEF Min
<1> QED BY <1>3

\* Max answers a member.
LEMMA GreatestIs ==
  ASSUME NEW n \in Nat, NEW S \in SUBSET (1..n), S # {}
  PROVE  Max(S) \in S
<1> DEFINE T == {n - i: i \in S}
<1>1. T \in SUBSET Nat /\ T # {}
  <2>1. ASSUME NEW i \in S PROVE n - i \in Nat
    <3>1. i \in 1..n
      OBVIOUS
    <3> QED BY <3>1
  <2> QED BY <2>1
<1>2. PICK t \in T: \A u \in T: ~(<<u, t>> \in OpToRel(<, Nat))
  BY <1>1, WFMin, NatLessThanWellFounded
<1>3. \A u \in T: ~(u < t)
  BY <1>1, <1>2 DEF OpToRel
<1>4. PICK m \in S: t = n - m
  BY <1>2, ZenonT(60)
<1>5. \A i \in S: m >= i
  <2> SUFFICES ASSUME NEW i \in S PROVE m >= i
    OBVIOUS
  <2>1. ~(n - i < n - m)
    BY <1>3, <1>4
  <2>2. i \in 1..n /\ m \in 1..n
    OBVIOUS
  <2> QED BY <2>1, <2>2
<1>6. Max(S) \in S
  BY <1>5, Zenon DEF Max
<1> QED BY <1>6

\* The places from the first to the last are numbered from 1 on.
LEMMA Numbered ==
  ASSUME NEW S \in SUBSET Nat, IsFiniteSet(S)
  PROVE  /\ Cardinality(S) \in Nat
         /\ \A k \in 1..Cardinality(S): Nth(S, k) \in S
         /\ \A k, l \in 1..Cardinality(S): k < l => Nth(S, k) < Nth(S, l)
         /\ \A i \in S: \E k \in 1..Cardinality(S): Nth(S, k) = i
<1> DEFINE upto(i) == {j \in S: j <= i}
           n == Cardinality(S)
           rank == [i \in S |-> Cardinality(upto(i))]
<1>1. n \in Nat
  BY FS_CardinalityType
<1>2. ASSUME NEW i \in S
      PROVE  IsFiniteSet(upto(i)) /\ rank[i] \in 1..n
  <2>1. IsFiniteSet(upto(i)) /\ Cardinality(upto(i)) <= n
    BY FS_Subset
  <2>2. Cardinality(upto(i)) \in Nat /\ Cardinality(upto(i)) # 0
    <3>1. i \in upto(i)
      OBVIOUS
    <3> QED BY <2>1, <3>1, FS_CardinalityType, FS_EmptySet
  <2> HIDE DEF upto
  <2> QED BY <1>1, <2>1, <2>2
<1>3. ASSUME NEW i \in S, NEW j \in S, i < j
      PROVE  rank[i] < rank[j]
  <2>1. upto(i) \in SUBSET upto(j) /\ j \in upto(j) /\ j \notin upto(i)
    <3>1. i \in Nat /\ j \in Nat
      OBVIOUS
    <3>2. \A k \in S: k <= i => k <= j
      BY <1>3, <3>1
    <3>3. j <= j /\ ~(j <= i)
      BY <1>3, <3>1
    <3> QED BY <3>2, <3>3
  <2> HIDE DEF upto
  <2>2. Cardinality(upto(i)) <= Cardinality(upto(j)) /\ Cardinality(upto(i)) # Cardinality(upto(j))
    BY <1>2, <2>1, FS_Subset, Zenon
  <2> QED BY <1>2, <2>2
<1> HIDE DEF upto, rank, n
<1>4. rank \in [S -> 1..n]
  BY <1>2 DEF rank
<1>5. \A i, j \in S: rank[i] = rank[j] => i = j
  <2> SUFFICES ASSUME NEW i \in S, NEW j \in S, i # j PROVE rank[i] # rank[j]
    OBVIOUS
  <2>1. i < j \/ j < i
    OBVIOUS
  <2>2. rank[i] \in Nat /\ rank[j] \in Nat
    BY <1>2
  <2> QED BY <1>3, <2>1, <2>2
<1>6. rank \in Injection(S, 1..n)
  BY <1>4, <1>5 DEF Injection, IsInjective
<1>7. IsFiniteSet(1..n) /\ Cardinality(1..n) = n
  BY <1>1, FS_Interval
<1>8. rank \in Surjection(S, 1..n)
  BY <1>6, <1>7, FS_Injection DEF n
<1>9. ASSUME NEW k \in 1..n
      PROVE  Nth(S, k) \in S /\ rank[Nth(S, k)] = k
  <2>1. PICK i \in S: rank[i] = k
    BY <1>8 DEF Surjection
  <2>2. Cardinality({j \in S: j <= i}) = k
    BY <2>1 DEF rank, upto
  <2>3. Nth(S, k) \in S /\ Cardinality({j \in S: j <= Nth(S, k)}) = k
    BY <2>2, Zenon DEF Nth
  <2> QED BY <2>3 DEF rank, upto
<1>10. ASSUME NEW k \in 1..n, NEW l \in 1..n, k < l
       PROVE  Nth(S, k) < Nth(S, l)
  <2> DEFINE i == Nth(S, k)
             j == Nth(S, l)
  <2>1. i \in S /\ j \in S /\ rank[i] = k /\ rank[j] = l
    BY <1>9
  <2> HIDE DEF i, j
  <2>2. ~(j < i) /\ j # i
    BY <1>3, <1>10, <2>1
  <2>3. i < j
    BY <2>1, <2>2
  <2> QED BY <2>3 DEF i, j
<1>11. ASSUME NEW i \in S PROVE \E k \in 1..n: Nth(S, k) = i
  BY <1>2, <1>5, <1>9
<1> QED BY <1>1, <1>9, <1>10, <1>11 DEF n

\* The messages at some places are those messages, in their order.
LEMMA AtProperties ==
  ASSUME NEW M, NEW messages \in Seq(M), NEW S \in SUBSET DOMAIN messages
  PROVE  /\ IsFiniteSet(S) /\ Cardinality(S) \in Nat
         /\ At(messages, S) \in Seq(M) /\ Len(At(messages, S)) = Cardinality(S)
         /\ \A k \in 1..Cardinality(S):
              /\ Nth(S, k) \in S /\ At(messages, S)[k] = messages[Nth(S, k)]
         /\ \A k, l \in 1..Cardinality(S): k < l => Nth(S, k) < Nth(S, l)
         /\ \A i \in S: \E k \in 1..Cardinality(S): Nth(S, k) = i
<1>1. DOMAIN messages = 1..Len(messages) /\ Len(messages) \in Nat
      /\ \A i \in 1..Len(messages): messages[i] \in M
  BY LenProperties, ElementOfSeq
<1>2. IsFiniteSet(S) /\ S \in SUBSET Nat
  <2>1. IsFiniteSet(DOMAIN messages)
    BY <1>1, FS_Interval
  <2> QED BY <1>1, <2>1, FS_Subset
<1> DEFINE n == Cardinality(S)
<1>3. /\ n \in Nat
      /\ \A k \in 1..n: Nth(S, k) \in S
      /\ \A k, l \in 1..n: k < l => Nth(S, k) < Nth(S, l)
      /\ \A i \in S: \E k \in 1..n: Nth(S, k) = i
  BY <1>2, Numbered
<1>4. At(messages, S) = [k \in 1..n |-> messages[Nth(S, k)]]
  BY DEF At
<1> HIDE DEF n
<1>5. At(messages, S) \in Seq(M) /\ Len(At(messages, S)) = n
  <2>1. \A k \in 1..n: messages[Nth(S, k)] \in M
    BY <1>1, <1>3
  <2>2. At(messages, S) \in [1..n -> M]
    BY <1>4, <2>1
  <2> QED BY <1>3, <2>2, SeqDef, LenProperties
<1> QED BY <1>2, <1>3, <1>4, <1>5 DEF n

-----------------------------------------------------------------------------
(* The cut.                                                                *)

\* With keep_recent = 0 everything is cut off; otherwise keep_recent messages
\* stay, and when something is cut off, what stays begins with a human turn.
LEMMA CutProperties ==
  ASSUME NEW M, NEW u \in Seq(M), NEW keep \in Nat
  PROVE  /\ Cut(u, keep) \in 0..Len(u)
         /\ Cut(u, keep) + keep <= Len(u) \/ Cut(u, keep) = 0 \/ keep = 0
         /\ Cut(u, keep) \in 1..Len(u) - 1 => u[Cut(u, keep) + 1].role = "human"
<1> DEFINE most == IF Len(u) > keep THEN Len(u) - keep ELSE 0
           turns == {k \in 1..most: k < Len(u) /\ u[k + 1].role = "human"}
<1>1. Len(u) \in Nat /\ most \in 0..Len(u) /\ (most = 0 \/ most + keep = Len(u))
  <2>1. Len(u) \in Nat
    BY LenProperties
  <2> QED BY <2>1
<1>2. Cut(u, keep) = IF keep = 0 THEN Len(u) ELSE IF turns = {} THEN 0 ELSE Max(turns)
  BY Zenon DEF Cut
<1>3. turns # {} => Max(turns) \in turns
  <2>1. turns \in SUBSET (1..Len(u))
    BY <1>1
  <2> HIDE DEF turns
  <2> QED BY <1>1, <2>1, GreatestIs
<1> DEFINE c == Cut(u, keep)
<1>4. \/ keep = 0 /\ c = Len(u)
      \/ c = 0
      \/ c \in 1..most /\ c < Len(u) /\ u[c + 1].role = "human"
  <2>1. CASE keep = 0
    BY <1>2, <2>1, Zenon
  <2>2. CASE keep # 0 /\ turns = {}
    BY <1>2, <2>2, Zenon
  <2>3. CASE keep # 0 /\ turns # {}
    <3>1. c \in turns
      BY <1>2, <1>3, <2>3, Zenon
    <3> HIDE DEF c, most
    <3> QED BY <3>1
  <2> QED BY <2>1, <2>2, <2>3
<1> HIDE DEF c, most
<1>5. c \in 0..Len(u) /\ (c + keep <= Len(u) \/ c = 0 \/ keep = 0)
  BY <1>1, <1>4
<1>6. c \in 1..Len(u) - 1 => u[c + 1].role = "human"
  <2> SUFFICES ASSUME c \in 1..Len(u) - 1 PROVE u[c + 1].role = "human"
    OBVIOUS
  <2>1. c # 0 /\ c # Len(u)
    BY <1>1
  <2> QED BY <1>4, <2>1
<1> QED BY <1>5, <1>6 DEF c

\* What is left out is the oldest of what is not important; keep_recent of
\* these stay, and when something is left out, the first of them is a human turn.
LeavesOutOldest(messages, plain, old, keep) ==
  /\ plain \in SUBSET DOMAIN messages /\ old \in SUBSET plain
  /\ \A i \in old, j \in plain \ old: i < j
  /\ old # {} => Cardinality(plain \ old) >= keep
  /\ (old # {} /\ plain \ old # {}) =>
       \E f \in plain \ old: messages[f].role = "human" /\ \A j \in plain \ old: f <= j
  /\ (old # {} /\ keep # 0) => plain \ old # {}

\* reduce leaves out what it should: however it is cut, the oldest and in front of a
\* human turn (ContextManager.reduce).
THEOREM OldProperties ==
  ASSUME NEW M, NEW messages \in Seq(M), NEW keep \in Nat
  PROVE  LeavesOutOldest(messages, Plain(messages), Old(messages, keep), keep)
<1> SUFFICES ASSUME NEW plain, plain = Plain(messages), NEW old, old = Old(messages, keep)
             PROVE  LeavesOutOldest(messages, plain, old, keep)
  BY Zenon
<1> DEFINE u == At(messages, plain)
           n == Cardinality(plain)
           c == Cut(u, keep)
<1>1. plain \in SUBSET DOMAIN messages
  BY DEF Plain
<1>2. /\ IsFiniteSet(plain) /\ n \in Nat /\ u \in Seq(M) /\ Len(u) = n
      /\ \A k \in 1..n: Nth(plain, k) \in plain /\ u[k] = messages[Nth(plain, k)]
      /\ \A k, l \in 1..n: k < l => Nth(plain, k) < Nth(plain, l)
      /\ \A i \in plain: \E k \in 1..n: Nth(plain, k) = i
  <2>1. \A S \in SUBSET DOMAIN messages:
          /\ IsFiniteSet(S) /\ Cardinality(S) \in Nat
          /\ At(messages, S) \in Seq(M) /\ Len(At(messages, S)) = Cardinality(S)
          /\ \A k \in 1..Cardinality(S):
               Nth(S, k) \in S /\ At(messages, S)[k] = messages[Nth(S, k)]
          /\ \A k, l \in 1..Cardinality(S): k < l => Nth(S, k) < Nth(S, l)
          /\ \A i \in S: \E k \in 1..Cardinality(S): Nth(S, k) = i
    BY AtProperties
  <2> QED BY <1>1, <2>1, Zenon
<1>3. old = {Nth(plain, k): k \in 1..c}
  BY Zenon DEF Old
<1> HIDE DEF u, n
<1>4. /\ c \in 0..n
      /\ c + keep <= n \/ c = 0 \/ keep = 0
      /\ c \in 1..n - 1 => u[c + 1].role = "human"
  <2>1. u \in Seq(M) /\ Len(u) = n
    BY <1>2
  <2> QED BY <2>1, CutProperties
<1> HIDE DEF c
<1>5. \A k \in 1..n: Nth(plain, k) \in old <=> k <= c
  <2>1. ASSUME NEW k \in 1..n, k <= c PROVE Nth(plain, k) \in old
    BY <1>2, <1>3, <1>4, <2>1
  <2>2. ASSUME NEW k \in 1..n, Nth(plain, k) \in old PROVE k <= c
    <3>1. PICK l \in 1..c: Nth(plain, k) = Nth(plain, l)
      BY <1>3, <2>2
    <3>2. l \in 1..n /\ l <= c
      BY <1>2, <1>4
    <3>3. Nth(plain, k) \in Nat
      <4>1. DOMAIN messages = 1..Len(messages)
        BY LenProperties
      <4> QED BY <1>1, <1>2, <4>1
    <3>4. ~(l < k)
      BY <1>2, <3>1, <3>2, <3>3
    <3> QED BY <1>2, <1>4, <3>2, <3>4
  <2> QED BY <2>1, <2>2
<1>6. old \in SUBSET plain
  BY <1>2, <1>3, <1>4
<1>7. ASSUME NEW i \in old, NEW j \in plain \ old PROVE i < j
  <2>1. PICK k \in 1..n: Nth(plain, k) = i
    BY <1>2, <1>6
  <2>2. PICK l \in 1..n: Nth(plain, l) = j
    BY <1>2
  <2>3. k <= c /\ ~(l <= c)
    BY <1>5, <2>1, <2>2
  <2>4. k < l
    BY <1>2, <1>4, <2>3
  <2> QED BY <1>2, <2>1, <2>2, <2>4
<1>8. old # {} => c # 0
  BY <1>3
<1>9. ASSUME old # {} PROVE Cardinality(plain \ old) >= keep
  <2> DEFINE latest == [k \in 1..n - c |-> Nth(plain, c + k)]
  <2>1. \A k \in 1..n - c: c + k \in 1..n /\ ~(c + k <= c)
    <3>1. n \in Nat /\ c \in 0..n
      BY <1>2, <1>4
    <3> QED BY <3>1
  <2>2. latest \in [1..n - c -> plain \ old]
    BY <1>2, <1>5, <2>1
  <2>3. \A k, l \in 1..n - c: latest[k] = latest[l] => k = l
    <3> SUFFICES ASSUME NEW k \in 1..n - c, NEW l \in 1..n - c, k < l
                 PROVE  latest[k] # latest[l]
      BY <1>2, <1>4
    <3>1. c + k < c + l
      BY <1>2, <1>4
    <3>2. Nth(plain, c + k) < Nth(plain, c + l)
      BY <1>2, <2>1, <3>1
    <3>3. Nth(plain, c + k) \in Nat
      <4>1. DOMAIN messages = 1..Len(messages)
        BY LenProperties
      <4>2. Nth(plain, c + k) \in plain
        BY <1>2, <2>1
      <4> QED BY <1>1, <4>1, <4>2
    <3> QED BY <3>2, <3>3
  <2>4. latest \in Injection(1..n - c, plain \ old)
    BY <2>2, <2>3 DEF Injection, IsInjective
  <2> HIDE DEF latest
  <2>5. IsFiniteSet(plain \ old) /\ Cardinality(plain \ old) \in Nat
    BY <1>2, FS_Subset, FS_CardinalityType
  <2>6. Cardinality(1..n - c) <= Cardinality(plain \ old)
    BY <2>4, <2>5, FS_Injection
  <2>7. n - c \in Nat /\ Cardinality(1..n - c) = n - c
    <3>1. n - c \in Nat
      BY <1>2, <1>4
    <3> QED BY <3>1, FS_Interval
  <2>8. n - c >= keep \/ keep = 0
    BY <1>2, <1>4, <1>8, <1>9
  <2> QED BY <2>5, <2>6, <2>7, <2>8
<1>10. ASSUME old # {}, plain \ old # {}
       PROVE  \E f \in plain \ old: messages[f].role = "human" /\ \A j \in plain \ old: f <= j
  <2>1. PICK l \in 1..n: Nth(plain, l) \in plain \ old
    BY <1>2, <1>10
  <2>2. c \in 1..n - 1
    BY <1>2, <1>4, <1>5, <1>8, <1>10, <2>1
  <2>3. c + 1 \in 1..n /\ ~(c + 1 <= c)
    BY <1>2, <2>2
  <2> DEFINE f == Nth(plain, c + 1)
  <2>4. f \in plain \ old /\ messages[f].role = "human"
    BY <1>2, <1>4, <1>5, <2>2, <2>3
  <2>5. ASSUME NEW j \in plain \ old PROVE f <= j
    <3>1. PICK k \in 1..n: Nth(plain, k) = j
      BY <1>2
    <3>2. k = c + 1 \/ c + 1 < k
      BY <1>2, <1>4, <1>5, <3>1
    <3>3. f \in Nat /\ j \in Nat
      <4>1. DOMAIN messages = 1..Len(messages)
        BY LenProperties
      <4> QED BY <1>1, <2>4, <4>1
    <3>4. c + 1 < k => f < j
      BY <1>2, <2>3, <3>1
    <3> HIDE DEF f
    <3>5. k = c + 1 => f = j
      BY <3>1 DEF f
    <3> QED BY <3>2, <3>3, <3>4, <3>5
  <2> QED BY <2>4, <2>5
<1>11. ASSUME old # {}, keep # 0 PROVE plain \ old # {}
  <2>1. plain \ old = {} => Cardinality(plain \ old) = 0
    BY FS_EmptySet
  <2> QED BY <1>9, <1>11, <2>1
<1> QED BY <1>1, <1>6, <1>7, <1>9, <1>10, <1>11 DEF LeavesOutOldest

\* The summary has nothing but system messages in front of it, and everything
\* else stays in its order.
IsPutInto(summary, messages, seen) ==
  /\ Len(seen) = Len(messages) + 1
  /\ \E p \in 1..Len(messages) + 1:
       /\ \A k \in 1..p - 1: seen[k] = messages[k] /\ messages[k].role = "system"
       /\ seen[p] = summary
       /\ \A k \in p + 1..Len(messages) + 1: seen[k] = messages[k - 1]

\* So reduce puts its summary into what stays.
LEMMA WithSummaryProperties ==
  ASSUME NEW M, NEW messages \in Seq(M), NEW summary \in M
  PROVE  /\ WithSummary(messages, summary) \in Seq(M)
         /\ IsPutInto(summary, messages, WithSummary(messages, summary))
<1> SUFFICES ASSUME NEW seen, seen = WithSummary(messages, summary)
             PROVE  seen \in Seq(M) /\ IsPutInto(summary, messages, seen)
  BY Zenon
<1> DEFINE n == Len(messages)
           others == {i \in DOMAIN messages: messages[i].role # "system"}
           p == IF others = {} THEN n + 1 ELSE Min(others)
<1>1. n \in Nat /\ DOMAIN messages = 1..n /\ \A i \in 1..n: messages[i] \in M
  BY LenProperties, ElementOfSeq
<1>2. others # {} => Min(others) \in others /\ \A i \in others: Min(others) <= i
  <2>1. others \in SUBSET Nat
    BY <1>1
  <2> HIDE DEF others
  <2> QED BY <2>1, LeastIs
<1>3. p \in 1..n + 1 /\ \A k \in 1..p - 1: messages[k].role = "system"
  <2>1. CASE others = {}
    <3>1. p = n + 1
      BY <2>1
    <3>2. \A k \in 1..n: messages[k].role = "system"
      BY <1>1, <2>1
    <3> HIDE DEF p, others, n
    <3> QED BY <1>1, <3>1, <3>2
  <2>2. CASE others # {}
    <3>1. p \in others /\ \A i \in others: p <= i
      BY <1>2, <2>2
    <3>2. p \in 1..n
      BY <1>1, <3>1
    <3>3. \A k \in 1..p - 1: k \in 1..n /\ ~(p <= k)
      <4> HIDE DEF p, others, n
      <4> QED BY <1>1, <3>2
    <3>4. \A k \in 1..p - 1: messages[k].role = "system"
      <4>1. \A k \in 1..n: messages[k].role # "system" => k \in others
        BY <1>1
      <4> HIDE DEF p, others, n
      <4> QED BY <3>1, <3>3, <4>1
    <3> HIDE DEF p, others
    <3> QED BY <1>1, <3>2, <3>4
  <2> QED BY <2>1, <2>2
<1>4. seen = SubSeq(messages, 1, p - 1) \o <<summary>> \o SubSeq(messages, p, n)
  BY Zenon DEF WithSummary, InsertAt
<1> HIDE DEF p, others
<1> DEFINE front == SubSeq(messages, 1, p - 1)
           back == SubSeq(messages, p, n)
<1>5. /\ front \in Seq(M) /\ Len(front) = p - 1
      /\ \A k \in 1..p - 1: front[k] = messages[k]
  <2>1. 1 \in Int /\ p - 1 \in Int /\ \A i \in 1..p - 1: messages[i] \in M
    BY <1>1, <1>3
  <2>2. /\ front \in Seq(M) /\ Len(front) = IF 1 <= p - 1 THEN (p - 1) - 1 + 1 ELSE 0
        /\ \A k \in 1..(p - 1) - 1 + 1: front[k] = messages[1 + k - 1]
    BY <2>1, SubSeqProperties
  <2> HIDE DEF front
  <2> QED BY <1>1, <1>3, <2>2
<1>6. /\ back \in Seq(M) /\ Len(back) = n - p + 1
      /\ \A k \in 1..n - p + 1: back[k] = messages[p + k - 1]
  <2>1. p \in Int /\ n \in Int /\ \A i \in p..n: messages[i] \in M
    BY <1>1, <1>3
  <2>2. /\ back \in Seq(M) /\ Len(back) = IF p <= n THEN n - p + 1 ELSE 0
        /\ \A k \in 1..n - p + 1: back[k] = messages[p + k - 1]
    BY <2>1, SubSeqProperties
  <2> HIDE DEF back
  <2> QED BY <1>1, <1>3, <2>2
<1> HIDE DEF front, back
<1> DEFINE middle == <<summary>>
<1>7. middle \in Seq(M) /\ Len(middle) = 1 /\ middle[1] = summary
  OBVIOUS
<1> HIDE DEF middle
<1>8. /\ front \o middle \in Seq(M) /\ Len(front \o middle) = p
      /\ \A k \in 1..p: (front \o middle)[k] = IF k <= p - 1 THEN front[k] ELSE middle[k - (p - 1)]
  <2>1. /\ front \o middle \in Seq(M) /\ Len(front \o middle) = Len(front) + Len(middle)
        /\ \A k \in 1..Len(front) + Len(middle): (front \o middle)[k] =
              IF k <= Len(front) THEN front[k] ELSE middle[k - Len(front)]
    BY <1>5, <1>7, ConcatProperties
  <2>2. Len(front) + Len(middle) = p
    BY <1>1, <1>3, <1>5, <1>7
  <2> QED BY <1>5, <2>1, <2>2
<1>9. seen = (front \o middle) \o back
  BY <1>4 DEF front, middle, back
<1>10. /\ seen \in Seq(M) /\ Len(seen) = n + 1
       /\ \A k \in 1..n + 1: seen[k] = IF k <= p THEN (front \o middle)[k] ELSE back[k - p]
  <2>1. /\ seen \in Seq(M) /\ Len(seen) = p + (n - p + 1)
        /\ \A k \in 1..p + (n - p + 1): seen[k] = IF k <= p THEN (front \o middle)[k] ELSE back[k - p]
    BY <1>6, <1>8, <1>9, ConcatProperties
  <2>2. p + (n - p + 1) = n + 1
    BY <1>1, <1>3
  <2> QED BY <2>1, <2>2
<1>11. ASSUME NEW k \in 1..p - 1 PROVE seen[k] = messages[k] /\ messages[k].role = "system"
  <2>1. k \in 1..n + 1 /\ k <= p /\ k <= p - 1 /\ k \in 1..p
    BY <1>1, <1>3
  <2> QED BY <1>3, <1>5, <1>8, <1>10, <2>1
<1>12. seen[p] = summary
  <2>1. p \in 1..n + 1 /\ p <= p /\ ~(p <= p - 1) /\ p \in 1..p /\ p - (p - 1) = 1
    BY <1>1, <1>3
  <2> QED BY <1>7, <1>8, <1>10, <2>1
<1>13. ASSUME NEW k \in p + 1..n + 1 PROVE seen[k] = messages[k - 1]
  <2>1. k \in 1..n + 1 /\ ~(k <= p) /\ k - p \in 1..n - p + 1 /\ p + (k - p) - 1 = k - 1
    BY <1>1, <1>3
  <2> QED BY <1>6, <1>10, <2>1
<1> QED BY <1>3, <1>10, <1>11, <1>12, <1>13 DEF n, IsPutInto

-----------------------------------------------------------------------------
(* What is looked at.                                                      *)

\* The tail is the last message alone, or has tool messages only; and it has
\* all the tool messages at the end.
LEMMA TailStartProperties ==
  ASSUME NEW M, NEW messages \in Seq(M), messages # <<>>
  PROVE  /\ Len(messages) \in Nat /\ TailStart(messages) \in 1..Len(messages)
         /\ \/ TailStart(messages) = Len(messages)
            \/ \A j \in TailStart(messages)..Len(messages): messages[j].role = "tool"
         /\ \A i \in 1..Len(messages):
              (\A j \in i..Len(messages): messages[j].role = "tool") => TailStart(messages) <= i
<1> SUFFICES ASSUME NEW t, t = TailStart(messages)
             PROVE  /\ Len(messages) \in Nat /\ t \in 1..Len(messages)
                    /\ t = Len(messages) \/ \A j \in t..Len(messages): messages[j].role = "tool"
                    /\ \A i \in 1..Len(messages):
                         (\A j \in i..Len(messages): messages[j].role = "tool") => t <= i
  BY Zenon
<1> DEFINE n == Len(messages)
           tools == {i \in DOMAIN messages: \A j \in i..n: messages[j].role = "tool"}
<1>1. n \in Nat /\ n # 0 /\ DOMAIN messages = 1..n
  BY LenProperties, EmptySeq
<1>2. t = IF tools = {} THEN n ELSE Min(tools)
  BY Zenon DEF TailStart
<1>3. tools \in SUBSET (1..n)
  BY <1>1
<1>4. tools # {} => Min(tools) \in tools /\ \A i \in tools: Min(tools) <= i
  <2>1. tools \in SUBSET Nat
    BY <1>3
  <2> HIDE DEF tools
  <2> QED BY <2>1, LeastIs
<1>5. CASE tools = {}
  <2>1. t = n
    BY <1>2, <1>5
  <2>2. \A i \in 1..n: ~\A j \in i..n: messages[j].role = "tool"
    BY <1>1, <1>5
  <2> HIDE DEF tools
  <2> QED BY <1>1, <2>1, <2>2
<1>6. CASE tools # {}
  <2>1. t \in tools /\ \A i \in tools: t <= i
    BY <1>2, <1>4, <1>6
  <2>2. \A j \in t..n: messages[j].role = "tool"
    BY <2>1, Zenon
  <2>3. \A i \in 1..n: (\A j \in i..n: messages[j].role = "tool") => i \in tools
    BY <1>1
  <2> HIDE DEF tools
  <2> QED BY <1>1, <1>3, <2>1, <2>2, <2>3
<1> QED BY <1>5, <1>6

\* A guardrail changes a message by masking it, and that only; what it has
\* looked at and let pass offends only when it warns; and it looks at all of the
\* tail, unless it blocks on an earlier message of the tail (bind, _check_leaf).
THEOREM EnforceProperties ==
  ASSUME NEW M, NEW messages \in Seq(M),
         \A m \in M: ~[m EXCEPT !.bad = FALSE].bad,
         NEW effective, effective \in {"mask", "warn", "block"},
         NEW e, e = Enforce(messages, effective)
  PROVE  /\ DOMAIN e.value = DOMAIN messages
         /\ \A i \in DOMAIN messages:
              e.value[i] = messages[i] \/ e.value[i] = [messages[i] EXCEPT !.bad = FALSE]
         /\ e.looked \in SUBSET DOMAIN messages
         /\ \A i \in e.looked: (~e.blocked /\ e.value[i].bad) => effective = "warn"
         /\ messages # <<>> =>
              \A i \in TailStart(messages)..Len(messages):
                i \in e.looked \/ \E j \in e.looked: /\ TailStart(messages) <= j /\ j < i
                                                     /\ messages[j].bad
<1> DEFINE tail == IF messages = <<>> THEN {} ELSE TailStart(messages)..Len(messages)
           bad == {i \in tail: messages[i].bad}
           blocked == effective = "block" /\ bad # {}
           value == [i \in DOMAIN messages |->
                       IF i \in tail THEN CheckLeaf(messages[i], effective) ELSE messages[i]]
           looked == IF blocked THEN {i \in tail: i <= Min(bad)} ELSE tail
<1>1. e = [blocked |-> blocked, looked |-> looked, value |-> value]
  BY Zenon DEF Enforce
<1>2. e.blocked = blocked /\ e.looked = looked /\ e.value = value
  <2> HIDE DEF blocked, looked, value
  <2> QED BY <1>1
<1>3. tail \in SUBSET DOMAIN messages /\ tail \in SUBSET Nat
  <2>1. CASE messages = <<>>
    BY <2>1
  <2>2. CASE messages # <<>>
    <3>1. Len(messages) \in Nat /\ TailStart(messages) \in 1..Len(messages)
      BY <2>2, TailStartProperties
    <3>2. DOMAIN messages = 1..Len(messages)
      BY LenProperties
    <3>3. tail = TailStart(messages)..Len(messages)
      BY <2>2
    <3> HIDE DEF tail
    <3> QED BY <3>1, <3>2, <3>3
  <2> QED BY <2>1, <2>2
<1> HIDE DEF tail
<1>4. looked \in SUBSET tail
  OBVIOUS
<1>5. /\ DOMAIN value = DOMAIN messages
      /\ \A i \in DOMAIN messages:
           value[i] = messages[i] \/ value[i] = [messages[i] EXCEPT !.bad = FALSE]
  BY Zenon DEF CheckLeaf
<1>6. ASSUME NEW i \in looked, ~blocked, value[i].bad PROVE effective = "warn"
  <2>1. i \in tail /\ i \in DOMAIN messages /\ messages[i] \in M
    <3>1. DOMAIN messages = 1..Len(messages)
      BY LenProperties
    <3> QED BY <1>3, <1>4, <3>1, ElementOfSeq
  <2>2. value[i] = CheckLeaf(messages[i], effective)
    BY <2>1
  <2>3. ~[messages[i] EXCEPT !.bad = FALSE].bad
    BY <2>1
  <2>4. ~(messages[i].bad /\ effective = "mask") /\ messages[i].bad
    BY <1>6, <2>2, <2>3, Zenon DEF CheckLeaf
  <2>5. i \in bad
    BY <2>1, <2>4
  <2> QED BY <1>6, <2>4, <2>5
<1>7. ASSUME messages # <<>>, NEW i \in TailStart(messages)..Len(messages), i \notin looked
      PROVE  \E j \in looked: TailStart(messages) <= j /\ j < i /\ messages[j].bad
  <2>1. tail = TailStart(messages)..Len(messages)
    BY <1>7 DEF tail
  <2>2. blocked /\ bad # {} /\ ~(i <= Min(bad))
    BY <1>7, <2>1
  <2>3. bad \in SUBSET tail /\ \A j \in bad: messages[j].bad
    OBVIOUS
  <2>4. Min(bad) \in bad
    <3> HIDE DEF bad, blocked
    <3>1. bad \in SUBSET Nat
      BY <1>3, <2>3
    <3> QED BY <2>2, <3>1, LeastIs
  <2>5. Min(bad) \in Nat /\ i \in Nat
    <3> HIDE DEF bad, blocked
    <3> QED BY <1>3, <1>7, <2>1, <2>3, <2>4
  <2>6. Min(bad) \in looked
    <3>1. Min(bad) <= Min(bad) /\ Min(bad) \in tail
      <4> HIDE DEF bad
      <4> QED BY <2>3, <2>4, <2>5
    <3> QED BY <2>2, <3>1, Zenon
  <2> DEFINE j == Min(bad)
  <2>7. j \in tail /\ messages[j].bad
    BY <2>3, <2>4
  <2> HIDE DEF bad, looked, blocked, j
  <2>8. TailStart(messages) \in Nat
    BY <1>7, TailStartProperties
  <2>9. TailStart(messages) <= j /\ j < i
    BY <2>1, <2>2, <2>5, <2>7, <2>8 DEF j
  <2> QED BY <2>6, <2>7, <2>9 DEF j
<1> HIDE DEF looked, value, blocked, bad
<1> QED BY <1>2, <1>3, <1>4, <1>5, <1>6, <1>7
=============================================================================
