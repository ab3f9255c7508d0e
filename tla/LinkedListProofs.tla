-------------------------- MODULE LinkedListProofs --------------------------
(***************************************************************************)
(* What the list operations of LinkedList.c do to the set of queued        *)
(* threads, for lists of any length.                                       *)
(***************************************************************************)
EXTENDS LinkedList, SequenceTheorems, WellFoundedInduction, TLAPS

\* The least-number principle, in the form the induction steps below use.
LEMMA LeastNumber ==
  ASSUME NEW T \in SUBSET Nat, T # {}
  PROVE  \E x \in T : \A y \in T : x <= y
<1>1. \E x \in T : \A y \in T : ~ (<<y, x>> \in OpToRel(<, Nat))
  BY NatLessThanWellFounded, WFMin
<1>2. PICK x \in T : \A y \in T : ~ (<<y, x>> \in OpToRel(<, Nat))
  BY <1>1
<1>3. \A y \in T : ~(y < x)
  BY <1>2 DEF OpToRel
<1> QED
  BY <1>3

\* A non-empty set of positions of a list has a last one.
LEMMA MaxPosition ==
  ASSUME NEW n \in Nat, NEW S \in SUBSET (1..n), S # {}
  PROVE  Max(S) \in S
<1> DEFINE T == {k \in Nat : k <= n /\ n - k \in S}
<1>1. T \in SUBSET Nat /\ T # {}
  <2>1. PICK x \in S : TRUE
    OBVIOUS
  <2>2. x \in 1..n /\ n - x \in Nat /\ n - (n - x) = x
    BY <2>1
  <2>3. n - x \in T
    BY <2>1, <2>2
  <2> QED
    BY <2>3
<1>2. PICK k \in T : \A y \in T : k <= y
  BY <1>1, LeastNumber
<1>3. n - k \in S /\ k \in Nat
  BY <1>2
<1>4. ASSUME NEW y \in S PROVE n - k >= y
  <2>1. y \in 1..n /\ n - y \in Nat /\ n - (n - y) = y
    BY <1>4
  <2>2. n - y \in T
    BY <1>4, <2>1
  <2>3. k <= n - y
    BY <1>2, <2>2
  <2> QED
    BY <1>3, <2>1, <2>3
<1> QED
  BY <1>3, <1>4 DEF Max

\* The new node goes behind an existing node.
LEMMA LastNodeInList ==
  ASSUME NEW S, NEW key, NEW l \in Seq(S), l # << >>, NEW t
  PROVE  LastNode(key, l, t) \in 1..Len(l)
<1> DEFINE P == {1} \union {k \in 1..Len(l) : \A j \in 1..k : key[l[j]] <= key[t]}
<1>1. Len(l) \in Nat /\ Len(l) >= 1
  BY EmptySeq
<1>2. P \in SUBSET (1..Len(l)) /\ P # {}
  BY <1>1
<1> QED
  BY <1>1, <1>2, MaxPosition DEF LastNode

\* InsertAt behind position i, element by element.
LEMMA InsertBehind ==
  ASSUME NEW S, NEW l \in Seq(S), NEW i \in 1..Len(l), NEW t \in S
  PROVE  /\ InsertAt(l, i + 1, t) \in Seq(S)
         /\ Len(InsertAt(l, i + 1, t)) = Len(l) + 1
         /\ \A k \in 1..(Len(l) + 1) : InsertAt(l, i + 1, t)[k] =
               IF k <= i THEN l[k] ELSE IF k = i + 1 THEN t ELSE l[k - 1]
<1> DEFINE a == SubSeq(l, 1, i)
           b == SubSeq(l, i + 1, Len(l))
<1>1. Len(l) \in Nat /\ i \in Nat /\ i <= Len(l) /\ i >= 1
  OBVIOUS
<1>2. a \in Seq(S) /\ Len(a) = i /\ \A k \in 1..i : a[k] = l[k]
  <2>1. \A k \in 1..i : l[k] \in S
    BY <1>1, ElementOfSeq
  <2> QED
    BY <1>1, <2>1, SubSeqProperties
<1>3. b \in Seq(S) /\ Len(b) = Len(l) - i
       /\ \A k \in 1..(Len(l) - i) : b[k] = l[i + k]
  <2>1. \A k \in (i + 1)..Len(l) : l[k] \in S
    BY <1>1, ElementOfSeq
  <2>2. /\ b \in Seq(S)
        /\ Len(b) = IF i + 1 <= Len(l) THEN Len(l) - (i + 1) + 1 ELSE 0
        /\ \A k \in 1..(Len(l) - (i + 1) + 1) : b[k] = l[(i + 1) + k - 1]
    BY <1>1, <2>1, SubSeqProperties
  <2> QED
    BY <1>1, <2>2
<1> DEFINE c == a \o <<t>>
           d == c \o b
<1>4. InsertAt(l, i + 1, t) = d
  <2>1. (i + 1) - 1 = i
    BY <1>1
  <2> QED
    BY <2>1 DEF InsertAt
<1>5. c \in Seq(S) /\ Len(c) = i + 1
       /\ \A k \in 1..(i + 1) : c[k] = IF k <= i THEN l[k] ELSE t
  <2>1. <<t>> \in Seq(S) /\ Len(<<t>>) = 1 /\ <<t>>[1] = t
    OBVIOUS
  <2> HIDE DEF a, b
  <2>2. c \in Seq(S) /\ Len(c) = Len(a) + Len(<<t>>)
        /\ \A k \in 1..(Len(a) + Len(<<t>>)) : c[k] =
              IF k <= Len(a) THEN a[k] ELSE <<t>>[k - Len(a)]
    BY <1>2, <2>1, ConcatProperties
  <2> HIDE DEF c
  <2> QED
    BY <1>1, <1>2, <2>1, <2>2
<1> HIDE DEF a, b, c
<1>6. d \in Seq(S) /\ Len(d) = Len(c) + Len(b)
      /\ \A k \in 1..(Len(c) + Len(b)) : d[k] =
            IF k <= Len(c) THEN c[k] ELSE b[k - Len(c)]
  BY <1>3, <1>5, ConcatProperties
<1> HIDE DEF d
<1>7. Len(d) = Len(l) + 1
  BY <1>1, <1>3, <1>5, <1>6
<1>8. ASSUME NEW k \in 1..(Len(l) + 1)
      PROVE  d[k] = IF k <= i THEN l[k] ELSE IF k = i + 1 THEN t ELSE l[k - 1]
  <2>0. d[k] = IF k <= i + 1 THEN c[k] ELSE b[k - (i + 1)]
    <3>1. Len(c) = i + 1 /\ Len(c) + Len(b) = Len(l) + 1
      BY <1>1, <1>3, <1>5
    <3>2. k \in 1..(Len(c) + Len(b))
      BY <3>1
    <3> QED
      BY <1>6, <3>1, <3>2
  <2>1. CASE k <= i + 1
    <3>1. k \in 1..(i + 1)
      BY <1>1, <2>1
    <3> QED
      BY <1>1, <1>5, <2>0, <2>1, <3>1
  <2>2. CASE k > i + 1
    <3>1. k - (i + 1) \in 1..(Len(l) - i) /\ i + (k - (i + 1)) = k - 1
      BY <1>1, <2>2
    <3>2. b[k - (i + 1)] = l[k - 1]
      BY <1>3, <3>1
    <3> QED
      BY <1>1, <2>0, <2>2, <3>2
  <2> QED
    BY <1>1, <2>1, <2>2
<1> QED
  BY <1>4, <1>6, <1>7, <1>8

\* r is a queue of members of S that holds the threads of l and t, each once
\* if each was in l once and t was not.
Adds(r, S, l, t) ==
  /\ r \in Seq(S) /\ r # << >>
  /\ Range(r) = Range(l) \union {t}
  /\ IsInjective(l) /\ t \notin Range(l) => IsInjective(r)

\* pushOrdered adds the thread to the queue and loses nobody.
LEMMA PushOrderedAdds ==
  ASSUME NEW S, NEW key, NEW l \in Seq(S), NEW t \in S
  PROVE  Adds(pushOrdered(key, l, t), S, l, t)
<1>1. CASE l = << >>
  <2>1. pushOrdered(key, l, t) = <<t>>
    BY <1>1 DEF pushOrdered
  <2>2. /\ <<t>> \in Seq(S) /\ <<t>> # << >> /\ DOMAIN <<t>> = {1}
        /\ <<t>>[1] = t /\ DOMAIN l = {}
    BY <1>1
  <2> QED
    BY <2>1, <2>2 DEF Adds, Range, IsInjective
<1>2. CASE l # << >>
  <2> DEFINE i == LastNode(key, l, t)
             r == pushOrdered(key, l, t)
             n == Len(l)
  <2>1. i \in 1..n /\ n \in Nat /\ DOMAIN l = 1..n
    BY <1>2, LastNodeInList, LenProperties
  <2>2. r = InsertAt(l, i + 1, t)
    BY <1>2 DEF pushOrdered
  <2> HIDE DEF i, r
  <2>3. r \in Seq(S) /\ Len(r) = n + 1
        /\ \A k \in 1..(n + 1) : r[k] =
              IF k <= i THEN l[k] ELSE IF k = i + 1 THEN t ELSE l[k - 1]
    <3>1. /\ InsertAt(l, i + 1, t) \in Seq(S)
          /\ Len(InsertAt(l, i + 1, t)) = Len(l) + 1
          /\ \A k \in 1..(Len(l) + 1) : InsertAt(l, i + 1, t)[k] =
                IF k <= i THEN l[k] ELSE IF k = i + 1 THEN t ELSE l[k - 1]
      BY <2>1, InsertBehind, SMTT(30)
    <3> QED
      BY <2>2, <3>1
  <2>4. DOMAIN r = 1..(n + 1) /\ r # << >>
    BY <2>1, <2>3, LenProperties, EmptySeq
  <2> HIDE DEF n
  <2>5. Range(r) \subseteq Range(l) \union {t}
    <3> SUFFICES ASSUME NEW k \in 1..(n + 1) PROVE r[k] \in Range(l) \union {t}
      BY <2>4 DEF Range
    <3>1. k <= i => k \in 1..n
      BY <2>1
    <3>2. k > i + 1 => k - 1 \in 1..n
      BY <2>1
    <3>3. \A j \in 1..n : l[j] \in Range(l)
      BY <2>1 DEF Range
    <3>4. r[k] \in {l[k], t, l[k - 1]} /\ (r[k] = t \/ k <= i \/ k > i + 1)
      BY <2>1, <2>3
    <3>5. k <= i => r[k] = l[k]
      BY <2>3
    <3>6. k > i + 1 => r[k] = l[k - 1]
      BY <2>1, <2>3
    <3> QED
      BY <3>1, <3>2, <3>3, <3>4, <3>5, <3>6
  <2>6. t \in Range(r)
    <3>1. i + 1 \in 1..(n + 1) /\ ~(i + 1 <= i)
      BY <2>1
    <3> QED
      BY <2>3, <2>4, <3>1 DEF Range
  <2>7. Range(l) \subseteq Range(r)
    <3> SUFFICES ASSUME NEW k \in 1..n PROVE l[k] \in Range(r)
      BY <2>1 DEF Range
    <3>1. CASE k <= i
      <4>1. k \in 1..(n + 1)
        BY <2>1
      <4> QED
        BY <2>3, <2>4, <3>1, <4>1 DEF Range
    <3>2. CASE k > i
      <4>1. k + 1 \in 1..(n + 1) /\ ~(k + 1 <= i) /\ k + 1 # i + 1 /\ (k + 1) - 1 = k
        BY <2>1, <3>2
      <4> QED
        BY <2>3, <2>4, <4>1 DEF Range
    <3> QED
      BY <2>1, <3>1, <3>2
  <2>8. ASSUME IsInjective(l), t \notin Range(l),
               NEW a \in 1..(n + 1), NEW b \in 1..(n + 1), r[a] = r[b]
        PROVE  a = b
    <3> DEFINE from(k) == IF k <= i THEN k ELSE k - 1
    <3>1. ASSUME NEW k \in 1..(n + 1), k # i + 1
          PROVE  from(k) \in 1..n /\ r[k] = l[from(k)]
      BY <2>1, <2>3, <3>1
    <3>2. ASSUME NEW k \in 1..(n + 1), k # i + 1 PROVE r[k] # t
      BY <2>1, <2>8, <3>1, <3>2 DEF Range
    <3>3. i + 1 \in 1..(n + 1) /\ r[i + 1] = t
      BY <2>1, <2>3
    <3>4. CASE a = i + 1 \/ b = i + 1
      BY <2>8, <3>2, <3>3, <3>4
    <3>5. CASE a # i + 1 /\ b # i + 1
      <4>1. from(a) = from(b)
        BY <2>1, <2>8, <3>1, <3>5 DEF IsInjective
      <4> QED
        BY <2>1, <3>5, <4>1
    <3> QED
      BY <3>4, <3>5
  <2> QED
    BY <2>3, <2>4, <2>5, <2>6, <2>7, <2>8 DEF Adds, IsInjective, r
<1> QED
  BY <1>1, <1>2

\* f[n] is l with from[1..n] pushed onto it, and PushAll is the last of them.
Iterates(f, key, l, from) ==
  /\ PushAll(key, l, from) = f[Len(from)]
  /\ f[0] = l
  /\ \A n \in 1..Len(from) : f[n] = pushOrdered(key, f[n-1], from[n])

\* The recursive function behind PushAll exists.
LEMMA PushAllUnfolds ==
  ASSUME NEW S, NEW key, NEW l \in Seq(S), NEW from \in Seq(S)
  PROVE  \E f : Iterates(f, key, l, from)
<1> DEFINE N == Len(from)
           Body(g) == [n \in 0..N |-> IF n = 0 THEN l ELSE pushOrdered(key, g[n-1], from[n])]
           Upto(m, g) == /\ g = [n \in 0..m |-> g[n]]
                         /\ g[0] = l
                         /\ \A n \in 1..m : g[n] = pushOrdered(key, g[n-1], from[n])
           T == {m \in Nat : m <= N /\ ~ \E g : Upto(m, g)}
<1>1. N \in Nat
  BY LenProperties
<1> HIDE DEF N
<1>2. T = {}
  <2> SUFFICES ASSUME T # {} PROVE FALSE
    OBVIOUS
  <2>1. PICK m \in T : \A k \in T : m <= k
    BY LeastNumber
  <2>2. m \in Nat /\ m <= N /\ ~ \E g : Upto(m, g)
    BY <2>1
  <2>3. CASE m = 0
    <3>1. Upto(0, [n \in 0..0 |-> l])
      OBVIOUS
    <3> QED
      BY <2>2, <2>3, <3>1
  <2>4. CASE m # 0
    <3>1. m - 1 \in Nat /\ m - 1 <= N /\ m - 1 \notin T
      <4> HIDE DEF T, Upto
      <4>1. m - 1 \in Nat /\ m - 1 <= N /\ ~(m <= m - 1)
        BY <1>1, <2>2, <2>4
      <4> QED
        BY <2>1, <4>1
    <3>2. PICK g : Upto(m - 1, g)
      BY <3>1
    <3> DEFINE h == [n \in 0..m |-> IF n < m THEN g[n]
                                     ELSE pushOrdered(key, g[m-1], from[m])]
    <3>3. h = [n \in 0..m |-> h[n]] /\ h[0] = l
      BY <2>2, <2>4, <3>2
    <3>4. ASSUME NEW n \in 1..m PROVE h[n] = pushOrdered(key, h[n-1], from[n])
      <4>1. n - 1 \in 0..m /\ n - 1 < m /\ h[n-1] = g[n-1]
        BY <2>2
      <4>2. CASE n = m
        <5>1. h[n] = pushOrdered(key, g[m-1], from[m])
          BY <2>2, <4>2
        <5> QED
          BY <4>1, <4>2, <5>1
      <4>3. CASE n # m
        <5>1. n \in 1..(m - 1) /\ n \in 0..m /\ n < m
          BY <2>2, <4>3
        <5>2. h[n] = g[n] /\ g[n] = pushOrdered(key, g[n-1], from[n])
          BY <3>2, <5>1
        <5> QED
          BY <4>1, <5>2
      <4> QED
        BY <4>2, <4>3
    <3> QED
      BY <2>2, <3>3, <3>4
  <2> QED
    BY <2>3, <2>4
<1>3. PICK g : Upto(N, g)
  BY <1>1, <1>2
<1>4. g = Body(g)
  <2>1. ASSUME NEW n \in 0..N
        PROVE  g[n] = IF n = 0 THEN l ELSE pushOrdered(key, g[n-1], from[n])
    <3>1. n # 0 => n \in 1..N
      BY <1>1
    <3> QED
      BY <1>3, <3>1
  <2>2. [n \in 0..N |-> g[n]] = Body(g)
    BY <2>1
  <2> QED
    BY <1>3, <2>2
<1> DEFINE f == CHOOSE h : h = Body(h)
<1>5. f = Body(f)
  BY <1>4
<1>6. PushAll(key, l, from) = f[N]
  BY DEF PushAll, N
<1> HIDE DEF f
<1>7. f[0] = l /\ \A n \in 1..N : f[n] = pushOrdered(key, f[n-1], from[n])
  BY <1>1, <1>5
<1> QED
  BY <1>6, <1>7 DEF N, Iterates

\* r is a queue of members of S that holds the threads of l and of `from', each
\* once if each was in the two of them once.
Merges(r, S, l, from) ==
  /\ r \in Seq(S)
  /\ Range(r) = Range(l) \union Range(from)
  /\ IsInjective(l) /\ IsInjective(from) /\ Range(l) \intersect Range(from) = {}
       => IsInjective(r)

\* Emptying `from' into l, one pushOrdered after the other, as threadExit,
\* my_pthread_mutex_destroy and orderByOldest do, adds exactly the threads of
\* `from' and queues nobody twice.
THEOREM PushAllMerges ==
  ASSUME NEW S, NEW key, NEW l \in Seq(S), NEW from \in Seq(S)
  PROVE  Merges(PushAll(key, l, from), S, l, from)
<1> DEFINE N == Len(from)
           Fresh == /\ IsInjective(l) /\ IsInjective(from)
                    /\ Range(l) \intersect Range(from) = {}
<1>1. N \in Nat /\ DOMAIN from = 1..N /\ \A n \in 1..N : from[n] \in S
  BY LenProperties, ElementOfSeq
<1> HIDE DEF N
<1>2a. PICK f : Iterates(f, key, l, from)
  BY PushAllUnfolds
<1>2. /\ PushAll(key, l, from) = f[N] /\ f[0] = l
      /\ \A n \in 1..N : f[n] = pushOrdered(key, f[n-1], from[n])
  BY <1>2a DEF N, Iterates
<1> DEFINE Q(n) == /\ f[n] \in Seq(S)
                   /\ Range(f[n]) = Range(l) \union {from[i] : i \in 1..n}
                   /\ Fresh => IsInjective(f[n])
           T == {n \in Nat : n <= N /\ ~Q(n)}
<1>3. Q(0)
  BY <1>2
<1>4. ASSUME NEW n \in 1..N, Q(n - 1) PROVE Q(n)
  <2>1. f[n] = pushOrdered(key, f[n-1], from[n]) /\ from[n] \in S
    BY <1>1, <1>2
  <2>2. {from[i] : i \in 1..n} = {from[i] : i \in 1..(n-1)} \union {from[n]}
    <3>1. \A i : i \in 1..n <=> i \in 1..(n-1) \/ i = n
      BY <1>1
    <3> QED
      BY <3>1
  <2>3. /\ f[n] \in Seq(S)
        /\ Range(f[n]) = Range(f[n-1]) \union {from[n]}
        /\ IsInjective(f[n-1]) /\ from[n] \notin Range(f[n-1]) => IsInjective(f[n])
    <3> DEFINE prev == f[n-1]
               e == from[n]
    <3>1. prev \in Seq(S) /\ e \in S
      BY <1>4, <2>1
    <3> HIDE DEF prev, e
    <3>2. Adds(pushOrdered(key, prev, e), S, prev, e)
      BY <3>1, PushOrderedAdds
    <3> QED
      BY <2>1, <3>2 DEF Adds, prev, e
  <2>4. Fresh => from[n] \notin Range(f[n-1])
    <3> SUFFICES ASSUME Fresh, from[n] \in Range(f[n-1]) PROVE FALSE
      OBVIOUS
    <3>1. from[n] \in Range(from)
      BY <1>1 DEF Range
    <3>2. PICK i \in 1..(n-1) : from[n] = from[i]
      BY <1>4, <3>1
    <3>3. i \in 1..N /\ i # n
      BY <1>1
    <3> QED
      BY <1>1, <3>2, <3>3 DEF IsInjective
  <2> QED
    BY <1>4, <2>2, <2>3, <2>4
<1> HIDE DEF Q
<1>5. T = {}
  <2> SUFFICES ASSUME T # {} PROVE FALSE
    OBVIOUS
  <2>1. PICK n \in T : \A k \in T : n <= k
    BY LeastNumber
  <2>2. n \in 1..N
    BY <1>1, <1>3, <2>1
  <2>3. n - 1 \in Nat /\ n - 1 <= N /\ n - 1 \notin T
    BY <1>1, <2>1, <2>2
  <2> QED
    BY <1>4, <2>1, <2>2, <2>3
<1>6. Q(N)
  BY <1>1, <1>5
<1>7. Range(from) = {from[i] : i \in 1..N}
  BY <1>1 DEF Range
<1> QED
  BY <1>2, <1>6, <1>7 DEF Merges, Q

\* rest is what pop(l) leaves of l after it returned t.
Removes(rest, S, l, t) ==
  /\ t \in S /\ rest \in Seq(S)
  /\ Range(l) = Range(rest) \union {t}
  /\ IsInjective(l) => IsInjective(rest) /\ t \notin Range(rest)

\* pop takes the first thread out of the queue and no other.
LEMMA PopRemoves ==
  ASSUME NEW S, NEW l \in Seq(S), l # << >>
  PROVE  Removes(Tail(l), S, l, Head(l))
<1> DEFINE n == Len(l)
           r == Tail(l)
<1>1. /\ n \in Nat /\ n >= 1 /\ DOMAIN l = 1..n /\ Head(l) = l[1]
      /\ Head(l) \in S /\ r \in Seq(S) /\ Len(r) = n - 1
      /\ \A i \in 1..(n - 1) : r[i] = l[i + 1]
  BY EmptySeq, LenProperties, HeadTailProperties
<1>2. DOMAIN r = 1..(n - 1)
  BY <1>1, LenProperties
<1> HIDE DEF n, r
<1>3. Range(l) \subseteq Range(r) \union {Head(l)}
  <2> SUFFICES ASSUME NEW k \in 1..n, k # 1 PROVE l[k] \in Range(r)
    BY <1>1 DEF Range
  <2>1. k - 1 \in 1..(n - 1) /\ (k - 1) + 1 = k
    BY <1>1
  <2> QED
    BY <1>1, <1>2, <2>1 DEF Range
<1>4. Range(r) \union {Head(l)} \subseteq Range(l)
  <2>1. ASSUME NEW k \in 1..(n - 1) PROVE r[k] \in Range(l)
    <3>1. k + 1 \in 1..n
      BY <1>1
    <3> QED
      BY <1>1, <3>1 DEF Range
  <2>2. Head(l) \in Range(l)
    <3>1. 1 \in 1..n
      BY <1>1
    <3> QED
      BY <1>1, <3>1 DEF Range
  <2> QED
    BY <1>2, <2>1, <2>2 DEF Range
<1>5. ASSUME IsInjective(l) PROVE IsInjective(r) /\ Head(l) \notin Range(r)
  <2>1. ASSUME NEW a \in 1..(n - 1), NEW b \in 1..(n - 1), r[a] = r[b] PROVE a = b
    <3>1. a + 1 \in 1..n /\ b + 1 \in 1..n /\ l[a + 1] = l[b + 1]
      BY <1>1, <2>1
    <3>2. a + 1 = b + 1
      BY <1>1, <1>5, <3>1 DEF IsInjective
    <3> QED
      BY <3>2
  <2>2. ASSUME NEW a \in 1..(n - 1) PROVE r[a] # Head(l)
    <3>1. a + 1 \in 1..n /\ 1 \in 1..n /\ a + 1 # 1 /\ r[a] = l[a + 1]
      BY <1>1
    <3> QED
      BY <1>1, <1>5, <3>1 DEF IsInjective
  <2> QED
    BY <1>2, <2>1, <2>2 DEF IsInjective, Range
<1> QED
  BY <1>1, <1>3, <1>4, <1>5 DEF Removes, r

\* push appends the thread to the queue.
LEMMA PushAdds ==
  ASSUME NEW S, NEW l \in Seq(S), NEW t \in S
  PROVE  Adds(Append(l, t), S, l, t)
<1> DEFINE n == Len(l)
           r == Append(l, t)
<1>1. /\ n \in Nat /\ DOMAIN l = 1..n /\ r \in Seq(S) /\ r # << >>
      /\ Len(r) = n + 1 /\ r[n + 1] = t /\ \A i \in 1..n : r[i] = l[i]
  BY LenProperties, AppendProperties
<1>2. DOMAIN r = 1..(n + 1)
  BY <1>1, LenProperties
<1> HIDE DEF n, r
<1>3. \A i : i \in 1..(n + 1) <=> i \in 1..n \/ i = n + 1
  BY <1>1
<1>4. Range(r) = Range(l) \union {t}
  BY <1>1, <1>2, <1>3 DEF Range
<1>5. IsInjective(l) /\ t \notin Range(l) => IsInjective(r)
  BY <1>1, <1>2, <1>3 DEF Range, IsInjective
<1> QED
  BY <1>1, <1>4, <1>5 DEF Adds, r
=============================================================================
