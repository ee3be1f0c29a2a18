----------------------------- MODULE RoomProofs -----------------------------
(* Theorems of Room for every value of its constants.                      *)
EXTENDS Room, TLAPS, FiniteSetTheorems, SequenceTheorems

-----------------------------------------------------------------------------
(* Induction on the length of a list, from the well-foundedness of strict  *)
(* inclusion between finite sets.                                          *)

\* A set of numbers that holds 0, and n + 1 with every n, holds them all.
LEMMA NatSetInduction ==
    ASSUME NEW S, 0 \in S, \A n \in Nat : n \in S => n + 1 \in S
    PROVE  Nat \subseteq S
<1> DEFINE T == Nat \ S
           F == {U \in SUBSET Nat : \E n \in T : U = 0..n}
           R == StrictSubsetOrdering(Nat)
<1>1. IsWellFoundedOn(R, FiniteSubsetsOf(Nat))
  BY FS_StrictSubsetOrderingWellFounded
<1>2. SUFFICES ASSUME T # {} PROVE FALSE
  OBVIOUS
<1>3. F \subseteq FiniteSubsetsOf(Nat)
  <2> SUFFICES ASSUME NEW n \in T PROVE IsFiniteSet(0..n)
    BY DEF FiniteSubsetsOf
  <2> QED BY FS_Interval
<1>4. F # {}
  <2>1. PICK n \in T : TRUE
    BY <1>2
  <2>2. 0..n \in F
    BY <2>1
  <2> QED BY <2>2
<1>5. \E X \in F : \A Y \in F : ~(<<Y, X>> \in R)
  <2> HIDE DEF F, R
  <2> QED BY <1>1, <1>3, <1>4, WFMin
<1>6. PICK X \in F : \A Y \in F : ~(<<Y, X>> \in R)
  BY <1>5
<1>7. PICK m \in T : X = 0..m
  BY <1>6
<1>8. m \in Nat /\ m # 0 /\ m - 1 \in Nat /\ m - 1 \in T
  <2>1. m \in Nat /\ m # 0 /\ m - 1 \in Nat /\ (m - 1) + 1 = m /\ m \notin S
    BY <1>7
  <2> QED BY <2>1
<1>9. 0..(m - 1) \in F
  BY <1>8
<1>10. <<0..(m - 1), 0..m>> \in R
  <2>1. 0..(m - 1) \subseteq 0..m /\ m \in 0..m /\ m \notin 0..(m - 1)
    BY <1>8
  <2>2. <<0..(m - 1), 0..m>> \in (SUBSET Nat) \X (SUBSET Nat)
    BY <1>8
  <2> QED BY <2>1, <2>2 DEF StrictSubsetOrdering
<1> QED BY <1>6, <1>7, <1>9, <1>10

\* The same up to a bound.
LEMMA UpToInduction ==
    ASSUME NEW N \in Nat, NEW S, 0 \in S,
           \A n \in Nat : n < N /\ n \in S => n + 1 \in S
    PROVE  0..N \subseteq S
<1> DEFINE T == {n \in Nat : n <= N => n \in S}
<1>1. 0 \in T
  OBVIOUS
<1>2. \A n \in Nat : n \in T => n + 1 \in T
  OBVIOUS
<1>3. Nat \subseteq T
  <2> HIDE DEF T
  <2> QED BY <1>1, <1>2, NatSetInduction
<1> QED BY <1>3

\* A set of numbers that holds one has a least one.
LEMMA LeastNumber ==
    ASSUME NEW S \in SUBSET Nat, S # {}
    PROVE  \E m \in S : \A n \in S : m <= n
<1> DEFINE T == {n \in Nat : \A m \in 0..n : m \notin S}
<1>1. SUFFICES ASSUME \A m \in S : \E n \in S : n < m
               PROVE  FALSE
  OBVIOUS
<1>2. 0 \in T
  BY <1>1
<1>3. \A n \in Nat : n \in T => n + 1 \in T
  <2> SUFFICES ASSUME NEW n \in Nat, n \in T, n + 1 \in S PROVE FALSE
    OBVIOUS
  <2>1. PICK k \in S : k < n + 1
    BY <1>1
  <2> QED BY <2>1
<1>4. Nat \subseteq T
  <2> HIDE DEF T
  <2> QED BY <1>2, <1>3, NatSetInduction
<1>5. PICK k \in S : TRUE
  OBVIOUS
<1>6. k \in T /\ k \in 0..k
  BY <1>4
<1> QED BY <1>6

-----------------------------------------------------------------------------
(* The recursive functions of the model have the values their equations    *)
(* say.                                                                    *)

LEMMA AtPath ==
    ASSUME NEW E, NEW list \in Seq(E), NEW places
    PROVE  \E f : /\ f = [n \in 0..Len(list) |->
                             IF n = 0 THEN <<>>
                             ELSE IF n \in places THEN Append(f[n - 1], list[n])
                                  ELSE f[n - 1]]
                  /\ At(list, places) = f[Len(list)]
<1> DEFINE N == Len(list)
           Rule(f, n) == IF n = 0 THEN <<>>
                         ELSE IF n \in places THEN Append(f[n - 1], list[n])
                              ELSE f[n - 1]
           G(f, m) == f = [n \in 0..m |-> Rule(f, n)]
           S == {m \in Nat : \E f : G(f, m)}
<1>0. N \in Nat
  OBVIOUS
<1>1. 0 \in S
  <2>1. G([n \in 0..0 |-> <<>>], 0)
    OBVIOUS
  <2> QED BY <2>1
<1>2. ASSUME NEW m \in Nat, m \in S PROVE m + 1 \in S
  <2>1. PICK f : G(f, m)
    BY <1>2
  <2> DEFINE g == [n \in 0..(m + 1) |-> IF n = m + 1 THEN Rule(f, n) ELSE f[n]]
  <2>2. G(g, m + 1)
    <3> SUFFICES ASSUME NEW n \in 0..(m + 1) PROVE g[n] = Rule(g, n)
      OBVIOUS
    <3>1. CASE n = m + 1
      <4>1. n - 1 = m /\ n # 0 /\ m # m + 1 /\ m \in 0..(m + 1) /\ n # m
        BY <3>1
      <4> QED BY <3>1, <4>1
    <3>2. CASE n # m + 1
      <4>1. n \in 0..m
        BY <3>2
      <4>2. f[n] = Rule(f, n)
        BY <2>1, <4>1
      <4>3. n # 0 => n - 1 \in 0..(m + 1) /\ n - 1 # m + 1
        BY <4>1
      <4> QED BY <3>2, <4>2, <4>3
    <3> QED BY <3>1, <3>2
  <2> HIDE DEF g, G
  <2> QED BY <2>2
<1>3. N \in S
  <2> HIDE DEF S
  <2> QED BY <1>0, <1>1, <1>2, NatSetInduction
<1>4. \E f : G(f, N)
  BY <1>3, <1>0
<1> DEFINE h == CHOOSE f : G(f, N)
<1>5. G(h, N)
  BY <1>4
<1>6. At(list, places) = h[N]
  BY DEF At
<1> QED BY <1>5, <1>6

LEMMA AppliedPath ==
    ASSUME NEW E, NEW s, NEW events \in Seq(E)
    PROVE  \E f : /\ f[0] = s
                  /\ \A n \in 1..Len(events) : f[n] = ApplyEvent(f[n - 1], events[n])
                  /\ Applied(s, events) = f[Len(events)]
<1> DEFINE N == Len(events)
           Rule(f, n) == IF n = 0 THEN s ELSE ApplyEvent(f[n - 1], events[n])
           G(f, m) == f = [n \in 0..m |-> Rule(f, n)]
           S == {m \in Nat : \E f : G(f, m)}
<1>0. N \in Nat
  OBVIOUS
<1>1. 0 \in S
  <2>1. G([n \in 0..0 |-> s], 0)
    OBVIOUS
  <2> QED BY <2>1
<1>2. ASSUME NEW m \in Nat, m \in S PROVE m + 1 \in S
  <2>1. PICK f : G(f, m)
    BY <1>2
  <2> DEFINE g == [n \in 0..(m + 1) |-> IF n = m + 1 THEN Rule(f, n) ELSE f[n]]
  <2>2. G(g, m + 1)
    <3> SUFFICES ASSUME NEW n \in 0..(m + 1) PROVE g[n] = Rule(g, n)
      OBVIOUS
    <3>1. CASE n = m + 1
      <4>1. n - 1 = m /\ n # 0 /\ m # m + 1 /\ m \in 0..(m + 1) /\ n # m
        BY <3>1
      <4> QED BY <3>1, <4>1
    <3>2. CASE n # m + 1
      <4>1. n \in 0..m
        BY <3>2
      <4>2. f[n] = Rule(f, n)
        BY <2>1, <4>1
      <4>3. n # 0 => n - 1 \in 0..(m + 1) /\ n - 1 # m + 1
        BY <4>1
      <4> QED BY <3>2, <4>2, <4>3
    <3> QED BY <3>1, <3>2
  <2> HIDE DEF g, G
  <2> QED BY <2>2
<1>3. N \in S
  <2> HIDE DEF S
  <2> QED BY <1>0, <1>1, <1>2, NatSetInduction
<1>4. \E f : G(f, N)
  BY <1>3, <1>0
<1> DEFINE h == CHOOSE f : G(f, N)
<1>5. G(h, N)
  BY <1>4
<1>6. Applied(s, events) = h[N]
  BY DEF Applied
<1>7. h[0] = s /\ \A n \in 1..N : h[n] = ApplyEvent(h[n - 1], events[n])
  <2> HIDE DEF h, N
  <2> QED BY <1>5, <1>0
<1> HIDE DEF h
<1> QED BY <1>6, <1>7

LEMMA HeardPath ==
    ASSUME NEW E, NEW k, NEW p, NEW frames \in Seq(E)
    PROVE  \E f : /\ f[0] = p
                  /\ \A n \in 1..Len(frames) : f[n] = HandleMessage(k, f[n - 1], frames[n])
                  /\ Heard(k, p, frames) = f[Len(frames)]
<1> DEFINE N == Len(frames)
           Rule(f, n) == IF n = 0 THEN p ELSE HandleMessage(k, f[n - 1], frames[n])
           G(f, m) == f = [n \in 0..m |-> Rule(f, n)]
           S == {m \in Nat : \E f : G(f, m)}
<1>0. N \in Nat
  OBVIOUS
<1>1. 0 \in S
  <2>1. G([n \in 0..0 |-> p], 0)
    OBVIOUS
  <2> QED BY <2>1
<1>2. ASSUME NEW m \in Nat, m \in S PROVE m + 1 \in S
  <2>1. PICK f : G(f, m)
    BY <1>2
  <2> DEFINE g == [n \in 0..(m + 1) |-> IF n = m + 1 THEN Rule(f, n) ELSE f[n]]
  <2>2. G(g, m + 1)
    <3> SUFFICES ASSUME NEW n \in 0..(m + 1) PROVE g[n] = Rule(g, n)
      OBVIOUS
    <3>1. CASE n = m + 1
      <4>1. n - 1 = m /\ n # 0 /\ m # m + 1 /\ m \in 0..(m + 1) /\ n # m
        BY <3>1
      <4> QED BY <3>1, <4>1
    <3>2. CASE n # m + 1
      <4>1. n \in 0..m
        BY <3>2
      <4>2. f[n] = Rule(f, n)
        BY <2>1, <4>1
      <4>3. n # 0 => n - 1 \in 0..(m + 1) /\ n - 1 # m + 1
        BY <4>1
      <4> QED BY <3>2, <4>2, <4>3
    <3> QED BY <3>1, <3>2
  <2> HIDE DEF g, G
  <2> QED BY <2>2
<1>3. N \in S
  <2> HIDE DEF S
  <2> QED BY <1>0, <1>1, <1>2, NatSetInduction
<1>4. \E f : G(f, N)
  BY <1>3, <1>0
<1> DEFINE h == CHOOSE f : G(f, N)
<1>5. G(h, N)
  BY <1>4
<1>6. Heard(k, p, frames) = h[N]
  BY DEF Heard
<1>7. h[0] = p /\ \A n \in 1..N : h[n] = HandleMessage(k, h[n - 1], frames[n])
  <2> HIDE DEF h, N
  <2> QED BY <1>5, <1>0
<1> HIDE DEF h
<1> QED BY <1>6, <1>7
-----------------------------------------------------------------------------
(* Lists.                                                                  *)

\* At keeps the elements of the places it is given, and no others.
LEMMA AtKeeps ==
    ASSUME NEW E, NEW list \in Seq(E), NEW places
    PROVE  /\ At(list, places) \in Seq(E)
           /\ \A n \in DOMAIN At(list, places) :
                 \E j \in DOMAIN list : j \in places /\ At(list, places)[n] = list[j]
           /\ \A j \in DOMAIN list : j \in places =>
                 \E n \in DOMAIN At(list, places) : At(list, places)[n] = list[j]
<1> DEFINE N == Len(list)
           Good(r, m) ==
               /\ r \in Seq(E)
               /\ \A n \in 1..Len(r) : \E j \in 1..m : j \in places /\ r[n] = list[j]
               /\ \A j \in 1..m : j \in places => \E n \in 1..Len(r) : r[n] = list[j]
<1>0. N \in Nat /\ DOMAIN list = 1..N /\ \A i \in 1..N : list[i] \in E
  OBVIOUS
<1>1. PICK f : /\ f = [n \in 0..N |-> IF n = 0 THEN <<>>
                                    ELSE IF n \in places THEN Append(f[n - 1], list[n])
                                         ELSE f[n - 1]]
               /\ At(list, places) = f[N]
  BY AtPath
<1> DEFINE S == {m \in Nat : m <= N => Good(f[m], m)}
<1>2. 0 \in S
  BY <1>0, <1>1
<1>3. ASSUME NEW m \in Nat, m < N, Good(f[m], m) PROVE Good(f[m + 1], m + 1)
  <2> HIDE DEF N
  <2>1. m + 1 \in 0..N /\ m + 1 # 0 /\ (m + 1) - 1 = m /\ m + 1 \in 1..N /\ list[m + 1] \in E
    BY <1>0, <1>3
  <2>2. f[m + 1] = IF m + 1 \in places THEN Append(f[m], list[m + 1]) ELSE f[m]
    BY <1>1, <2>1 DEF N
  <2>3. \A j \in 1..(m + 1) : j \in 1..m \/ j = m + 1
    OBVIOUS
  <2>4. 1..m \subseteq 1..(m + 1)
    OBVIOUS
  <2>5. CASE m + 1 \notin places
    BY <1>3, <2>2, <2>3, <2>4, <2>5
  <2>6. CASE m + 1 \in places
    <3> DEFINE r == f[m]
               q == f[m + 1]
    <3>1. r \in Seq(E) /\ q = Append(r, list[m + 1])
      BY <1>3, <2>2, <2>6
    <3>2. /\ q \in Seq(E) /\ Len(q) = Len(r) + 1 /\ Len(r) \in Nat
          /\ \A n \in 1..Len(r) : q[n] = r[n]
          /\ q[Len(r) + 1] = list[m + 1]
      <4> HIDE DEF q, r
      <4> QED BY <3>1, <2>1, AppendProperties
    <3>3. \A n \in 1..Len(q) : \E j \in 1..(m + 1) : j \in places /\ q[n] = list[j]
      <4> HIDE DEF q, r
      <4> SUFFICES ASSUME NEW n \in 1..Len(q)
                   PROVE  \E j \in 1..(m + 1) : j \in places /\ q[n] = list[j]
        OBVIOUS
      <4>1. CASE n = Len(r) + 1
        BY <4>1, <3>2, <2>6
      <4>2. CASE n # Len(r) + 1
        <5>1. n \in 1..Len(r) /\ q[n] = r[n]
          BY <4>2, <3>2
        <5>2. \E j \in 1..m : j \in places /\ r[n] = list[j]
          BY <5>1, <1>3 DEF r
        <5> QED BY <5>1, <5>2
      <4> QED BY <4>1, <4>2
    <3>4. \A j \in 1..(m + 1) : j \in places => \E n \in 1..Len(q) : q[n] = list[j]
      <4> HIDE DEF q, r
      <4> SUFFICES ASSUME NEW j \in 1..(m + 1), j \in places
                   PROVE  \E n \in 1..Len(q) : q[n] = list[j]
        OBVIOUS
      <4>1. CASE j = m + 1
        <5>1. Len(r) + 1 \in 1..Len(q) /\ q[Len(r) + 1] = list[j]
          BY <4>1, <3>2
        <5> QED BY <5>1
      <4>2. CASE j # m + 1
        <5>0. j \in 1..m
          BY <4>2, <2>3
        <5>1. PICK n \in 1..Len(r) : r[n] = list[j]
          BY <5>0, <1>3 DEF r
        <5>2. n \in 1..Len(q) /\ q[n] = list[j]
          BY <5>1, <3>2
        <5> QED BY <5>2
      <4> QED BY <4>1, <4>2
    <3> QED BY <3>2, <3>3, <3>4
  <2> QED BY <2>5, <2>6
<1>4. \A m \in Nat : m \in S => m + 1 \in S
  <2> SUFFICES ASSUME NEW m \in Nat, m \in S, m + 1 <= N PROVE Good(f[m + 1], m + 1)
    OBVIOUS
  <2>1. m < N /\ m <= N
    BY <1>0
  <2>2. Good(f[m], m)
    BY <2>1
  <2> HIDE DEF Good
  <2> QED BY <1>3, <2>1, <2>2
<1>5. Good(f[N], N)
  <2>1. N \in S
    <3> HIDE DEF S
    <3> QED BY <1>0, <1>2, <1>4, NatSetInduction
  <2> HIDE DEF Good
  <2> QED BY <2>1, <1>0
<1> DEFINE r == At(list, places)
<1>6. Good(r, N) /\ DOMAIN r = 1..Len(r)
  <2>1. r = f[N]
    BY <1>1
  <2>2. Good(r, N)
    <3> HIDE DEF r, Good
    <3> QED BY <2>1, <1>5
  <2> HIDE DEF r
  <2> QED BY <2>2
<1> HIDE DEF r
<1>7. /\ r \in Seq(E)
      /\ \A n \in DOMAIN r : \E j \in DOMAIN list : j \in places /\ r[n] = list[j]
      /\ \A j \in DOMAIN list : j \in places => \E n \in DOMAIN r : r[n] = list[j]
  BY <1>6, <1>0
<1> QED BY <1>7 DEF r

\* findIndex finds the id that a list holds.
LEMMA IndexOfHeld ==
    ASSUME NEW E, NEW list \in Seq(E), NEW id, Holds(list, id)
    PROVE  IndexOfId(list, id) \in DOMAIN list /\ list[IndexOfId(list, id)].id = id
<1> DEFINE S == {j \in DOMAIN list : list[j].id = id}
<1>1. DOMAIN list = 1..Len(list) /\ Len(list) \in Nat
  OBVIOUS
<1>2. S \in SUBSET Nat /\ S # {}
  BY <1>1 DEF Holds
<1>3. PICK k \in S : \A j \in S : k <= j
  <2> HIDE DEF S
  <2> QED BY <1>2, LeastNumber
<1>4. \A j \in 1..(k - 1) : j \notin S
  BY <1>3, <1>2
<1>5. \A j \in 1..(k - 1) : list[j].id # id
  BY <1>4, <1>3, <1>1
<1>6. k \in DOMAIN list /\ list[k].id = id /\ \A j \in 1..(k - 1) : list[j].id # id
  BY <1>3, <1>5
<1> QED BY <1>6 DEF IndexOfId

\* RemoveAt keeps every element but the one at its place.
LEMMA RemoveAtKeeps ==
    ASSUME NEW E, NEW list \in Seq(E), NEW k \in DOMAIN list
    PROVE  /\ RemoveAt(list, k) \in Seq(E)
           /\ \A n \in DOMAIN RemoveAt(list, k) :
                 \E j \in DOMAIN list : j # k /\ RemoveAt(list, k)[n] = list[j]
           /\ \A j \in DOMAIN list : j # k =>
                 \E n \in DOMAIN RemoveAt(list, k) : RemoveAt(list, k)[n] = list[j]
<1> DEFINE N == Len(list)
           a == SubSeq(list, 1, k - 1)
           b == SubSeq(list, k + 1, N)
           r == a \o b
<1>0. N \in Nat /\ DOMAIN list = 1..N /\ k \in 1..N /\ \A i \in 1..N : list[i] \in E
  OBVIOUS
<1>1. a \in Seq(E) /\ Len(a) = k - 1 /\ \A i \in 1..(k - 1) : a[i] = list[i]
  BY <1>0, SubSeqProperties
<1>2. b \in Seq(E) /\ Len(b) = N - k /\ \A i \in 1..(N - k) : b[i] = list[k + i]
  <2>1. \A i \in (k + 1)..N : list[i] \in E
    BY <1>0
  <2>2. /\ b \in Seq(E)
        /\ Len(b) = IF k + 1 <= N THEN N - (k + 1) + 1 ELSE 0
        /\ \A i \in 1..(N - (k + 1) + 1) : b[i] = list[(k + 1) + i - 1]
    <3> HIDE DEF N
    <3> QED BY <2>1, <1>0, SubSeqProperties
  <2> HIDE DEF N, b
  <2>3. \A i \in 1..(N - k) : i \in 1..(N - (k + 1) + 1) /\ (k + 1) + i - 1 = k + i
    BY <1>0
  <2>4. Len(b) = N - k
    BY <2>2, <1>0
  <2> QED BY <2>2, <2>3, <2>4
<1>3. /\ r \in Seq(E) /\ Len(r) = N - 1
      /\ \A i \in 1..(N - 1) : r[i] = IF i < k THEN list[i] ELSE list[i + 1]
  <2> HIDE DEF a, b, N
  <2>1. /\ r \in Seq(E) /\ Len(r) = Len(a) + Len(b)
        /\ \A i \in 1..(Len(a) + Len(b)) : r[i] = IF i <= Len(a) THEN a[i] ELSE b[i - Len(a)]
    BY <1>1, <1>2, ConcatProperties
  <2>2. Len(r) = N - 1
    BY <2>1, <1>0, <1>1, <1>2
  <2>3. ASSUME NEW i \in 1..(N - 1) PROVE r[i] = IF i < k THEN list[i] ELSE list[i + 1]
    <3>1. i \in 1..(Len(a) + Len(b))
      BY <1>0, <1>1, <1>2
    <3>2. r[i] = IF i <= k - 1 THEN a[i] ELSE b[i - (k - 1)]
      BY <2>1, <3>1, <1>1
    <3>3. CASE i < k
      BY <3>2, <3>3, <1>1, <1>0
    <3>4. CASE ~(i < k)
      <4>1. i - (k - 1) \in 1..(N - k) /\ k + (i - (k - 1)) = i + 1
        BY <3>4, <1>0
      <4>2. ~(i <= k - 1)
        BY <3>4, <1>0
      <4>3. r[i] = b[i - (k - 1)] /\ b[i - (k - 1)] = list[k + (i - (k - 1))]
        BY <3>2, <4>1, <4>2, <1>2
      <4> QED BY <4>1, <4>3, <3>4
    <3> QED BY <3>3, <3>4
  <2> QED BY <2>1, <2>2, <2>3
<1> HIDE DEF r, N
<1>4. DOMAIN r = 1..(N - 1)
  BY <1>3
<1>5. ASSUME NEW n \in DOMAIN r PROVE \E j \in DOMAIN list : j # k /\ r[n] = list[j]
  <2>1. CASE n < k
    <3>1. n \in DOMAIN list /\ n # k /\ r[n] = list[n]
      BY <2>1, <1>0, <1>3, <1>4
    <3> QED BY <3>1
  <2>2. CASE ~(n < k)
    <3>1. n + 1 \in DOMAIN list /\ n + 1 # k /\ r[n] = list[n + 1]
      BY <2>2, <1>0, <1>3, <1>4
    <3> QED BY <3>1
  <2> QED BY <2>1, <2>2
<1>6. ASSUME NEW j \in DOMAIN list, j # k PROVE \E n \in DOMAIN r : r[n] = list[j]
  <2>1. CASE j < k
    <3>1. j \in DOMAIN r /\ r[j] = list[j]
      BY <2>1, <1>0, <1>3, <1>4
    <3> QED BY <3>1
  <2>2. CASE ~(j < k)
    <3>1. j - 1 \in DOMAIN r /\ (j - 1) + 1 = j /\ ~(j - 1 < k)
      BY <2>2, <1>6, <1>0, <1>4
    <3>2. r[j - 1] = list[j]
      BY <3>1, <1>3, <1>4
    <3> QED BY <3>1, <3>2
  <2> QED BY <2>1, <2>2
<1>7. RemoveAt(list, k) = r
  BY DEF RemoveAt, r, N
<1> QED BY <1>3, <1>5, <1>6, <1>7

-----------------------------------------------------------------------------
(* The reducer keeps the snapshot's type.                                  *)

LEMMA AppendToSeq ==
    ASSUME NEW E, NEW list \in Seq(E), NEW x \in E
    PROVE  /\ Append(list, x) \in Seq(E)
           /\ \A n \in DOMAIN list : n \in DOMAIN Append(list, x) /\ Append(list, x)[n] = list[n]
           /\ \E n \in DOMAIN Append(list, x) : Append(list, x)[n] = x
<1>1. /\ Append(list, x) \in Seq(E)
      /\ Len(Append(list, x)) = Len(list) + 1
      /\ \A i \in 1..Len(list) : Append(list, x)[i] = list[i]
      /\ Append(list, x)[Len(list) + 1] = x
  BY AppendProperties
<1>2. DOMAIN list = 1..Len(list) /\ Len(list) \in Nat
  OBVIOUS
<1> DEFINE q == Append(list, x)
<1> HIDE DEF q
<1>3. DOMAIN q = 1..(Len(list) + 1)
  BY <1>1 DEF q
<1>4. \A n \in DOMAIN list : n \in DOMAIN q /\ q[n] = list[n]
  BY <1>1, <1>2, <1>3 DEF q
<1>5. Len(list) + 1 \in DOMAIN q /\ q[Len(list) + 1] = x
  BY <1>1, <1>2, <1>3 DEF q
<1> QED BY <1>1, <1>4, <1>5 DEF q

LEMMA AppendItem ==
    ASSUME NEW list \in Seq(QueueItemSummary), NEW x \in QueueItemSummary
    PROVE  /\ Append(list, x) \in Seq(QueueItemSummary)
           /\ \A n \in DOMAIN list : n \in DOMAIN Append(list, x) /\ Append(list, x)[n] = list[n]
           /\ \E n \in DOMAIN Append(list, x) : Append(list, x)[n] = x
<1> DEFINE E == QueueItemSummary
<1> HIDE DEF E
<1>1. list \in Seq(E) /\ x \in E
  BY DEF E
<1>2. /\ Append(list, x) \in Seq(E)
      /\ \A n \in DOMAIN list : n \in DOMAIN Append(list, x) /\ Append(list, x)[n] = list[n]
      /\ \E n \in DOMAIN Append(list, x) : Append(list, x)[n] = x
  BY <1>1, AppendToSeq
<1> QED BY <1>2 DEF E

LEMMA NotOfType ==
    ASSUME NEW claims \in Seq(Guests), NEW g
    PROVE  NotOf(claims, g) \in Seq(Guests)
BY AtKeeps DEF NotOf

\* An item of a list is replaced by another of the same id.
LEMMA ReplacedKeeps ==
    ASSUME NEW list \in Seq(QueueItemSummary), NEW k \in DOMAIN list,
           NEW x \in QueueItemSummary, x.id = list[k].id, NEW i
    PROVE  /\ [list EXCEPT ![k] = x] \in Seq(QueueItemSummary)
           /\ Holds([list EXCEPT ![k] = x], i) <=> Holds(list, i)
<1> DEFINE q == [list EXCEPT ![k] = x]
<1>1. DOMAIN list = 1..Len(list) /\ Len(list) \in Nat
  OBVIOUS
<1>2. q \in Seq(QueueItemSummary)
  BY <1>1, ExceptSeq
<1>3. DOMAIN q = DOMAIN list /\ \A j \in DOMAIN list : q[j].id = list[j].id
  OBVIOUS
<1>4. Holds(q, i) <=> Holds(list, i)
  BY <1>3 DEF Holds
<1> QED BY <1>2, <1>4

SnapshotFields == {"nowPlaying", "recentlyPlayed", "playbackClock", "lyrics", "queue",
                   "pending", "providerQueue", "nowPlayingSkipVote",
                   "providerQueueSkipVotes", "activeGuestCount", "queuedGuestCount",
                   "karaoke", "providerStatus"}

LEMMA EmptySnapshotType == CreateEmptySnapshot \in SessionSnapshot
BY DEF CreateEmptySnapshot, SessionSnapshot, CreateEmptyKaraokeState, KaraokeSnapshotState, Maybe

\* What the events of each type carry.
LEMMA EventFields ==
    ASSUME NEW e \in SessionEvent
    PROVE  /\ e.type = "queue.item_requested" => e.item \in QueueItemSummary
           /\ e.type \in {"queue.item_approved", "queue.item_rejected", "queue.item_removed",
                          "karaoke.paused", "karaoke.resumed", "skip_vote.updated",
                          "karaoke.claim_added", "karaoke.claim_removed"} => e.itemId \in Items
           /\ e.type = "now_playing.updated" => e.track \in Maybe(Tracks)
           /\ e.type = "skip_vote.updated" => e.votes \in Nat
           /\ e.type \in {"now_playing_skip_vote.updated", "provider_queue_skip_vote.updated"}
              => e.trackUri \in Tracks /\ e.count \in Nat
           /\ e.type = "provider_queue.updated" => e.tracks \in Seq(Tracks)
           /\ e.type \in {"karaoke.claim_added", "karaoke.claim_removed"} => e.guestId \in Guests
           /\ e.type = "karaoke.spotlight" => e.itemId \in Maybe(Items) /\ e.claims \in Seq(Guests)
           /\ e.type = "provider.status_updated" => e.status \in {"ok", "rate_limited"}
           /\ e.type = "guest_slots.updated" => e.activeCount \in Nat /\ e.queuedCount \in Nat
           /\ e.type = "playback.clock_sampled" => e.trackUri \in Tracks
           /\ e.type = "lyrics.loaded" => e.trackUri \in Tracks /\ e.lyrics \in Maybe(Tracks)
           /\ e.type # "_snapshot"
BY DEF SessionEvent

Held(s, i) == Holds(s.pending, i) \/ Holds(s.queue, i)

LEMMA SnapshotLists ==
    ASSUME NEW s \in SessionSnapshot
    PROVE  s.pending \in Seq(QueueItemSummary) /\ s.queue \in Seq(QueueItemSummary)
BY DEF SessionSnapshot

LEMMA WithPending ==
    ASSUME NEW s \in SessionSnapshot, NEW a \in Seq(QueueItemSummary)
    PROVE  /\ [s EXCEPT !.pending = a] \in SessionSnapshot
           /\ [s EXCEPT !.pending = a].pending = a
           /\ [s EXCEPT !.pending = a].queue = s.queue
BY DEF SessionSnapshot

LEMMA WithQueue ==
    ASSUME NEW s \in SessionSnapshot, NEW b \in Seq(QueueItemSummary)
    PROVE  /\ [s EXCEPT !.queue = b] \in SessionSnapshot
           /\ [s EXCEPT !.queue = b].queue = b
           /\ [s EXCEPT !.queue = b].pending = s.pending
BY DEF SessionSnapshot

\* The item that updateItemById finds, and what it puts in its place.
ItemOf(s, id) ==
    IF Holds(s.pending, id) THEN s.pending[IndexOfId(s.pending, id)]
    ELSE s.queue[IndexOfId(s.queue, id)]

Replaced(s, id, x) ==
    IF Holds(s.pending, id) THEN [s EXCEPT !.pending[IndexOfId(s.pending, id)] = x]
    ELSE IF Holds(s.queue, id) THEN [s EXCEPT !.queue[IndexOfId(s.queue, id)] = x]
         ELSE s

LEMMA ItemOfType ==
    ASSUME NEW s \in SessionSnapshot, NEW id, Held(s, id)
    PROVE  ItemOf(s, id) \in QueueItemSummary /\ ItemOf(s, id).id = id
<1>1. s.pending \in Seq(QueueItemSummary) /\ s.queue \in Seq(QueueItemSummary)
  BY SnapshotLists
<1>2. CASE Holds(s.pending, id)
  <2>1. /\ IndexOfId(s.pending, id) \in DOMAIN s.pending
        /\ s.pending[IndexOfId(s.pending, id)].id = id
    BY <1>1, <1>2, IndexOfHeld
  <2>2. s.pending[IndexOfId(s.pending, id)] \in QueueItemSummary
    BY <1>1, <2>1, ElementOfSeq, LenProperties
  <2> QED BY <1>2, <2>1, <2>2 DEF ItemOf
<1>3. CASE ~Holds(s.pending, id)
  <2>0. Holds(s.queue, id)
    BY <1>3 DEF Held
  <2>1. /\ IndexOfId(s.queue, id) \in DOMAIN s.queue
        /\ s.queue[IndexOfId(s.queue, id)].id = id
    BY <1>1, <2>0, IndexOfHeld
  <2>2. s.queue[IndexOfId(s.queue, id)] \in QueueItemSummary
    BY <1>1, <2>1, ElementOfSeq, LenProperties
  <2> QED BY <1>3, <2>1, <2>2 DEF ItemOf
<1> QED BY <1>2, <1>3

LEMMA ReplacedType ==
    ASSUME NEW s \in SessionSnapshot, NEW id, NEW x,
           Held(s, id) => x \in QueueItemSummary /\ x.id = id
    PROVE  /\ Replaced(s, id, x) \in SessionSnapshot
           /\ \A i : Held(s, i) => Held(Replaced(s, id, x), i)
           /\ \A f \in SnapshotFields \ {"pending", "queue"} : Replaced(s, id, x)[f] = s[f]
<1>1. s.pending \in Seq(QueueItemSummary) /\ s.queue \in Seq(QueueItemSummary)
  BY SnapshotLists
<1>2. CASE Holds(s.pending, id)
  <2> DEFINE k == IndexOfId(s.pending, id)
             a == [s.pending EXCEPT ![k] = x]
  <2>1. k \in DOMAIN s.pending /\ s.pending[k].id = id /\ x \in QueueItemSummary /\ x.id = id
    BY <1>1, <1>2, IndexOfHeld DEF Held
  <2>2. a \in Seq(QueueItemSummary) /\ \A i : Holds(a, i) <=> Holds(s.pending, i)
    BY <1>1, <2>1, ReplacedKeeps
  <2>3. Replaced(s, id, x) = [s EXCEPT !.pending = a]
    BY <1>2 DEF Replaced, SessionSnapshot
  <2> HIDE DEF a, k
  <2> DEFINE q == [s EXCEPT !.pending = a]
  <2>4. \A f \in SnapshotFields \ {"pending", "queue"} : q[f] = s[f]
    BY DEF SessionSnapshot, SnapshotFields
  <2>5. q \in SessionSnapshot /\ q.pending = a /\ q.queue = s.queue
    BY <2>2, <1>1, WithPending
  <2>6. Replaced(s, id, x) = q
    BY <2>3
  <2> HIDE DEF q
  <2>7. \A i : Held(s, i) => Held(q, i)
    BY <2>2, <2>5 DEF Held
  <2> QED BY <2>4, <2>5, <2>6, <2>7
<1>3. CASE ~Holds(s.pending, id) /\ Holds(s.queue, id)
  <2> DEFINE k == IndexOfId(s.queue, id)
             a == [s.queue EXCEPT ![k] = x]
  <2>1. k \in DOMAIN s.queue /\ s.queue[k].id = id /\ x \in QueueItemSummary /\ x.id = id
    BY <1>1, <1>3, IndexOfHeld DEF Held
  <2>2. a \in Seq(QueueItemSummary) /\ \A i : Holds(a, i) <=> Holds(s.queue, i)
    BY <1>1, <2>1, ReplacedKeeps
  <2>3. Replaced(s, id, x) = [s EXCEPT !.queue = a]
    BY <1>3 DEF Replaced, SessionSnapshot
  <2> HIDE DEF a, k
  <2> DEFINE q == [s EXCEPT !.queue = a]
  <2>4. \A f \in SnapshotFields \ {"pending", "queue"} : q[f] = s[f]
    BY DEF SessionSnapshot, SnapshotFields
  <2>5. q \in SessionSnapshot /\ q.queue = a /\ q.pending = s.pending
    BY <2>2, <1>1, WithQueue
  <2>6. Replaced(s, id, x) = q
    BY <2>3
  <2> HIDE DEF q
  <2>7. \A i : Held(s, i) => Held(q, i)
    BY <2>2, <2>5 DEF Held
  <2> QED BY <2>4, <2>5, <2>6, <2>7
<1>4. CASE ~Holds(s.pending, id) /\ ~Holds(s.queue, id)
  BY <1>4 DEF Replaced
<1> QED BY <1>2, <1>3, <1>4

\* One event leaves a snapshot, and no item is lost but by its rejection or
\* its removal.
Follows(s, q, e) ==
    /\ q \in SessionSnapshot
    /\ \A i : Held(s, i) /\ (e.type \in {"queue.item_rejected", "queue.item_removed"} => e.itemId # i)
              => Held(q, i)

LEMMA RequestedFollows ==
    ASSUME NEW s \in SessionSnapshot, NEW e, e.item \in QueueItemSummary
    PROVE  /\ Follows(s, ItemRequested(s, e), e)
           /\ Held(ItemRequested(s, e), e.item.id)
<1> DEFINE a == Append(s.pending, e.item)
           q == [s EXCEPT !.pending = a]
<1>1. s.pending \in Seq(QueueItemSummary) /\ s.queue \in Seq(QueueItemSummary)
  BY SnapshotLists
<1>2. /\ a \in Seq(QueueItemSummary)
      /\ \A n \in DOMAIN s.pending : n \in DOMAIN a /\ a[n] = s.pending[n]
      /\ \E n \in DOMAIN a : a[n] = e.item
  BY <1>1, AppendItem
<1>3. ItemRequested(s, e) = q
  BY DEF ItemRequested
<1> HIDE DEF a
<1>4. q \in SessionSnapshot /\ q.pending = a /\ q.queue = s.queue
  BY <1>2, WithPending
<1> HIDE DEF q
<1>5. Holds(q.pending, e.item.id) /\ \A i : Held(s, i) => Held(q, i)
  BY <1>2, <1>4 DEF Held, Holds
<1> QED BY <1>3, <1>4, <1>5 DEF Follows, Held

LEMMA ApprovedFollows ==
    ASSUME NEW s \in SessionSnapshot, NEW e
    PROVE  Follows(s, ItemApproved(s, e), e)
<1>1. s.pending \in Seq(QueueItemSummary) /\ s.queue \in Seq(QueueItemSummary)
  BY SnapshotLists
<1>2. CASE Holds(s.pending, e.itemId)
  <2> DEFINE k == IndexOfId(s.pending, e.itemId)
             moved == [s.pending[k] EXCEPT !.status = "approved"]
             a == RemoveAt(s.pending, k)
             b == Append(s.queue, moved)
             q == [s EXCEPT !.pending = a, !.queue = b]
  <2>1. k \in DOMAIN s.pending /\ s.pending[k].id = e.itemId
    BY <1>1, <1>2, IndexOfHeld
  <2>2. s.pending[k] \in QueueItemSummary
    BY <1>1, <2>1, ElementOfSeq, LenProperties
  <2>3. moved \in QueueItemSummary /\ moved.id = e.itemId
    BY <2>1, <2>2 DEF QueueItemSummary
  <2>4. ItemApproved(s, e) = q
    BY <1>2 DEF ItemApproved
  <2> HIDE DEF moved
  <2>5. /\ a \in Seq(QueueItemSummary)
        /\ \A j \in DOMAIN s.pending : j # k => \E n \in DOMAIN a : a[n] = s.pending[j]
    BY <1>1, <2>1, RemoveAtKeeps
  <2>6. /\ b \in Seq(QueueItemSummary)
        /\ \A n \in DOMAIN s.queue : n \in DOMAIN b /\ b[n] = s.queue[n]
        /\ \E n \in DOMAIN b : b[n] = moved
    BY <1>1, <2>3, AppendItem
  <2> HIDE DEF a, b
  <2>7. q \in SessionSnapshot /\ q.pending = a /\ q.queue = b
    BY <2>5, <2>6 DEF SessionSnapshot
  <2> HIDE DEF q, k
  <2>8. Holds(b, e.itemId) /\ \A i : Holds(s.queue, i) => Holds(b, i)
    BY <2>6, <2>3 DEF Holds
  <2>9. \A i : Holds(s.pending, i) => i = e.itemId \/ Holds(a, i)
    BY <2>5, <2>1 DEF Holds
  <2> QED BY <2>4, <2>7, <2>8, <2>9 DEF Follows, Held
<1>3. CASE ~Holds(s.pending, e.itemId)
  <2> DEFINE x == [ItemOf(s, e.itemId) EXCEPT !.status = "approved"]
  <2>1. Held(s, e.itemId) => x \in QueueItemSummary /\ x.id = e.itemId
    BY ItemOfType DEF QueueItemSummary
  <2>2. ItemApproved(s, e) = Replaced(s, e.itemId, x)
    BY <1>3 DEF ItemApproved, UpdateItemById, Replaced, ItemOf
  <2> HIDE DEF x
  <2> QED BY <2>1, <2>2, ReplacedType DEF Follows
<1> QED BY <1>2, <1>3

LEMMA RejectedFollows ==
    ASSUME NEW s \in SessionSnapshot, NEW e, e.type = "queue.item_rejected"
    PROVE  Follows(s, ItemRejected(s, e), e)
<1>1. s.pending \in Seq(QueueItemSummary) /\ s.queue \in Seq(QueueItemSummary)
  BY SnapshotLists
<1>2. ASSUME NEW list \in Seq(QueueItemSummary)
      PROVE  /\ WithoutFirst(list, e.itemId) \in Seq(QueueItemSummary)
             /\ \A i : i # e.itemId /\ Holds(list, i) => Holds(WithoutFirst(list, e.itemId), i)
  <2> DEFINE k == IndexOfId(list, e.itemId)
             a == RemoveAt(list, k)
  <2>1. CASE Holds(list, e.itemId)
    <3>1. k \in DOMAIN list /\ list[k].id = e.itemId
      BY <2>1, IndexOfHeld
    <3>2. /\ a \in Seq(QueueItemSummary)
          /\ \A j \in DOMAIN list : j # k => \E n \in DOMAIN a : a[n] = list[j]
      BY <3>1, RemoveAtKeeps
    <3>3. WithoutFirst(list, e.itemId) = a
      BY <2>1 DEF WithoutFirst
    <3> HIDE DEF a, k
    <3>4. \A i : i # e.itemId /\ Holds(list, i) => Holds(a, i)
      BY <3>1, <3>2 DEF Holds
    <3> QED BY <3>2, <3>3, <3>4
  <2>2. CASE ~Holds(list, e.itemId)
    BY <2>2 DEF WithoutFirst
  <2> QED BY <2>1, <2>2
<1> DEFINE a == WithoutFirst(s.pending, e.itemId)
           b == WithoutFirst(s.queue, e.itemId)
<1>3. /\ a \in Seq(QueueItemSummary) /\ b \in Seq(QueueItemSummary)
      /\ \A i : i # e.itemId => /\ Holds(s.pending, i) => Holds(a, i)
                                /\ Holds(s.queue, i) => Holds(b, i)
  BY <1>1, <1>2
<1>4. ItemRejected(s, e) \in {[s EXCEPT !.pending = a], [s EXCEPT !.queue = b]}
  BY DEF ItemRejected
<1> HIDE DEF a, b
<1>5. CASE ItemRejected(s, e) = [s EXCEPT !.pending = a]
  <2> DEFINE q == [s EXCEPT !.pending = a]
  <2>1. q \in SessionSnapshot /\ q.pending = a /\ q.queue = s.queue
    BY <1>3, WithPending
  <2> HIDE DEF q
  <2> QED BY <1>3, <1>5, <2>1 DEF q, Follows, Held
<1>6. CASE ItemRejected(s, e) = [s EXCEPT !.queue = b]
  <2> DEFINE q == [s EXCEPT !.queue = b]
  <2>1. q \in SessionSnapshot /\ q.queue = b /\ q.pending = s.pending
    BY <1>3, WithQueue
  <2> HIDE DEF q
  <2> QED BY <1>3, <1>6, <2>1 DEF q, Follows, Held
<1> QED BY <1>4, <1>5, <1>6

LEMMA RemovedFollows ==
    ASSUME NEW s \in SessionSnapshot, NEW e, e.type = "queue.item_removed"
    PROVE  Follows(s, ItemRemoved(s, e), e)
<1>1. s.pending \in Seq(QueueItemSummary) /\ s.queue \in Seq(QueueItemSummary)
  BY SnapshotLists
<1>2. ASSUME NEW list \in Seq(QueueItemSummary)
      PROVE  /\ Without(list, e.itemId) \in Seq(QueueItemSummary)
             /\ \A i : i # e.itemId /\ Holds(list, i) => Holds(Without(list, e.itemId), i)
  <2> DEFINE a == Without(list, e.itemId)
  <2>1. /\ a \in Seq(QueueItemSummary)
        /\ \A j \in DOMAIN list : list[j].id # e.itemId => \E n \in DOMAIN a : a[n] = list[j]
    <3> DEFINE P == {j \in DOMAIN list : list[j].id # e.itemId}
    <3>1. a = At(list, P)
      BY DEF Without
    <3>2. \A j \in DOMAIN list : list[j].id # e.itemId => j \in P
      OBVIOUS
    <3> HIDE DEF a, P
    <3>3. /\ a \in Seq(QueueItemSummary)
          /\ \A j \in DOMAIN list : j \in P => \E n \in DOMAIN a : a[n] = list[j]
      BY <3>1, AtKeeps
    <3> QED BY <3>2, <3>3
  <2> HIDE DEF a
  <2>2. \A i : i # e.itemId /\ Holds(list, i) => Holds(a, i)
    BY <2>1 DEF Holds
  <2> QED BY <2>1, <2>2 DEF a
<1> DEFINE a == Without(s.pending, e.itemId)
           b == Without(s.queue, e.itemId)
           q == [s EXCEPT !.queue = b, !.pending = a]
<1>3. /\ a \in Seq(QueueItemSummary) /\ b \in Seq(QueueItemSummary)
      /\ \A i : i # e.itemId => /\ Holds(s.pending, i) => Holds(a, i)
                                /\ Holds(s.queue, i) => Holds(b, i)
  BY <1>1, <1>2
<1>4. ItemRemoved(s, e) = q
  BY DEF ItemRemoved
<1> HIDE DEF a, b
<1>5. q \in SessionSnapshot /\ q.pending = a /\ q.queue = b
  BY <1>3 DEF SessionSnapshot
<1> HIDE DEF q
<1> QED BY <1>3, <1>4, <1>5 DEF Follows, Held

\* Changes outside the two lists.
LEMMA OutsideLists ==
    ASSUME NEW s \in SessionSnapshot, NEW q \in SessionSnapshot, NEW e,
           q.pending = s.pending, q.queue = s.queue
    PROVE  Follows(s, q, e)
BY DEF Follows, Held

LEMMA NowPlayingUpdatedType ==
    ASSUME NEW s \in SessionSnapshot, NEW e, e.track \in Maybe(Tracks)
    PROVE  /\ NowPlayingUpdated(s, e) \in SessionSnapshot
           /\ NowPlayingUpdated(s, e).pending = s.pending
           /\ NowPlayingUpdated(s, e).queue = s.queue
<1> DEFINE kept == Min({Len(s.recentlyPlayed), RecentlyPlayedMax - 1})
           older == SubSeq(s.recentlyPlayed, 1, kept)
<1>1. s.recentlyPlayed \in Seq(Tracks) /\ s.nowPlaying \in Maybe(Tracks)
  BY DEF SessionSnapshot
<1>2. kept \in Nat /\ kept <= Len(s.recentlyPlayed)
  <2> DEFINE a == Len(s.recentlyPlayed)
             b == RecentlyPlayedMax - 1
  <2>1. a \in Nat /\ b \in Nat
    BY <1>1, RecentlyPlayedAssumption
  <2> HIDE DEF a, b
  <2>2. \E x \in {a, b} : \A y \in {a, b} : x =< y
    <3>1. CASE a <= b
      BY <2>1, <3>1
    <3>2. CASE ~(a <= b)
      BY <2>1, <3>2
    <3> QED BY <3>1, <3>2
  <2>3. Min({a, b}) \in {a, b} /\ \A y \in {a, b} : Min({a, b}) =< y
    BY <2>2 DEF Min
  <2> QED BY <2>1, <2>3 DEF a, b
<1>3. older \in Seq(Tracks)
  <2> HIDE DEF kept
  <2>1. \A i \in 1..kept : s.recentlyPlayed[i] \in Tracks
    BY <1>1, <1>2
  <2> QED BY <1>2, <2>1, SubSeqProperties
<1>4. s.nowPlaying # None => <<s.nowPlaying>> \o older \in Seq(Tracks)
  <2> HIDE DEF older
  <2>1. s.nowPlaying # None => <<s.nowPlaying>> \in Seq(Tracks)
    BY <1>1 DEF Maybe
  <2> QED BY <1>3, <2>1, ConcatProperties
<1> HIDE DEF older
<1>5. PICK h \in Seq(Tracks), n \in Maybe(SkipTally), l \in Maybe(Tracks) :
         NowPlayingUpdated(s, e) =
            [s EXCEPT !.nowPlaying = e.track, !.recentlyPlayed = h,
                      !.nowPlayingSkipVote = n, !.lyrics = l]
  <2> DEFINE h == IF s.nowPlaying # e.track /\ s.nowPlaying # None
                     /\ (s.recentlyPlayed = <<>> \/ Head(s.recentlyPlayed) # s.nowPlaying)
                  THEN <<s.nowPlaying>> \o older ELSE s.recentlyPlayed
             n == IF s.nowPlaying # e.track THEN None ELSE s.nowPlayingSkipVote
             l == IF s.nowPlaying # e.track THEN None ELSE s.lyrics
  <2>1. h \in Seq(Tracks) /\ n \in Maybe(SkipTally) /\ l \in Maybe(Tracks)
    BY <1>1, <1>4 DEF SessionSnapshot, Maybe
  <2>2. NowPlayingUpdated(s, e) =
            [s EXCEPT !.nowPlaying = e.track, !.recentlyPlayed = h,
                      !.nowPlayingSkipVote = n, !.lyrics = l]
    BY DEF NowPlayingUpdated, older, SessionSnapshot
  <2> HIDE DEF h, n, l
  <2> QED BY <2>1, <2>2
<1> QED BY <1>5 DEF SessionSnapshot

LEMMA ProviderQueueUpdatedType ==
    ASSUME NEW s \in SessionSnapshot, NEW e, e.tracks \in Seq(Tracks)
    PROVE  /\ ProviderQueueUpdated(s, e) \in SessionSnapshot
           /\ ProviderQueueUpdated(s, e).pending = s.pending
           /\ ProviderQueueUpdated(s, e).queue = s.queue
<1> DEFINE votes == [t \in Tracks |-> IF t \in ToSet(e.tracks)
                                      THEN s.providerQueueSkipVotes[t] ELSE 0]
<1>1. votes \in [Tracks -> Nat]
  BY DEF SessionSnapshot
<1>2. ProviderQueueUpdated(s, e) = [s EXCEPT !.providerQueue = e.tracks,
                                             !.providerQueueSkipVotes = votes]
  BY DEF ProviderQueueUpdated, SessionSnapshot
<1> HIDE DEF votes
<1> QED BY <1>1, <1>2 DEF SessionSnapshot

LEMMA SkipVoteUpdatedFollows ==
    ASSUME NEW s \in SessionSnapshot, NEW e, e.votes \in Nat
    PROVE  Follows(s, SkipVoteUpdated(s, e), e)
<1> DEFINE k == IndexOfId(s.queue, e.itemId)
           x == [s.queue[k] EXCEPT !.skipVotes = e.votes]
           b == [s.queue EXCEPT ![k] = x]
           q == [s EXCEPT !.queue = b]
<1>1. s.queue \in Seq(QueueItemSummary)
  BY SnapshotLists
<1>2. CASE Holds(s.queue, e.itemId)
  <2>1. k \in DOMAIN s.queue /\ s.queue[k].id = e.itemId
    BY <1>1, <1>2, IndexOfHeld
  <2>2. s.queue[k] \in QueueItemSummary
    BY <1>1, <2>1, ElementOfSeq, LenProperties
  <2>3. x \in QueueItemSummary /\ x.id = s.queue[k].id
    BY <2>2 DEF QueueItemSummary
  <2>4. SkipVoteUpdated(s, e) = q
    BY <1>2, <2>1, <2>2 DEF SkipVoteUpdated, SessionSnapshot
  <2> HIDE DEF x
  <2>5. b \in Seq(QueueItemSummary) /\ \A i : Holds(b, i) <=> Holds(s.queue, i)
    BY <1>1, <2>1, <2>3, ReplacedKeeps
  <2> HIDE DEF b, k
  <2>6. q \in SessionSnapshot /\ q.queue = b /\ q.pending = s.pending
    BY <2>5, WithQueue
  <2> HIDE DEF q
  <2> QED BY <2>4, <2>5, <2>6 DEF Follows, Held
<1>3. CASE ~Holds(s.queue, e.itemId)
  BY <1>3 DEF SkipVoteUpdated, Follows
<1> QED BY <1>2, <1>3

\* The singers of an item change.
LEMMA ClaimsFollow ==
    ASSUME NEW s \in SessionSnapshot, NEW e, e.guestId \in Guests
    PROVE  Follows(s, ClaimAdded(s, e), e) /\ Follows(s, ClaimRemoved(s, e), e)
<1> DEFINE id == e.itemId
           item == ItemOf(s, id)
           fewer == NotOf(item.karaokeClaims, e.guestId)
           more == Append(fewer, e.guestId)
           x == [item EXCEPT !.karaokeClaims = more]
           y == [item EXCEPT !.karaokeClaims = fewer]
<1>1. Held(s, id) => item \in QueueItemSummary /\ item.id = id
  BY ItemOfType
<1>2. ClaimAdded(s, e) = Replaced(s, id, x) /\ ClaimRemoved(s, e) = Replaced(s, id, y)
  <2>1. ClaimAdded(s, e) = Replaced(s, id, x)
    BY DEF ClaimAdded, UpdateItemById, Replaced, ItemOf
  <2>2. ClaimRemoved(s, e) = Replaced(s, id, y)
    BY DEF ClaimRemoved, UpdateItemById, Replaced, ItemOf
  <2> QED BY <2>1, <2>2
<1> HIDE DEF item, id
<1>3. Held(s, id) => fewer \in Seq(Guests) /\ more \in Seq(Guests)
  <2> SUFFICES ASSUME Held(s, id) PROVE fewer \in Seq(Guests) /\ more \in Seq(Guests)
    OBVIOUS
  <2>1. item.karaokeClaims \in Seq(Guests)
    BY <1>1 DEF QueueItemSummary
  <2>2. fewer \in Seq(Guests)
    BY <2>1, NotOfType
  <2> HIDE DEF fewer
  <2>3. more \in Seq(Guests)
    BY <2>2, AppendProperties
  <2> QED BY <2>2, <2>3
<1> HIDE DEF fewer, more
<1>4. Held(s, id) => /\ x \in QueueItemSummary /\ x.id = id
                     /\ y \in QueueItemSummary /\ y.id = id
  BY <1>1, <1>3 DEF QueueItemSummary
<1> HIDE DEF x, y
<1>5. Follows(s, Replaced(s, id, x), e)
  BY <1>4, ReplacedType DEF Follows
<1>6. Follows(s, Replaced(s, id, y), e)
  BY <1>4, ReplacedType DEF Follows
<1> QED BY <1>2, <1>5, <1>6

LEMMA SpotlightFollows ==
    ASSUME NEW s \in SessionSnapshot, NEW e, e.itemId \in Maybe(Items), e.claims \in Seq(Guests)
    PROVE  Follows(s, SpotlightMoved(s, e), e)
<1> DEFINE id == e.itemId
           x == [ItemOf(s, id) EXCEPT !.karaokeClaims = e.claims]
           next == IF id = None THEN s ELSE Replaced(s, id, x)
           kar == [spotlightItemId |-> id,
                   paused |-> s.karaoke.spotlightItemId = id /\ s.karaoke.paused]
           q == [next EXCEPT !.karaoke = kar]
<1>1. Held(s, id) => x \in QueueItemSummary /\ x.id = id
  BY ItemOfType DEF QueueItemSummary
<1>2. SpotlightMoved(s, e) = q
  <2>1. UpdateItemById(s, id, LAMBDA z : [z EXCEPT !.karaokeClaims = e.claims])
        = Replaced(s, id, x)
    BY DEF UpdateItemById, Replaced, ItemOf
  <2> QED BY <2>1 DEF SpotlightMoved
<1> HIDE DEF x
<1>3. next \in SessionSnapshot /\ \A i : Held(s, i) => Held(next, i)
  BY <1>1, ReplacedType
<1>4. kar \in KaraokeSnapshotState
  BY DEF SessionSnapshot, KaraokeSnapshotState
<1> HIDE DEF next, kar
<1>5. q \in SessionSnapshot /\ q.pending = next.pending /\ q.queue = next.queue
  BY <1>3, <1>4 DEF SessionSnapshot
<1> HIDE DEF q
<1> QED BY <1>2, <1>3, <1>5 DEF Follows, Held

\* Every event of the protocol.
LEMMA ApplyEventFollows ==
    ASSUME NEW s \in SessionSnapshot, NEW e \in SessionEvent
    PROVE  Follows(s, ApplyEvent(s, e), e)
<1> DEFINE q == ApplyEvent(s, e)
<1>1. CASE e.type = "queue.item_requested"
  <2>1. q = ItemRequested(s, e)
    BY <1>1 DEF ApplyEvent
  <2> HIDE DEF q
  <2> QED BY <1>1, <2>1, EventFields, RequestedFollows DEF q
<1>2. CASE e.type = "queue.item_approved"
  <2>1. q = ItemApproved(s, e)
    BY <1>2 DEF ApplyEvent
  <2> HIDE DEF q
  <2> QED BY <1>2, <2>1, ApprovedFollows DEF q
<1>3. CASE e.type = "queue.item_rejected"
  <2>1. q = ItemRejected(s, e)
    BY <1>3 DEF ApplyEvent
  <2> HIDE DEF q
  <2> QED BY <1>3, <2>1, RejectedFollows DEF q
<1>4. CASE e.type = "queue.item_removed"
  <2>1. q = ItemRemoved(s, e)
    BY <1>4 DEF ApplyEvent
  <2> HIDE DEF q
  <2> QED BY <1>4, <2>1, RemovedFollows DEF q
<1>5. CASE e.type = "now_playing.updated"
  <2>1. q = NowPlayingUpdated(s, e)
    BY <1>5 DEF ApplyEvent
  <2> HIDE DEF q
  <2> QED BY <1>5, <2>1, EventFields, NowPlayingUpdatedType, OutsideLists DEF q
<1>6. CASE e.type = "now_playing_skip_vote.updated"
  <2>1. q = NowPlayingSkipVoteUpdated(s, e)
    BY <1>6 DEF ApplyEvent
  <2> HIDE DEF q
  <2>2. q \in SessionSnapshot /\ q.pending = s.pending /\ q.queue = s.queue
    BY <1>6, <2>1, EventFields DEF SessionSnapshot, NowPlayingSkipVoteUpdated, SkipTally, Maybe
  <2> QED BY <2>2, OutsideLists DEF q
<1>7. CASE e.type = "skip_vote.updated"
  <2>1. q = SkipVoteUpdated(s, e)
    BY <1>7 DEF ApplyEvent
  <2> HIDE DEF q
  <2> QED BY <1>7, <2>1, EventFields, SkipVoteUpdatedFollows DEF q
<1>8. CASE e.type = "provider_queue.updated"
  <2>1. q = ProviderQueueUpdated(s, e)
    BY <1>8 DEF ApplyEvent
  <2> HIDE DEF q
  <2> QED BY <1>8, <2>1, EventFields, ProviderQueueUpdatedType, OutsideLists DEF q
<1>9. CASE e.type = "provider_queue_skip_vote.updated"
  <2>1. q = ProviderQueueSkipVoteUpdated(s, e)
    BY <1>9 DEF ApplyEvent
  <2> HIDE DEF q
  <2>2. q \in SessionSnapshot /\ q.pending = s.pending /\ q.queue = s.queue
    BY <1>9, <2>1, EventFields DEF SessionSnapshot, ProviderQueueSkipVoteUpdated
  <2> QED BY <2>2, OutsideLists DEF q
<1>10. CASE e.type = "karaoke.claim_added"
  <2>1. q = ClaimAdded(s, e)
    BY <1>10 DEF ApplyEvent
  <2> HIDE DEF q
  <2> QED BY <1>10, <2>1, EventFields, ClaimsFollow DEF q
<1>11. CASE e.type = "karaoke.claim_removed"
  <2>1. q = ClaimRemoved(s, e)
    BY <1>11 DEF ApplyEvent
  <2> HIDE DEF q
  <2> QED BY <1>11, <2>1, EventFields, ClaimsFollow DEF q
<1>12. CASE e.type = "karaoke.spotlight"
  <2>1. q = SpotlightMoved(s, e)
    BY <1>12 DEF ApplyEvent
  <2> HIDE DEF q
  <2> QED BY <1>12, <2>1, EventFields, SpotlightFollows DEF q
<1>13. CASE e.type = "karaoke.paused"
  <2>1. q = KaraokePaused(s, e)
    BY <1>13 DEF ApplyEvent
  <2> HIDE DEF q
  <2>2. q \in SessionSnapshot /\ q.pending = s.pending /\ q.queue = s.queue
    BY <1>13, <2>1, EventFields DEF SessionSnapshot, KaraokePaused, KaraokeSnapshotState, Maybe
  <2> QED BY <2>2, OutsideLists DEF q
<1>14. CASE e.type = "karaoke.resumed"
  <2>1. q = KaraokeResumed(s, e)
    BY <1>14 DEF ApplyEvent
  <2> HIDE DEF q
  <2>2. q \in SessionSnapshot /\ q.pending = s.pending /\ q.queue = s.queue
    BY <1>14, <2>1, EventFields DEF SessionSnapshot, KaraokeResumed, KaraokeSnapshotState
  <2> QED BY <2>2, OutsideLists DEF q
<1>15. CASE e.type = "guest_slots.updated"
  <2>1. q = GuestSlotsUpdated(s, e)
    BY <1>15 DEF ApplyEvent
  <2> HIDE DEF q
  <2>2. q \in SessionSnapshot /\ q.pending = s.pending /\ q.queue = s.queue
    BY <1>15, <2>1, EventFields DEF SessionSnapshot, GuestSlotsUpdated
  <2> QED BY <2>2, OutsideLists DEF q
<1>16. CASE e.type = "provider.status_updated"
  <2>1. q = ProviderStatusUpdated(s, e)
    BY <1>16 DEF ApplyEvent
  <2> HIDE DEF q
  <2>2. q \in SessionSnapshot /\ q.pending = s.pending /\ q.queue = s.queue
    BY <1>16, <2>1, EventFields DEF SessionSnapshot, ProviderStatusUpdated
  <2> QED BY <2>2, OutsideLists DEF q
<1>17. CASE e.type = "playback.clock_sampled"
  <2>1. q = [s EXCEPT !.playbackClock = e.trackUri]
    BY <1>17 DEF ApplyEvent
  <2> HIDE DEF q
  <2>2. q \in SessionSnapshot /\ q.pending = s.pending /\ q.queue = s.queue
    BY <1>17, <2>1, EventFields DEF SessionSnapshot, Maybe
  <2> QED BY <2>2, OutsideLists DEF q
<1>18. CASE e.type = "lyrics.loaded"
  <2>1. q = [s EXCEPT !.lyrics = e.lyrics]
    BY <1>18 DEF ApplyEvent
  <2> HIDE DEF q
  <2>2. q \in SessionSnapshot /\ q.pending = s.pending /\ q.queue = s.queue
    BY <1>18, <2>1, EventFields DEF SessionSnapshot, Maybe
  <2> QED BY <2>2, OutsideLists DEF q
<1>19. CASE e.type \notin {"queue.item_requested", "queue.item_approved",
                                  "queue.item_rejected", "queue.item_removed",
                                  "now_playing.updated", "now_playing_skip_vote.updated",
                                  "skip_vote.updated", "provider_queue.updated",
                                  "provider_queue_skip_vote.updated", "karaoke.claim_added",
                                  "karaoke.claim_removed", "karaoke.spotlight",
                                  "karaoke.paused", "karaoke.resumed",
                                  "guest_slots.updated", "provider.status_updated",
                                  "playback.clock_sampled", "lyrics.loaded"}
  <2>1. q = s
    BY <1>19 DEF ApplyEvent
  <2> QED BY <2>1 DEF Follows
<1> QED BY <1>1, <1>2, <1>3, <1>4, <1>5, <1>6, <1>7, <1>8, <1>9, <1>10, <1>11, <1>12, <1>13, <1>14, <1>15, <1>16, <1>17, <1>18, <1>19

-----------------------------------------------------------------------------
(* Publishing the events of one call.                                      *)

\* What every event keeps, the events of a call keep.
LEMMA AppliedStays ==
    ASSUME NEW P, NEW s \in P, NEW E, NEW events \in Seq(E),
           \A x \in P : \A n \in DOMAIN events : ApplyEvent(x, events[n]) \in P
    PROVE  Applied(s, events) \in P
<1> DEFINE N == Len(events)
<1>1. PICK f : /\ f[0] = s
               /\ \A n \in 1..N : f[n] = ApplyEvent(f[n - 1], events[n])
               /\ Applied(s, events) = f[N]
  BY AppliedPath
<1>2. N \in Nat /\ DOMAIN events = 1..N
  OBVIOUS
<1> HIDE DEF N
<1> DEFINE S == {m \in Nat : m <= N => f[m] \in P}
<1>3. 0 \in S
  BY <1>1
<1>4. \A m \in Nat : m \in S => m + 1 \in S
  <2> SUFFICES ASSUME NEW m \in Nat, m \in S, m + 1 <= N PROVE f[m + 1] \in P
    OBVIOUS
  <2>1. m <= N /\ m + 1 \in 1..N /\ (m + 1) - 1 = m /\ m + 1 \in DOMAIN events
    BY <1>2
  <2>2. f[m + 1] = ApplyEvent(f[m], events[m + 1])
    BY <1>1, <2>1
  <2> QED BY <2>1, <2>2
<1>5. N \in S
  <2> HIDE DEF S
  <2> QED BY <1>2, <1>3, <1>4, NatSetInduction
<1> QED BY <1>1, <1>2, <1>5

LEMMA AppliedType ==
    ASSUME NEW s \in SessionSnapshot, NEW events \in Seq(SessionEvent)
    PROVE  Applied(s, events) \in SessionSnapshot
<1>1. \A n \in DOMAIN events : events[n] \in SessionEvent
  BY LenProperties, ElementOfSeq
<1>2. \A x \in SessionSnapshot : \A n \in DOMAIN events : ApplyEvent(x, events[n]) \in SessionSnapshot
  BY <1>1, ApplyEventFollows DEF Follows
<1> DEFINE P == SessionSnapshot
           E == SessionEvent
<1> HIDE DEF P, E
<1>3. Applied(s, events) \in P
  <2>1. /\ s \in P /\ events \in Seq(E)
        /\ \A x \in P : \A n \in DOMAIN events : ApplyEvent(x, events[n]) \in P
    BY <1>2 DEF P, E
  <2> QED BY <2>1, AppliedStays
<1> QED BY <1>3 DEF P

\* No event rejects or removes item i.
Spares(events, i) ==
    \A n \in DOMAIN events :
        events[n].type \in {"queue.item_rejected", "queue.item_removed"} => events[n].itemId # i

LEMMA AppliedHolds ==
    ASSUME NEW s \in SessionSnapshot, NEW events \in Seq(SessionEvent), NEW i,
           Spares(events, i), Held(s, i)
    PROVE  Held(Applied(s, events), i)
<1> DEFINE P == {x \in SessionSnapshot : Held(x, i)}
           E == SessionEvent
<1>1. \A n \in DOMAIN events : events[n] \in SessionEvent
  BY LenProperties, ElementOfSeq
<1>2. ASSUME NEW x \in P, NEW n \in DOMAIN events PROVE ApplyEvent(x, events[n]) \in P
  <2>1. Follows(x, ApplyEvent(x, events[n]), events[n])
    BY <1>1, ApplyEventFollows
  <2> QED BY <2>1 DEF Follows, Spares
<1>3. s \in P /\ events \in Seq(E)
  OBVIOUS
<1>4. \A x \in P : \A n \in DOMAIN events : ApplyEvent(x, events[n]) \in P
  BY <1>2
<1>5. Applied(s, events) \in P
  <2> HIDE DEF P, E
  <2> QED BY <1>3, <1>4, AppliedStays
<1> QED BY <1>5

\* An item that one of the events brings is there after the last of them.
LEMMA AppliedBrings ==
    ASSUME NEW s \in SessionSnapshot, NEW events \in Seq(SessionEvent), NEW i,
           Spares(events, i), NEW k \in DOMAIN events,
           events[k].type = "queue.item_requested", events[k].item.id = i
    PROVE  Held(Applied(s, events), i)
<1> DEFINE N == Len(events)
<1>1. PICK f : /\ f[0] = s
               /\ \A n \in 1..N : f[n] = ApplyEvent(f[n - 1], events[n])
               /\ Applied(s, events) = f[N]
  BY AppliedPath
<1>2. N \in Nat /\ DOMAIN events = 1..N /\ k \in 1..N
  OBVIOUS
<1>3. \A n \in 1..N : events[n] \in SessionEvent
  BY <1>2, LenProperties, ElementOfSeq
<1> HIDE DEF N
<1> DEFINE Good(m) == f[m] \in SessionSnapshot /\ (k <= m => Held(f[m], i))
           S == {m \in Nat : m <= N => Good(m)}
<1>4. 0 \in S
  BY <1>1, <1>2
<1>5. ASSUME NEW m \in Nat, m <= N, m + 1 <= N, Good(m) PROVE Good(m + 1)
  <2>1. m + 1 \in 1..N /\ (m + 1) - 1 = m /\ m + 1 \in DOMAIN events
    BY <1>2, <1>5
  <2>2. f[m + 1] = ApplyEvent(f[m], events[m + 1])
    BY <1>1, <2>1
  <2>3. Follows(f[m], f[m + 1], events[m + 1])
    BY <1>3, <1>5, <2>1, <2>2, ApplyEventFollows
  <2>4. CASE k <= m
    <3>1. Held(f[m], i)
      BY <1>5, <2>4
    <3>2. events[m + 1].type \in {"queue.item_rejected", "queue.item_removed"}
          => events[m + 1].itemId # i
      BY <2>1 DEF Spares
    <3> QED BY <2>3, <3>1, <3>2 DEF Follows
  <2>5. CASE ~(k <= m) /\ k # m + 1
    <3>1. ~(k <= m + 1)
      BY <2>5, <1>2
    <3> QED BY <2>3, <3>1 DEF Follows
  <2>6. CASE k = m + 1
    <3>1. events[k].item \in QueueItemSummary
      BY <1>3, <2>1, <2>6, EventFields
    <3>2. f[m + 1] = ItemRequested(f[m], events[k])
      BY <2>2, <2>6 DEF ApplyEvent
    <3>3. Held(f[m + 1], i)
      BY <3>1, <3>2, <1>5, RequestedFollows
    <3> QED BY <2>3, <3>3 DEF Follows
  <2> QED BY <2>4, <2>5, <2>6
<1>6. \A m \in Nat : m \in S => m + 1 \in S
  <2> SUFFICES ASSUME NEW m \in Nat, m \in S, m + 1 <= N PROVE Good(m + 1)
    OBVIOUS
  <2>1. m <= N
    BY <1>2
  <2>2. Good(m)
    BY <2>1
  <2> HIDE DEF Good
  <2> QED BY <1>5, <2>1, <2>2
<1>7. N \in S
  <2> HIDE DEF S
  <2> QED BY <1>2, <1>4, <1>6, NatSetInduction
<1> QED BY <1>1, <1>2, <1>7

-----------------------------------------------------------------------------
(* Type correctness, of what the theorems below speak of.                  *)

QueueStatus == {"pending", "approved", "queued", "playing", "played", "rejected"}

RowType == [status: QueueStatus \cup Absent, skipVotes: Nat, karaokeClaims: Seq(Guests)]

Row == [Items -> RowType]

RowEvent ==
    {e \in SessionEvent :
        e.type \in {"queue.item_requested", "queue.item_approved", "queue.item_rejected",
                    "queue.item_removed", "skip_vote.updated", "karaoke.claim_added",
                    "karaoke.claim_removed"}}

Caller == Viewers \cup {None}

Owed == [events: Seq(RowEvent), for: Caller]

Load == [for: Caller, step: {"items", "claims"}, read: Row \cup {NotRead}]

Frame == SessionEvent \cup [type: {"_snapshot"}, snapshot: SessionSnapshot]

RowOps == {"pick", "removeOwn", "approved", "rejected"}

AskType ==
    {a \in [op: RowOps \cup {"voteNow", "voteTrack", "removeRow", "none"},
            item: Maybe(Items), track: Maybe(Tracks),
            state: {"idle", "sent", "written", "ok", "failed", "already_voted"}] :
        /\ a.op \in RowOps => a.item \in Items
        /\ a.op # "none" => a.track \in Tracks}

PageFields == {"nowPlaying", "recentlyPlayed", "providerQueue", "added", "nowPlayingSkipVote",
               "providerSkipVotes", "votedNowPlayingUris", "votedProviderUris",
               "removedUris", "queue", "activeGuestCount", "sample", "lyricsByUri"}

\* Only a guest's page adds tracks of its own.
PageOK(k, p) ==
    /\ DOMAIN p = PageFields
    /\ p.providerQueue \in Seq(Tracks)
    /\ p.added \in Nat /\ p.added <= Len(p.providerQueue)
    /\ k # "guest" => p.added = 0

TypeOK ==
    /\ moderated \in BOOLEAN /\ rows \in Row /\ reopened \subseteq Items
    /\ stranded \subseteq Items /\ claiming \subseteq Items \X Guests
    /\ owed \in Seq(Owed)
    /\ room \in SessionSnapshot \cup {None}
    /\ hydrated \in BOOLEAN
    /\ loads \in Seq(Load)
    /\ \A k \in DOMAIN loads : loads[k].step = "claims" => loads[k].read \in Row
    /\ subs \in SUBSET Viewers
    /\ kind \in [Viewers -> {"guest", "host", "tv"}]
    /\ conn \in [Viewers -> Connection]
    /\ wire \in [Viewers -> Seq(Frame)]
    /\ DOMAIN page = Viewers /\ \A v \in Viewers : PageOK(kind[v], page[v])
    /\ ask \in [Viewers -> AskType]
    /\ \A v \in Viewers : ask[v].op = "pick" => kind[v] = "guest"
    /\ others \subseteq OtherEvent

LEMMA NoneIsNoSnapshot == None \notin SessionSnapshot
BY RoomAssumption

LEMMA NotOfRow ==
    ASSUME NEW row \in RowType, NEW g \in Guests
    PROVE  /\ [row EXCEPT !.karaokeClaims = NotOf(@, g)] \in RowType
           /\ [row EXCEPT !.karaokeClaims = Append(@, g)] \in RowType
<1>1. row.karaokeClaims \in Seq(Guests)
  BY DEF RowType
<1>2. NotOf(row.karaokeClaims, g) \in Seq(Guests)
  BY <1>1, NotOfType
<1>3. Append(row.karaokeClaims, g) \in Seq(Guests)
  BY <1>1, AppendProperties
<1> QED BY <1>2, <1>3 DEF RowType

LEMMA SummaryType ==
    ASSUME NEW i \in Items, NEW row \in RowType, row.status \in QueueStatus
    PROVE  Summary(i, row) \in QueueItemSummary
BY DEF Summary, RowType, QueueItemSummary, QueueStatus

LEMMA ItemEventType ==
    ASSUME NEW i \in Items, NEW verdict \in {"approved", "rejected", "removed"}
    PROVE  <<ItemEvent(verdict, i)>> \in Seq(RowEvent)
<1>1. ItemEvent("approved", i) \in RowEvent
  BY DEF ItemEvent, RowEvent, SessionEvent
<1>2. ItemEvent("rejected", i) \in RowEvent
  BY DEF ItemEvent, RowEvent, SessionEvent
<1>3. ItemEvent("removed", i) \in RowEvent
  BY DEF ItemEvent, RowEvent, SessionEvent
<1>4. ItemEvent(verdict, i) \in RowEvent
  BY <1>1, <1>2, <1>3
<1> HIDE DEF RowEvent
<1> DEFINE e == ItemEvent(verdict, i)
<1> HIDE DEF e
<1>5. e \in RowEvent
  BY <1>4 DEF e
<1>6. <<e>> \in Seq(RowEvent)
  BY <1>5
<1> QED BY <1>6 DEF e

\* A row as it is inserted.
LEMMA CreatedType ==
    ASSUME TypeOK, NEW singers \in {<<>>} \cup {<<g>> : g \in Guests}
    PROVE  /\ Created(singers) \in RowType /\ Created(singers).status \in QueueStatus
           /\ Created(singers).status \in OpenRow
<1>1. singers \in Seq(Guests)
  <2>1. <<>> \in Seq(Guests)
    BY EmptySeq
  <2>2. \A g \in Guests : <<g>> \in Seq(Guests)
    OBVIOUS
  <2> QED BY <2>1, <2>2
<1> QED BY <1>1 DEF Created, RowType, NoRow, QueueStatus, OpenRow, OpenStatuses

\* The announcements of a request: the item, its singer, its approval.
LEMMA RequestedEvents ==
    ASSUME TypeOK, NEW i \in Items, NEW singers \in {<<>>} \cup {<<g>> : g \in Guests}
    PROVE  LET events == Requested(i, singers)
           IN  /\ events \in Seq(RowEvent)
               /\ 1 \in DOMAIN events
               /\ events[1].type = "queue.item_requested" /\ events[1].item.id = i
               /\ \A n \in DOMAIN events :
                     events[n].type \notin {"queue.item_rejected", "queue.item_removed"}
<1> DEFINE row == Created(singers)
           requested == [type |-> "queue.item_requested", item |-> Summary(i, row)]
           claimed == [n \in DOMAIN singers |->
                          [type |-> "karaoke.claim_added", itemId |-> i, guestId |-> singers[n]]]
           tail == IF moderated THEN <<>> ELSE <<ItemEvent("approved", i)>>
           E == {e \in RowEvent : e.type \notin {"queue.item_rejected", "queue.item_removed"}}
           events == <<requested>> \o claimed \o tail
<1>0. row \in RowType /\ row.status \in QueueStatus
  BY CreatedType
<1>1. requested \in E
  <2>1. Summary(i, row) \in QueueItemSummary
    BY <1>0, SummaryType
  <2> QED BY <2>1 DEF RowEvent, SessionEvent
<1>2. claimed \in Seq(E)
  <2>1. CASE singers = <<>>
    <3>1. claimed = <<>>
      BY <2>1
    <3> QED BY <3>1
  <2>2. CASE singers # <<>>
    <3>1. PICK g \in Guests : singers = <<g>>
      BY <2>2
    <3> DEFINE e == [type |-> "karaoke.claim_added", itemId |-> i, guestId |-> g]
    <3>2. e \in E
      BY DEF RowEvent, SessionEvent
    <3>3. claimed = <<e>>
      BY <3>1
    <3> HIDE DEF e, E, claimed
    <3> QED BY <3>2, <3>3
  <2> QED BY <2>1, <2>2
<1>3. tail \in Seq(E)
  <2> DEFINE e == ItemEvent("approved", i)
  <2>1. e \in E
    BY DEF ItemEvent, RowEvent, SessionEvent
  <2>2. tail = <<>> \/ tail = <<e>>
    OBVIOUS
  <2> HIDE DEF E, e
  <2>3. <<>> \in Seq(E)
    BY EmptySeq
  <2>4. <<e>> \in Seq(E)
    BY <2>1
  <2> QED BY <2>2, <2>3, <2>4
<1>12. requested.type = "queue.item_requested" /\ requested.item.id = i
  BY DEF Summary
<1>13. Requested(i, singers) = events
  BY DEF Requested
<1> HIDE DEF requested, claimed, tail, E
<1>4. <<requested>> \in Seq(E) /\ Len(<<requested>>) = 1 /\ <<requested>>[1] = requested
  BY <1>1
<1>5. /\ <<requested>> \o claimed \in Seq(E) /\ Len(<<requested>> \o claimed) = 1 + Len(claimed)
      /\ (<<requested>> \o claimed)[1] = requested /\ Len(claimed) \in Nat
  BY <1>2, <1>4, ConcatProperties
<1> DEFINE first == <<requested>> \o claimed
<1> HIDE DEF first
<1>6. /\ events \in Seq(E) /\ Len(events) = Len(first) + Len(tail) /\ Len(tail) \in Nat
      /\ events[1] = first[1]
  BY <1>3, <1>5, ConcatProperties DEF first
<1> HIDE DEF events
<1>7. DOMAIN events = 1..Len(events) /\ 1 \in DOMAIN events
  BY <1>5, <1>6 DEF first
<1>8. \A n \in DOMAIN events : events[n] \in E
  BY <1>6, <1>7
<1>9. events \in Seq(RowEvent)
  BY <1>6, <1>7, <1>8 DEF E
<1>10. \A n \in DOMAIN events :
          events[n].type \notin {"queue.item_rejected", "queue.item_removed"}
  BY <1>8 DEF E
<1>11. events[1] = requested
  BY <1>5, <1>6 DEF first
<1> QED BY <1>7, <1>9, <1>10, <1>11, <1>12, <1>13

\* A service's call: any write of the store.
StoreStep ==
    /\ rows' \in Row /\ owed' \in Seq(Owed) /\ moderated' \in BOOLEAN
    /\ reopened' \subseteq Items /\ stranded' \subseteq Items
    /\ claiming' \subseteq Items \X Guests

\* A service's write and what it owes.
LEMMA WriteType ==
    ASSUME TypeOK, NEW i \in Items, NEW row \in RowType, NEW events \in Seq(RowEvent),
           NEW for \in Caller, Write(i, row, events, for)
    PROVE  /\ rows' \in Row /\ owed' \in Seq(Owed) /\ moderated' \in BOOLEAN
           /\ UNCHANGED <<stranded, claiming>>
<1>1. rows' \in Row
  BY DEF TypeOK, Write, Row
<1> DEFINE o == [events |-> events, for |-> for]
<1>2. o \in Owed
  BY DEF Owed
<1>3. owed \in Seq(Owed) /\ owed' = Append(owed, o)
  BY DEF TypeOK, Write
<1> HIDE DEF o
<1>4. owed' \in Seq(Owed)
  BY <1>2, <1>3, AppendProperties
<1> QED BY <1>1, <1>4 DEF TypeOK, Write

\* The writes of the services.
LEMMA RequestType ==
    ASSUME TypeOK, NEW i \in Items, NEW for \in Caller, Request(i, for)
    PROVE  /\ rows' \in Row /\ owed' \in Seq(Owed) /\ moderated' \in BOOLEAN
           /\ reopened' \subseteq Items /\ UNCHANGED <<stranded, claiming>>
<1>1. Created(<<>>) \in RowType
  BY CreatedType
<1>2. Requested(i, <<>>) \in Seq(RowEvent)
  BY RequestedEvents
<1>3. Write(i, Created(<<>>), Requested(i, <<>>), for) /\ reopened' = reopened
  BY DEF Request
<1>4. rows' \in Row /\ owed' \in Seq(Owed) /\ moderated' \in BOOLEAN
      /\ UNCHANGED <<stranded, claiming>>
  BY <1>1, <1>2, <1>3, WriteType
<1> QED BY <1>3, <1>4 DEF TypeOK

\* The two writes of a request with a claim, and the failure between them.
LEMMA InsertItemType ==
    ASSUME TypeOK, NEW i \in Items, NEW g \in Guests, InsertItem(i, g)
    PROVE  StoreStep
<1>1. Created(<<>>) \in RowType
  BY CreatedType
<1>2. /\ rows' = [rows EXCEPT ![i] = Created(<<>>)] /\ claiming' = claiming \cup {<<i, g>>}
      /\ UNCHANGED <<moderated, reopened, stranded, owed>>
  BY DEF InsertItem
<1>3. rows' \in Row
  BY <1>1, <1>2 DEF TypeOK, Row
<1> QED BY <1>2, <1>3 DEF TypeOK, StoreStep

LEMMA InsertClaimType ==
    ASSUME TypeOK, NEW i \in Items, NEW g \in Guests, InsertClaim(i, g)
    PROVE  StoreStep
<1> DEFINE row == [rows[i] EXCEPT !.karaokeClaims = Append(@, g)]
           o == [events |-> Requested(i, <<g>>), for |-> None]
<1>1. rows[i] \in RowType
  BY DEF TypeOK, Row
<1>2. row \in RowType
  BY <1>1, NotOfRow
<1>3. /\ rows' = [rows EXCEPT ![i] = row] /\ claiming' = claiming \ {<<i, g>>}
      /\ owed' = Append(owed, o) /\ UNCHANGED <<moderated, reopened, stranded>>
  BY DEF InsertClaim
<1> HIDE DEF row
<1>4. rows' \in Row
  BY <1>2, <1>3 DEF TypeOK, Row
<1>5. o \in Owed
  BY RequestedEvents DEF Owed, Caller
<1> HIDE DEF o
<1>6. owed' \in Seq(Owed)
  BY <1>3, <1>5, AppendProperties DEF TypeOK
<1> QED BY <1>3, <1>4, <1>6 DEF TypeOK, StoreStep

LEMMA ClaimingType ==
    ASSUME TypeOK, Claiming
    PROVE  TypeOK'
<1>1. PICK i \in Items, g \in Guests : InsertClaim(i, g) \/ ClaimFails(i, g)
  BY DEF Claiming
<1>2. UNCHANGED <<server, poller, browser, others>>
  BY <1>1 DEF Claiming, InsertClaim, ClaimFails, Spend, bounds
<1>3. StoreStep
  <2>1. CASE ClaimFails(i, g)
    BY <2>1 DEF ClaimFails, TypeOK, StoreStep
  <2> QED BY <1>1, <2>1, InsertClaimType
<1> QED BY <1>2, <1>3 DEF StoreStep, TypeOK, server, poller, browser, fetches

LEMMA DecideType ==
    ASSUME TypeOK, NEW i \in Items, NEW d \in {"approved", "rejected"}, NEW for \in Caller,
           Decide(i, d, for)
    PROVE  /\ rows' \in Row /\ owed' \in Seq(Owed) /\ moderated' \in BOOLEAN
           /\ reopened' \subseteq Items /\ UNCHANGED <<stranded, claiming>>
<1> DEFINE row == [rows[i] EXCEPT !.status = d]
           events == <<ItemEvent(d, i)>>
<1>0. rows[i] \in RowType
  BY DEF TypeOK, Row
<1>1. row \in RowType
  BY <1>0 DEF RowType, QueueStatus
<1>2. events \in Seq(RowEvent)
  BY ItemEventType
<1>3. Write(i, row, events, for)
  BY DEF Decide
<1> HIDE DEF row, events
<1>4. rows' \in Row /\ owed' \in Seq(Owed) /\ moderated' \in BOOLEAN
      /\ UNCHANGED <<stranded, claiming>>
  BY <1>1, <1>2, <1>3, WriteType
<1>5. reopened' \subseteq Items
  BY DEF Decide, TypeOK
<1> QED BY <1>4, <1>5

LEMMA DeleteRowType ==
    ASSUME TypeOK, NEW i \in Items, NEW for \in Caller, DeleteRow(i, for)
    PROVE  /\ rows' \in Row /\ owed' \in Seq(Owed) /\ moderated' \in BOOLEAN
           /\ reopened' \subseteq Items /\ UNCHANGED <<stranded, claiming>>
<1> DEFINE row == [NoRow EXCEPT !.status = "removed"]
           events == <<ItemEvent("removed", i)>>
<1>1. row \in RowType
  BY EmptySeq DEF NoRow, RowType, Absent
<1>2. events \in Seq(RowEvent)
  BY ItemEventType
<1>3. Write(i, row, events, for) /\ reopened' = reopened
  BY DEF DeleteRow
<1> HIDE DEF row, events
<1>4. rows' \in Row /\ owed' \in Seq(Owed) /\ moderated' \in BOOLEAN
      /\ UNCHANGED <<stranded, claiming>>
  BY <1>1, <1>2, <1>3, WriteType
<1> QED BY <1>3, <1>4 DEF TypeOK

LEMMA CastVoteType ==
    ASSUME TypeOK, NEW i \in Items, CastVote(i)
    PROVE  /\ rows' \in Row /\ owed' \in Seq(Owed) /\ moderated' \in BOOLEAN
           /\ reopened' \subseteq Items /\ UNCHANGED <<stranded, claiming>>
<1> DEFINE votes == rows[i].skipVotes + 1
           row == [rows[i] EXCEPT !.skipVotes = votes]
           e == [type |-> "skip_vote.updated", itemId |-> i, votes |-> votes]
<1>1. rows[i] \in RowType
  BY DEF TypeOK, Row
<1>2. votes \in Nat /\ row \in RowType
  BY <1>1 DEF RowType
<1>3. Write(i, row, <<e>>, None) /\ reopened' = reopened
  BY DEF CastVote
<1> HIDE DEF row, votes
<1>4. e \in RowEvent
  BY <1>2 DEF RowEvent, SessionEvent
<1> HIDE DEF e, RowEvent
<1>5. <<e>> \in Seq(RowEvent) /\ None \in Caller
  BY <1>4 DEF Caller
<1>6. rows' \in Row /\ owed' \in Seq(Owed) /\ moderated' \in BOOLEAN
      /\ UNCHANGED <<stranded, claiming>>
  BY <1>2, <1>3, <1>5, WriteType
<1> QED BY <1>3, <1>6 DEF TypeOK

LEMMA ClaimTypes ==
    ASSUME TypeOK, NEW i \in Items, NEW g \in Guests, Claim(i, g) \/ RemoveClaim(i, g)
    PROVE  /\ rows' \in Row /\ owed' \in Seq(Owed) /\ moderated' \in BOOLEAN
           /\ reopened' \subseteq Items /\ UNCHANGED <<stranded, claiming>>
<1>1. rows[i] \in RowType
  BY DEF TypeOK, Row
<1>2. PICK row \in RowType, type \in {"karaoke.claim_added", "karaoke.claim_removed"} :
         /\ Write(i, row, <<[type |-> type, itemId |-> i, guestId |-> g]>>, None)
         /\ reopened' = reopened
  <2>1. CASE Claim(i, g)
    BY <1>1, <2>1, NotOfRow DEF Claim
  <2>2. CASE RemoveClaim(i, g)
    BY <1>1, <2>2, NotOfRow DEF RemoveClaim
  <2> QED BY <2>1, <2>2
<1> DEFINE e == [type |-> type, itemId |-> i, guestId |-> g]
<1>4. e \in RowEvent
  BY DEF RowEvent, SessionEvent
<1>5. Write(i, row, <<e>>, None)
  BY <1>2
<1> HIDE DEF e, RowEvent
<1>6. <<e>> \in Seq(RowEvent) /\ None \in Caller
  BY <1>4 DEF Caller
<1>7. rows' \in Row /\ owed' \in Seq(Owed) /\ moderated' \in BOOLEAN
      /\ UNCHANGED <<stranded, claiming>>
  BY <1>5, <1>6, WriteType
<1> QED BY <1>2, <1>7 DEF TypeOK

-----------------------------------------------------------------------------
(* What the lists gain when a room is rebuilt.                             *)

LEMMA InOrderIs ==
    ASSUME NEW ids \in SUBSET Items
    PROVE  /\ InOrder(ids) \in Seq(Items)
           /\ \A n \in DOMAIN InOrder(ids) : InOrder(ids)[n] \in ids
           /\ \A i \in ids : \E n \in DOMAIN InOrder(ids) : InOrder(ids)[n] = i
<1> DEFINE N == Cardinality(Items)
           list == [i \in 1..N |-> i]
           r == InOrder(ids)
<1>1. Items = 1..N
  BY RoomAssumption
<1>2. list \in Seq(Items) /\ DOMAIN list = Items /\ \A i \in Items : list[i] = i
  <2>1. N \in Nat
    BY RoomAssumption, FS_CardinalityType
  <2> HIDE DEF N
  <2> QED BY <1>1, <2>1
<1>3. r = At(list, ids)
  BY DEF InOrder
<1> HIDE DEF list, r
<1>4. /\ r \in Seq(Items)
      /\ \A n \in DOMAIN r : \E j \in DOMAIN list : j \in ids /\ r[n] = list[j]
      /\ \A j \in DOMAIN list : j \in ids => \E n \in DOMAIN r : r[n] = list[j]
  BY <1>2, <1>3, AtKeeps
<1>5. /\ \A n \in DOMAIN r : r[n] \in ids
      /\ \A i \in ids : \E n \in DOMAIN r : r[n] = i
  BY <1>2, <1>4
<1> QED BY <1>4, <1>5 DEF r

SummaryOf(read, i) ==
    Summary(i, [read[i] EXCEPT !.karaokeClaims = rows[i].karaokeClaims])

Grown(list, read, ids) ==
    list \o [n \in DOMAIN InOrder(ids) |-> SummaryOf(read, InOrder(ids)[n])]

\* One list of the merge: it gains the items of the read with these statuses
\* that neither list held.
LEMMA MergedList ==
    ASSUME NEW list \in Seq(QueueItemSummary), NEW read \in Row, rows \in Row,
           NEW ids \in SUBSET Items, \A i \in ids : read[i].status \in QueueStatus
    PROVE  /\ Grown(list, read, ids) \in Seq(QueueItemSummary)
           /\ \A i : Holds(list, i) => Holds(Grown(list, read, ids), i)
           /\ \A i \in ids : Holds(Grown(list, read, ids), i)
<1> DEFINE q == Grown(list, read, ids)
           r == InOrder(ids)
           more == [n \in DOMAIN r |-> SummaryOf(read, r[n])]
           M == Len(r)
<1>1. /\ r \in Seq(Items) /\ \A n \in DOMAIN r : r[n] \in ids
      /\ \A i \in ids : \E n \in DOMAIN r : r[n] = i
  BY InOrderIs
<1> HIDE DEF r
<1>2. M \in Nat /\ DOMAIN r = 1..M
  BY <1>1
<1>3. \A i \in ids : SummaryOf(read, i) \in QueueItemSummary /\ SummaryOf(read, i).id = i
  <2> SUFFICES ASSUME NEW i \in ids
               PROVE  SummaryOf(read, i) \in QueueItemSummary /\ SummaryOf(read, i).id = i
    OBVIOUS
  <2> DEFINE row == [read[i] EXCEPT !.karaokeClaims = rows[i].karaokeClaims]
  <2>1. row \in RowType /\ row.status \in QueueStatus
    BY DEF Row, RowType
  <2>2. SummaryOf(read, i) = Summary(i, row)
    BY DEF SummaryOf
  <2> HIDE DEF row
  <2>3. Summary(i, row) \in QueueItemSummary
    BY <2>1, SummaryType
  <2>4. Summary(i, row).id = i
    BY DEF Summary
  <2> QED BY <2>2, <2>3, <2>4
<1> HIDE DEF M
<1>4. more \in Seq(QueueItemSummary) /\ Len(more) = M /\ DOMAIN more = 1..M
  <2>1. \A n \in 1..M : SummaryOf(read, r[n]) \in QueueItemSummary
    BY <1>1, <1>2, <1>3
  <2>2. more = [n \in 1..M |-> SummaryOf(read, r[n])]
    BY <1>2
  <2> DEFINE E == QueueItemSummary
  <2>3. \A n \in 1..M : SummaryOf(read, r[n]) \in E
    BY <2>1
  <2> HIDE DEF E, more
  <2>4. more \in Seq(E) /\ Len(more) = M /\ DOMAIN more = 1..M
    BY <1>2, <2>2, <2>3
  <2> QED BY <2>4 DEF E
<1>5. \A n \in 1..M : more[n] = SummaryOf(read, r[n])
  BY <1>2
<1> HIDE DEF more
<1> DEFINE L == Len(list)
<1>6. L \in Nat /\ DOMAIN list = 1..L
  OBVIOUS
<1>7. /\ q \in Seq(QueueItemSummary) /\ Len(q) = L + M
      /\ \A n \in 1..(L + M) : q[n] = IF n <= L THEN list[n] ELSE more[n - L]
  <2> DEFINE E == QueueItemSummary
  <2>1. q = list \o more /\ list \in Seq(E) /\ more \in Seq(E)
    BY <1>4 DEF more, r, Grown
  <2> HIDE DEF E, q, L
  <2>2. /\ q \in Seq(E) /\ Len(q) = Len(list) + Len(more)
        /\ \A n \in 1..(Len(list) + Len(more)) :
              q[n] = IF n <= Len(list) THEN list[n] ELSE more[n - Len(list)]
    BY <2>1, ConcatProperties
  <2>3. Len(list) = L /\ Len(more) = M
    BY <1>4 DEF L
  <2> QED BY <2>2, <2>3 DEF E
<1> HIDE DEF L, q
<1>8. DOMAIN q = 1..(L + M)
  BY <1>7
<1>9. ASSUME NEW i, Holds(list, i) PROVE Holds(q, i)
  <2>1. PICK n \in DOMAIN list : list[n].id = i
    BY <1>9 DEF Holds
  <2>2. n \in DOMAIN q /\ q[n].id = i
    BY <2>1, <1>2, <1>6, <1>7, <1>8
  <2> QED BY <2>2 DEF Holds
<1>10. ASSUME NEW i \in ids PROVE Holds(q, i)
  <2>1. PICK n \in 1..M : r[n] = i
    BY <1>1, <1>2
  <2>2. more[n].id = i
    BY <2>1, <1>3, <1>5
  <2>3. L + n \in 1..(L + M) /\ ~(L + n <= L) /\ (L + n) - L = n
    BY <2>1, <1>2, <1>6
  <2>4. q[L + n] = more[n]
    BY <2>3, <1>7
  <2> QED BY <2>2, <2>3, <2>4, <1>8 DEF Holds
<1> QED BY <1>7, <1>9, <1>10 DEF q

\* The merge changes the two lists only, loses nothing, and takes in every
\* row of the read that waits or plays.
LEMMA MergeKeeps ==
    ASSUME NEW s \in SessionSnapshot, NEW read \in Row, rows \in Row
    PROVE  /\ MergeInto(s, read) \in SessionSnapshot
           /\ \A f \in SnapshotFields \ {"pending", "queue"} : MergeInto(s, read)[f] = s[f]
           /\ \A i : Held(s, i) => Held(MergeInto(s, read), i)
           /\ \A i \in Items : read[i].status \in OpenRow => Held(MergeInto(s, read), i)
<1> DEFINE fresh(statuses) == {i \in DOMAIN read : read[i].status \in statuses
                                 /\ ~Holds(s.pending, i) /\ ~Holds(s.queue, i)}
           A == fresh({"pending"})
           B == fresh(ShownStatuses)
           a == Grown(s.pending, read, A)
           b == Grown(s.queue, read, B)
           q == [s EXCEPT !.pending = a, !.queue = b]
<1>1. s.pending \in Seq(QueueItemSummary) /\ s.queue \in Seq(QueueItemSummary)
  BY SnapshotLists
<1>2. MergeInto(s, read) = q
  BY DEF MergeInto, SummaryOf, Grown, SessionSnapshot
<1>3. DOMAIN read = Items
  BY DEF Row
<1>4. /\ A \in SUBSET Items /\ \A i \in A : read[i].status \in QueueStatus
      /\ B \in SUBSET Items /\ \A i \in B : read[i].status \in QueueStatus
  BY <1>3 DEF QueueStatus, ShownStatuses
<1>5. \A i \in Items : read[i].status \in OpenRow => i \in A \/ i \in B \/ Held(s, i)
  BY <1>3 DEF OpenRow, OpenStatuses, ShownStatuses, Held
<1> HIDE DEF A, B
<1>6. /\ a \in Seq(QueueItemSummary)
      /\ \A i : Holds(s.pending, i) => Holds(a, i)
      /\ \A i \in A : Holds(a, i)
  BY <1>1, <1>4, MergedList
<1>7. /\ b \in Seq(QueueItemSummary)
      /\ \A i : Holds(s.queue, i) => Holds(b, i)
      /\ \A i \in B : Holds(b, i)
  BY <1>1, <1>4, MergedList
<1> HIDE DEF a, b
<1>8. q \in SessionSnapshot /\ q.pending = a /\ q.queue = b
  BY <1>6, <1>7 DEF SessionSnapshot
<1>9. \A f \in SnapshotFields \ {"pending", "queue"} : q[f] = s[f]
  BY DEF SessionSnapshot, SnapshotFields
<1> HIDE DEF q
<1>10. \A i : Held(s, i) => Held(q, i)
  BY <1>6, <1>7, <1>8 DEF Held
<1>11. \A i \in Items : read[i].status \in OpenRow => Held(q, i)
  BY <1>5, <1>6, <1>7, <1>8, <1>10 DEF Held
<1> QED BY <1>2, <1>8, <1>9, <1>10, <1>11

-----------------------------------------------------------------------------
(* What a frame does to a page.                                            *)

\* The engine changes its own two fields, and takes a document from the
\* event that brings one.
LEMMA EngineOnEvent ==
    ASSUME NEW p, DOMAIN p = PageFields, NEW e
    PROVE  /\ DOMAIN EngineEvent(p, e) = PageFields
           /\ \A f \in PageFields \ {"sample", "lyricsByUri"} : EngineEvent(p, e)[f] = p[f]
           /\ \/ EngineEvent(p, e).lyricsByUri \in {None, p.lyricsByUri}
              \/ /\ e.type = "lyrics.loaded"
                 /\ EngineEvent(p, e).lyricsByUri = [uri |-> e.trackUri, doc |-> e.lyrics]
<1>1. CASE e.type = "playback.clock_sampled"
  <2>1. EngineEvent(p, e) = EngineClock(p, e)
    BY <1>1 DEF EngineEvent
  <2> QED BY <2>1 DEF EngineClock, PageFields
<1>2. CASE e.type = "lyrics.loaded"
  <2>1. EngineEvent(p, e) = EngineLyrics(p, e)
    BY <1>2 DEF EngineEvent
  <2> QED BY <1>2, <2>1 DEF EngineLyrics, PageFields
<1>3. CASE e.type = "now_playing.updated" /\ e.track = None
  <2>1. EngineEvent(p, e) = [p EXCEPT !.sample = None, !.lyricsByUri = None]
    BY <1>3 DEF EngineEvent
  <2> QED BY <2>1 DEF PageFields
<1>4. CASE /\ e.type \notin {"playback.clock_sampled", "lyrics.loaded"}
           /\ ~(e.type = "now_playing.updated" /\ e.track = None)
  <2>1. EngineEvent(p, e) = p
    BY <1>4 DEF EngineEvent
  <2> QED BY <2>1
<1> QED BY <1>1, <1>2, <1>3, <1>4

\* Every kind of page, every event: the fields the room has too.
Mirrored(k, p, q, e) ==
    /\ DOMAIN q = PageFields
    /\ q.nowPlaying = IF e.type = "now_playing.updated" THEN e.track ELSE p.nowPlaying
    /\ q.providerQueue = IF e.type = "provider_queue.updated" THEN e.tracks ELSE p.providerQueue
    /\ q.added = IF k = "guest" /\ e.type = "provider_queue.updated" THEN 0 ELSE p.added
    /\ k = "guest" => q.nowPlayingSkipVote =
          CASE e.type = "now_playing.updated" ->
                 IF p.nowPlaying # e.track THEN None ELSE p.nowPlayingSkipVote
            [] e.type = "now_playing_skip_vote.updated" ->
                 [trackUri |-> e.trackUri, count |-> e.count]
            [] OTHER -> p.nowPlayingSkipVote
    /\ k = "tv" => q.activeGuestCount =
          IF e.type = "guest_slots.updated" THEN e.activeCount ELSE p.activeGuestCount

\* How a page may come by a document.
Documents(p, q, f) ==
    \/ q.lyricsByUri \in {None, p.lyricsByUri}
    \/ f.type = "lyrics.loaded" /\ q.lyricsByUri = [uri |-> f.trackUri, doc |-> f.lyrics]
    \/ /\ f.type = "_snapshot" /\ f.snapshot.nowPlaying # None
       /\ q.lyricsByUri = [uri |-> f.snapshot.nowPlaying, doc |-> f.snapshot.lyrics]

LEMMA GuestOnEvent ==
    ASSUME NEW p, DOMAIN p = PageFields, NEW e
    PROVE  /\ Mirrored("guest", p, OnEvent("guest", p, e), e)
           /\ Documents(p, OnEvent("guest", p, e), e)
<1> DEFINE m == EngineEvent(p, e)
           q == GuestEvent(m, e)
<1>1. /\ DOMAIN m = PageFields
      /\ \A f \in PageFields \ {"sample", "lyricsByUri"} : m[f] = p[f]
      /\ Documents(p, m, e)
  BY EngineOnEvent DEF Documents
<1>2. OnEvent("guest", p, e) = q
  BY DEF OnEvent
<1> HIDE DEF m
<1>3. /\ m.nowPlaying = p.nowPlaying /\ m.providerQueue = p.providerQueue
      /\ m.added = p.added /\ m.nowPlayingSkipVote = p.nowPlayingSkipVote
  BY <1>1 DEF PageFields
<1>4. Mirrored("guest", m, q, e) /\ q.lyricsByUri = m.lyricsByUri
  <2>1. CASE e.type = "now_playing.updated"
    <3>1. q = GuestNowPlaying(m, e)
      BY <2>1 DEF GuestEvent
    <3> QED BY <1>1, <2>1, <3>1 DEF GuestNowPlaying, Mirrored, PageFields
  <2>2. CASE e.type = "now_playing_skip_vote.updated"
    <3>1. q = [m EXCEPT !.nowPlayingSkipVote = [trackUri |-> e.trackUri, count |-> e.count]]
      BY <2>2 DEF GuestEvent
    <3> QED BY <1>1, <2>2, <3>1 DEF Mirrored, PageFields
  <2>3. CASE e.type = "provider_queue.updated"
    <3>1. q = GuestProviderQueue(m, e)
      BY <2>3 DEF GuestEvent
    <3> QED BY <1>1, <2>3, <3>1 DEF GuestProviderQueue, Mirrored, PageFields
  <2>4. CASE e.type = "provider_queue_skip_vote.updated"
    <3>1. q = [m EXCEPT !.providerSkipVotes[e.trackUri] = e.count]
      BY <2>4 DEF GuestEvent
    <3> QED BY <1>1, <2>4, <3>1 DEF Mirrored, PageFields
  <2>5. CASE e.type \notin {"now_playing.updated", "now_playing_skip_vote.updated",
                            "provider_queue.updated", "provider_queue_skip_vote.updated"}
    <3>1. q = m
      BY <2>5 DEF GuestEvent
    <3> QED BY <1>1, <2>5, <3>1 DEF Mirrored
  <2> QED BY <2>1, <2>2, <2>3, <2>4, <2>5
<1> HIDE DEF q
<1>5. Mirrored("guest", p, q, e)
  BY <1>3, <1>4 DEF Mirrored
<1>6. Documents(p, q, e)
  BY <1>1, <1>4 DEF Documents
<1> QED BY <1>2, <1>5, <1>6

LEMMA HostOnEvent ==
    ASSUME NEW p, DOMAIN p = PageFields, NEW e
    PROVE  /\ Mirrored("host", p, OnEvent("host", p, e), e)
           /\ Documents(p, OnEvent("host", p, e), e)
<1> DEFINE q == HostEvent(p, e)
<1>1. OnEvent("host", p, e) = q
  BY DEF OnEvent
<1>2. Mirrored("host", p, q, e) /\ q.lyricsByUri = p.lyricsByUri
  <2>1. CASE e.type = "now_playing.updated"
    <3>1. q = [p EXCEPT !.nowPlaying = e.track]
      BY <2>1 DEF HostEvent
    <3> QED BY <2>1, <3>1 DEF Mirrored, PageFields
  <2>2. CASE e.type = "provider_queue.updated"
    <3>1. q = HostProviderQueue(p, e)
      BY <2>2 DEF HostEvent
    <3> QED BY <2>2, <3>1 DEF HostProviderQueue, Mirrored, PageFields
  <2>3. CASE e.type \notin {"now_playing.updated", "provider_queue.updated"}
    <3>1. q = p
      BY <2>3 DEF HostEvent
    <3> QED BY <2>3, <3>1 DEF Mirrored
  <2> QED BY <2>1, <2>2, <2>3
<1> HIDE DEF q
<1> QED BY <1>1, <1>2 DEF Documents

LEMMA TvOnEvent ==
    ASSUME NEW p, DOMAIN p = PageFields, NEW e
    PROVE  /\ Mirrored("tv", p, OnEvent("tv", p, e), e)
           /\ Documents(p, OnEvent("tv", p, e), e)
<1> DEFINE m == EngineEvent(p, e)
           q == TvEvent(m, e)
<1>1. /\ DOMAIN m = PageFields
      /\ \A f \in PageFields \ {"sample", "lyricsByUri"} : m[f] = p[f]
      /\ Documents(p, m, e)
  BY EngineOnEvent DEF Documents
<1>2. OnEvent("tv", p, e) = q
  BY DEF OnEvent
<1> HIDE DEF m
<1>3. /\ m.nowPlaying = p.nowPlaying /\ m.providerQueue = p.providerQueue
      /\ m.added = p.added /\ m.activeGuestCount = p.activeGuestCount
  BY <1>1 DEF PageFields
<1>4. Mirrored("tv", m, q, e) /\ q.lyricsByUri = m.lyricsByUri
  <2>1. CASE e.type = "now_playing.updated"
    <3>1. q = [m EXCEPT !.nowPlaying = e.track]
      BY <2>1 DEF TvEvent
    <3> QED BY <1>1, <2>1, <3>1 DEF Mirrored, PageFields
  <2>2. CASE e.type = "provider_queue.updated"
    <3>1. q = [m EXCEPT !.providerQueue = e.tracks]
      BY <2>2 DEF TvEvent
    <3> QED BY <1>1, <2>2, <3>1 DEF Mirrored, PageFields
  <2>3. CASE e.type = "guest_slots.updated"
    <3>1. q = [m EXCEPT !.activeGuestCount = e.activeCount]
      BY <2>3 DEF TvEvent
    <3> QED BY <1>1, <2>3, <3>1 DEF Mirrored, PageFields
  <2>4. CASE e.type \notin {"now_playing.updated", "provider_queue.updated",
                            "guest_slots.updated"}
    <3>1. q = m
      BY <2>4 DEF TvEvent
    <3> QED BY <1>1, <2>4, <3>1 DEF Mirrored
  <2> QED BY <2>1, <2>2, <2>3, <2>4
<1> HIDE DEF q
<1>5. Mirrored("tv", p, q, e)
  BY <1>3, <1>4 DEF Mirrored
<1>6. Documents(p, q, e)
  BY <1>1, <1>4 DEF Documents
<1> QED BY <1>2, <1>5, <1>6

\* A snapshot frame: the page takes the room's part whole.
Took(k, q, s) ==
    /\ DOMAIN q = PageFields
    /\ q.nowPlaying = s.nowPlaying /\ q.providerQueue = s.providerQueue /\ q.added = 0
    /\ k = "guest" => q.nowPlayingSkipVote = s.nowPlayingSkipVote
    /\ k = "tv" => q.activeGuestCount = s.activeGuestCount

LEMMA OnSnapshotIs ==
    ASSUME NEW k \in {"guest", "host", "tv"}, NEW p, DOMAIN p = PageFields, NEW s
    PROVE  /\ Took(k, OnSnapshot(k, p, s), s)
           /\ \/ OnSnapshot(k, p, s).lyricsByUri = p.lyricsByUri
              \/ /\ s.nowPlaying # None
                 /\ OnSnapshot(k, p, s).lyricsByUri = [uri |-> s.nowPlaying, doc |-> s.lyrics]
<1>1. CASE k = "guest"
  <2>1. OnSnapshot(k, p, s) = GuestSnapshot(p, s)
    BY <1>1 DEF OnSnapshot
  <2> QED BY <1>1, <2>1 DEF GuestSnapshot, EngineSnapshot, Seeded, PageFields, Took
<1>2. CASE k = "host"
  <2>1. OnSnapshot(k, p, s) = HostSnapshot(p, s)
    BY <1>2 DEF OnSnapshot
  <2> QED BY <1>2, <2>1 DEF HostSnapshot, Seeded, PageFields, Took
<1>3. CASE k = "tv"
  <2>1. OnSnapshot(k, p, s) = TvSnapshot(p, s)
    BY <1>3 DEF OnSnapshot
  <2> QED BY <1>3, <2>1 DEF TvSnapshot, EngineSnapshot, Seeded, PageFields, Took
<1> QED BY <1>1, <1>2, <1>3

LEMMA EventOnPage ==
    ASSUME NEW k \in {"guest", "host", "tv"}, NEW p, DOMAIN p = PageFields,
           NEW e, e.type # "_snapshot"
    PROVE  /\ Mirrored(k, p, HandleMessage(k, p, e), e)
           /\ Documents(p, HandleMessage(k, p, e), e)
<1>1. HandleMessage(k, p, e) = OnEvent(k, p, e)
  BY DEF HandleMessage
<1> QED BY <1>1, GuestOnEvent, HostOnEvent, TvOnEvent

LEMMA SnapshotOnPage ==
    ASSUME NEW k \in {"guest", "host", "tv"}, NEW p, DOMAIN p = PageFields,
           NEW f, f.type = "_snapshot"
    PROVE  /\ Took(k, HandleMessage(k, p, f), f.snapshot)
           /\ Documents(p, HandleMessage(k, p, f), f)
<1>1. HandleMessage(k, p, f) = OnSnapshot(k, p, f.snapshot)
  BY DEF HandleMessage
<1> DEFINE s == f.snapshot
           q == HandleMessage(k, p, f)
<1>2. /\ Took(k, q, s)
      /\ \/ q.lyricsByUri = p.lyricsByUri
         \/ s.nowPlaying # None /\ q.lyricsByUri = [uri |-> s.nowPlaying, doc |-> s.lyrics]
  <2>1. q = OnSnapshot(k, p, s)
    BY <1>1
  <2> HIDE DEF s, q
  <2> QED BY <2>1, OnSnapshotIs
<1> QED BY <1>2 DEF Documents

LEMMA FrameIs ==
    ASSUME NEW f \in Frame
    PROVE  \/ f \in SessionEvent /\ f.type # "_snapshot"
           \/ f.type = "_snapshot" /\ f.snapshot \in SessionSnapshot
BY EventFields DEF Frame

LEMMA FrameKeepsPage ==
    ASSUME NEW k \in {"guest", "host", "tv"}, NEW p, PageOK(k, p), NEW f \in Frame
    PROVE  PageOK(k, HandleMessage(k, p, f))
<1> DEFINE q == HandleMessage(k, p, f)
<1>1. DOMAIN p = PageFields
  BY DEF PageOK
<1>2. CASE f \in SessionEvent /\ f.type # "_snapshot"
  <2>1. Mirrored(k, p, q, f)
    BY <1>1, <1>2, EventOnPage
  <2>2. f.type = "provider_queue.updated" => f.tracks \in Seq(Tracks)
    BY <1>2, EventFields
  <2> HIDE DEF q
  <2>3. CASE f.type = "provider_queue.updated"
    <3>1. /\ DOMAIN q = PageFields /\ q.providerQueue = f.tracks
          /\ q.added = IF k = "guest" THEN 0 ELSE p.added
      BY <2>1, <2>3 DEF Mirrored
    <3>2. q.added = 0 /\ q.providerQueue \in Seq(Tracks)
      BY <2>2, <2>3, <3>1 DEF PageOK
    <3>3. Len(q.providerQueue) \in Nat
      BY <3>2, LenProperties
    <3>4. q.added \in Nat /\ q.added <= Len(q.providerQueue)
      BY <3>2, <3>3
    <3>5. PageOK(k, q)
      BY <3>1, <3>2, <3>4 DEF PageOK
    <3> QED BY <3>5 DEF q
  <2>4. CASE f.type # "provider_queue.updated"
    <3>1. DOMAIN q = PageFields /\ q.providerQueue = p.providerQueue /\ q.added = p.added
      BY <2>1, <2>4 DEF Mirrored
    <3>2. PageOK(k, q)
      BY <3>1 DEF PageOK
    <3> QED BY <3>2 DEF q
  <2> QED BY <2>3, <2>4
<1>3. CASE f.type = "_snapshot" /\ f.snapshot \in SessionSnapshot
  <2>0. Took(k, q, f.snapshot)
    BY <1>1, <1>3, SnapshotOnPage
  <2>1. /\ DOMAIN q = PageFields /\ q.providerQueue = f.snapshot.providerQueue
        /\ q.added = 0
    BY <2>0 DEF Took
  <2>2. f.snapshot.providerQueue \in Seq(Tracks)
    BY <1>3 DEF SessionSnapshot
  <2> HIDE DEF q
  <2>3. Len(q.providerQueue) \in Nat
    BY <2>1, <2>2, LenProperties
  <2>4. PageOK(k, q)
    BY <2>1, <2>2, <2>3 DEF PageOK
  <2> QED BY <2>4 DEF q
<1> QED BY <1>2, <1>3, FrameIs

\* What a press or an answer leaves alone: the part that mirrors the room.
SameView(p, q) ==
    /\ DOMAIN q = PageFields
    /\ q.nowPlaying = p.nowPlaying /\ q.nowPlayingSkipVote = p.nowPlayingSkipVote
    /\ q.activeGuestCount = p.activeGuestCount /\ q.lyricsByUri = p.lyricsByUri
    /\ Confirmed(q) = Confirmed(p)

LEMMA PickedKeeps ==
    ASSUME NEW p, PageOK("guest", p), NEW i, NEW t \in Tracks, NEW m \in BOOLEAN
    PROVE  SameView(p, Picked(p, i, t, m)) /\ PageOK("guest", Picked(p, i, t, m))
<1> DEFINE st == IF m THEN "pending" ELSE "approved"
           listed == [p EXCEPT !.queue[i] = st]
           more == Append(p.providerQueue, t)
           q == [listed EXCEPT !.providerQueue = more, !.added = p.added + 1]
<1>1. /\ DOMAIN listed = PageFields
      /\ \A f \in PageFields \ {"queue"} : listed[f] = p[f]
  BY DEF PageOK, PageFields
<1>2. CASE Picked(p, i, t, m) = listed
  <2>1. listed.providerQueue = p.providerQueue /\ listed.added = p.added
    BY <1>1 DEF PageFields
  <2>2. SameView(p, listed)
    BY <1>1, <2>1 DEF SameView, Confirmed, PageFields
  <2>3. PageOK("guest", listed)
    BY <1>1, <2>1 DEF PageOK
  <2> QED BY <1>2, <2>2, <2>3
<1>3. CASE Picked(p, i, t, m) # listed
  <2>1. Picked(p, i, t, m) = q
    BY <1>1, <1>3 DEF Picked, PageFields
  <2> DEFINE L == Len(p.providerQueue)
             n == L - p.added
  <2>2. /\ p.providerQueue \in Seq(Tracks) /\ L \in Nat
        /\ p.added \in Nat /\ p.added <= L /\ DOMAIN p.providerQueue = 1..L
    BY LenProperties DEF PageOK
  <2>3. /\ more \in Seq(Tracks) /\ Len(more) = L + 1
        /\ \A j \in 1..L : more[j] = p.providerQueue[j]
    BY <2>2, AppendProperties
  <2>4. /\ DOMAIN q = PageFields /\ q.providerQueue = more /\ q.added = p.added + 1
        /\ \A f \in PageFields \ {"queue", "providerQueue", "added"} : q[f] = p[f]
    BY <1>1 DEF PageFields
  <2> HIDE DEF q, listed, more, L
  <2>5. n \in Nat /\ n <= L /\ (L + 1) - (p.added + 1) = n
    BY <2>2
  <2> HIDE DEF n
  <2>6. /\ \A j \in 1..n : p.providerQueue[j] \in Tracks
        /\ \A j \in 1..n : more[j] \in Tracks /\ more[j] = p.providerQueue[j]
    BY <2>2, <2>3, <2>5
  <2>7. SubSeq(more, 1, n) = SubSeq(p.providerQueue, 1, n)
    <3> DEFINE u == SubSeq(more, 1, n)
               w == SubSeq(p.providerQueue, 1, n)
    <3>1. /\ u \in Seq(Tracks) /\ Len(u) = IF 1 <= n THEN n - 1 + 1 ELSE 0
          /\ \A j \in 1..(n - 1 + 1) : u[j] = more[1 + j - 1]
      BY <2>5, <2>6, SubSeqProperties
    <3>2. /\ w \in Seq(Tracks) /\ Len(w) = IF 1 <= n THEN n - 1 + 1 ELSE 0
          /\ \A j \in 1..(n - 1 + 1) : w[j] = p.providerQueue[1 + j - 1]
      BY <2>5, <2>6, SubSeqProperties
    <3> HIDE DEF u, w
    <3>3. Len(u) = n /\ Len(w) = n
      BY <3>1, <3>2, <2>5
    <3>4. \A j \in 1..n : u[j] = w[j]
      <4> SUFFICES ASSUME NEW j \in 1..n PROVE u[j] = w[j]
        OBVIOUS
      <4>1. j \in 1..(n - 1 + 1) /\ 1 + j - 1 = j
        BY <2>5
      <4> QED BY <3>1, <3>2, <2>6, <4>1
    <3>5. u = w
      BY <3>1, <3>2, <3>3, <3>4, SeqEqual
    <3> QED BY <3>5 DEF u, w
  <2>8. Confirmed(q) = Confirmed(p)
    BY <2>3, <2>4, <2>5, <2>7 DEF Confirmed, n, L
  <2>9. SameView(p, q)
    BY <2>4, <2>8 DEF SameView, PageFields
  <2>10. PageOK("guest", q)
    BY <2>2, <2>3, <2>4 DEF PageOK
  <2> QED BY <2>1, <2>9, <2>10
<1> QED BY <1>2, <1>3

LEMMA PressKeeps ==
    ASSUME NEW k, NEW p, PageOK(k, p), NEW i, NEW t,
           NEW q \in {RemovedOwn(p, i), VotedNow(p, t), VotedProvider(p, t), Hidden(p, t),
                      Restored(p, t)}
    PROVE  SameView(p, q) /\ PageOK(k, q)
<1>1. PICK f \in PageFields \ {"nowPlaying", "nowPlayingSkipVote", "activeGuestCount",
                               "lyricsByUri", "providerQueue", "added"} :
         \E x : q = [p EXCEPT ![f] = x]
  <2>1. CASE q = RemovedOwn(p, i)
    <3>1. q = [p EXCEPT !["queue"] = [p.queue EXCEPT ![i] = "none"]]
      BY <2>1 DEF RemovedOwn, PageOK, PageFields
    <3> QED BY <3>1 DEF PageFields
  <2>2. CASE q = VotedNow(p, t)
    <3>1. q = [p EXCEPT !["votedNowPlayingUris"] = p.votedNowPlayingUris \cup {t}]
      BY <2>2 DEF VotedNow, PageOK, PageFields
    <3> QED BY <3>1 DEF PageFields
  <2>3. CASE q = VotedProvider(p, t)
    <3>1. q = [p EXCEPT !["votedProviderUris"] = p.votedProviderUris \cup {t}]
      BY <2>3 DEF VotedProvider, PageOK, PageFields
    <3> QED BY <3>1 DEF PageFields
  <2>4. CASE q = Hidden(p, t)
    <3>1. q = [p EXCEPT !["removedUris"] = p.removedUris \cup {t}]
      BY <2>4 DEF Hidden, PageOK, PageFields
    <3> QED BY <3>1 DEF PageFields
  <2>5. CASE q = Restored(p, t)
    <3>1. q = [p EXCEPT !["removedUris"] = p.removedUris \ {t}]
      BY <2>5 DEF Restored, PageOK, PageFields
    <3> QED BY <3>1 DEF PageFields
  <2> QED BY <2>1, <2>2, <2>3, <2>4, <2>5
<1>2. DOMAIN q = PageFields /\ \A g \in PageFields : g # f => q[g] = p[g]
  BY <1>1 DEF PageOK
<1>3. q.providerQueue = p.providerQueue /\ q.added = p.added
  BY <1>1, <1>2 DEF PageFields
<1>4. SameView(p, q)
  BY <1>1, <1>2, <1>3 DEF SameView, Confirmed, PageFields
<1>5. PageOK(k, q)
  BY <1>2, <1>3 DEF PageOK
<1> QED BY <1>4, <1>5

LEMMA AnswerKeeps ==
    ASSUME NEW k, NEW p, PageOK(k, p), NEW answer
    PROVE  /\ PageOK(k, Bootstrapped(k, p, answer))
           /\ Bootstrapped(k, p, answer).lyricsByUri = p.lyricsByUri
           /\ PageOK(k, QueueArrives(k, p, answer))
           /\ SameView(p, QueueArrives(k, p, answer))
<1>1. ASSUME NEW list
      PROVE  PageOK(k, QueueArrives(k, p, list)) /\ SameView(p, QueueArrives(k, p, list))
  <2> DEFINE x == IF k = "tv" THEN VisibleQueue(list) ELSE list
             q == [p EXCEPT !.queue = x]
  <2>1. QueueArrives(k, p, list) = q
    BY DEF QueueArrives
  <2> HIDE DEF x
  <2>2. DOMAIN q = PageFields /\ \A f \in PageFields : f # "queue" => q[f] = p[f]
    BY DEF PageOK
  <2>3. q.providerQueue = p.providerQueue /\ q.added = p.added
    BY <2>2 DEF PageFields
  <2>4. SameView(p, q) /\ PageOK(k, q)
    BY <2>2, <2>3 DEF SameView, Confirmed, PageFields, PageOK
  <2> QED BY <2>1, <2>4
<1>2. CASE k = "tv"
  <2> DEFINE q == Bootstrapped(k, p, answer)
  <2>1. q = [p EXCEPT !.queue = answer.queue, !.nowPlaying = answer.nowPlaying,
                      !.activeGuestCount = answer.activeGuestCount]
    BY <1>2 DEF Bootstrapped
  <2>2. /\ DOMAIN q = PageFields /\ q.providerQueue = p.providerQueue /\ q.added = p.added
        /\ q.lyricsByUri = p.lyricsByUri
    BY <2>1 DEF PageOK, PageFields
  <2> HIDE DEF q
  <2>3. PageOK(k, q)
    BY <2>2 DEF PageOK
  <2> QED BY <1>1, <2>2, <2>3 DEF q
<1>3. CASE k # "tv"
  <2>1. Bootstrapped(k, p, answer) = QueueArrives(k, p, answer.queue)
    BY <1>3 DEF Bootstrapped
  <2> QED BY <1>1, <2>1 DEF SameView
<1> QED BY <1>2, <1>3

-----------------------------------------------------------------------------
(* The steps, and what they do to the types.                               *)

LEMMA EventsAreFrames ==
    ASSUME NEW events \in Seq(SessionEvent)
    PROVE  events \in Seq(Frame)
<1> DEFINE A == SessionEvent
           B == Frame
<1>1. A \subseteq B
  BY DEF Frame
<1>2. events \in Seq(A)
  OBVIOUS
<1>3. events \in Seq(B)
  <2> HIDE DEF A, B
  <2> QED BY <1>1, <1>2, SeqMonotonic
<1> QED BY <1>3

LEMMA RowEventsAreEvents ==
    ASSUME NEW events \in Seq(RowEvent)
    PROVE  events \in Seq(SessionEvent)
<1> DEFINE A == RowEvent
           B == SessionEvent
<1>1. A \subseteq B
  BY DEF RowEvent
<1>2. events \in Seq(A)
  OBVIOUS
<1>3. events \in Seq(B)
  <2> HIDE DEF A, B
  <2> QED BY <1>1, <1>2, SeqMonotonic
<1> QED BY <1>3

LEMMA PublishType ==
    ASSUME TypeOK, NEW events \in Seq(SessionEvent), Publish(events)
    PROVE  /\ room' \in SessionSnapshot \cup {None}
           /\ room' = None <=> room = None
           /\ room # None => room' = Applied(room, events)
           /\ wire' \in [Viewers -> Seq(Frame)]
<1>1. CASE room = None
  BY <1>1 DEF Publish, TypeOK
<1>2. CASE room # None
  <2>1. room \in SessionSnapshot
    BY <1>2 DEF TypeOK
  <2>2. /\ room' = Applied(room, events)
        /\ wire' = [v \in Viewers |-> IF v \in subs THEN wire[v] \o events ELSE wire[v]]
    BY <1>2 DEF Publish
  <2>3. room' \in SessionSnapshot /\ room' # None
    BY <2>1, <2>2, AppliedType, NoneIsNoSnapshot
  <2>4. ASSUME NEW v \in Viewers PROVE wire[v] \o events \in Seq(Frame) /\ wire[v] \in Seq(Frame)
    <3>1. wire[v] \in Seq(Frame) /\ events \in Seq(Frame)
      BY EventsAreFrames DEF TypeOK
    <3> HIDE DEF Frame
    <3> QED BY <3>1, ConcatProperties
  <2> QED BY <1>2, <2>2, <2>3, <2>4
<1> QED BY <1>1, <1>2

LEMMA OtherEventsAre ==
    ASSUME NEW e \in OtherEvent
    PROVE  /\ e \in SessionEvent
           /\ e.type \notin {"queue.item_requested", "queue.item_approved",
                             "queue.item_rejected", "queue.item_removed",
                             "now_playing.updated", "lyrics.loaded"}
BY DEF OtherEvent

\* The events of a tick.
TickEvents(next, changed) ==
    (IF room.providerStatus = "rate_limited"
     THEN <<[type |-> "provider.status_updated", status |-> "ok"]>> ELSE <<>>)
    \o (IF changed THEN <<[type |-> "now_playing.updated", track |-> next]>> ELSE <<>>)
    \o (IF next # None
        THEN <<[type |-> "playback.clock_sampled", trackUri |-> next]>> ELSE <<>>)

TickEvent(next) ==
    {[type |-> "provider.status_updated", status |-> "ok"],
     [type |-> "now_playing.updated", track |-> next],
     [type |-> "playback.clock_sampled", trackUri |-> next]}

LEMMA TickEventsType ==
    ASSUME NEW next \in Maybe(Tracks), NEW changed \in BOOLEAN
    PROVE  /\ TickEvents(next, changed) \in Seq(TickEvent(next))
           /\ TickEvents(next, changed) \in Seq(SessionEvent)
<1> DEFINE E == TickEvent(next) \cap SessionEvent
           x == [type |-> "provider.status_updated", status |-> "ok"]
           y == [type |-> "now_playing.updated", track |-> next]
           z == [type |-> "playback.clock_sampled", trackUri |-> next]
           a == IF room.providerStatus = "rate_limited" THEN <<x>> ELSE <<>>
           b == IF changed THEN <<y>> ELSE <<>>
           c == IF next # None THEN <<z>> ELSE <<>>
<1>1. x \in E
  BY DEF TickEvent, SessionEvent
<1>2. y \in E
  BY DEF TickEvent, SessionEvent
<1>3. next # None => z \in E
  BY DEF TickEvent, SessionEvent, Maybe
<1>4. TickEvents(next, changed) = a \o b \o c
  BY DEF TickEvents
<1> HIDE DEF E, x, y, z
<1>5. <<>> \in Seq(E)
  BY EmptySeq
<1>6. a \in Seq(E) /\ b \in Seq(E) /\ c \in Seq(E)
  <2>1. <<x>> \in Seq(E)
    BY <1>1
  <2>2. <<y>> \in Seq(E)
    BY <1>2
  <2>3. next # None => <<z>> \in Seq(E)
    BY <1>3
  <2> QED BY <1>5, <2>1, <2>2, <2>3
<1> HIDE DEF a, b, c
<1>7. a \o b \in Seq(E)
  BY <1>6, ConcatProperties
<1>8. (a \o b) \o c \in Seq(E)
  BY <1>6, <1>7, ConcatProperties
<1>9. E \subseteq TickEvent(next) /\ E \subseteq SessionEvent
  BY DEF E
<1> QED BY <1>4, <1>8, <1>9, SeqMonotonic

LEMMA RowChangesType ==
    ASSUME TypeOK, RowChanges
    PROVE  TypeOK'
<1>1. None \in Caller
  BY DEF Caller
<1>2. StoreStep
  <2>1. PICK i \in Items :
          \/ Request(i, None) \/ \E g \in Guests : InsertItem(i, g)
          \/ \E d \in {"approved", "rejected"} : Decide(i, d, None)
          \/ DeleteRow(i, None)
          \/ CastVote(i)
          \/ \E g \in Guests : Claim(i, g) \/ RemoveClaim(i, g)
          \/ \E s \in {"playing", "played"} : Reconciles(i, s)
    BY DEF RowChanges
  <2>2. CASE Request(i, None) \/ \E g \in Guests : InsertItem(i, g)
    BY <1>1, <2>2, RequestType, InsertItemType DEF StoreStep, TypeOK
  <2>3. CASE \E d \in {"approved", "rejected"} : Decide(i, d, None)
    BY <1>1, <2>3, DecideType DEF StoreStep, TypeOK
  <2>4. CASE DeleteRow(i, None)
    BY <1>1, <2>4, DeleteRowType DEF StoreStep, TypeOK
  <2>5. CASE CastVote(i)
    BY <2>5, CastVoteType DEF StoreStep, TypeOK
  <2>6. CASE \E g \in Guests : Claim(i, g) \/ RemoveClaim(i, g)
    BY <2>6, ClaimTypes DEF StoreStep, TypeOK
  <2>7. CASE \E s \in {"playing", "played"} : Reconciles(i, s)
    <3>1. PICK s \in {"playing", "played"} : Reconciles(i, s)
      BY <2>7
    <3>2. rows' = [rows EXCEPT ![i].status = s] /\ UNCHANGED <<moderated, reopened, stranded, claiming, owed>>
      BY <3>1 DEF Reconciles
    <3>3. rows' \in Row
      BY <3>2 DEF TypeOK, Row, RowType, QueueStatus
    <3> QED BY <3>2, <3>3 DEF TypeOK, StoreStep
  <2> QED BY <2>1, <2>2, <2>3, <2>4, <2>5, <2>6, <2>7
<1>3. UNCHANGED <<server, poller, browser, others>>
  BY DEF RowChanges, Spend
<1> QED BY <1>2, <1>3 DEF StoreStep, TypeOK, server, poller, browser, fetches

LEMMA AnnounceType ==
    ASSUME TypeOK, NEW k, Announce(k)
    PROVE  TypeOK' /\ owed[k].events \in Seq(SessionEvent)
<1>1. k \in DOMAIN owed /\ owed \in Seq(Owed)
  BY DEF Announce, TypeOK
<1>2. owed[k] \in Owed
  BY <1>1, LenProperties, ElementOfSeq
<1>3. owed[k].events \in Seq(RowEvent)
  BY <1>2 DEF Owed
<1>4. owed[k].events \in Seq(SessionEvent)
  BY <1>3, RowEventsAreEvents
<1>5. owed' \in Seq(Owed)
  <2>1. owed' = RemoveAt(owed, k)
    BY DEF Announce
  <2> QED BY <1>1, <2>1, RemoveAtKeeps
<1>6. Publish(owed[k].events)
  BY DEF Announce
<1>7. room' \in SessionSnapshot \cup {None} /\ wire' \in [Viewers -> Seq(Frame)]
  BY <1>4, <1>6, PublishType
<1>8. ask' \in [Viewers -> AskType] /\ \A v \in Viewers : ask'[v].op = ask[v].op
  <2>1. ask' = [v \in Viewers |-> IF v = owed[k].for THEN [ask[v] EXCEPT !.state = "ok"]
                                  ELSE ask[v]]
    BY DEF Announce
  <2>2. \A v \in Viewers : ask[v] \in AskType
    BY DEF TypeOK
  <2>3. \A v \in Viewers : /\ [ask[v] EXCEPT !.state = "ok"] \in AskType
                           /\ [ask[v] EXCEPT !.state = "ok"].op = ask[v].op
    BY <2>2 DEF AskType
  <2> HIDE DEF AskType
  <2> QED BY <2>1, <2>2, <2>3
<1>9. UNCHANGED <<moderated, rows, reopened, stranded, claiming, hydrated, loads, subs, kind, conn, page, others>>
  BY DEF Announce, bounds
<1> QED BY <1>4, <1>5, <1>7, <1>8, <1>9 DEF TypeOK

LEMMA PublishingType ==
    ASSUME TypeOK, NEW events \in Seq(SessionEvent), Publish(events),
           UNCHANGED <<store, hydrated, loads, subs, kind, conn, page>>,
           ask' \in [Viewers -> AskType],
           \A v \in Viewers : ask'[v].op = ask[v].op,
           others' \subseteq others
    PROVE  TypeOK'
<1>1. room' \in SessionSnapshot \cup {None} /\ wire' \in [Viewers -> Seq(Frame)]
  BY PublishType
<1> QED BY <1>1 DEF TypeOK, store

LEMMA BroadcastType ==
    ASSUME TypeOK, NEW e, Broadcast(e)
    PROVE  TypeOK' /\ <<e>> \in Seq(SessionEvent)
<1>1. e \in OtherEvent
  BY DEF TypeOK, Broadcast
<1>2. <<e>> \in Seq(SessionEvent)
  BY <1>1, OtherEventsAre
<1>3. /\ Publish(<<e>>) /\ UNCHANGED <<store, hydrated, loads, subs, kind, conn, page, ask>>
      /\ others' \subseteq others
  BY DEF Broadcast
<1> QED BY <1>2, <1>3, PublishingType DEF TypeOK

LEMMA TickType ==
    ASSUME TypeOK, NEW t \in Maybe(Tracks), NEW changed \in BOOLEAN, Tick(t, changed)
    PROVE  TypeOK'
<1>1. Publish(TickEvents(t, changed))
  BY DEF Tick, TickEvents
<1>2. TickEvents(t, changed) \in Seq(SessionEvent)
  BY TickEventsType
<1>3. UNCHANGED <<store, hydrated, loads, subs, kind, conn, page, ask, others>>
  BY DEF Tick, Spend
<1> QED BY <1>1, <1>2, <1>3, PublishingType DEF TypeOK

LEMMA LookupEndsType ==
    ASSUME TypeOK, NEW t \in Tracks, NEW doc \in {t, None}, LookupEnds(t, doc)
    PROVE  TypeOK'
<1> DEFINE e == [type |-> "lyrics.loaded", trackUri |-> t, lyrics |-> doc]
<1>1. e \in SessionEvent
  BY DEF SessionEvent, Maybe
<1>2. Publish(<<e>>) \/ UNCHANGED <<room, wire>>
  BY DEF LookupEnds
<1>3. UNCHANGED <<store, hydrated, loads, subs, kind, conn, page, ask, others>>
  BY DEF LookupEnds, bounds
<1> HIDE DEF e
<1>4. <<e>> \in Seq(SessionEvent)
  BY <1>1
<1>5. CASE Publish(<<e>>)
  BY <1>3, <1>4, <1>5, PublishingType DEF TypeOK
<1>6. CASE UNCHANGED <<room, wire>>
  BY <1>3, <1>6 DEF TypeOK, store
<1> QED BY <1>2, <1>5, <1>6

LEMMA SnapshotFrameType ==
    ASSUME NEW s \in SessionSnapshot
    PROVE  SnapshotFrame(s) \in Frame /\ <<SnapshotFrame(s)>> \in Seq(Frame)
<1>1. SnapshotFrame(s) \in Frame
  BY DEF SnapshotFrame, Frame
<1> HIDE DEF Frame
<1> QED BY <1>1

\* A handler whose socket goes keeps working for nobody.
LEMMA UnsubscribeType ==
    ASSUME TypeOK, NEW gone \in SUBSET Viewers, Unsubscribe(gone)
    PROVE  /\ subs' \in SUBSET Viewers /\ wire' \in [Viewers -> Seq(Frame)]
           /\ loads' \in Seq(Load) /\ DOMAIN loads' = DOMAIN loads
           /\ \A k \in DOMAIN loads : /\ loads'[k].step = loads[k].step
                                      /\ loads'[k].read = loads[k].read
                                      /\ loads'[k].for = IF loads[k].for \in gone THEN None
                                                         ELSE loads[k].for
<1>1. subs' \in SUBSET Viewers /\ wire' \in [Viewers -> Seq(Frame)]
  <2>1. <<>> \in Seq(Frame)
    BY EmptySeq
  <2> QED BY <2>1 DEF Unsubscribe, TypeOK
<1> DEFINE next(k) == IF loads[k].for \in gone THEN [loads[k] EXCEPT !.for = None] ELSE loads[k]
<1>2. loads' = [k \in DOMAIN loads |-> next(k)]
  BY DEF Unsubscribe
<1>3. loads \in Seq(Load) /\ DOMAIN loads = 1..Len(loads) /\ Len(loads) \in Nat
  BY LenProperties DEF TypeOK
<1>4. \A k \in DOMAIN loads : loads[k] \in Load
  BY <1>3
<1>5. \A k \in DOMAIN loads :
         /\ next(k) \in Load /\ next(k).step = loads[k].step /\ next(k).read = loads[k].read
         /\ next(k).for = IF loads[k].for \in gone THEN None ELSE loads[k].for
  BY <1>4 DEF Load, Caller
<1> HIDE DEF next
<1>6. loads' \in [1..Len(loads) -> Load]
  BY <1>2, <1>3, <1>5
<1>7. loads' \in Seq(Load)
  BY <1>3, <1>6, SeqDef
<1> QED BY <1>1, <1>2, <1>5, <1>7

LEMMA OnOpenType ==
    ASSUME TypeOK, NEW v \in Viewers, OnOpen(v)
    PROVE  TypeOK'
<1> DEFINE r == IF room = None THEN CreateEmptySnapshot ELSE room
           new == [for |-> v, step |-> "items", read |-> NotRead]
<1>1. r \in SessionSnapshot
  BY EmptySnapshotType DEF TypeOK
<1>2. room' = r
  BY DEF OnOpen
<1>3. new \in Load
  BY DEF Load, Caller
<1>4. \/ loads' = loads
      \/ loads' = Append(loads, new)
  BY DEF OnOpen
<1>5. \/ wire' = wire
      \/ wire' = [wire EXCEPT ![v] = <<SnapshotFrame(r)>>]
  BY DEF OnOpen
<1> HIDE DEF r, new
<1>6. wire' \in [Viewers -> Seq(Frame)]
  <2>1. <<SnapshotFrame(r)>> \in Seq(Frame)
    BY <1>1, SnapshotFrameType
  <2> QED BY <1>5, <2>1 DEF TypeOK
<1>7. /\ loads' \in Seq(Load)
      /\ \A k \in DOMAIN loads' : loads'[k].step = "claims" => loads'[k].read \in Row
  <2>1. CASE loads' = loads
    BY <2>1 DEF TypeOK
  <2>2. CASE loads' = Append(loads, new)
    <3>1. loads \in Seq(Load) /\ Len(loads) \in Nat /\ DOMAIN loads = 1..Len(loads)
      BY LenProperties DEF TypeOK
    <3>2. /\ loads' \in Seq(Load) /\ Len(loads') = Len(loads) + 1
          /\ \A k \in 1..Len(loads) : loads'[k] = loads[k]
          /\ loads'[Len(loads) + 1] = new
      BY <1>3, <2>2, <3>1, AppendProperties
    <3>3. DOMAIN loads' = 1..(Len(loads) + 1)
      BY <3>2, LenProperties
    <3>4. ASSUME NEW k \in DOMAIN loads', loads'[k].step = "claims" PROVE loads'[k].read \in Row
      <4>1. k # Len(loads) + 1
        BY <3>2, <3>4 DEF new
      <4>2. k \in DOMAIN loads /\ loads'[k] = loads[k]
        BY <3>1, <3>2, <3>3, <4>1
      <4> QED BY <3>4, <4>2 DEF TypeOK
    <3> QED BY <3>2, <3>4
  <2> QED BY <1>4, <2>1, <2>2
<1>8. conn' \in [Viewers -> Connection] /\ subs' \in SUBSET Viewers
  BY DEF OnOpen, TypeOK, Connection
<1>9. UNCHANGED <<store, hydrated, kind, page, ask, others>>
  BY DEF OnOpen, bounds
<1> QED BY <1>1, <1>2, <1>6, <1>7, <1>8, <1>9 DEF TypeOK, store

LEMMA LoadItemsType ==
    ASSUME TypeOK, NEW k \in DOMAIN loads, LoadItems(k)
    PROVE  TypeOK'
<1> DEFINE new == [loads[k] EXCEPT !.step = "claims", !.read = rows]
<1>1. loads \in Seq(Load) /\ DOMAIN loads = 1..Len(loads)
  BY LenProperties DEF TypeOK
<1>2. loads[k] \in Load
  BY <1>1
<1>3. new \in Load /\ new.step = "claims" /\ new.read = rows
  BY <1>2 DEF Load, TypeOK
<1>4. loads' = [loads EXCEPT ![k] = new]
  BY <1>2 DEF LoadItems, Load
<1> HIDE DEF new
<1>5. loads' \in Seq(Load)
  BY <1>1, <1>3, <1>4, ExceptSeq
<1>6. \A j \in DOMAIN loads' : loads'[j].step = "claims" => loads'[j].read \in Row
  BY <1>3, <1>4 DEF TypeOK
<1>7. UNCHANGED <<store, room, hydrated, subs, kind, conn, wire, page, ask, others>>
  BY DEF LoadItems, browser, bounds
<1> QED BY <1>5, <1>6, <1>7 DEF TypeOK, store

\* The end of a handler: one handler fewer, one frame more.
LEMMA GreetType ==
    ASSUME TypeOK, NEW k \in DOMAIN loads, NEW s \in SessionSnapshot, Greet(k, s),
           room' \in SessionSnapshot, hydrated' \in BOOLEAN, others' = others
    PROVE  TypeOK'
<1>1. loads' = RemoveAt(loads, k) /\ loads \in Seq(Load)
  BY DEF Greet, TypeOK
<1>2. /\ loads' \in Seq(Load)
      /\ \A n \in DOMAIN loads' : \E j \in DOMAIN loads : loads'[n] = loads[j]
  BY <1>1, RemoveAtKeeps
<1>3. \A n \in DOMAIN loads' : loads'[n].step = "claims" => loads'[n].read \in Row
  BY <1>2 DEF TypeOK
<1>4. wire' \in [Viewers -> Seq(Frame)]
  <2>1. \A v \in Viewers : wire[v] \in Seq(Frame)
    BY DEF TypeOK
  <2>2. SnapshotFrame(s) \in Frame
    BY SnapshotFrameType
  <2>3. ASSUME NEW v \in Viewers PROVE Append(wire[v], SnapshotFrame(s)) \in Seq(Frame)
    <3> DEFINE f == SnapshotFrame(s)
    <3>1. f \in Frame /\ wire[v] \in Seq(Frame)
      BY <2>1, <2>2
    <3> HIDE DEF f, Frame
    <3>2. Append(wire[v], f) \in Seq(Frame)
      BY <3>1, AppendProperties
    <3> QED BY <3>2 DEF f
  <2>4. wire' = [v \in Viewers |-> IF v = loads[k].for
                                   THEN Append(wire[v], SnapshotFrame(s)) ELSE wire[v]]
    BY DEF Greet
  <2> QED BY <2>1, <2>3, <2>4
<1>5. UNCHANGED <<store, subs, kind, conn, page, ask>>
  BY DEF Greet
<1> QED BY <1>2, <1>3, <1>4, <1>5 DEF TypeOK, store

\* There is a room as long as the server has anything to do with one.
Alive ==
    /\ hydrated \/ loads # <<>> \/ subs # {} => room # None
    /\ \A v \in subs : conn[v] = "live"

LEMMA LoadingType ==
    ASSUME TypeOK, Alive, Loading
    PROVE  TypeOK'
<1>1. PICK k \in DOMAIN loads : LoadItems(k) \/ Hydrate(k) \/ HydrateFails(k)
  BY DEF Loading
<1>2. room \in SessionSnapshot
  <2>1. loads # <<>>
    BY <1>1
  <2> QED BY <2>1 DEF Alive, TypeOK
<1>3. CASE LoadItems(k)
  BY <1>3, LoadItemsType
<1>4. CASE Hydrate(k)
  <2>1. loads[k].read \in Row /\ rows \in Row
    BY <1>4 DEF Hydrate, TypeOK
  <2>2. room' = MergeInto(room, loads[k].read) /\ hydrated' = TRUE /\ Greet(k, room')
        /\ others' = others
    BY <1>4 DEF Hydrate, bounds
  <2>3. room' \in SessionSnapshot
    BY <1>2, <2>1, <2>2, MergeKeeps
  <2> QED BY <2>2, <2>3, GreetType
<1>5. CASE HydrateFails(k)
  <2>1. room' = room /\ hydrated' = hydrated /\ Greet(k, room) /\ others' = others
    BY <1>5 DEF HydrateFails, Spend
  <2> QED BY <1>2, <2>1, GreetType DEF TypeOK
<1> QED BY <1>1, <1>3, <1>4, <1>5

\* The socket goes, with or without the page.
LEMMA GoneType ==
    ASSUME TypeOK, NEW v \in Viewers, Drop(v) \/ Leave(v)
    PROVE  TypeOK'
<1>1. Unsubscribe({v})
  BY DEF Drop, Leave
<1>2. conn' \in [Viewers -> Connection]
  BY DEF Drop, Leave, AfterClose, TypeOK, Connection
<1>3. /\ subs' \in SUBSET Viewers /\ wire' \in [Viewers -> Seq(Frame)]
      /\ loads' \in Seq(Load) /\ DOMAIN loads' = DOMAIN loads
      /\ \A k \in DOMAIN loads : /\ loads'[k].step = loads[k].step
                                 /\ loads'[k].read = loads[k].read
  BY <1>1, UnsubscribeType
<1>4. UNCHANGED <<store, room, hydrated, kind, page, ask, others>>
  BY DEF Drop, Leave, Spend
<1> QED BY <1>2, <1>3, <1>4 DEF TypeOK, store

LEMMA ReceiveType ==
    ASSUME TypeOK, NEW v \in Viewers, Receive(v)
    PROVE  /\ TypeOK'
           /\ Head(wire[v]) \in Frame /\ Tail(wire[v]) \in Seq(Frame)
<1> DEFINE w == wire[v]
           F == Frame
<1>1. w \in Seq(F) /\ w # <<>>
  BY DEF Receive, TypeOK
<1> HIDE DEF w, F
<1>2. Head(w) \in F /\ Tail(w) \in Seq(F)
  BY <1>1, HeadTailProperties
<1> USE DEF w, F
<1>3. wire' = [wire EXCEPT ![v] = Tail(w)]
      /\ page' = [page EXCEPT ![v] = HandleMessage(kind[v], page[v], Head(w))]
  BY DEF Receive
<1>4. wire' \in [Viewers -> Seq(Frame)]
  BY <1>2, <1>3 DEF TypeOK
<1>5. PageOK(kind[v], HandleMessage(kind[v], page[v], Head(w)))
  BY <1>2, FrameKeepsPage DEF TypeOK
<1>6. DOMAIN page' = Viewers /\ \A u \in Viewers : PageOK(kind[u], page'[u])
  BY <1>3, <1>5 DEF TypeOK
<1>7. UNCHANGED <<store, server, kind, conn, ask, others>>
  BY DEF Receive, bounds
<1> QED BY <1>2, <1>4, <1>6, <1>7 DEF TypeOK, store, server

LEMMA QueueAnsweredType ==
    ASSUME TypeOK, NEW v \in Viewers, NEW k, QueueAnswered(v, k)
    PROVE  TypeOK'
<1>1. /\ page' = [page EXCEPT ![v] =
                     IF conn[v] = "asking" THEN Bootstrapped(kind[v], page[v], answers[v][k])
                     ELSE QueueArrives(kind[v], page[v], answers[v][k].queue)]
      /\ conn' = [conn EXCEPT ![v] = IF conn[v] = "asking" THEN "dialing" ELSE conn[v]]
      /\ UNCHANGED <<store, server, kind, wire, ask, others>>
  BY DEF QueueAnswered, bounds, TypeOK
<1>2. /\ PageOK(kind[v], Bootstrapped(kind[v], page[v], answers[v][k]))
      /\ PageOK(kind[v], QueueArrives(kind[v], page[v], answers[v][k].queue))
  BY AnswerKeeps DEF TypeOK
<1>3. DOMAIN page' = Viewers /\ \A u \in Viewers : PageOK(kind[u], page'[u])
  BY <1>1, <1>2 DEF TypeOK
<1>4. conn' \in [Viewers -> Connection]
  BY <1>1 DEF TypeOK, Connection
<1> QED BY <1>1, <1>3, <1>4 DEF TypeOK, store, server

LEMMA PressesType ==
    ASSUME TypeOK, NEW v \in Viewers, Presses(v)
    PROVE  /\ TypeOK'
           /\ UNCHANGED <<store, server, kind, conn, wire, others>>
           /\ \A u \in Viewers : page'[u] = page[u] \/ SameView(page[u], page'[u])
<1>1. PICK op \in RowOps \cup {"voteNow", "voteTrack", "removeRow"},
           i \in Maybe(Items), t \in Tracks :
         /\ Press(v, op, i, t) /\ (op \in RowOps => i \in Items)
         /\ op = "pick" => kind[v] = "guest"
         /\ page' = page \/ page' = [page EXCEPT ![v] = Hidden(page[v], t)]
  <2>1. \A i \in Items : TrackOf[i] \in Tracks
    BY RoomAssumption
  <2>2. CASE \E i \in Items : Pick(v, i) \/ RemoveOwn(v, i)
                              \/ \E d \in {"approved", "rejected"} : Moderate(v, i, d)
    BY <2>1, <2>2 DEF Pick, RemoveOwn, Moderate, Quietly, RowOps, Maybe
  <2>3. CASE \E t \in Tracks : VoteSkipNowPlaying(v, t) \/ VoteSkipProvider(v, t)
    BY <2>3 DEF VoteSkipNowPlaying, VoteSkipProvider, Quietly, RowOps, Maybe
  <2>4. CASE \E t \in Tracks : RemoveRow(v, t)
    <3>1. PICK t \in Tracks : RemoveRow(v, t)
      BY <2>4
    <3> DEFINE requested == {i \in Items : TrackOf[i] = t
                                /\ page[v].queue[i] \in {"approved", "queued"}}
               item == IF requested = {} THEN None ELSE CHOOSE i \in requested : TRUE
    <3>2. Press(v, "removeRow", item, t) /\ page' = [page EXCEPT ![v] = Hidden(page[v], t)]
      BY <3>1 DEF RemoveRow
    <3>3. item \in Maybe(Items)
      BY DEF Maybe
    <3> HIDE DEF item
    <3> QED BY <3>2, <3>3 DEF RowOps
  <2> QED BY <2>2, <2>3, <2>4 DEF Presses
<1>2. /\ ask' = [ask EXCEPT ![v] = [op |-> op, item |-> i, track |-> t, state |-> "sent"]]
      /\ UNCHANGED <<store, server, kind, conn, wire, others>>
  BY <1>1 DEF Press, Spend
<1>3. [op |-> op, item |-> i, track |-> t, state |-> "sent"] \in AskType
  BY <1>1 DEF AskType, RowOps, Maybe
<1>4. ask' \in [Viewers -> AskType] /\ \A u \in Viewers : ask'[u].op = "pick" => kind[u] = "guest"
  BY <1>1, <1>2, <1>3 DEF TypeOK
<1>5. /\ SameView(page[v], Hidden(page[v], t)) /\ PageOK(kind[v], Hidden(page[v], t))
  BY PressKeeps DEF TypeOK
<1>6. /\ DOMAIN page' = Viewers
      /\ \A u \in Viewers : PageOK(kind[u], page'[u])
      /\ \A u \in Viewers : page'[u] = page[u] \/ SameView(page[u], page'[u])
  BY <1>1, <1>5 DEF TypeOK
<1> QED BY <1>2, <1>4, <1>6 DEF TypeOK, store, server

LEMMA ServeRowType ==
    ASSUME TypeOK, NEW v \in Viewers, ServeRow(v)
    PROVE  TypeOK'
<1>1. v \in Caller /\ ask[v] \in AskType /\ ask[v].state = "sent"
  BY DEF Caller, TypeOK, ServeRow
<1>2. StoreStep
  <2>1. CASE ask[v].op = "pick" /\ Request(ask[v].item, v)
    BY <1>1, <2>1, RequestType DEF StoreStep, TypeOK, AskType, RowOps
  <2>2. CASE ask[v].op = "removeOwn" /\ DeleteRow(ask[v].item, v)
    BY <1>1, <2>2, DeleteRowType DEF StoreStep, TypeOK, AskType, RowOps
  <2>3. CASE ask[v].op \in {"approved", "rejected"} /\ Decide(ask[v].item, ask[v].op, v)
    BY <1>1, <2>3, DecideType DEF StoreStep, TypeOK, AskType, RowOps
  <2>4. CASE ask[v].op = "removeRow" /\ ask[v].item # None /\ Decide(ask[v].item, "rejected", v)
    BY <1>1, <2>4, DecideType DEF StoreStep, TypeOK, AskType, Maybe
  <2> QED BY <2>1, <2>2, <2>3, <2>4 DEF ServeRow
<1>3. ask' = [ask EXCEPT ![v].state = "written"]
      /\ UNCHANGED <<server, kind, conn, wire, page, others>>
  BY DEF ServeRow, bounds
<1>4. ask' \in [Viewers -> AskType] /\ \A u \in Viewers : ask'[u].op = ask[u].op
  BY <1>1, <1>3 DEF TypeOK, AskType
<1> QED BY <1>2, <1>3, <1>4 DEF TypeOK, StoreStep, server

\* A vote on a track is one event of the others.
LEMMA ServeTrackType ==
    ASSUME TypeOK, NEW v \in Viewers, ServeTrack(v)
    PROVE  /\ TypeOK'
           /\ \/ UNCHANGED <<room, wire>>
              \/ \E e \in OtherEvent : Publish(<<e>>)
<1> DEFINE a == ask[v]
           tally == room.nowPlayingSkipVote
           next == IF tally # None /\ tally.trackUri = room.nowPlaying
                   THEN tally.count + 1 ELSE 1
           x == [type |-> "now_playing_skip_vote.updated", trackUri |-> room.nowPlaying,
                 count |-> next]
           y == [type |-> "provider_queue_skip_vote.updated", trackUri |-> a.track,
                 count |-> room.providerQueueSkipVotes[a.track] + 1]
<1>1. room \in SessionSnapshot /\ a \in AskType
  BY DEF ServeTrack, TypeOK
<1>2. \/ UNCHANGED <<room, wire>>
      \/ \E e \in OtherEvent : Publish(<<e>>)
  <2>1. CASE a.op = "voteNow" /\ room.nowPlaying # None /\ Publish(<<x>>)
    <3>1. room.nowPlaying \in Tracks /\ tally \in Maybe(SkipTally)
      BY <1>1, <2>1 DEF SessionSnapshot, Maybe
    <3>2. next \in Nat
      BY <3>1 DEF Maybe, SkipTally
    <3> HIDE DEF next
    <3>3. x \in OtherEvent
      BY <3>1, <3>2 DEF OtherEvent, SessionEvent
    <3> QED BY <2>1, <3>3
  <2>2. CASE a.op = "voteTrack" /\ Publish(<<y>>)
    <3>1. a.track \in Tracks
      BY <1>1, <2>2 DEF AskType
    <3>2. room.providerQueueSkipVotes[a.track] + 1 \in Nat
      BY <1>1, <3>1 DEF SessionSnapshot
    <3>3. y \in OtherEvent
      BY <3>1, <3>2 DEF OtherEvent, SessionEvent
    <3> QED BY <2>2, <3>3
  <2>3. CASE UNCHANGED <<room, wire>>
    BY <2>3
  <2> QED BY <2>1, <2>2, <2>3 DEF ServeTrack
<1>3. /\ ask' = [ask EXCEPT ![v].state = "ok"]
      /\ UNCHANGED <<store, hydrated, loads, subs, kind, conn, page, others>>
  BY DEF ServeTrack, bounds
<1>4. ask' \in [Viewers -> AskType] /\ \A u \in Viewers : ask'[u].op = ask[u].op
  BY <1>1, <1>3 DEF TypeOK, AskType
<1>5. TypeOK'
  <2>1. CASE UNCHANGED <<room, wire>>
    BY <1>3, <1>4, <2>1 DEF TypeOK, store
  <2>2. CASE \E e \in OtherEvent : Publish(<<e>>)
    <3>1. PICK e \in OtherEvent : Publish(<<e>>)
      BY <2>2
    <3>2. <<e>> \in Seq(SessionEvent)
      BY OtherEventsAre
    <3> QED BY <1>3, <1>4, <3>1, <3>2, PublishingType
  <2> QED BY <1>2, <2>1, <2>2
<1> QED BY <1>2, <1>5

LEMMA RefuseType ==
    ASSUME TypeOK, NEW v \in Viewers, Refuse(v)
    PROVE  TypeOK' /\ UNCHANGED <<store, server, kind, conn, wire, page, others>>
<1>1. PICK answer \in {"failed", "already_voted"} : ask' = [ask EXCEPT ![v].state = answer]
  BY DEF Refuse
<1>2. UNCHANGED <<store, server, kind, conn, wire, page, others>>
  BY DEF Refuse, bounds
<1>3. ask' \in [Viewers -> AskType] /\ \A u \in Viewers : ask'[u].op = ask[u].op
  <2>0. ask[v] \in AskType
    BY DEF TypeOK
  <2>1. [ask[v] EXCEPT !.state = answer] \in AskType /\ ask[v] \in AskType
    BY <2>0 DEF AskType
  <2>2. ask' = [ask EXCEPT ![v] = [ask[v] EXCEPT !.state = answer]]
    BY <1>1
  <2>3. [ask[v] EXCEPT !.state = answer].op = ask[v].op
    BY <2>1 DEF AskType
  <2> QED BY <2>1, <2>2, <2>3 DEF TypeOK
<1> QED BY <1>2, <1>3 DEF TypeOK, store, server

LEMMA AnsweredType ==
    ASSUME TypeOK, NEW v \in Viewers, Answered(v)
    PROVE  /\ TypeOK'
           /\ UNCHANGED <<store, server, kind, conn, wire, others>>
           /\ \A u \in Viewers : page'[u] = page[u] \/ SameView(page[u], page'[u])
<1> DEFINE a == ask[v]
           p == page[v]
           q == CASE a.op = "pick" /\ a.state = "ok" -> Picked(p, a.item, a.track, moderated)
                  [] a.op = "removeOwn" /\ a.state = "ok" -> RemovedOwn(p, a.item)
                  [] a.op = "voteNow" /\ a.state # "failed" -> VotedNow(p, a.track)
                  [] a.op = "voteTrack" /\ a.state # "failed" -> VotedProvider(p, a.track)
                  [] a.op = "removeRow" /\ a.state = "failed" -> Restored(p, a.track)
                  [] OTHER -> p
<1>1. a \in AskType /\ PageOK(kind[v], p) /\ (a.op = "pick" => kind[v] = "guest")
      /\ moderated \in BOOLEAN
  BY DEF TypeOK
<1>2. q = p \/ (SameView(p, q) /\ PageOK(kind[v], q))
  <2>1. CASE a.op = "pick" /\ a.state = "ok"
    <3>1. q = Picked(p, a.item, a.track, moderated)
      BY <2>1
    <3>2. PageOK("guest", p) /\ a.track \in Tracks
      BY <1>1, <2>1 DEF AskType
    <3> QED BY <1>1, <2>1, <3>1, <3>2, PickedKeeps
  <2>2. CASE ~(a.op = "pick" /\ a.state = "ok")
    <3>1. q = p \/ q \in {RemovedOwn(p, a.item), VotedNow(p, a.track),
                          VotedProvider(p, a.track), Hidden(p, a.track), Restored(p, a.track)}
      BY <2>2
    <3> HIDE DEF q
    <3> QED BY <1>1, <3>1, PressKeeps
  <2> QED BY <2>1, <2>2
<1>3. /\ page' = [page EXCEPT ![v] = q] /\ ask' = [ask EXCEPT ![v] = NoAsk]
      /\ UNCHANGED <<store, server, kind, conn, wire, others>>
  BY DEF Answered, bounds
<1> HIDE DEF q
<1>4. /\ DOMAIN page' = Viewers
      /\ \A u \in Viewers : PageOK(kind[u], page'[u])
      /\ \A u \in Viewers : page'[u] = page[u] \/ SameView(page[u], page'[u])
  BY <1>1, <1>2, <1>3 DEF TypeOK
<1>5. NoAsk \in AskType /\ NoAsk.op = "none"
  BY DEF NoAsk, AskType, RowOps, Maybe
<1>6. ask' \in [Viewers -> AskType] /\ \A u \in Viewers : ask'[u].op = "pick" => kind[u] = "guest"
  BY <1>3, <1>5 DEF TypeOK
<1> QED BY <1>3, <1>4, <1>6 DEF TypeOK, store, server

\* Steps that move no data: a timer, a request that leaves, an entry torn down.
QuietStep ==
    TearDown \/ \E v \in Viewers : Reconnect(v) \/ Bootstrap(v) \/ AnswerGet(v)

LEMMA QuietType ==
    ASSUME TypeOK, QuietStep
    PROVE  TypeOK' /\ UNCHANGED <<store, server, kind, wire, page, ask, others>>
<1>1. UNCHANGED <<store, server, kind, wire, page, ask, others>>
  BY DEF QuietStep, TearDown, Reconnect, Bootstrap, AnswerGet, browser, bounds, fetches
<1>2. conn' \in [Viewers -> Connection]
  BY DEF QuietStep, TearDown, Reconnect, Bootstrap, AnswerGet, browser, TypeOK, Connection
<1> QED BY <1>1, <1>2 DEF TypeOK, store, server

LEMMA RestartType ==
    ASSUME TypeOK, Restart
    PROVE  TypeOK'
<1>1. /\ owed' = <<>> /\ room' = None /\ hydrated' = FALSE /\ subs' = {} /\ loads' = <<>>
      /\ wire' = [v \in Viewers |-> <<>>]
      /\ reopened' = {} /\ stranded' = {} /\ claiming' = {}
      /\ UNCHANGED <<moderated, rows, kind, page, others>>
  BY DEF Restart, Spend
<1>2. owed' \in Seq(Owed) /\ loads' \in Seq(Load) /\ DOMAIN loads' = {}
      /\ wire' \in [Viewers -> Seq(Frame)]
  BY <1>1, EmptySeq
<1>3. conn' \in [Viewers -> Connection]
  <2>1. conn' = [v \in Viewers |->
                   CASE conn[v] \in {"dialing", "live"} -> AfterClose(conn[v])
                     [] conn[v] = "asking" /\ answers[v] = <<>> -> "dialing"
                     [] OTHER -> conn[v]]
    BY DEF Restart
  <2> QED BY <2>1 DEF AfterClose, TypeOK, Connection
<1>4. ask' \in [Viewers -> AskType] /\ \A v \in Viewers : ask'[v].op = ask[v].op
  <2>1. ask' = [v \in Viewers |-> IF ask[v].state = "sent"
                                  THEN [ask[v] EXCEPT !.state = "failed"] ELSE ask[v]]
    BY DEF Restart
  <2>2. \A v \in Viewers : ask[v] \in AskType
    BY DEF TypeOK
  <2>3. \A v \in Viewers : /\ [ask[v] EXCEPT !.state = "failed"] \in AskType
                           /\ [ask[v] EXCEPT !.state = "failed"].op = ask[v].op
    BY <2>2 DEF AskType
  <2> HIDE DEF AskType
  <2> QED BY <2>1, <2>2, <2>3
<1> QED BY <1>1, <1>2, <1>3, <1>4 DEF TypeOK

-----------------------------------------------------------------------------
LEMMA TypeInit == Init => TypeOK
<1> SUFFICES ASSUME Init PROVE TypeOK
  OBVIOUS
<1>1. PICK s \in Scenarios : /\ kind = s.kind /\ moderated = s.moderated
                             /\ left = s.left /\ others = s.others
  BY DEF Init
<1>2. /\ kind \in [Viewers -> {"guest", "host", "tv"}] /\ moderated \in BOOLEAN
      /\ others \subseteq OtherEvent
  BY <1>1, RoomAssumption
<1>3. <<>> \in Seq(Owed) /\ <<>> \in Seq(Load) /\ <<>> \in Seq(Frame)
      /\ <<>> \in Seq(Guests) /\ <<>> \in Seq(Tracks)
  BY EmptySeq
<1>4. rows \in Row
  BY <1>3 DEF Init, NoRow, Row, RowType, Absent
<1>5. \A k : PageOK(k, EmptyPage)
  BY <1>3 DEF PageOK, EmptyPage, PageFields
<1>6. NoAsk \in AskType /\ NoAsk.op = "none"
  BY DEF NoAsk, AskType, RowOps, Maybe
<1>7. ask \in [Viewers -> AskType] /\ \A v \in Viewers : ask[v].op = "pick" => kind[v] = "guest"
  BY <1>6 DEF Init
<1>8. conn \in [Viewers -> Connection] /\ wire \in [Viewers -> Seq(Frame)]
  BY <1>3 DEF Init, Connection
<1>9. DOMAIN page = Viewers /\ \A v \in Viewers : PageOK(kind[v], page[v])
  BY <1>5 DEF Init
<1>10. loads = <<>> /\ owed = <<>> /\ room = None /\ hydrated = FALSE /\ subs = {}
       /\ reopened = {} /\ stranded = {} /\ claiming = {}
  BY DEF Init
<1>11. subs \in SUBSET Viewers /\ reopened \subseteq Items /\ stranded \subseteq Items
       /\ claiming \subseteq Items \X Guests
       /\ \A k \in DOMAIN loads : loads[k].step = "claims" => loads[k].read \in Row
  BY <1>10
<1>12. owed \in Seq(Owed) /\ loads \in Seq(Load)
  BY <1>3, <1>10
<1> QED BY <1>2, <1>4, <1>7, <1>8, <1>9, <1>10, <1>11, <1>12 DEF TypeOK

\* The steps of the system, one name each.
Step ==
    \/ RowChanges
    \/ Claiming
    \/ \E t \in Maybe(Tracks), changed \in BOOLEAN : Tick(t, changed)
    \/ \E e : Broadcast(e)
    \/ \E k : Announce(k)
    \/ \E t \in Tracks : \E doc \in {t, None} : LookupEnds(t, doc)
    \/ Loading
    \/ Restart
    \/ QuietStep
    \/ \E v \in Viewers :
          \/ Presses(v) \/ Drop(v) \/ Leave(v) \/ OnOpen(v) \/ Receive(v)
          \/ (\E k : QueueAnswered(v, k))
          \/ ServeRow(v) \/ ServeTrack(v) \/ Refuse(v) \/ Answered(v)

LEMMA NextIsStep == Next => Step
<1>1. ASSUME NEW t \in Tracks, NEW found \in BOOLEAN
      PROVE  (IF found THEN t ELSE None) \in {t, None}
  OBVIOUS
<1>2. Server => Step
  BY <1>1 DEF Server, Step, QuietStep
<1>3. Stimuli => Step
  BY DEF Stimuli, Step
<1>4. Faults => Step
  BY DEF Faults, Step
<1>5. \A v \in Viewers : Browser(v) => Step
  BY DEF Browser, Step, QuietStep
<1> QED BY <1>2, <1>3, <1>4, <1>5 DEF Next

LEMMA TypeStep ==
    ASSUME TypeOK, Alive, [Next]_vars
    PROVE  TypeOK'
<1>1. CASE UNCHANGED vars
  BY <1>1 DEF vars, store, server, poller, browser, fetches, bounds, TypeOK
<1>2. CASE Next
  <2>1. Step
    BY <1>2, NextIsStep
  <2> QED BY <2>1, RowChangesType, ClaimingType, TickType, BroadcastType, AnnounceType, LookupEndsType,
            LoadingType, RestartType, QuietType, PressesType, GoneType, OnOpenType,
            ReceiveType, QueueAnsweredType, ServeRowType, ServeTrackType, RefuseType,
            AnsweredType DEF Step
<1> QED BY <1>1, <1>2

\* The steps that leave the connections and the server's records alone.
LEMMA AliveStep ==
    ASSUME TypeOK, Alive, [Next]_vars
    PROVE  Alive'
<1>0. ASSUME room' = None <=> room = None, UNCHANGED <<hydrated, loads, subs, conn>>
      PROVE  Alive'
  BY <1>0 DEF Alive
<1>1. CASE UNCHANGED vars
  BY <1>0, <1>1 DEF vars, server, browser
<1>2. CASE RowChanges \/ Claiming
  BY <1>0, <1>2 DEF RowChanges, Claiming, server, browser
<1>3. ASSUME NEW t \in Maybe(Tracks), NEW changed \in BOOLEAN, Tick(t, changed) PROVE Alive'
  <2>1. Publish(TickEvents(t, changed)) /\ UNCHANGED <<hydrated, loads, subs, conn>>
    BY <1>3 DEF Tick, TickEvents
  <2> QED BY <1>0, <2>1, TickEventsType, PublishType
<1>4. ASSUME NEW e, Broadcast(e) PROVE Alive'
  <2>1. Publish(<<e>>) /\ UNCHANGED <<hydrated, loads, subs, conn>>
    BY <1>4 DEF Broadcast
  <2> QED BY <1>0, <1>4, <2>1, BroadcastType, PublishType
<1>5. ASSUME NEW k, Announce(k) PROVE Alive'
  <2>1. Publish(owed[k].events) /\ UNCHANGED <<hydrated, loads, subs, conn>>
    BY <1>5 DEF Announce
  <2> QED BY <1>0, <1>5, <2>1, AnnounceType, PublishType
<1>6. ASSUME NEW t \in Tracks, NEW doc \in {t, None}, LookupEnds(t, doc) PROVE Alive'
  <2> DEFINE e == [type |-> "lyrics.loaded", trackUri |-> t, lyrics |-> doc]
  <2>1. e \in SessionEvent
    BY DEF SessionEvent, Maybe
  <2>2. UNCHANGED <<hydrated, loads, subs, conn>>
        /\ (Publish(<<e>>) \/ UNCHANGED <<room, wire>>)
    BY <1>6 DEF LookupEnds
  <2> HIDE DEF e
  <2>3. <<e>> \in Seq(SessionEvent)
    BY <2>1
  <2>4. room' = None <=> room = None
    BY <2>2, <2>3, PublishType
  <2> QED BY <1>0, <2>2, <2>4
<1>7. CASE Loading
  <2>1. PICK k \in DOMAIN loads : LoadItems(k) \/ Hydrate(k) \/ HydrateFails(k)
    BY <1>7 DEF Loading
  <2>2. room \in SessionSnapshot
    BY <2>1 DEF Alive, TypeOK
  <2>3. subs' = subs /\ conn' = conn
    BY <2>1 DEF LoadItems, Hydrate, HydrateFails, Greet, browser
  <2>4. room' # None
    <3>1. CASE LoadItems(k) \/ HydrateFails(k)
      BY <2>2, <3>1, NoneIsNoSnapshot DEF LoadItems, HydrateFails
    <3>2. CASE Hydrate(k)
      <4>1. room' = MergeInto(room, loads[k].read) /\ loads[k].read \in Row /\ rows \in Row
        BY <3>2 DEF Hydrate, TypeOK
      <4> QED BY <2>2, <4>1, MergeKeeps, NoneIsNoSnapshot
    <3> QED BY <2>1, <3>1, <3>2
  <2> QED BY <2>3, <2>4 DEF Alive
<1>8. CASE Restart
  BY <1>8 DEF Restart, Alive
<1>9. CASE QuietStep
  <2>1. UNCHANGED server
    BY <1>9, QuietType
  <2>2. \A v \in subs : conn'[v] = "live"
    BY <1>9 DEF Alive, QuietStep, TearDown, Reconnect, Bootstrap, AnswerGet, TypeOK, browser
  <2> QED BY <2>1, <2>2 DEF Alive, server
<1>10. ASSUME NEW v \in Viewers, Drop(v) \/ Leave(v) PROVE Alive'
  <2>1. /\ Unsubscribe({v}) /\ room' = room /\ hydrated' = hydrated
        /\ \A u \in Viewers : u # v => conn'[u] = conn[u]
    BY <1>10 DEF Drop, Leave, TypeOK
  <2>2. subs' = subs \ {v} /\ DOMAIN loads' = DOMAIN loads /\ loads \in Seq(Load)
        /\ loads' \in Seq(Load)
    <3> DEFINE gone == {v}
    <3>1. gone \in SUBSET Viewers /\ Unsubscribe(gone)
      BY <2>1
    <3> HIDE DEF gone
    <3>2. loads' \in Seq(Load) /\ DOMAIN loads' = DOMAIN loads
      BY <3>1, UnsubscribeType
    <3>3. subs' = subs \ gone
      BY <3>1 DEF Unsubscribe
    <3> QED BY <3>2, <3>3 DEF gone, TypeOK
  <2>3. loads' # <<>> => loads # <<>>
    BY <2>2, EmptySeq
  <2> QED BY <2>1, <2>2, <2>3 DEF Alive, TypeOK
<1>11. ASSUME NEW v \in Viewers, OnOpen(v) PROVE Alive'
  <2>1. room' # None
    BY <1>11, EmptySnapshotType, NoneIsNoSnapshot DEF OnOpen
  <2>2. subs' = subs \cup {v} /\ conn' = [conn EXCEPT ![v] = "live"]
    BY <1>11 DEF OnOpen
  <2> QED BY <2>1, <2>2 DEF Alive, TypeOK
<1>12. ASSUME NEW v \in Viewers, Receive(v) \/ ServeRow(v) PROVE Alive'
  BY <1>0, <1>12 DEF Receive, ServeRow, server
<1>13. ASSUME NEW v \in Viewers, NEW k, QueueAnswered(v, k) PROVE Alive'
  <2>1. UNCHANGED server /\ conn' = [conn EXCEPT ![v] = IF @ = "asking" THEN "dialing" ELSE @]
    BY <1>13 DEF QueueAnswered
  <2> QED BY <2>1 DEF Alive, server, TypeOK
<1>14. ASSUME NEW v \in Viewers, Presses(v) \/ Refuse(v) \/ Answered(v) PROVE Alive'
  <2>1. UNCHANGED <<server, conn>>
    BY <1>14, PressesType, RefuseType, AnsweredType
  <2> QED BY <1>0, <2>1 DEF server
<1>15. ASSUME NEW v \in Viewers, ServeTrack(v) PROVE Alive'
  <2>1. UNCHANGED <<hydrated, loads, subs, conn>>
    BY <1>15 DEF ServeTrack
  <2>2. room' = None <=> room = None
    <3>1. ASSUME NEW e \in OtherEvent, Publish(<<e>>) PROVE room' = None <=> room = None
      <4>1. <<e>> \in Seq(SessionEvent)
        BY OtherEventsAre
      <4> QED BY <3>1, <4>1, PublishType
    <3> QED BY <1>15, <3>1, ServeTrackType
  <2> QED BY <1>0, <2>1, <2>2
<1>16. Next => Step
  BY NextIsStep
<1> QED BY <1>1, <1>2, <1>3, <1>4, <1>5, <1>6, <1>7, <1>8, <1>9, <1>10, <1>11, <1>12, <1>13,
          <1>14, <1>15, <1>16 DEF Step

\* There is a room as long as anyone is subscribed to it or reads for it, and
\* what is written, announced, on its way and shown has its form.
THEOREM RoomTypeCorrect == Spec => [](TypeOK /\ Alive)
<1>1. Init => TypeOK /\ Alive
  BY TypeInit DEF Init, Alive
<1>2. TypeOK /\ Alive /\ [Next]_vars => (TypeOK /\ Alive)'
  BY TypeStep, AliveStep
<1> QED BY <1>1, <1>2, PTL DEF Spec

-----------------------------------------------------------------------------
(* What an event does to the part of the room that pages mirror.           *)

SharedFields == {"nowPlaying", "providerQueue", "nowPlayingSkipVote", "activeGuestCount", "lyrics"}

Reduced(s, q, e) ==
    /\ q.nowPlaying = IF e.type = "now_playing.updated" THEN e.track ELSE s.nowPlaying
    /\ q.providerQueue = IF e.type = "provider_queue.updated" THEN e.tracks ELSE s.providerQueue
    /\ q.nowPlayingSkipVote =
          CASE e.type = "now_playing.updated" ->
                 IF s.nowPlaying # e.track THEN None ELSE s.nowPlayingSkipVote
            [] e.type = "now_playing_skip_vote.updated" ->
                 [trackUri |-> e.trackUri, count |-> e.count]
            [] OTHER -> s.nowPlayingSkipVote
    /\ q.activeGuestCount =
          IF e.type = "guest_slots.updated" THEN e.activeCount ELSE s.activeGuestCount
    /\ q.lyrics =
          CASE e.type = "now_playing.updated" -> IF s.nowPlaying # e.track THEN None ELSE s.lyrics
            [] e.type = "lyrics.loaded" -> e.lyrics
            [] OTHER -> s.lyrics

ListEvents == {"queue.item_requested", "queue.item_approved", "queue.item_rejected",
               "queue.item_removed", "skip_vote.updated", "karaoke.claim_added",
               "karaoke.claim_removed", "karaoke.spotlight"}

LEMMA ListEventOnRoom ==
    ASSUME NEW s \in SessionSnapshot, NEW e, e.type \in ListEvents
    PROVE  \A f \in SharedFields : ApplyEvent(s, e)[f] = s[f]
<1> DEFINE q == ApplyEvent(s, e)
<1>1. CASE e.type = "queue.item_requested"
  <2>1. q = ItemRequested(s, e)
    BY <1>1 DEF ApplyEvent
  <2> QED BY <2>1 DEF ItemRequested, SharedFields, SessionSnapshot
<1>2. CASE e.type = "queue.item_approved"
  <2>1. q = ItemApproved(s, e)
    BY <1>2 DEF ApplyEvent
  <2> QED BY <2>1 DEF ItemApproved, UpdateItemById, SharedFields, SessionSnapshot
<1>3. CASE e.type = "queue.item_rejected"
  <2>1. q = ItemRejected(s, e)
    BY <1>3 DEF ApplyEvent
  <2> QED BY <2>1 DEF ItemRejected, SharedFields, SessionSnapshot
<1>4. CASE e.type = "queue.item_removed"
  <2>1. q = ItemRemoved(s, e)
    BY <1>4 DEF ApplyEvent
  <2> QED BY <2>1 DEF ItemRemoved, SharedFields, SessionSnapshot
<1>5. CASE e.type = "skip_vote.updated"
  <2>1. q = SkipVoteUpdated(s, e)
    BY <1>5 DEF ApplyEvent
  <2> QED BY <2>1 DEF SkipVoteUpdated, SharedFields, SessionSnapshot
<1>6. CASE e.type = "karaoke.claim_added"
  <2>1. q = ClaimAdded(s, e)
    BY <1>6 DEF ApplyEvent
  <2> QED BY <2>1 DEF ClaimAdded, UpdateItemById, SharedFields, SessionSnapshot
<1>7. CASE e.type = "karaoke.claim_removed"
  <2>1. q = ClaimRemoved(s, e)
    BY <1>7 DEF ApplyEvent
  <2> QED BY <2>1 DEF ClaimRemoved, UpdateItemById, SharedFields, SessionSnapshot
<1>8. CASE e.type = "karaoke.spotlight"
  <2>1. q = SpotlightMoved(s, e)
    BY <1>8 DEF ApplyEvent
  <2> QED BY <2>1 DEF SpotlightMoved, UpdateItemById, SharedFields, SessionSnapshot
<1> QED BY <1>1, <1>2, <1>3, <1>4, <1>5, <1>6, <1>7, <1>8 DEF ListEvents

LEMMA EventOnRoom ==
    ASSUME NEW s \in SessionSnapshot, NEW e
    PROVE  Reduced(s, ApplyEvent(s, e), e)
<1> DEFINE q == ApplyEvent(s, e)
<1>1. CASE e.type \in ListEvents
  <2>1. \A f \in SharedFields : q[f] = s[f]
    BY <1>1, ListEventOnRoom
  <2> HIDE DEF q
  <2> QED BY <1>1, <2>1 DEF Reduced, SharedFields, ListEvents, q
<1>2. CASE e.type = "now_playing.updated"
  <2>1. q = NowPlayingUpdated(s, e)
    BY <1>2 DEF ApplyEvent
  <2> QED BY <1>2, <2>1 DEF NowPlayingUpdated, SessionSnapshot, Reduced
<1>3. CASE e.type = "now_playing_skip_vote.updated"
  <2>1. q = NowPlayingSkipVoteUpdated(s, e)
    BY <1>3 DEF ApplyEvent
  <2> QED BY <1>3, <2>1 DEF NowPlayingSkipVoteUpdated, SessionSnapshot, Reduced
<1>4. CASE e.type = "provider_queue.updated"
  <2>1. q = ProviderQueueUpdated(s, e)
    BY <1>4 DEF ApplyEvent
  <2> QED BY <1>4, <2>1 DEF ProviderQueueUpdated, SessionSnapshot, Reduced
<1>5. CASE e.type = "provider_queue_skip_vote.updated"
  <2>1. q = ProviderQueueSkipVoteUpdated(s, e)
    BY <1>5 DEF ApplyEvent
  <2> QED BY <1>5, <2>1 DEF ProviderQueueSkipVoteUpdated, SessionSnapshot, Reduced
<1>6. CASE e.type \in {"karaoke.paused", "karaoke.resumed"}
  <2>1. q = KaraokePaused(s, e) \/ q = KaraokeResumed(s, e)
    BY <1>6 DEF ApplyEvent
  <2> QED BY <1>6, <2>1 DEF KaraokePaused, KaraokeResumed, SessionSnapshot, Reduced
<1>7. CASE e.type = "guest_slots.updated"
  <2>1. q = GuestSlotsUpdated(s, e)
    BY <1>7 DEF ApplyEvent
  <2> QED BY <1>7, <2>1 DEF GuestSlotsUpdated, SessionSnapshot, Reduced
<1>8. CASE e.type = "provider.status_updated"
  <2>1. q = ProviderStatusUpdated(s, e)
    BY <1>8 DEF ApplyEvent
  <2> QED BY <1>8, <2>1 DEF ProviderStatusUpdated, SessionSnapshot, Reduced
<1>9. CASE e.type = "playback.clock_sampled"
  <2>1. q = [s EXCEPT !.playbackClock = e.trackUri]
    BY <1>9 DEF ApplyEvent
  <2> QED BY <1>9, <2>1 DEF SessionSnapshot, Reduced
<1>10. CASE e.type = "lyrics.loaded"
  <2>1. q = [s EXCEPT !.lyrics = e.lyrics]
    BY <1>10 DEF ApplyEvent
  <2> QED BY <1>10, <2>1 DEF SessionSnapshot, Reduced
<1>11. CASE e.type \notin ListEvents \cup
              {"now_playing.updated", "now_playing_skip_vote.updated", "provider_queue.updated",
               "provider_queue_skip_vote.updated", "karaoke.paused", "karaoke.resumed",
               "guest_slots.updated", "provider.status_updated", "playback.clock_sampled",
               "lyrics.loaded"}
  <2>1. q = s
    BY <1>11 DEF ApplyEvent, ListEvents
  <2> QED BY <1>11, <2>1 DEF Reduced
<1> QED BY <1>1, <1>2, <1>3, <1>4, <1>5, <1>6, <1>7, <1>8, <1>9, <1>10, <1>11

-----------------------------------------------------------------------------
(* Lyrics stay with their track.                                           *)

LEMMA SeqOfElements ==
    ASSUME NEW A, NEW B, NEW s \in Seq(A), \A n \in DOMAIN s : s[n] \in B
    PROVE  s \in Seq(B)
<1>1. DOMAIN s = 1..Len(s) /\ Len(s) \in Nat /\ s = [n \in 1..Len(s) |-> s[n]]
  BY LenProperties
<1>2. s \in [1..Len(s) -> B]
  BY <1>1
<1> QED BY <1>1, <1>2, SeqDef

BoundRoom == {s \in SessionSnapshot : s.lyrics \in {None, s.nowPlaying}}

BoundFrame ==
    {f \in Frame :
        /\ f.type = "lyrics.loaded" => f.lyrics \in {None, f.trackUri}
        /\ f.type = "_snapshot" => f.snapshot \in BoundRoom}

BoundPage(p) == p.lyricsByUri # None => p.lyricsByUri.doc \in {None, p.lyricsByUri.uri}

\* The frames on their way say so too.
LyricsBound ==
    /\ room \in BoundRoom \cup {None}
    /\ wire \in [Viewers -> Seq(BoundFrame)]
    /\ \A v \in Viewers : BoundPage(page[v])

LEMMA EventKeepsLyrics ==
    ASSUME NEW s \in BoundRoom, NEW e \in SessionEvent,
           e.type = "lyrics.loaded" => e.lyrics \in {None, s.nowPlaying}
    PROVE  ApplyEvent(s, e) \in BoundRoom
<1>1. s \in SessionSnapshot /\ s.lyrics \in {None, s.nowPlaying}
  BY DEF BoundRoom
<1>2. ApplyEvent(s, e) \in SessionSnapshot
  BY <1>1, ApplyEventFollows DEF Follows
<1> DEFINE q == ApplyEvent(s, e)
<1>3. Reduced(s, q, e)
  BY <1>1, EventOnRoom
<1> HIDE DEF q
<1>4. q.lyrics \in {None, q.nowPlaying}
  BY <1>1, <1>3 DEF Reduced
<1> QED BY <1>2, <1>4 DEF q, BoundRoom

\* A call that brings no lyrics, or lyrics of the track being played.
LEMMA PublishKeepsLyrics ==
    ASSUME TypeOK, LyricsBound, NEW events \in Seq(SessionEvent), Publish(events),
           \/ \A n \in DOMAIN events : events[n].type # "lyrics.loaded"
           \/ \A n \in DOMAIN events :
                 /\ events[n].type = "lyrics.loaded" /\ events[n].trackUri = room.nowPlaying
                 /\ events[n].lyrics \in {None, events[n].trackUri}
    PROVE  room' \in BoundRoom \cup {None} /\ wire' \in [Viewers -> Seq(BoundFrame)]
<1>1. \A n \in DOMAIN events : events[n] \in SessionEvent
  BY LenProperties, ElementOfSeq
<1>2. CASE room = None
  BY <1>2 DEF Publish, LyricsBound
<1>3. CASE room # None
  <2>1. room \in BoundRoom
    BY <1>3 DEF LyricsBound
  <2>2. room' = Applied(room, events)
        /\ wire' = [v \in Viewers |-> IF v \in subs THEN wire[v] \o events ELSE wire[v]]
    BY <1>3 DEF Publish
  <2>3. Applied(room, events) \in BoundRoom
    <3> DEFINE E == SessionEvent
    <3>1. CASE \A n \in DOMAIN events : events[n].type # "lyrics.loaded"
      <4> DEFINE P == BoundRoom
      <4>1. \A x \in P : \A n \in DOMAIN events : ApplyEvent(x, events[n]) \in P
        BY <1>1, <3>1, EventKeepsLyrics
      <4>2. room \in P /\ events \in Seq(E)
        BY <2>1
      <4>3. Applied(room, events) \in P
        <5> HIDE DEF P, E
        <5> QED BY <4>1, <4>2, AppliedStays
      <4> QED BY <4>3
    <3>2. CASE \A n \in DOMAIN events :
                 /\ events[n].type = "lyrics.loaded" /\ events[n].trackUri = room.nowPlaying
                 /\ events[n].lyrics \in {None, events[n].trackUri}
      <4> DEFINE P == {x \in BoundRoom : x.nowPlaying = room.nowPlaying}
      <4>1. ASSUME NEW x \in P, NEW n \in DOMAIN events PROVE ApplyEvent(x, events[n]) \in P
        <5>1. ApplyEvent(x, events[n]) \in BoundRoom
          BY <1>1, <3>2, EventKeepsLyrics
        <5>2. Reduced(x, ApplyEvent(x, events[n]), events[n])
          BY EventOnRoom DEF BoundRoom
        <5> QED BY <3>2, <5>1, <5>2 DEF Reduced
      <4>2. room \in P /\ events \in Seq(E)
        BY <2>1
      <4>3. Applied(room, events) \in P
        <5> HIDE DEF P, E
        <5> QED BY <4>1, <4>2, AppliedStays
      <4> QED BY <4>3
    <3> QED BY <3>1, <3>2
  <2>4. events \in Seq(BoundFrame)
    <3>1. \A n \in DOMAIN events : events[n] \in BoundFrame
      BY <1>1, EventFields DEF BoundFrame, Frame
    <3> DEFINE A == SessionEvent
               B == BoundFrame
    <3>2. events \in Seq(A) /\ \A n \in DOMAIN events : events[n] \in B
      BY <3>1
    <3> HIDE DEF A, B
    <3>3. events \in Seq(B)
      BY <3>2, SeqOfElements
    <3> QED BY <3>3 DEF B
  <2>5. ASSUME NEW v \in Viewers PROVE wire[v] \o events \in Seq(BoundFrame)
                                       /\ wire[v] \in Seq(BoundFrame)
    <3>1. wire[v] \in Seq(BoundFrame)
      BY DEF LyricsBound
    <3> HIDE DEF BoundFrame
    <3> QED BY <2>4, <3>1, ConcatProperties
  <2> QED BY <2>2, <2>3, <2>5
<1> QED BY <1>2, <1>3

LEMMA FrameKeepsLyrics ==
    ASSUME NEW k \in {"guest", "host", "tv"}, NEW p, PageOK(k, p), BoundPage(p),
           NEW f \in BoundFrame
    PROVE  BoundPage(HandleMessage(k, p, f))
<1>1. f \in Frame /\ DOMAIN p = PageFields
  BY DEF BoundFrame, PageOK
<1>2. Documents(p, HandleMessage(k, p, f), f)
  BY <1>1, FrameIs, EventOnPage, SnapshotOnPage
<1> DEFINE q == HandleMessage(k, p, f)
<1> HIDE DEF q
<1> SUFFICES BoundPage(q)
  BY DEF q
<1>3. CASE q.lyricsByUri \in {None, p.lyricsByUri}
  BY <1>3 DEF BoundPage
<1>4. CASE f.type = "lyrics.loaded" /\ q.lyricsByUri = [uri |-> f.trackUri, doc |-> f.lyrics]
  BY <1>4 DEF BoundPage, BoundFrame
<1>5. CASE /\ f.type = "_snapshot"
           /\ q.lyricsByUri = [uri |-> f.snapshot.nowPlaying, doc |-> f.snapshot.lyrics]
  BY <1>5 DEF BoundPage, BoundFrame, BoundRoom
<1> QED BY <1>2, <1>3, <1>4, <1>5 DEF Documents, q

LEMMA BoundSnapshotFrame ==
    ASSUME NEW s \in BoundRoom
    PROVE  SnapshotFrame(s) \in BoundFrame
<1>1. s \in SessionSnapshot
  BY DEF BoundRoom
<1>2. SnapshotFrame(s) \in Frame
  BY <1>1, SnapshotFrameType
<1> QED BY <1>2 DEF SnapshotFrame, BoundFrame

LEMMA GreetKeepsLyrics ==
    ASSUME TypeOK, LyricsBound, NEW k, NEW s \in BoundRoom, Greet(k, s)
    PROVE  wire' \in [Viewers -> Seq(BoundFrame)]
<1>1. wire' = [v \in Viewers |-> IF v = loads[k].for
                                 THEN Append(wire[v], SnapshotFrame(s)) ELSE wire[v]]
  BY DEF Greet
<1> DEFINE f == SnapshotFrame(s)
<1>2. f \in BoundFrame
  BY BoundSnapshotFrame
<1> HIDE DEF f
<1>3. ASSUME NEW v \in Viewers
      PROVE  Append(wire[v], f) \in Seq(BoundFrame) /\ wire[v] \in Seq(BoundFrame)
  <2>1. wire[v] \in Seq(BoundFrame)
    BY DEF LyricsBound
  <2> HIDE DEF BoundFrame
  <2> QED BY <1>2, <2>1, AppendProperties
<1> QED BY <1>1, <1>3 DEF f

LEMMA LyricsBoundStep ==
    ASSUME TypeOK, Alive, LyricsBound, [Next]_vars
    PROVE  LyricsBound'
<1>1. ASSUME UNCHANGED <<room, wire, page>> PROVE LyricsBound'
  BY <1>1 DEF LyricsBound
<1>2. ASSUME NEW events \in Seq(SessionEvent), Publish(events), page' = page,
             \A n \in DOMAIN events : events[n].type # "lyrics.loaded"
      PROVE  LyricsBound'
  BY <1>2, PublishKeepsLyrics DEF LyricsBound
<1>3. CASE UNCHANGED vars
  BY <1>1, <1>3 DEF vars, server, browser
<1>4. CASE RowChanges \/ Claiming
  BY <1>1, <1>4 DEF RowChanges, Claiming, server, browser
<1>5. ASSUME NEW t \in Maybe(Tracks), NEW changed \in BOOLEAN, Tick(t, changed)
      PROVE  LyricsBound'
  <2> DEFINE events == TickEvents(t, changed)
  <2>1. Publish(events) /\ page' = page
    BY <1>5 DEF Tick, TickEvents
  <2>2. events \in Seq(SessionEvent) /\ events \in Seq(TickEvent(t))
    BY TickEventsType
  <2> HIDE DEF events
  <2>3. \A n \in DOMAIN events : events[n] \in TickEvent(t)
    BY <2>2, LenProperties, ElementOfSeq
  <2>4. \A n \in DOMAIN events : events[n].type # "lyrics.loaded"
    BY <2>3 DEF TickEvent
  <2> QED BY <1>2, <2>1, <2>2, <2>4
<1>6. ASSUME NEW e, Broadcast(e) PROVE LyricsBound'
  <2>1. e \in OtherEvent /\ Publish(<<e>>) /\ page' = page
    BY <1>6 DEF Broadcast, TypeOK
  <2>2. <<e>> \in Seq(SessionEvent) /\ \A n \in DOMAIN <<e>> : <<e>>[n].type # "lyrics.loaded"
    BY <2>1, OtherEventsAre
  <2> QED BY <1>2, <2>1, <2>2
<1>7. ASSUME NEW k, Announce(k) PROVE LyricsBound'
  <2>1. Publish(owed[k].events) /\ page' = page /\ k \in DOMAIN owed
    BY <1>7 DEF Announce
  <2>2. owed[k].events \in Seq(SessionEvent)
    BY <1>7, AnnounceType
  <2>3. owed[k].events \in Seq(RowEvent)
    <3>1. owed[k] \in Owed
      BY <2>1, LenProperties, ElementOfSeq DEF TypeOK
    <3> QED BY <3>1 DEF Owed
  <2>4. \A n \in DOMAIN owed[k].events : owed[k].events[n] \in RowEvent
    BY <2>3, LenProperties, ElementOfSeq
  <2>5. \A n \in DOMAIN owed[k].events : owed[k].events[n].type # "lyrics.loaded"
    BY <2>4 DEF RowEvent
  <2> QED BY <1>2, <2>1, <2>2, <2>5
<1>8. ASSUME NEW t \in Tracks, NEW doc \in {t, None}, LookupEnds(t, doc) PROVE LyricsBound'
  <2> DEFINE e == [type |-> "lyrics.loaded", trackUri |-> t, lyrics |-> doc]
             events == <<e>>
  <2>1. /\ page' = page
        /\ \/ room.nowPlaying = t /\ Publish(events)
           \/ UNCHANGED <<room, wire>>
    BY <1>8 DEF LookupEnds, IsCurrent
  <2>2. e \in SessionEvent
    BY DEF SessionEvent, Maybe
  <2>3. events \in Seq(SessionEvent)
    BY <2>2
  <2>4. \A n \in DOMAIN events : /\ events[n].type = "lyrics.loaded"
                                 /\ events[n].trackUri = t /\ events[n].lyrics \in {None, t}
    OBVIOUS
  <2> HIDE DEF events
  <2>5. CASE room.nowPlaying = t /\ Publish(events)
    BY <2>1, <2>3, <2>4, <2>5, PublishKeepsLyrics DEF LyricsBound
  <2> QED BY <1>1, <2>1, <2>5
<1>9. CASE Loading
  <2>1. PICK k \in DOMAIN loads : LoadItems(k) \/ Hydrate(k) \/ HydrateFails(k)
    BY <1>9 DEF Loading
  <2>2. room \in SessionSnapshot
    BY <2>1 DEF Alive, TypeOK
  <2>3. room \in BoundRoom
    BY <2>2, NoneIsNoSnapshot DEF LyricsBound
  <2>4. CASE LoadItems(k)
    BY <1>1, <2>4 DEF LoadItems, browser
  <2>5. CASE Hydrate(k)
    <3>1. room' = MergeInto(room, loads[k].read) /\ loads[k].read \in Row /\ rows \in Row
          /\ Greet(k, room')
      BY <2>5 DEF Hydrate, TypeOK
    <3>2. /\ MergeInto(room, loads[k].read) \in SessionSnapshot
          /\ MergeInto(room, loads[k].read).lyrics = room.lyrics
          /\ MergeInto(room, loads[k].read).nowPlaying = room.nowPlaying
      BY <2>2, <3>1, MergeKeeps DEF SnapshotFields
    <3>3. room' \in BoundRoom
      BY <2>3, <3>1, <3>2 DEF BoundRoom
    <3>4. page' = page
      BY <3>1 DEF Greet
    <3> QED BY <3>1, <3>3, <3>4, GreetKeepsLyrics DEF LyricsBound
  <2>6. CASE HydrateFails(k)
    <3>1. room' = room /\ Greet(k, room) /\ page' = page
      BY <2>6 DEF HydrateFails, Greet
    <3> QED BY <2>3, <3>1, GreetKeepsLyrics DEF LyricsBound
  <2> QED BY <2>1, <2>4, <2>5, <2>6
<1>10. CASE Restart
  <2>1. room' = None /\ page' = page /\ wire' = [v \in Viewers |-> <<>>]
    BY <1>10 DEF Restart
  <2>2. wire' \in [Viewers -> Seq(BoundFrame)]
    BY <2>1, EmptySeq
  <2> QED BY <2>1, <2>2 DEF LyricsBound
<1>11. CASE QuietStep
  BY <1>1, <1>11, QuietType DEF server
<1>12. ASSUME NEW v \in Viewers, Drop(v) \/ Leave(v) PROVE LyricsBound'
  <2>1. room' = room /\ page' = page
        /\ wire' = [u \in Viewers |-> IF u \in {v} THEN <<>> ELSE wire[u]]
    BY <1>12 DEF Drop, Leave, Unsubscribe
  <2>2. wire' \in [Viewers -> Seq(BoundFrame)]
    BY <2>1, EmptySeq DEF LyricsBound
  <2> QED BY <2>1, <2>2 DEF LyricsBound
<1>13. ASSUME NEW v \in Viewers, OnOpen(v) PROVE LyricsBound'
  <2> DEFINE r == IF room = None THEN CreateEmptySnapshot ELSE room
  <2>1. r \in BoundRoom
    BY EmptySnapshotType DEF BoundRoom, CreateEmptySnapshot, LyricsBound
  <2>2. /\ room' = r /\ page' = page
        /\ wire' = wire \/ wire' = [wire EXCEPT ![v] = <<SnapshotFrame(r)>>]
    BY <1>13 DEF OnOpen
  <2> HIDE DEF r
  <2>3. <<SnapshotFrame(r)>> \in Seq(BoundFrame)
    BY <2>1, BoundSnapshotFrame
  <2>4. wire' \in [Viewers -> Seq(BoundFrame)]
    BY <2>2, <2>3 DEF LyricsBound
  <2> QED BY <2>1, <2>2, <2>4 DEF LyricsBound
<1>14. ASSUME NEW v \in Viewers, Receive(v) PROVE LyricsBound'
  <2> DEFINE w == wire[v]
             F == BoundFrame
  <2>1. w \in Seq(F) /\ w # <<>>
    BY <1>14 DEF Receive, LyricsBound
  <2> HIDE DEF w, F
  <2>2. Head(w) \in F /\ Tail(w) \in Seq(F)
    BY <2>1, HeadTailProperties
  <2> USE DEF w, F
  <2>3. /\ wire' = [wire EXCEPT ![v] = Tail(w)] /\ room' = room
        /\ page' = [page EXCEPT ![v] = HandleMessage(kind[v], page[v], Head(w))]
    BY <1>14 DEF Receive, server
  <2>4. wire' \in [Viewers -> Seq(BoundFrame)]
    BY <2>2, <2>3 DEF LyricsBound
  <2>5. BoundPage(HandleMessage(kind[v], page[v], Head(w)))
    BY <2>2, FrameKeepsLyrics DEF TypeOK, LyricsBound
  <2>6. \A u \in Viewers : BoundPage(page'[u])
    BY <2>3, <2>5 DEF TypeOK, LyricsBound
  <2> QED BY <2>3, <2>4, <2>6 DEF LyricsBound
<1>15. ASSUME NEW v \in Viewers, NEW k, QueueAnswered(v, k) PROVE LyricsBound'
  <2>1. /\ page' = [page EXCEPT ![v] =
                       IF conn[v] = "asking" THEN Bootstrapped(kind[v], page[v], answers[v][k])
                       ELSE QueueArrives(kind[v], page[v], answers[v][k].queue)]
        /\ UNCHANGED <<room, wire>>
    BY <1>15 DEF QueueAnswered, server
  <2>2. PageOK(kind[v], page[v]) /\ DOMAIN page = Viewers
    BY DEF TypeOK
  <2>3. page'[v].lyricsByUri = page[v].lyricsByUri
    BY <2>1, <2>2, AnswerKeeps DEF SameView
  <2>4. \A u \in Viewers : page'[u].lyricsByUri = page[u].lyricsByUri
    BY <2>1, <2>2, <2>3
  <2> QED BY <2>1, <2>4 DEF LyricsBound, BoundPage
<1>16. ASSUME NEW v \in Viewers, Presses(v) \/ Answered(v) PROVE LyricsBound'
  <2>1. /\ UNCHANGED <<room, wire>>
        /\ \A u \in Viewers : page'[u] = page[u] \/ SameView(page[u], page'[u])
    BY <1>16, PressesType, AnsweredType DEF server
  <2> QED BY <2>1 DEF LyricsBound, BoundPage, SameView
<1>17. ASSUME NEW v \in Viewers, ServeRow(v) \/ Refuse(v) PROVE LyricsBound'
  BY <1>1, <1>17, RefuseType DEF ServeRow, server
<1>18. ASSUME NEW v \in Viewers, ServeTrack(v) PROVE LyricsBound'
  <2>1. ASSUME NEW e \in OtherEvent, Publish(<<e>>) PROVE LyricsBound'
    <3>1. <<e>> \in Seq(SessionEvent) /\ \A n \in DOMAIN <<e>> : <<e>>[n].type # "lyrics.loaded"
      BY OtherEventsAre
    <3>2. page' = page
      BY <1>18 DEF ServeTrack
    <3> QED BY <1>2, <2>1, <3>1, <3>2
  <2>2. page' = page
    BY <1>18 DEF ServeTrack
  <2> QED BY <1>1, <1>18, <2>1, <2>2, ServeTrackType
<1>19. Next => Step
  BY NextIsStep
<1> QED BY <1>3, <1>4, <1>5, <1>6, <1>7, <1>8, <1>9, <1>10, <1>11, <1>12, <1>13, <1>14, <1>15,
          <1>16, <1>17, <1>18, <1>19 DEF Step

\* However late a lookup of lyrics ends and however often the track changes
\* meanwhile, across drops, restarts and hydrations, neither the room nor a
\* page of any kind binds one track's lyrics to another: the look at the room
\* before publishing (fetchAndPublishLyrics) is enough, because nothing else
\* that is sent carries lyrics of a track that is not the room's.
THEOREM LyricsStayWithTheirTrack == Spec => []LyricsAreOfTheTrack
<1>1. Init => LyricsBound
  <2> SUFFICES ASSUME Init PROVE LyricsBound
    OBVIOUS
  <2>1. wire \in [Viewers -> Seq(BoundFrame)]
    BY EmptySeq DEF Init
  <2> QED BY <2>1 DEF Init, LyricsBound, BoundPage, EmptyPage
<1>2. LyricsBound => LyricsAreOfTheTrack
  BY DEF LyricsBound, LyricsAreOfTheTrack, BoundRoom, BoundPage
<1>3. TypeOK /\ Alive /\ LyricsBound /\ [Next]_vars => LyricsBound'
  BY LyricsBoundStep
<1> QED BY <1>1, <1>2, <1>3, RoomTypeCorrect, PTL DEF Spec

-----------------------------------------------------------------------------
(* No request is missing.                                                  *)

\* What NothingMissing excludes for one item.
Missed(i) ==
    /\ rows[i].status \in OpenRow /\ i \notin reopened \cup stranded
    /\ ~Announcing(i) /\ ~Held(room, i)

\* A rejection or a removal on its way finds its row decided: what would
\* open it again is in `reopened'.
OwedLate ==
    \A k \in DOMAIN owed : \A i \in Items :
        Spares(owed[k].events, i) \/ rows[i].status \notin OpenRow \cup {"none"}
        \/ i \in reopened

\* What the room misses while a handler reads, the handler has read.
ReadsCover ==
    \A k \in DOMAIN loads : loads[k].step = "claims" =>
        \A i \in Items : Missed(i) => loads[k].read[i].status \in OpenRow

Complete == hydrated => \A i \in Items : ~Missed(i)

\* One call's write of row i: it opens the row only if it announces it, and
\* rejects or removes the item only if it closes the row.
WrittenAs(i, events, for) ==
    /\ owed' = Append(owed, [events |-> events, for |-> for])
    /\ reopened \subseteq reopened' /\ UNCHANGED <<stranded, claiming>>
    /\ \A j \in Items : j # i => rows'[j] = rows[j]
    /\ \A j \in Items : j # i => Spares(events, j)
    /\ rows'[i].status \in OpenRow /\ i \notin reopened' =>
          \/ rows[i].status \in OpenRow
          \/ \E n \in DOMAIN events :
                events[n].type = "queue.item_requested" /\ events[n].item.id = i
    /\ Spares(events, i) \/ rows'[i].status \notin OpenRow \cup {"none"}
    /\ rows[i].status \notin OpenRow \cup {"none"} =>
          rows'[i].status \notin OpenRow \cup {"none"} \/ i \in reopened'

Written(i) == \E events \in Seq(RowEvent), for \in Caller : WrittenAs(i, events, for)

LEMMA RequestWritten ==
    ASSUME TypeOK, NEW i \in Items, NEW for \in Caller, Request(i, for)
    PROVE  Written(i)
<1> DEFINE row == Created(<<>>)
           events == Requested(i, <<>>)
<1>1. row.status \in OpenRow
  BY CreatedType
<1>2. Write(i, row, events, for) /\ reopened' = reopened /\ rows[i].status = "none"
  BY DEF Request
<1>3. /\ events \in Seq(RowEvent) /\ 1 \in DOMAIN events
      /\ events[1].type = "queue.item_requested" /\ events[1].item.id = i
      /\ \A n \in DOMAIN events :
            events[n].type \notin {"queue.item_rejected", "queue.item_removed"}
  BY RequestedEvents
<1> HIDE DEF row, events
<1>4. \A j : Spares(events, j)
  BY <1>3 DEF Spares
<1>5. /\ owed' = Append(owed, [events |-> events, for |-> for])
      /\ rows' = [rows EXCEPT ![i] = row] /\ UNCHANGED <<stranded, claiming>>
  BY <1>2 DEF Write
<1>6. rows'[i] = row /\ \A j \in Items : j # i => rows'[j] = rows[j]
  BY <1>5 DEF TypeOK, Row
<1>7. WrittenAs(i, events, for)
  BY <1>1, <1>2, <1>3, <1>4, <1>5, <1>6 DEF WrittenAs
<1> QED BY <1>3, <1>7 DEF Written

LEMMA DecideWritten ==
    ASSUME TypeOK, NEW i \in Items, NEW d \in {"approved", "rejected"}, NEW for \in Caller,
           Decide(i, d, for)
    PROVE  Written(i)
<1> DEFINE row == [rows[i] EXCEPT !.status = d]
           e == ItemEvent(d, i)
           events == <<e>>
<1>1. rows[i] \in RowType /\ row.status = d
  BY DEF TypeOK, Row, RowType
<1>2. events \in Seq(RowEvent)
  BY ItemEventType
<1>3. /\ Write(i, row, events, for) /\ rows[i].status \notin Absent
      /\ reopened' = IF rows[i].status \in {"rejected", "played"} /\ d = "approved"
                     THEN reopened \cup {i} ELSE reopened
  BY DEF Decide
<1>4. e.itemId = i /\ (d = "approved" => e.type = "queue.item_approved")
  BY DEF ItemEvent
<1>5. DOMAIN events = {1} /\ events[1] = e
  OBVIOUS
<1> HIDE DEF row, e, events
<1>6. /\ \A j : j # i => Spares(events, j)
      /\ d = "approved" => Spares(events, i)
  BY <1>4, <1>5 DEF Spares
<1>7. /\ owed' = Append(owed, [events |-> events, for |-> for])
      /\ rows' = [rows EXCEPT ![i] = row] /\ UNCHANGED <<stranded, claiming>>
  BY <1>3 DEF Write
<1>8. rows'[i] = row /\ \A j \in Items : j # i => rows'[j] = rows[j]
  BY <1>7 DEF TypeOK, Row
<1>9. WrittenAs(i, events, for)
  BY <1>1, <1>3, <1>6, <1>7, <1>8
     DEF WrittenAs, RowType, QueueStatus, Absent, OpenRow, OpenStatuses
<1> QED BY <1>2, <1>9 DEF Written

LEMMA DeleteRowWritten ==
    ASSUME TypeOK, NEW i \in Items, NEW for \in Caller, DeleteRow(i, for)
    PROVE  Written(i)
<1> DEFINE row == [NoRow EXCEPT !.status = "removed"]
           e == ItemEvent("removed", i)
           events == <<e>>
<1>1. row.status = "removed"
  BY DEF NoRow
<1>2. events \in Seq(RowEvent)
  BY ItemEventType
<1>3. Write(i, row, events, for) /\ reopened' = reopened
  BY DEF DeleteRow
<1>4. e.itemId = i
  BY DEF ItemEvent
<1>5. DOMAIN events = {1} /\ events[1] = e
  OBVIOUS
<1> HIDE DEF row, e, events
<1>6. \A j : j # i => Spares(events, j)
  BY <1>4, <1>5 DEF Spares
<1>7. /\ owed' = Append(owed, [events |-> events, for |-> for])
      /\ rows' = [rows EXCEPT ![i] = row] /\ UNCHANGED <<stranded, claiming>>
  BY <1>3 DEF Write
<1>8. rows'[i] = row /\ \A j \in Items : j # i => rows'[j] = rows[j]
  BY <1>7 DEF TypeOK, Row
<1>9. WrittenAs(i, events, for)
  BY <1>1, <1>3, <1>6, <1>7, <1>8 DEF WrittenAs, OpenRow, OpenStatuses
<1> QED BY <1>2, <1>9 DEF Written

\* A vote or a mic claim changes the tally or the singers of an open row.
LEMMA MarkWritten ==
    ASSUME TypeOK, NEW i \in Items, rows[i].status \in OpenRow,
           NEW row \in RowType, row.status = rows[i].status, NEW e \in RowEvent,
           e.type \in {"skip_vote.updated", "karaoke.claim_added", "karaoke.claim_removed"},
           Write(i, row, <<e>>, None), reopened' = reopened
    PROVE  Written(i)
<1> DEFINE events == <<e>>
           R == RowEvent
<1>1. e \in R
  OBVIOUS
<1>2. events \in Seq(R) /\ None \in Caller
  <2> HIDE DEF R
  <2> QED BY <1>1 DEF Caller
<1>3. DOMAIN events = {1} /\ events[1] = e
  OBVIOUS
<1>4. Write(i, row, events, None)
  OBVIOUS
<1> HIDE DEF events
<1>5. \A j : Spares(events, j)
  BY <1>3 DEF Spares
<1>6. /\ owed' = Append(owed, [events |-> events, for |-> None])
      /\ rows' = [rows EXCEPT ![i] = row] /\ UNCHANGED <<stranded, claiming>>
  BY <1>4 DEF Write
<1>7. rows'[i] = row /\ \A j \in Items : j # i => rows'[j] = rows[j]
  BY <1>6 DEF TypeOK, Row
<1>8. WrittenAs(i, events, None)
  BY <1>5, <1>6, <1>7 DEF WrittenAs
<1> QED BY <1>2, <1>8 DEF Written

LEMMA CastVoteWritten ==
    ASSUME TypeOK, NEW i \in Items, CastVote(i)
    PROVE  Written(i)
<1> DEFINE votes == rows[i].skipVotes + 1
           row == [rows[i] EXCEPT !.skipVotes = votes]
           e == [type |-> "skip_vote.updated", itemId |-> i, votes |-> votes]
<1>1. rows[i] \in RowType
  BY DEF TypeOK, Row
<1>2. votes \in Nat /\ row \in RowType /\ row.status = rows[i].status
  BY <1>1 DEF RowType
<1>3. /\ Write(i, row, <<e>>, None) /\ reopened' = reopened /\ rows[i].status \in OpenRow
  BY DEF CastVote
<1> HIDE DEF row, votes
<1>4. e \in RowEvent /\ e.type = "skip_vote.updated"
  BY <1>2 DEF RowEvent, SessionEvent
<1> HIDE DEF e
<1> QED BY <1>2, <1>3, <1>4, MarkWritten

LEMMA ClaimsWritten ==
    ASSUME TypeOK, NEW i \in Items, NEW g \in Guests, Claim(i, g) \/ RemoveClaim(i, g)
    PROVE  Written(i)
<1>1. rows[i] \in RowType
  BY DEF TypeOK, Row
<1>2. PICK row \in RowType, type \in {"karaoke.claim_added", "karaoke.claim_removed"} :
         /\ Write(i, row, <<[type |-> type, itemId |-> i, guestId |-> g]>>, None)
         /\ reopened' = reopened /\ rows[i].status \in OpenRow /\ row.status = rows[i].status
  <2>1. CASE Claim(i, g)
    <3> DEFINE row == [rows[i] EXCEPT !.karaokeClaims = Append(@, g)]
    <3>1. row \in RowType /\ row.status = rows[i].status
      BY <1>1, NotOfRow DEF RowType
    <3> QED BY <2>1, <3>1 DEF Claim
  <2>2. CASE RemoveClaim(i, g)
    <3> DEFINE row == [rows[i] EXCEPT !.karaokeClaims = NotOf(@, g)]
    <3>1. row \in RowType /\ row.status = rows[i].status
      BY <1>1, NotOfRow DEF RowType
    <3> QED BY <2>2, <3>1 DEF RemoveClaim
  <2> QED BY <2>1, <2>2
<1> DEFINE e == [type |-> type, itemId |-> i, guestId |-> g]
<1>4. e \in RowEvent /\ e.type \in {"karaoke.claim_added", "karaoke.claim_removed"}
  BY DEF RowEvent, SessionEvent
<1>5. Write(i, row, <<e>>, None)
  BY <1>2
<1> HIDE DEF e
<1> QED BY <1>2, <1>4, <1>5, MarkWritten

\* Every write of the store.
LEMMA StoreWrites ==
    ASSUME TypeOK, RowChanges \/ Claiming \/ \E v \in Viewers : ServeRow(v)
    PROVE  /\ UNCHANGED <<room, hydrated, loads>>
           /\ \E i \in Items :
                 \/ Written(i)
                 \/ \E s \in {"playing", "played"} : Reconciles(i, s)
                 \/ \E g \in Guests : InsertItem(i, g) \/ InsertClaim(i, g) \/ ClaimFails(i, g)
<1>1. CASE RowChanges
  <2>1. PICK i \in Items :
          \/ Request(i, None) \/ \E g \in Guests : InsertItem(i, g)
          \/ \E d \in {"approved", "rejected"} : Decide(i, d, None)
          \/ DeleteRow(i, None)
          \/ CastVote(i)
          \/ \E g \in Guests : Claim(i, g) \/ RemoveClaim(i, g)
          \/ \E s \in {"playing", "played"} : Reconciles(i, s)
    BY <1>1 DEF RowChanges
  <2>2. None \in Caller
    BY DEF Caller
  <2>3. UNCHANGED <<room, hydrated, loads>>
    BY <1>1 DEF RowChanges, server
  <2> QED BY <2>1, <2>2, <2>3, RequestWritten, DecideWritten, DeleteRowWritten, CastVoteWritten,
            ClaimsWritten
<1>2. ASSUME NEW v \in Viewers, ServeRow(v)
      PROVE  /\ UNCHANGED <<room, hydrated, loads>>
             /\ \E i \in Items : Written(i)
  <2>1. v \in Caller /\ ask[v] \in AskType
    BY DEF Caller, TypeOK
  <2>2. UNCHANGED <<room, hydrated, loads>>
    BY <1>2 DEF ServeRow, server
  <2>3. CASE ask[v].op = "pick" /\ Request(ask[v].item, v)
    BY <2>1, <2>2, <2>3, RequestWritten DEF AskType, RowOps
  <2>4. CASE ask[v].op = "removeOwn" /\ DeleteRow(ask[v].item, v)
    BY <2>1, <2>2, <2>4, DeleteRowWritten DEF AskType, RowOps
  <2>5. CASE ask[v].op \in {"approved", "rejected"} /\ Decide(ask[v].item, ask[v].op, v)
    BY <2>1, <2>2, <2>5, DecideWritten DEF AskType, RowOps
  <2>6. CASE ask[v].op = "removeRow" /\ ask[v].item # None /\ Decide(ask[v].item, "rejected", v)
    BY <2>1, <2>2, <2>6, DecideWritten DEF AskType, Maybe
  <2> QED BY <1>2, <2>3, <2>4, <2>5, <2>6 DEF ServeRow
<1>3. CASE Claiming
  BY <1>3 DEF Claiming, server
<1> QED BY <1>1, <1>2, <1>3

LEMMA AppendedElements ==
    ASSUME NEW E, NEW list \in Seq(E), NEW x \in E
    PROVE  \A n \in DOMAIN Append(list, x) :
              Append(list, x)[n] = x \/ \E j \in DOMAIN list : Append(list, x)[n] = list[j]
<1> DEFINE q == Append(list, x)
<1>1. /\ q \in Seq(E) /\ Len(q) = Len(list) + 1
      /\ \A i \in 1..Len(list) : q[i] = list[i]
      /\ q[Len(list) + 1] = x
  BY AppendProperties
<1>2. DOMAIN list = 1..Len(list) /\ Len(list) \in Nat
  OBVIOUS
<1> HIDE DEF q
<1>3. DOMAIN q = 1..(Len(list) + 1)
  BY <1>1
<1>4. \A n \in DOMAIN q : n = Len(list) + 1 \/ n \in DOMAIN list
  BY <1>2, <1>3
<1> QED BY <1>1, <1>2, <1>4 DEF q

LEMMA WrittenKeeps ==
    ASSUME TypeOK, OwedLate, NEW i \in Items, Written(i), room' = room
    PROVE  OwedLate' /\ \A j \in Items : Missed(j)' => Missed(j)
<1>1. PICK events \in Seq(RowEvent), for \in Caller : WrittenAs(i, events, for)
  BY DEF Written
<1> DEFINE o == [events |-> events, for |-> for]
<1>2. o \in Owed /\ o.events = events
  BY DEF Owed
<1>3. owed \in Seq(Owed) /\ owed' = Append(owed, o)
  BY <1>1 DEF TypeOK, WrittenAs
<1> HIDE DEF o
<1>4. /\ \A n \in DOMAIN owed : n \in DOMAIN owed' /\ owed'[n] = owed[n]
      /\ \E n \in DOMAIN owed' : owed'[n] = o
      /\ \A n \in DOMAIN owed' : owed'[n] = o \/ \E j \in DOMAIN owed : owed'[n] = owed[j]
  BY <1>2, <1>3, AppendToSeq, AppendedElements
<1>5. OwedLate'
  <2> SUFFICES ASSUME NEW k \in DOMAIN owed', NEW j \in Items
               PROVE  \/ Spares(owed'[k].events, j)
                      \/ rows'[j].status \notin OpenRow \cup {"none"}
                      \/ j \in reopened'
    BY DEF OwedLate
  <2>1. CASE owed'[k] = o
    BY <1>1, <1>2, <2>1 DEF WrittenAs
  <2>2. CASE owed'[k] # o
    <3>1. PICK m \in DOMAIN owed : owed'[k] = owed[m]
      BY <1>4, <2>2
    <3>2. \/ Spares(owed[m].events, j)
          \/ rows[j].status \notin OpenRow \cup {"none"}
          \/ j \in reopened
      BY DEF OwedLate
    <3> QED BY <1>1, <3>1, <3>2 DEF WrittenAs
  <2> QED BY <2>1, <2>2
<1>6. ASSUME NEW j \in Items, Missed(j)' PROVE Missed(j)
  <2>1. /\ rows'[j].status \in OpenRow /\ j \notin reopened' \cup stranded' /\ ~Announcing(j)'
        /\ ~Held(room', j)
    BY <1>6 DEF Missed
  <2>2. ~Announcing(j)
    BY <1>1, <1>4, <2>1 DEF Announcing, WrittenAs
  <2>3. ~\E n \in DOMAIN events :
            events[n].type = "queue.item_requested" /\ events[n].item.id = j
    BY <1>2, <1>4, <2>1 DEF Announcing
  <2>4. rows[j].status \in OpenRow
    BY <1>1, <2>1, <2>3 DEF WrittenAs
  <2>5. j \notin reopened \cup stranded
    BY <1>1, <2>1 DEF WrittenAs
  <2> QED BY <2>1, <2>2, <2>4, <2>5 DEF Missed
<1> QED BY <1>5, <1>6

LEMMA ReconcilesKeeps ==
    ASSUME TypeOK, OwedLate, NEW i \in Items, NEW s \in {"playing", "played"}, Reconciles(i, s),
           room' = room
    PROVE  OwedLate' /\ \A j \in Items : Missed(j)' => Missed(j)
<1>1. /\ rows[i].status \in OpenStatuses /\ rows' = [rows EXCEPT ![i].status = s]
      /\ UNCHANGED <<reopened, stranded, claiming, owed>>
  BY DEF Reconciles
<1>2. \A j \in Items : j # i => rows'[j] = rows[j]
  BY <1>1 DEF TypeOK, Row
<1>3. rows[i].status \in OpenRow /\ rows'[i].status \in {"playing", "played"}
  BY <1>1 DEF TypeOK, Row, RowType, OpenRow
<1>4. OwedLate'
  <2>1. ASSUME NEW k \in DOMAIN owed, NEW j \in Items
        PROVE  \/ Spares(owed[k].events, j)
               \/ rows'[j].status \notin OpenRow \cup {"none"}
               \/ j \in reopened
    BY <1>2, <1>3 DEF OwedLate
  <2> QED BY <1>1, <2>1 DEF OwedLate
<1>5. ASSUME NEW j \in Items, Missed(j)' PROVE Missed(j)
  <2>1. /\ rows'[j].status \in OpenRow /\ j \notin reopened' \cup stranded' /\ ~Announcing(j)'
        /\ ~Held(room', j)
    BY <1>5 DEF Missed
  <2>2. rows[j].status \in OpenRow
    BY <1>2, <1>3, <2>1
  <2>3. ~Announcing(j)
    BY <1>1, <2>1 DEF Announcing
  <2> QED BY <1>1, <2>1, <2>2, <2>3 DEF Missed
<1> QED BY <1>4, <1>5

\* The two steps between a request's row and its claim open no row that no
\* announcement is on its way for.
LEMMA ClaimingKeeps ==
    ASSUME TypeOK, OwedLate, NEW i \in Items, NEW g \in Guests,
           InsertItem(i, g) \/ InsertClaim(i, g) \/ ClaimFails(i, g), room' = room
    PROVE  OwedLate' /\ \A j \in Items : Missed(j)' => Missed(j)
<1>1. CASE InsertItem(i, g)
  <2>1. /\ rows[i].status = "none" /\ rows' = [rows EXCEPT ![i] = Created(<<>>)]
        /\ claiming' = claiming \cup {<<i, g>>} /\ UNCHANGED <<reopened, stranded, owed>>
    BY <1>1 DEF InsertItem
  <2>2. \A j \in Items : j # i => rows'[j] = rows[j]
    BY <2>1 DEF TypeOK, Row
  <2>3. OwedLate'
    BY <2>1, <2>2 DEF OwedLate
  <2>4. Announcing(i)' /\ \A j : Announcing(j) => Announcing(j)'
    BY <2>1 DEF Announcing
  <2> QED BY <1>1, <2>1, <2>2, <2>3, <2>4 DEF Missed
<1>2. CASE InsertClaim(i, g)
  <2> DEFINE events == Requested(i, <<g>>)
             o == [events |-> events, for |-> None]
  <2>1. /\ rows' = [rows EXCEPT ![i].karaokeClaims = Append(@, g)]
        /\ owed' = Append(owed, o) /\ claiming' = claiming \ {<<i, g>>}
        /\ UNCHANGED <<reopened, stranded>>
    BY <1>2 DEF InsertClaim
  <2>2. \A j \in Items : rows'[j].status = rows[j].status
    BY <2>1 DEF TypeOK, Row, RowType
  <2>3. /\ events \in Seq(RowEvent) /\ 1 \in DOMAIN events
        /\ events[1].type = "queue.item_requested" /\ events[1].item.id = i
        /\ \A n \in DOMAIN events :
              events[n].type \notin {"queue.item_rejected", "queue.item_removed"}
    BY RequestedEvents
  <2>4. o \in Owed /\ o.events = events /\ owed \in Seq(Owed)
    BY <2>3 DEF Owed, Caller, TypeOK
  <2> HIDE DEF o, events
  <2>5. /\ \A n \in DOMAIN owed : n \in DOMAIN owed' /\ owed'[n] = owed[n]
        /\ \E n \in DOMAIN owed' : owed'[n] = o
        /\ \A n \in DOMAIN owed' : owed'[n] = o \/ \E j \in DOMAIN owed : owed'[n] = owed[j]
    BY <2>1, <2>4, AppendToSeq, AppendedElements
  <2>6. \A j : Spares(o.events, j)
    BY <2>3, <2>4 DEF Spares
  <2>7. OwedLate'
    BY <2>1, <2>2, <2>5, <2>6 DEF OwedLate
  <2>8. Announcing(i)'
    BY <2>3, <2>4, <2>5 DEF Announcing
  <2>9. \A j \in Items : j # i /\ Announcing(j) => Announcing(j)'
    BY <2>1, <2>5 DEF Announcing
  <2> QED BY <2>1, <2>2, <2>7, <2>8, <2>9 DEF Missed
<1>3. CASE ClaimFails(i, g)
  <2>1. /\ claiming' = claiming \ {<<i, g>>} /\ stranded' = stranded \cup {i}
        /\ UNCHANGED <<rows, reopened, owed>>
    BY <1>3 DEF ClaimFails
  <2>2. \A j \in Items : j # i /\ Announcing(j) => Announcing(j)'
    BY <2>1 DEF Announcing
  <2> QED BY <2>1, <2>2 DEF Missed, OwedLate
<1> QED BY <1>1, <1>2, <1>3

\* Publishing loses no item but one it rejects or removes.
LEMMA PublishHolds ==
    ASSUME TypeOK, NEW events \in Seq(SessionEvent), Publish(events), room # None,
           NEW i, Spares(events, i), Held(room, i)
    PROVE  Held(room', i)
<1>1. room \in SessionSnapshot /\ room' = Applied(room, events)
  BY DEF TypeOK, Publish
<1> QED BY <1>1, AppliedHolds

\* The announcement of a call takes what was on its way into the room.
LEMMA AnnounceKeeps ==
    ASSUME TypeOK, OwedLate, NEW k, Announce(k)
    PROVE  /\ OwedLate'
           /\ room # None => \A j \in Items : Missed(j)' => Missed(j)
<1>1. /\ k \in DOMAIN owed /\ owed \in Seq(Owed) /\ owed' = RemoveAt(owed, k)
      /\ Publish(owed[k].events) /\ UNCHANGED <<rows, reopened, stranded, claiming>>
  BY DEF Announce, TypeOK
<1>2. owed[k].events \in Seq(SessionEvent)
  BY AnnounceType
<1>3. /\ \A n \in DOMAIN owed' : \E j \in DOMAIN owed : owed'[n] = owed[j]
      /\ \A j \in DOMAIN owed : j # k => \E n \in DOMAIN owed' : owed'[n] = owed[j]
  BY <1>1, RemoveAtKeeps
<1>4. OwedLate'
  <2> SUFFICES ASSUME NEW n \in DOMAIN owed', NEW j \in Items
               PROVE  \/ Spares(owed'[n].events, j)
                      \/ rows[j].status \notin OpenRow \cup {"none"}
                      \/ j \in reopened
    BY <1>1 DEF OwedLate
  <2>1. PICK m \in DOMAIN owed : owed'[n] = owed[m]
    BY <1>3
  <2> QED BY <2>1 DEF OwedLate
<1>5. ASSUME room # None, NEW j \in Items, Missed(j)' PROVE Missed(j)
  <2>1. /\ rows[j].status \in OpenRow /\ j \notin reopened \cup stranded /\ ~Announcing(j)'
        /\ ~Held(room', j)
    BY <1>1, <1>5 DEF Missed
  <2>2. Spares(owed[k].events, j)
    BY <1>1, <2>1 DEF OwedLate
  <2>3. ~Held(room, j)
    BY <1>1, <1>2, <1>5, <2>1, <2>2, PublishHolds
  <2>4. ASSUME NEW m \in DOMAIN owed, NEW n \in DOMAIN owed[m].events,
               owed[m].events[n].type = "queue.item_requested", owed[m].events[n].item.id = j
        PROVE  FALSE
    <3>1. CASE m = k
      <4>1. room \in SessionSnapshot /\ room' = Applied(room, owed[k].events)
        BY <1>1, <1>5 DEF TypeOK, Publish
      <4>2. Held(Applied(room, owed[k].events), j)
        BY <1>2, <2>2, <2>4, <3>1, <4>1, AppliedBrings
      <4> QED BY <2>1, <4>1, <4>2
    <3>2. CASE m # k
      <4>1. PICK q \in DOMAIN owed' : owed'[q] = owed[m]
        BY <1>3, <3>2
      <4>2. Announcing(j)'
        BY <2>4, <4>1 DEF Announcing
      <4> QED BY <2>1, <4>2
    <3> QED BY <3>1, <3>2
  <2>5. ~Announcing(j)
    BY <1>1, <2>1, <2>4 DEF Announcing
  <2> QED BY <2>1, <2>3, <2>5 DEF Missed
<1> QED BY <1>4, <1>5

\* All that is published but by a service spares every item.
LEMMA OthersHold ==
    ASSUME TypeOK, NEW events \in Seq(SessionEvent), Publish(events), room # None,
           \A n \in DOMAIN events :
              events[n].type \notin {"queue.item_rejected", "queue.item_removed"}
    PROVE  \A i : Held(room, i) => Held(room', i)
BY PublishHolds DEF Spares

LEMMA OwedLateStep ==
    ASSUME TypeOK, OwedLate, [Next]_vars
    PROVE  OwedLate'
<1>0. ASSUME UNCHANGED store PROVE OwedLate'
  BY <1>0 DEF store, OwedLate
<1>1. CASE UNCHANGED vars
  BY <1>0, <1>1 DEF vars
<1>2. CASE RowChanges \/ Claiming \/ \E v \in Viewers : ServeRow(v)
  BY <1>2, StoreWrites, WrittenKeeps, ReconcilesKeeps, ClaimingKeeps
<1>3. CASE \E k : Announce(k)
  BY <1>3, AnnounceKeeps
<1>4. CASE Restart
  BY <1>4 DEF Restart, OwedLate
<1>5. CASE \E t \in Maybe(Tracks), changed \in BOOLEAN : Tick(t, changed)
  BY <1>0, <1>5 DEF Tick
<1>6. CASE \E e : Broadcast(e)
  BY <1>0, <1>6 DEF Broadcast
<1>7. CASE \E t \in Tracks : \E doc \in {t, None} : LookupEnds(t, doc)
  BY <1>0, <1>7 DEF LookupEnds
<1>8. CASE Loading
  BY <1>0, <1>8 DEF Loading, LoadItems, Hydrate, HydrateFails, Greet
<1>9. CASE QuietStep
  BY <1>0, <1>9, QuietType
<1>10. CASE \E v \in Viewers : Presses(v) \/ Refuse(v) \/ Answered(v)
  BY <1>0, <1>10, PressesType, RefuseType, AnsweredType
<1>11. CASE \E v \in Viewers : \/ Drop(v) \/ Leave(v) \/ OnOpen(v) \/ Receive(v)
                               \/ ServeTrack(v) \/ \E k : QueueAnswered(v, k)
  BY <1>0, <1>11 DEF Drop, Leave, OnOpen, Receive, ServeTrack, QueueAnswered
<1>12. Next => Step
  BY NextIsStep
<1> QED BY <1>1, <1>2, <1>3, <1>4, <1>5, <1>6, <1>7, <1>8, <1>9, <1>10, <1>11, <1>12 DEF Step

\* While the room stays, no step makes it miss an item.
LEMMA MissedStep ==
    ASSUME TypeOK, Alive, OwedLate, room # None, room' # None, [Next]_vars
    PROVE  \A j \in Items : Missed(j)' => Missed(j)
<1>0. ASSUME UNCHANGED <<rows, reopened, stranded, claiming, owed>>, \A i : Held(room, i) => Held(room', i)
      PROVE  \A j \in Items : Missed(j)' => Missed(j)
  BY <1>0 DEF Missed, Announcing
<1>1. CASE UNCHANGED vars
  BY <1>0, <1>1 DEF vars, store, server
<1>2. CASE RowChanges \/ Claiming \/ \E v \in Viewers : ServeRow(v)
  BY <1>2, StoreWrites, WrittenKeeps, ReconcilesKeeps, ClaimingKeeps
<1>3. CASE \E k : Announce(k)
  BY <1>3, AnnounceKeeps
<1>4. CASE Restart
  BY <1>4 DEF Restart
<1>5. ASSUME NEW t \in Maybe(Tracks), NEW changed \in BOOLEAN, Tick(t, changed)
      PROVE  \A j \in Items : Missed(j)' => Missed(j)
  <2> DEFINE events == TickEvents(t, changed)
  <2>1. Publish(events) /\ UNCHANGED <<rows, reopened, stranded, claiming, owed>>
    BY <1>5 DEF Tick, TickEvents, store
  <2>2. events \in Seq(SessionEvent) /\ events \in Seq(TickEvent(t))
    BY TickEventsType
  <2> HIDE DEF events
  <2>3. \A n \in DOMAIN events : events[n] \in TickEvent(t)
    BY <2>2, LenProperties, ElementOfSeq
  <2>4. \A n \in DOMAIN events :
           events[n].type \notin {"queue.item_rejected", "queue.item_removed"}
    BY <2>3 DEF TickEvent
  <2> QED BY <1>0, <2>1, <2>2, <2>4, OthersHold
<1>6. ASSUME NEW e \in OtherEvent, Publish(<<e>>), UNCHANGED store
      PROVE  \A j \in Items : Missed(j)' => Missed(j)
  <2> DEFINE events == <<e>>
  <2>1. events \in Seq(SessionEvent) /\ DOMAIN events = {1} /\ events[1] = e
    BY OtherEventsAre
  <2>2. Publish(events)
    BY <1>6
  <2> HIDE DEF events
  <2>3. \A n \in DOMAIN events :
           events[n].type \notin {"queue.item_rejected", "queue.item_removed"}
    BY <2>1, OtherEventsAre
  <2> QED BY <1>0, <1>6, <2>1, <2>2, <2>3, OthersHold DEF store
<1>7. ASSUME NEW e, Broadcast(e) PROVE \A j \in Items : Missed(j)' => Missed(j)
  <2>1. e \in OtherEvent /\ Publish(<<e>>) /\ UNCHANGED store
    BY <1>7 DEF Broadcast, TypeOK
  <2> QED BY <1>6, <2>1
<1>8. ASSUME NEW t \in Tracks, NEW doc \in {t, None}, LookupEnds(t, doc)
      PROVE  \A j \in Items : Missed(j)' => Missed(j)
  <2> DEFINE e == [type |-> "lyrics.loaded", trackUri |-> t, lyrics |-> doc]
             events == <<e>>
  <2>1. /\ UNCHANGED <<rows, reopened, stranded, claiming, owed>>
        /\ Publish(events) \/ UNCHANGED <<room, wire>>
    BY <1>8 DEF LookupEnds, store
  <2>2. e \in SessionEvent
    BY DEF SessionEvent, Maybe
  <2>3. events \in Seq(SessionEvent) /\ DOMAIN events = {1} /\ events[1].type = "lyrics.loaded"
    BY <2>2
  <2> HIDE DEF events
  <2>4. \A n \in DOMAIN events :
           events[n].type \notin {"queue.item_rejected", "queue.item_removed"}
    BY <2>3
  <2> QED BY <1>0, <2>1, <2>3, <2>4, OthersHold
<1>9. CASE Loading
  <2>1. PICK k \in DOMAIN loads : LoadItems(k) \/ Hydrate(k) \/ HydrateFails(k)
    BY <1>9 DEF Loading
  <2>2. UNCHANGED <<rows, reopened, stranded, claiming, owed>>
    BY <2>1 DEF LoadItems, Hydrate, HydrateFails, Greet, store
  <2>3. \A i : Held(room, i) => Held(room', i)
    <3>1. CASE Hydrate(k)
      <4>1. room' = MergeInto(room, loads[k].read) /\ loads[k].read \in Row /\ rows \in Row
            /\ room \in SessionSnapshot
        BY <3>1 DEF Hydrate, TypeOK
      <4> QED BY <4>1, MergeKeeps
    <3>2. CASE LoadItems(k) \/ HydrateFails(k)
      BY <3>2 DEF LoadItems, HydrateFails
    <3> QED BY <2>1, <3>1, <3>2
  <2> QED BY <1>0, <2>2, <2>3
<1>10. CASE QuietStep
  BY <1>0, <1>10, QuietType DEF store, server
<1>11. CASE \E v \in Viewers : Presses(v) \/ Refuse(v) \/ Answered(v)
  BY <1>0, <1>11, PressesType, RefuseType, AnsweredType DEF store, server
<1>12. CASE \E v \in Viewers : Drop(v) \/ Leave(v) \/ OnOpen(v) \/ Receive(v)
                               \/ \E k : QueueAnswered(v, k)
  <2>1. UNCHANGED <<rows, reopened, stranded, claiming, owed>> /\ room' = room
    BY <1>12 DEF Drop, Leave, OnOpen, Receive, QueueAnswered, store, server
  <2> QED BY <1>0, <2>1
<1>13. ASSUME NEW v \in Viewers, ServeTrack(v)
       PROVE  \A j \in Items : Missed(j)' => Missed(j)
  <2>1. UNCHANGED store
    BY <1>13 DEF ServeTrack
  <2>2. CASE UNCHANGED <<room, wire>>
    BY <1>0, <2>1, <2>2 DEF store
  <2>3. CASE \E e \in OtherEvent : Publish(<<e>>)
    BY <1>6, <2>1, <2>3
  <2> QED BY <1>13, <2>2, <2>3, ServeTrackType
<1>14. Next => Step
  BY NextIsStep
<1> QED BY <1>1, <1>2, <1>3, <1>4, <1>5, <1>7, <1>8, <1>9, <1>10, <1>11, <1>12, <1>13, <1>14
        DEF Step

\* Where a handler between its two reads comes from.
LEMMA LoadsFrom ==
    ASSUME TypeOK, [Next]_vars, NEW k \in DOMAIN loads', loads'[k].step = "claims"
    PROVE  /\ loads # <<>>
           /\ \/ \E j \in DOMAIN loads : loads[j].step = "claims" /\ loads'[k].read = loads[j].read
              \/ loads'[k].read = rows /\ UNCHANGED rows
<1> DEFINE Same == \E j \in DOMAIN loads : loads[j].step = "claims" /\ loads'[k].read = loads[j].read
           Now == loads # <<>> /\ loads'[k].read = rows /\ UNCHANGED rows
<1> SUFFICES Same \/ Now
  BY DEF TypeOK
<1>0. ASSUME loads' = loads PROVE Same
  BY <1>0
<1>1. CASE UNCHANGED vars
  BY <1>0, <1>1 DEF vars, server
<1>2. CASE RowChanges \/ Claiming \/ \E v \in Viewers : ServeRow(v)
  BY <1>0, <1>2, StoreWrites
<1>3. CASE \E n : Announce(n)
  BY <1>0, <1>3 DEF Announce
<1>4. CASE Restart
  BY <1>4 DEF Restart
<1>5. CASE \/ \E t \in Maybe(Tracks), changed \in BOOLEAN : Tick(t, changed)
           \/ \E e : Broadcast(e)
           \/ \E t \in Tracks : \E doc \in {t, None} : LookupEnds(t, doc)
  BY <1>0, <1>5 DEF Tick, Broadcast, LookupEnds
<1>6. CASE Loading
  <2>1. PICK n \in DOMAIN loads : LoadItems(n) \/ Hydrate(n) \/ HydrateFails(n)
    BY <1>6 DEF Loading
  <2>2. CASE LoadItems(n)
    <3>1. /\ loads' = [loads EXCEPT ![n].step = "claims", ![n].read = rows]
          /\ UNCHANGED rows /\ loads \in Seq(Load)
      BY <2>2 DEF LoadItems, store, TypeOK
    <3>2. DOMAIN loads' = DOMAIN loads
      BY <3>1
    <3>3. CASE k = n
      <4>1. loads[n] \in Load
        BY <2>1, <3>1, LenProperties, ElementOfSeq
      <4>2. loads'[k].read = rows
        BY <3>1, <3>3, <4>1 DEF Load
      <4>3. loads # <<>>
        BY <2>1
      <4> QED BY <3>1, <4>2, <4>3
    <3>4. CASE k # n
      <4>1. loads'[k] = loads[k]
        BY <3>1, <3>2, <3>4
      <4> QED BY <3>2, <4>1
    <3> QED BY <3>3, <3>4
  <2>3. CASE Hydrate(n) \/ HydrateFails(n)
    <3>1. loads' = RemoveAt(loads, n) /\ loads \in Seq(Load)
      BY <2>3 DEF Hydrate, HydrateFails, Greet, TypeOK
    <3>2. \E j \in DOMAIN loads : loads'[k] = loads[j]
      BY <2>1, <3>1, RemoveAtKeeps
    <3> QED BY <3>2
  <2> QED BY <2>1, <2>2, <2>3
<1>7. CASE QuietStep
  BY <1>0, <1>7, QuietType DEF server
<1>8. CASE \E v \in Viewers : \/ Presses(v) \/ Refuse(v) \/ Answered(v) \/ Receive(v)
                              \/ ServeTrack(v) \/ \E n : QueueAnswered(v, n)
  BY <1>0, <1>8, PressesType, RefuseType, AnsweredType
     DEF Receive, ServeTrack, QueueAnswered, server
<1>9. ASSUME NEW v \in Viewers, Drop(v) \/ Leave(v) PROVE Same
  <2> DEFINE gone == {v}
  <2>1. gone \in SUBSET Viewers /\ Unsubscribe(gone)
    BY <1>9 DEF Drop, Leave
  <2> HIDE DEF gone
  <2>2. /\ DOMAIN loads' = DOMAIN loads
        /\ \A j \in DOMAIN loads : /\ loads'[j].step = loads[j].step
                                   /\ loads'[j].read = loads[j].read
    BY <2>1, UnsubscribeType
  <2> QED BY <2>2
<1>10. ASSUME NEW v \in Viewers, OnOpen(v) PROVE Same
  <2> DEFINE new == [for |-> v, step |-> "items", read |-> NotRead]
  <2>1. loads' = loads \/ loads' = Append(loads, new)
    BY <1>10 DEF OnOpen
  <2>2. new \in Load /\ new.step = "items" /\ loads \in Seq(Load)
    BY DEF Load, Caller, TypeOK
  <2> HIDE DEF new
  <2>3. loads' = Append(loads, new) => \E j \in DOMAIN loads : loads'[k] = loads[j]
    BY <2>2, AppendedElements
  <2> QED BY <1>0, <2>1, <2>3
<1>11. Next => Step
  BY NextIsStep
<1> QED BY <1>1, <1>2, <1>3, <1>4, <1>5, <1>6, <1>7, <1>8, <1>9, <1>10, <1>11 DEF Step

\* Only the end of a handler's two reads sets the session's mark.
LEMMA HydratedFrom ==
    ASSUME TypeOK, [Next]_vars, hydrated', ~hydrated
    PROVE  \E k \in DOMAIN loads : Hydrate(k)
<1>1. UNCHANGED vars => hydrated' = hydrated
  BY DEF vars, server
<1>2. RowChanges \/ Claiming \/ (\E v \in Viewers : ServeRow(v)) => hydrated' = hydrated
  BY StoreWrites
<1>3. (\E k : Announce(k)) => hydrated' = hydrated
  BY DEF Announce
<1>4. Restart => ~hydrated'
  BY DEF Restart
<1>5. \/ \E t \in Maybe(Tracks), changed \in BOOLEAN : Tick(t, changed)
      \/ \E e : Broadcast(e)
      \/ \E t \in Tracks : \E doc \in {t, None} : LookupEnds(t, doc)
      => hydrated' = hydrated
  BY DEF Tick, Broadcast, LookupEnds
<1>6. Loading => hydrated' = hydrated \/ \E k \in DOMAIN loads : Hydrate(k)
  BY DEF Loading, LoadItems, HydrateFails
<1>7. QuietStep => hydrated' = hydrated
  BY QuietType DEF server
<1>8. \A v \in Viewers :
         \/ Presses(v) \/ Refuse(v) \/ Answered(v) \/ Receive(v) \/ ServeTrack(v)
         \/ Drop(v) \/ Leave(v) \/ OnOpen(v) \/ \E n : QueueAnswered(v, n)
         => hydrated' = hydrated
  BY PressesType, RefuseType, AnsweredType
     DEF Receive, ServeTrack, Drop, Leave, OnOpen, QueueAnswered, server
<1>9. Next => Step
  BY NextIsStep
<1> QED BY <1>1, <1>2, <1>3, <1>4, <1>5, <1>6, <1>7, <1>8, <1>9 DEF Step

LEMMA CompleteStep ==
    ASSUME TypeOK, Alive, Alive', OwedLate, ReadsCover, Complete, [Next]_vars
    PROVE  ReadsCover' /\ Complete'
<1>1. ReadsCover'
  <2> SUFFICES ASSUME NEW k \in DOMAIN loads', loads'[k].step = "claims",
                      NEW i \in Items, Missed(i)'
               PROVE  loads'[k].read[i].status \in OpenRow
    BY DEF ReadsCover
  <2>1. /\ loads # <<>>
        /\ \/ \E j \in DOMAIN loads : loads[j].step = "claims" /\ loads'[k].read = loads[j].read
           \/ loads'[k].read = rows /\ UNCHANGED rows
    BY LoadsFrom
  <2>2. room # None
    BY <2>1 DEF Alive
  <2>3. room' # None
    <3>1. loads' # <<>>
      OBVIOUS
    <3> QED BY <3>1 DEF Alive
  <2>4. Missed(i)
    BY <2>2, <2>3, MissedStep
  <2> QED BY <2>1, <2>4 DEF ReadsCover, Missed
<1>2. Complete'
  <2> SUFFICES ASSUME hydrated', NEW i \in Items, Missed(i)' PROVE FALSE
    BY DEF Complete
  <2>1. room' # None
    BY DEF Alive
  <2>2. CASE hydrated
    <3>1. room # None
      BY <2>2 DEF Alive
    <3>2. Missed(i)
      BY <2>1, <3>1, MissedStep
    <3> QED BY <2>2, <3>2 DEF Complete
  <2>3. CASE ~hydrated
    <3>1. PICK k \in DOMAIN loads : Hydrate(k)
      BY <2>3, HydratedFrom
    <3>2. loads # <<>>
      BY <3>1
    <3>3. room # None /\ room \in SessionSnapshot
      BY <3>2 DEF Alive, TypeOK
    <3>4. Missed(i)
      BY <2>1, <3>3, MissedStep
    <3>5. /\ loads[k].step = "claims" /\ loads[k].read \in Row /\ rows \in Row
          /\ room' = MergeInto(room, loads[k].read)
      BY <3>1 DEF Hydrate, TypeOK
    <3>6. loads[k].read[i].status \in OpenRow
      BY <3>4, <3>5 DEF ReadsCover
    <3>7. Held(room', i)
      BY <3>3, <3>5, <3>6, MergeKeeps
    <3> QED BY <3>7 DEF Missed
  <2> QED BY <2>2, <2>3
<1> QED BY <1>1, <1>2

\* While requests, decisions, removals and the poller go on beside the two
\* reads of hydration, and after any restart, a hydrated room has every
\* request that waits or plays, but those whose claim or announcement is on
\* its way and, until the process starts again, those approved after they
\* were rejected or played and those whose claim could not be inserted: a
\* service announces after it has written, and the merge takes what the room
\* has not heard of.
THEOREM HydrationMissesNothing == Spec => []NothingMissing
<1>1. Init => OwedLate /\ ReadsCover /\ Complete
  BY DEF Init, OwedLate, ReadsCover, Complete
<1>2. TypeOK /\ Alive /\ Alive' /\ OwedLate /\ ReadsCover /\ Complete /\ [Next]_vars
      => OwedLate' /\ ReadsCover' /\ Complete'
  BY OwedLateStep, CompleteStep
<1>3. Complete => NothingMissing
  BY DEF Complete, Missed, NothingMissing, Held
<1> QED BY <1>1, <1>2, <1>3, RoomTypeCorrect, PTL DEF Spec

-----------------------------------------------------------------------------
(* The two reducers agree.                                                 *)

\* A page that shows the room, and two pages that show the same of it.
Shows(k, p, s) == Mirror(k, p) = Mirror(k, s) /\ Confirmed(p) = s.providerQueue

Agree(k, p, q) == Mirror(k, p) = Mirror(k, q) /\ Confirmed(p) = Confirmed(q)

LEMMA AllConfirmed ==
    ASSUME NEW k, NEW p, PageOK(k, p), p.added = 0
    PROVE  Confirmed(p) = p.providerQueue
<1> DEFINE w == p.providerQueue
           N == Len(w)
           u == SubSeq(w, 1, N - p.added)
<1>1. w \in Seq(Tracks) /\ N \in Nat /\ N - p.added = N
  BY LenProperties DEF PageOK
<1>2. \A i \in 1..N : w[i] \in Tracks
  BY <1>1, LenProperties, ElementOfSeq
<1>3. SubSeq(w, 1, N) = w
  <2> DEFINE x == SubSeq(w, 1, N)
  <2>1. /\ x \in Seq(Tracks) /\ Len(x) = IF 1 <= N THEN N - 1 + 1 ELSE 0
        /\ \A j \in 1..(N - 1 + 1) : x[j] = w[1 + j - 1]
    BY <1>1, <1>2, SubSeqProperties
  <2> HIDE DEF x, w, N
  <2>2. Len(x) = N /\ \A j \in 1..N : j \in 1..(N - 1 + 1) /\ 1 + j - 1 = j
    BY <1>1, <2>1
  <2>3. x = w
    BY <1>1, <2>1, <2>2, SeqEqual DEF N
  <2> QED BY <2>3 DEF x
<1> QED BY <1>1, <1>3 DEF Confirmed

\* An event does to the page what it does to the room.
LEMMA EventInStep ==
    ASSUME NEW k \in {"guest", "host", "tv"}, NEW p, PageOK(k, p),
           NEW s \in SessionSnapshot, NEW e \in SessionEvent, Shows(k, p, s)
    PROVE  Shows(k, HandleMessage(k, p, e), ApplyEvent(s, e))
<1> DEFINE q == HandleMessage(k, p, e)
           t == ApplyEvent(s, e)
<1>1. DOMAIN p = PageFields /\ e.type # "_snapshot" /\ e \in Frame
  BY EventFields DEF PageOK, Frame
<1>2. Mirrored(k, p, q, e)
  BY <1>1, EventOnPage
<1>3. Reduced(s, t, e)
  BY EventOnRoom
<1>4. PageOK(k, q)
  BY <1>1, FrameKeepsPage
<1> HIDE DEF q, t
<1>5. Mirror(k, q) = Mirror(k, t)
  <2>1. CASE k = "guest"
    <3>1. p.nowPlaying = s.nowPlaying /\ p.nowPlayingSkipVote = s.nowPlayingSkipVote
      BY <2>1 DEF Shows, Mirror
    <3>2. q.nowPlaying = t.nowPlaying /\ q.nowPlayingSkipVote = t.nowPlayingSkipVote
      BY <1>2, <1>3, <2>1, <3>1 DEF Mirrored, Reduced
    <3> QED BY <2>1, <3>2 DEF Mirror
  <2>2. CASE k = "host"
    <3>1. p.nowPlaying = s.nowPlaying
      BY <2>2 DEF Shows, Mirror
    <3>2. q.nowPlaying = t.nowPlaying
      BY <1>2, <1>3, <3>1 DEF Mirrored, Reduced
    <3> QED BY <2>2, <3>2 DEF Mirror
  <2>3. CASE k = "tv"
    <3>1. p.nowPlaying = s.nowPlaying /\ p.activeGuestCount = s.activeGuestCount
      BY <2>3 DEF Shows, Mirror
    <3>2. q.nowPlaying = t.nowPlaying /\ q.activeGuestCount = t.activeGuestCount
      BY <1>2, <1>3, <2>3, <3>1 DEF Mirrored, Reduced
    <3> QED BY <2>3, <3>2 DEF Mirror
  <2> QED BY <2>1, <2>2, <2>3
<1>6. Confirmed(q) = t.providerQueue
  <2>1. CASE e.type = "provider_queue.updated"
    <3>1. q.providerQueue = e.tracks /\ t.providerQueue = e.tracks
      BY <1>2, <1>3, <2>1 DEF Mirrored, Reduced
    <3>2. q.added = 0
      BY <1>2, <2>1 DEF Mirrored, PageOK
    <3> QED BY <1>4, <3>1, <3>2, AllConfirmed
  <2>2. CASE e.type # "provider_queue.updated"
    <3>1. q.providerQueue = p.providerQueue /\ q.added = p.added
          /\ t.providerQueue = s.providerQueue
      BY <1>2, <1>3, <2>2 DEF Mirrored, Reduced
    <3> QED BY <3>1 DEF Confirmed, Shows
  <2> QED BY <2>1, <2>2
<1> QED BY <1>5, <1>6 DEF Shows, q, t

\* A page is brought to the snapshot it is sent.
LEMMA SnapshotInStep ==
    ASSUME NEW k \in {"guest", "host", "tv"}, NEW p, PageOK(k, p), NEW s \in SessionSnapshot
    PROVE  Shows(k, HandleMessage(k, p, SnapshotFrame(s)), s)
<1> DEFINE f == SnapshotFrame(s)
           q == HandleMessage(k, p, f)
<1>1. f.type = "_snapshot" /\ f.snapshot = s /\ f \in Frame /\ DOMAIN p = PageFields
  BY SnapshotFrameType DEF SnapshotFrame, PageOK
<1> HIDE DEF f
<1>2. Took(k, q, f.snapshot) /\ PageOK(k, q)
  BY <1>1, SnapshotOnPage, FrameKeepsPage
<1> HIDE DEF q
<1>3. Confirmed(q) = s.providerQueue
  BY <1>1, <1>2, AllConfirmed DEF Took
<1>4. Mirror(k, q) = Mirror(k, s)
  BY <1>1, <1>2 DEF Took, Mirror
<1> QED BY <1>3, <1>4 DEF Shows, q, f

\* Pages that show the same still do after the same frame.
LEMMA FrameAgrees ==
    ASSUME NEW k \in {"guest", "host", "tv"}, NEW p, PageOK(k, p), NEW q, PageOK(k, q),
           Agree(k, p, q), NEW f \in Frame
    PROVE  Agree(k, HandleMessage(k, p, f), HandleMessage(k, q, f))
<1> DEFINE a == HandleMessage(k, p, f)
           b == HandleMessage(k, q, f)
<1>1. DOMAIN p = PageFields /\ DOMAIN q = PageFields
  BY DEF PageOK
<1>2. PageOK(k, a) /\ PageOK(k, b)
  BY FrameKeepsPage
<1>3. CASE f.type = "_snapshot"
  <2>1. Took(k, a, f.snapshot) /\ Took(k, b, f.snapshot)
    BY <1>1, <1>3, SnapshotOnPage
  <2> HIDE DEF a, b
  <2>2. Confirmed(a) = f.snapshot.providerQueue /\ Confirmed(b) = f.snapshot.providerQueue
    BY <1>2, <2>1, AllConfirmed DEF Took
  <2>3. Mirror(k, a) = Mirror(k, b)
    BY <2>1 DEF Took, Mirror
  <2> QED BY <2>2, <2>3 DEF Agree, a, b
<1>4. CASE f.type # "_snapshot"
  <2>1. Mirrored(k, p, a, f) /\ Mirrored(k, q, b, f)
    BY <1>1, <1>4, EventOnPage
  <2> HIDE DEF a, b
  <2>2. Mirror(k, a) = Mirror(k, b)
    <3>1. CASE k = "guest"
      <4>1. p.nowPlaying = q.nowPlaying /\ p.nowPlayingSkipVote = q.nowPlayingSkipVote
        BY <3>1 DEF Agree, Mirror
      <4>2. a.nowPlaying = b.nowPlaying /\ a.nowPlayingSkipVote = b.nowPlayingSkipVote
        BY <2>1, <3>1, <4>1 DEF Mirrored
      <4> QED BY <3>1, <4>2 DEF Mirror
    <3>2. CASE k = "host"
      <4>1. p.nowPlaying = q.nowPlaying
        BY <3>2 DEF Agree, Mirror
      <4>2. a.nowPlaying = b.nowPlaying
        BY <2>1, <4>1 DEF Mirrored
      <4> QED BY <3>2, <4>2 DEF Mirror
    <3>3. CASE k = "tv"
      <4>1. p.nowPlaying = q.nowPlaying /\ p.activeGuestCount = q.activeGuestCount
        BY <3>3 DEF Agree, Mirror
      <4>2. a.nowPlaying = b.nowPlaying /\ a.activeGuestCount = b.activeGuestCount
        BY <2>1, <3>3, <4>1 DEF Mirrored
      <4> QED BY <3>3, <4>2 DEF Mirror
    <3> QED BY <3>1, <3>2, <3>3
  <2>3. Confirmed(a) = Confirmed(b)
    <3>1. CASE f.type = "provider_queue.updated"
      <4>1. a.providerQueue = f.tracks /\ b.providerQueue = f.tracks
            /\ a.added = 0 /\ b.added = 0
        BY <2>1, <3>1 DEF Mirrored, PageOK
      <4> QED BY <1>2, <4>1, AllConfirmed
    <3>2. CASE f.type # "provider_queue.updated"
      <4>1. /\ a.providerQueue = p.providerQueue /\ a.added = p.added
            /\ b.providerQueue = q.providerQueue /\ b.added = q.added
        BY <2>1, <3>2 DEF Mirrored
      <4> QED BY <4>1 DEF Confirmed, Agree
    <3> QED BY <3>1, <3>2
  <2> QED BY <2>2, <2>3 DEF Agree, a, b
<1> QED BY <1>3, <1>4

-----------------------------------------------------------------------------
(* Frames one after the other.                                             *)

\* Any account of the frames, one by one, ends where Heard does.
LEMMA HeardIs ==
    ASSUME NEW E, NEW k, NEW p, NEW w \in Seq(E), NEW f, f[0] = p,
           \A n \in 1..Len(w) : f[n] = HandleMessage(k, f[n - 1], w[n])
    PROVE  Heard(k, p, w) = f[Len(w)]
<1> DEFINE N == Len(w)
<1>0. N \in Nat
  BY LenProperties
<1>1. PICK g : /\ g[0] = p
               /\ \A n \in 1..N : g[n] = HandleMessage(k, g[n - 1], w[n])
               /\ Heard(k, p, w) = g[N]
  BY HeardPath
<1>2. \A n \in 1..N : f[n] = HandleMessage(k, f[n - 1], w[n])
  OBVIOUS
<1> HIDE DEF N
<1> DEFINE S == {m \in Nat : f[m] = g[m]}
<1>3. 0 \in S
  BY <1>1
<1>4. ASSUME NEW m \in Nat, m < N, m \in S PROVE m + 1 \in S
  <2>1. m + 1 \in 1..N /\ (m + 1) - 1 = m
    BY <1>0, <1>4
  <2>2. f[m + 1] = HandleMessage(k, f[m], w[m + 1]) /\ g[m + 1] = HandleMessage(k, g[m], w[m + 1])
    BY <1>1, <1>2, <2>1
  <2> QED BY <1>4, <2>2
<1>5. N \in S
  <2> HIDE DEF S
  <2>1. 0..N \subseteq S
    BY <1>0, <1>3, <1>4, UpToInduction
  <2> QED BY <1>0, <2>1
<1> QED BY <1>1, <1>5 DEF N

LEMMA HeardNothing ==
    ASSUME NEW k, NEW p
    PROVE  Heard(k, p, <<>>) = p
<1> DEFINE w == <<>>
<1>1. w \in Seq({}) /\ Len(w) = 0
  BY EmptySeq
<1>2. ASSUME NEW u \in Seq({}) PROVE \E f : f[0] = p /\ Heard(k, p, u) = f[Len(u)]
  BY HeardPath
<1> HIDE DEF w
<1>3. PICK f : f[0] = p /\ Heard(k, p, w) = f[Len(w)]
  BY <1>1, <1>2
<1> QED BY <1>1, <1>3 DEF w

\* One more frame.
LEMMA HeardAppend ==
    ASSUME NEW E, NEW k, NEW p, NEW w \in Seq(E), NEW x \in E
    PROVE  Heard(k, p, Append(w, x)) = HandleMessage(k, Heard(k, p, w), x)
<1> DEFINE N == Len(w)
           u == Append(w, x)
<1>1. /\ N \in Nat /\ u \in Seq(E) /\ Len(u) = N + 1
      /\ \A i \in 1..N : u[i] = w[i]
      /\ u[N + 1] = x
  BY LenProperties, AppendProperties
<1> HIDE DEF u
<1>2. PICK g : /\ g[0] = p
               /\ \A n \in 1..Len(u) : g[n] = HandleMessage(k, g[n - 1], u[n])
               /\ Heard(k, p, u) = g[Len(u)]
  BY <1>1, HeardPath
<1>3. \A n \in 1..N : g[n] = HandleMessage(k, g[n - 1], w[n])
  <2>1. \A n \in 1..N : n \in 1..Len(u)
    BY <1>1
  <2> QED BY <1>1, <1>2, <2>1
<1>4. Heard(k, p, w) = g[N]
  BY <1>2, <1>3, HeardIs
<1>5. N + 1 \in 1..Len(u) /\ (N + 1) - 1 = N
  BY <1>1
<1>6. g[N + 1] = HandleMessage(k, g[N], x)
  BY <1>1, <1>2, <1>5
<1> QED BY <1>1, <1>2, <1>4, <1>6 DEF u

\* The first frame is taken off the wire.
LEMMA HeardTail ==
    ASSUME NEW E, NEW k, NEW p, NEW w \in Seq(E), w # <<>>
    PROVE  Heard(k, HandleMessage(k, p, Head(w)), Tail(w)) = Heard(k, p, w)
<1> DEFINE N == Len(w)
           u == Tail(w)
           q == HandleMessage(k, p, Head(w))
<1>1. /\ N \in Nat /\ N # 0 /\ u \in Seq(E) /\ Len(u) = N - 1 /\ Head(w) = w[1]
      /\ \A i \in 1..Len(u) : u[i] = w[i + 1]
  BY LenProperties, HeadTailProperties, EmptySeq
<1>2. PICK g : /\ g[0] = p
               /\ \A n \in 1..N : g[n] = HandleMessage(k, g[n - 1], w[n])
               /\ Heard(k, p, w) = g[N]
  BY HeardPath
<1> DEFINE f == [n \in 0..(N - 1) |-> g[n + 1]]
<1>3. f[0] = q
  <2>1. 1 \in 1..N /\ 1 - 1 = 0 /\ 0 \in 0..(N - 1) /\ 0 + 1 = 1
    BY <1>1
  <2>2. g[1] = HandleMessage(k, g[0], w[1])
    BY <1>2, <2>1
  <2> QED BY <1>1, <1>2, <2>1, <2>2
<1>4. ASSUME NEW n \in 1..Len(u) PROVE f[n] = HandleMessage(k, f[n - 1], u[n])
  <2>1. /\ n \in 0..(N - 1) /\ n - 1 \in 0..(N - 1) /\ (n - 1) + 1 = n
        /\ n + 1 \in 1..N /\ (n + 1) - 1 = n
    BY <1>1
  <2>2. g[n + 1] = HandleMessage(k, g[n], w[n + 1])
    BY <1>2, <2>1
  <2>3. f[n] = g[n + 1] /\ f[n - 1] = g[n]
    BY <2>1
  <2> QED BY <1>1, <2>2, <2>3
<1>5. f[Len(u)] = g[N]
  <2>1. N - 1 \in 0..(N - 1) /\ (N - 1) + 1 = N
    BY <1>1
  <2> QED BY <1>1, <2>1
<1>6. Heard(k, q, u) = f[Len(u)]
  <2>1. u \in Seq(E) /\ f[0] = q
        /\ \A n \in 1..Len(u) : f[n] = HandleMessage(k, f[n - 1], u[n])
    BY <1>1, <1>3, <1>4
  <2> HIDE DEF f, q, u
  <2> QED BY <2>1, HeardIs
<1> QED BY <1>2, <1>5, <1>6

LEMMA HeardKeepsPage ==
    ASSUME NEW k \in {"guest", "host", "tv"}, NEW p, PageOK(k, p), NEW w \in Seq(Frame)
    PROVE  PageOK(k, Heard(k, p, w))
<1> DEFINE N == Len(w)
<1>0. N \in Nat /\ \A n \in 1..N : w[n] \in Frame
  BY LenProperties, ElementOfSeq
<1>1. PICK g : /\ g[0] = p
               /\ \A n \in 1..N : g[n] = HandleMessage(k, g[n - 1], w[n])
               /\ Heard(k, p, w) = g[N]
  BY HeardPath
<1> HIDE DEF N
<1> DEFINE S == {m \in Nat : PageOK(k, g[m])}
<1>2. 0 \in S
  BY <1>1
<1>3. ASSUME NEW m \in Nat, m < N, m \in S PROVE m + 1 \in S
  <2>1. m + 1 \in 1..N /\ (m + 1) - 1 = m
    BY <1>0, <1>3
  <2>2. g[m + 1] = HandleMessage(k, g[m], w[m + 1])
    BY <1>1, <2>1
  <2> QED BY <1>0, <1>3, <2>1, <2>2, FrameKeepsPage
<1>4. N \in S
  <2> HIDE DEF S
  <2>1. 0..N \subseteq S
    BY <1>0, <1>2, <1>3, UpToInduction
  <2> QED BY <1>0, <2>1
<1> QED BY <1>1, <1>4

\* Pages that show the same still do after the same frames.
LEMMA HeardAgrees ==
    ASSUME NEW k \in {"guest", "host", "tv"}, NEW p, PageOK(k, p), NEW q, PageOK(k, q),
           Agree(k, p, q), NEW w \in Seq(Frame)
    PROVE  Agree(k, Heard(k, p, w), Heard(k, q, w))
<1> DEFINE N == Len(w)
<1>0. N \in Nat /\ \A n \in 1..N : w[n] \in Frame
  BY LenProperties, ElementOfSeq
<1>1. PICK g : /\ g[0] = p
               /\ \A n \in 1..N : g[n] = HandleMessage(k, g[n - 1], w[n])
               /\ Heard(k, p, w) = g[N]
  BY HeardPath
<1>2. PICK h : /\ h[0] = q
               /\ \A n \in 1..N : h[n] = HandleMessage(k, h[n - 1], w[n])
               /\ Heard(k, q, w) = h[N]
  BY HeardPath
<1> HIDE DEF N
<1> DEFINE S == {m \in Nat : PageOK(k, g[m]) /\ PageOK(k, h[m]) /\ Agree(k, g[m], h[m])}
<1>3. 0 \in S
  BY <1>1, <1>2
<1>4. ASSUME NEW m \in Nat, m < N, m \in S PROVE m + 1 \in S
  <2>1. m + 1 \in 1..N /\ (m + 1) - 1 = m
    BY <1>0, <1>4
  <2>2. /\ g[m + 1] = HandleMessage(k, g[m], w[m + 1])
        /\ h[m + 1] = HandleMessage(k, h[m], w[m + 1])
    BY <1>1, <1>2, <2>1
  <2> QED BY <1>0, <1>4, <2>1, <2>2, FrameKeepsPage, FrameAgrees
<1>5. N \in S
  <2> HIDE DEF S
  <2>1. 0..N \subseteq S
    BY <1>0, <1>3, <1>4, UpToInduction
  <2> QED BY <1>0, <2>1
<1> QED BY <1>1, <1>2, <1>5

\* A page that will show the room goes on to, whatever the room publishes.
LEMMA PublishInStep ==
    ASSUME NEW k \in {"guest", "host", "tv"}, NEW p, PageOK(k, p), NEW w \in Seq(Frame),
           NEW s \in SessionSnapshot, NEW events \in Seq(SessionEvent),
           Shows(k, Heard(k, p, w), s)
    PROVE  Shows(k, Heard(k, p, w \o events), Applied(s, events))
<1> DEFINE L == Len(w)
           N == Len(events)
           u == w \o events
           F == Frame
<1>0. /\ L \in Nat /\ N \in Nat /\ events \in Seq(F) /\ w \in Seq(F)
      /\ \A n \in 1..N : events[n] \in SessionEvent
  BY LenProperties, ElementOfSeq, EventsAreFrames
<1>1. /\ u \in Seq(F) /\ Len(u) = L + N
      /\ \A i \in 1..(L + N) : u[i] = IF i <= L THEN w[i] ELSE events[i - L]
  <2> HIDE DEF F
  <2> QED BY <1>0, ConcatProperties
<1> HIDE DEF u
<1>1a. ASSUME NEW z \in Seq(F)
       PROVE  \E g : /\ g[0] = p
                     /\ \A n \in 1..Len(z) : g[n] = HandleMessage(k, g[n - 1], z[n])
                     /\ Heard(k, p, z) = g[Len(z)]
  BY HeardPath
<1> HIDE DEF F
<1>2. PICK g : /\ g[0] = p
               /\ \A n \in 1..Len(u) : g[n] = HandleMessage(k, g[n - 1], u[n])
               /\ Heard(k, p, u) = g[Len(u)]
  BY <1>1, <1>1a
<1>3. PICK h : /\ h[0] = s
               /\ \A n \in 1..N : h[n] = ApplyEvent(h[n - 1], events[n])
               /\ Applied(s, events) = h[N]
  BY AppliedPath
<1> HIDE DEF L, N
<1>4. Heard(k, p, w) = g[L]
  <2>1. \A n \in 1..L : n \in 1..(L + N) /\ n <= L
    BY <1>0
  <2>2. \A n \in 1..L : g[n] = HandleMessage(k, g[n - 1], w[n])
    BY <1>1, <1>2, <2>1
  <2> QED BY <1>0, <1>2, <2>2, HeardIs DEF L
<1> DEFINE S == {m \in Nat : /\ PageOK(k, g[L + m]) /\ h[m] \in SessionSnapshot
                             /\ Shows(k, g[L + m], h[m])}
<1>5. 0 \in S
  <2>1. L + 0 = L
    BY <1>0
  <2>2. PageOK(k, g[L])
    BY <1>4, HeardKeepsPage
  <2> QED BY <1>3, <1>4, <2>1, <2>2
<1>6. ASSUME NEW m \in Nat, m < N, m \in S PROVE m + 1 \in S
  <2> DEFINE j == L + (m + 1)
  <2>1. /\ m + 1 \in 1..N /\ (m + 1) - 1 = m
        /\ j \in 1..(L + N) /\ ~(j <= L) /\ j - 1 = L + m /\ j - L = m + 1
    BY <1>0, <1>6
  <2> HIDE DEF j
  <2>2. h[m + 1] = ApplyEvent(h[m], events[m + 1])
    BY <1>3, <2>1
  <2>3. u[j] = events[m + 1]
    BY <1>1, <2>1
  <2>4. g[j] = HandleMessage(k, g[L + m], events[m + 1])
    <3>1. g[j] = HandleMessage(k, g[j - 1], u[j])
      BY <1>1, <1>2, <2>1
    <3> QED BY <2>1, <2>3, <3>1
  <2>5. events[m + 1] \in SessionEvent /\ events[m + 1] \in Frame
    BY <1>0, <2>1 DEF Frame
  <2>6. Shows(k, g[j], h[m + 1])
    BY <1>6, <2>2, <2>4, <2>5, EventInStep
  <2>7. PageOK(k, g[j])
    BY <1>6, <2>4, <2>5, FrameKeepsPage
  <2>8. h[m + 1] \in SessionSnapshot
    BY <1>6, <2>2, <2>5, ApplyEventFollows DEF Follows
  <2> QED BY <2>6, <2>7, <2>8 DEF j
<1>7. N \in S
  <2> HIDE DEF S
  <2>1. 0..N \subseteq S
    BY <1>0, <1>5, <1>6, UpToInduction
  <2> QED BY <1>0, <2>1
<1> QED BY <1>1, <1>2, <1>3, <1>7 DEF u

\* The page of v shows the room once its wire is empty.
Mirrors(v) == Shows(kind[v], Heard(kind[v], page[v], wire[v]), room)

LEMMA InStepIs == InStep <=> \A v \in Viewers : Greeted(v) => Mirrors(v)
BY DEF InStep, Mirrors, Shows

LEMMA GreetedFacts ==
    ASSUME TypeOK, Alive, NEW v \in Viewers, Greeted(v)
    PROVE  /\ v \in subs /\ conn[v] = "live" /\ room # None /\ room \in SessionSnapshot
BY DEF Greeted, Alive, TypeOK

LEMMA ViewerFacts ==
    ASSUME TypeOK, NEW v \in Viewers
    PROVE  /\ kind[v] \in {"guest", "host", "tv"} /\ PageOK(kind[v], page[v])
           /\ wire[v] \in Seq(Frame)
BY DEF TypeOK

LEMMA PublishMirrors ==
    ASSUME TypeOK, Alive, NEW v \in Viewers, Greeted(v), Mirrors(v),
           NEW events \in Seq(SessionEvent), Publish(events), UNCHANGED <<kind, page>>
    PROVE  Mirrors(v)'
<1>1. room # None /\ room \in SessionSnapshot /\ v \in subs
  BY GreetedFacts
<1>2. room' = Applied(room, events) /\ wire'[v] = wire[v] \o events
  BY <1>1 DEF Publish
<1>3. Shows(kind[v], Heard(kind[v], page[v], wire[v] \o events), Applied(room, events))
  BY <1>1, ViewerFacts, PublishInStep DEF Mirrors
<1> QED BY <1>2, <1>3 DEF Mirrors

\* A frame with the room as it now is.
LEMMA GreetMirrors ==
    ASSUME TypeOK, NEW v \in Viewers, NEW s \in SessionSnapshot, room' = s,
           UNCHANGED <<kind, page>>, wire'[v] = Append(wire[v], SnapshotFrame(s))
    PROVE  Mirrors(v)'
<1> DEFINE k == kind[v]
           w == wire[v]
           f == SnapshotFrame(s)
           E == Frame
<1>1. w \in Seq(E) /\ f \in E
  BY ViewerFacts, SnapshotFrameType
<1>2. PageOK(k, Heard(k, page[v], w)) /\ k \in {"guest", "host", "tv"}
  BY ViewerFacts, HeardKeepsPage
<1>3. Shows(k, HandleMessage(k, Heard(k, page[v], w), f), s)
  BY <1>2, SnapshotInStep
<1>4. Heard(k, page[v], Append(w, f)) = HandleMessage(k, Heard(k, page[v], w), f)
  <2> HIDE DEF k, w, f, E
  <2> QED BY <1>1, HeardAppend
<1> QED BY <1>3, <1>4 DEF Mirrors

\* Without a frame, a page that keeps what it shows keeps up with the room.
LEMMA ViewMirrors ==
    ASSUME TypeOK, TypeOK', NEW v \in Viewers, Mirrors(v), UNCHANGED <<room, kind, wire>>,
           page'[v] = page[v] \/ SameView(page[v], page'[v])
    PROVE  Mirrors(v)'
<1>1. CASE page'[v] = page[v]
  BY <1>1 DEF Mirrors
<1>2. CASE SameView(page[v], page'[v])
  <2>1. Agree(kind[v], page[v], page'[v])
    BY <1>2 DEF SameView, Agree, Mirror
  <2>2. PageOK(kind[v], page'[v])
    BY DEF TypeOK
  <2>3. Agree(kind[v], Heard(kind[v], page[v], wire[v]), Heard(kind[v], page'[v], wire[v]))
    BY <2>1, <2>2, ViewerFacts, HeardAgrees
  <2>4. Shows(kind[v], Heard(kind[v], page'[v], wire[v]), room)
    BY <2>3 DEF Mirrors, Shows, Agree
  <2> QED BY <2>4 DEF Mirrors
<1> QED BY <1>1, <1>2

\* The handler of onOpen ends with the snapshot, merged or not.
LEMMA GreetInStep ==
    ASSUME TypeOK, InStep, room \in SessionSnapshot, NEW k \in DOMAIN loads,
           NEW s \in SessionSnapshot, Greet(k, s), room' = s,
           \A f \in SnapshotFields \ {"pending", "queue"} : s[f] = room[f],
           NEW v \in Viewers, Greeted(v)'
    PROVE  Mirrors(v)'
<1>1. /\ loads' = RemoveAt(loads, k) /\ UNCHANGED <<subs, kind, page>>
      /\ wire'[v] = IF v = loads[k].for THEN Append(wire[v], SnapshotFrame(s)) ELSE wire[v]
  BY DEF Greet
<1>2. CASE v = loads[k].for
  BY <1>1, <1>2, GreetMirrors
<1>3. CASE v # loads[k].for
  <2>1. Greeted(v)
    <3>1. loads \in Seq(Load)
      BY DEF TypeOK
    <3>2. \A j \in DOMAIN loads : j # k => \E n \in DOMAIN loads' : loads'[n] = loads[j]
      <4> HIDE DEF Load
      <4> QED BY <1>1, <3>1, RemoveAtKeeps
    <3> QED BY <1>1, <1>3, <3>2 DEF Greeted
  <2>2. Mirrors(v)
    BY <2>1, InStepIs
  <2>3. /\ s.nowPlaying = room.nowPlaying /\ s.nowPlayingSkipVote = room.nowPlayingSkipVote
        /\ s.activeGuestCount = room.activeGuestCount /\ s.providerQueue = room.providerQueue
    BY DEF SnapshotFields
  <2>4. wire'[v] = wire[v]
    BY <1>1, <1>3
  <2> QED BY <1>1, <2>2, <2>3, <2>4 DEF Mirrors, Shows, Mirror
<1> QED BY <1>2, <1>3

\* A new socket: the snapshot at once, or at the end of the handler.
LEMMA OnOpenInStep ==
    ASSUME TypeOK, Alive, InStep, NEW u \in Viewers, OnOpen(u),
           NEW v \in Viewers, Greeted(v)'
    PROVE  Mirrors(v)'
<1> DEFINE r == IF room = None THEN CreateEmptySnapshot ELSE room
           new == [for |-> u, step |-> "items", read |-> NotRead]
<1>1. /\ room' = r /\ subs' = subs \cup {u} /\ UNCHANGED <<kind, page>>
      /\ \/ wire' = [wire EXCEPT ![u] = <<SnapshotFrame(r)>>] /\ loads' = loads
         \/ wire' = wire /\ loads' = Append(loads, new)
  BY DEF OnOpen
<1>2. r \in SessionSnapshot
  BY EmptySnapshotType DEF TypeOK
<1>3. loads \in Seq(Load) /\ new \in Load
  BY DEF TypeOK, Load, Caller
<1>4. /\ \A j \in DOMAIN loads : \/ loads' = loads
                                 \/ j \in DOMAIN loads' /\ loads'[j] = loads[j]
      /\ loads' = loads \/ \E j \in DOMAIN loads' : loads'[j] = new
  <2> HIDE DEF Load, new, r
  <2> QED BY <1>1, <1>3, AppendToSeq
<1>5. CASE v = u
  <2>1. loads' = loads
    BY <1>4, <1>5 DEF Greeted
  <2>2. wire'[v] = <<SnapshotFrame(r)>>
    <3>1. loads' = Append(loads, new) => loads' # loads
      <4> DEFINE N == Len(loads)
      <4>1. N \in Nat /\ Len(Append(loads, new)) = N + 1
        <5> HIDE DEF Load, new
        <5> QED BY <1>3, LenProperties, AppendProperties
      <4> QED BY <4>1
    <3> QED BY <1>1, <1>5, <2>1, <3>1 DEF TypeOK
  <2> DEFINE f == SnapshotFrame(r)
             p == page[v]
             k == kind[v]
             E == Frame
             w == <<>>
  <2>3. Shows(k, HandleMessage(k, p, f), r)
    BY <1>2, ViewerFacts, SnapshotInStep
  <2>4. w \in Seq(E) /\ f \in E /\ Append(w, f) = <<f>>
    BY <1>2, SnapshotFrameType, EmptySeq
  <2>5. Heard(k, p, Append(w, f)) = HandleMessage(k, Heard(k, p, w), f)
    <3>1. ASSUME NEW x \in Seq(E), NEW y \in E
          PROVE  Heard(k, p, Append(x, y)) = HandleMessage(k, Heard(k, p, x), y)
      BY HeardAppend
    <3> HIDE DEF k, p, f, E, w
    <3> QED BY <2>4, <3>1
  <2>6. Heard(k, p, w) = p
    BY HeardNothing
  <2>7. Heard(k, p, <<f>>) = HandleMessage(k, p, f)
    BY <2>4, <2>5, <2>6
  <2> QED BY <1>1, <2>1, <2>2, <2>3, <2>7 DEF Mirrors
<1>6. CASE v # u
  <2>1. Greeted(v)
    BY <1>1, <1>4, <1>6 DEF Greeted
  <2>2. room # None
    BY <2>1, GreetedFacts
  <2>3. Mirrors(v)
    BY <2>1, InStepIs
  <2>4. room' = room /\ wire'[v] = wire[v]
    BY <1>1, <1>6, <2>2 DEF TypeOK
  <2> QED BY <1>1, <2>3, <2>4 DEF Mirrors
<1> QED BY <1>5, <1>6

LEMMA GoneInStep ==
    ASSUME TypeOK, InStep, NEW u \in Viewers, Drop(u) \/ Leave(u),
           NEW v \in Viewers, Greeted(v)'
    PROVE  Mirrors(v)'
<1>1. Unsubscribe({u}) /\ UNCHANGED <<room, kind, page>>
  BY DEF Drop, Leave
<1>2. /\ DOMAIN loads' = DOMAIN loads
      /\ \A j \in DOMAIN loads : loads'[j].for = IF loads[j].for \in {u} THEN None
                                                 ELSE loads[j].for
  BY <1>1, UnsubscribeType
<1>3. v \in subs /\ v # u /\ wire'[v] = wire[v]
  BY <1>1 DEF Unsubscribe, Greeted
<1>4. Greeted(v)
  BY <1>2, <1>3 DEF Greeted
<1>5. Mirrors(v)
  BY <1>4, InStepIs
<1> QED BY <1>1, <1>3, <1>5 DEF Mirrors

LEMMA ReceiveInStep ==
    ASSUME TypeOK, NEW u \in Viewers, Receive(u), NEW v \in Viewers, Mirrors(v)
    PROVE  Mirrors(v)'
<1> DEFINE w == wire[u]
           E == Frame
           k == kind[u]
           p == page[u]
<1>1. /\ wire' = [wire EXCEPT ![u] = Tail(w)] /\ UNCHANGED <<room, kind>> /\ w # <<>>
      /\ page' = [page EXCEPT ![u] = HandleMessage(k, p, Head(w))]
  BY DEF Receive, server
<1>2. DOMAIN wire = Viewers /\ DOMAIN page = Viewers
  BY DEF TypeOK
<1>3. CASE v = u
  <2>1. w \in Seq(E)
    BY ViewerFacts
  <2>2. Heard(k, HandleMessage(k, p, Head(w)), Tail(w)) = Heard(k, p, w)
    <3> HIDE DEF w, E, k, p
    <3> QED BY <1>1, <2>1, HeardTail
  <2>3. wire'[u] = Tail(w) /\ page'[u] = HandleMessage(k, p, Head(w))
    BY <1>1, <1>2
  <2> QED BY <1>1, <1>3, <2>2, <2>3 DEF Mirrors
<1>4. CASE v # u
  <2>1. wire'[v] = wire[v] /\ page'[v] = page[v]
    BY <1>1, <1>2, <1>4
  <2> QED BY <1>1, <2>1 DEF Mirrors
<1> QED BY <1>3, <1>4

LEMMA InStepStep ==
    ASSUME TypeOK, TypeOK', Alive, InStep, [Next]_vars
    PROVE  InStep'
<1> SUFFICES ASSUME NEW v \in Viewers, Greeted(v)' PROVE Mirrors(v)'
  BY InStepIs DEF InStep, Mirrors, Shows
<1>0. Greeted(v) => Mirrors(v)
  BY InStepIs
<1>1. ASSUME UNCHANGED <<subs, loads>> PROVE Mirrors(v) /\ Greeted(v)
  BY <1>0, <1>1 DEF Greeted
<1>2. ASSUME UNCHANGED <<room, subs, loads, kind, wire>>,
             page'[v] = page[v] \/ SameView(page[v], page'[v])
      PROVE  Mirrors(v)'
  BY <1>1, <1>2, ViewMirrors
<1>3. ASSUME NEW events \in Seq(SessionEvent), Publish(events),
             UNCHANGED <<subs, loads, kind, page>>
      PROVE  Mirrors(v)'
  BY <1>1, <1>3, PublishMirrors
<1>4. CASE UNCHANGED vars
  BY <1>2, <1>4 DEF vars, server, browser
<1>5. CASE RowChanges \/ Claiming
  BY <1>2, <1>5 DEF RowChanges, Claiming, server, browser
<1>6. ASSUME NEW t \in Maybe(Tracks), NEW changed \in BOOLEAN, Tick(t, changed)
      PROVE  Mirrors(v)'
  <2>1. Publish(TickEvents(t, changed)) /\ UNCHANGED <<subs, loads, kind, page>>
    BY <1>6 DEF Tick, TickEvents
  <2> QED BY <1>3, <2>1, TickEventsType
<1>7. ASSUME NEW e, Broadcast(e) PROVE Mirrors(v)'
  <2>1. Publish(<<e>>) /\ UNCHANGED <<subs, loads, kind, page>>
    BY <1>7 DEF Broadcast
  <2> QED BY <1>3, <1>7, <2>1, BroadcastType
<1>8. ASSUME NEW k, Announce(k) PROVE Mirrors(v)'
  <2>1. Publish(owed[k].events) /\ UNCHANGED <<subs, loads, kind, page>>
    BY <1>8 DEF Announce
  <2> QED BY <1>3, <1>8, <2>1, AnnounceType
<1>9. ASSUME NEW t \in Tracks, NEW doc \in {t, None}, LookupEnds(t, doc) PROVE Mirrors(v)'
  <2> DEFINE e == [type |-> "lyrics.loaded", trackUri |-> t, lyrics |-> doc]
  <2>1. e \in SessionEvent
    BY DEF SessionEvent, Maybe
  <2>2. /\ UNCHANGED <<subs, loads, kind, page>>
        /\ Publish(<<e>>) \/ UNCHANGED <<room, wire>>
    BY <1>9 DEF LookupEnds
  <2>3. <<e>> \in Seq(SessionEvent)
    <3> HIDE DEF e
    <3> QED BY <2>1
  <2> QED BY <1>2, <1>3, <2>2, <2>3
<1>10. CASE Loading
  <2>1. PICK k \in DOMAIN loads : LoadItems(k) \/ Hydrate(k) \/ HydrateFails(k)
    BY <1>10 DEF Loading
  <2>2. room \in SessionSnapshot
    BY <2>1 DEF Alive, TypeOK
  <2>3. CASE LoadItems(k)
    <3>1. /\ UNCHANGED <<room, subs, kind, wire, page>>
          /\ loads' = [loads EXCEPT ![k].step = "claims", ![k].read = rows]
      BY <2>3 DEF LoadItems, browser
    <3>2. loads[k] \in Load
      BY LenProperties, ElementOfSeq DEF TypeOK
    <3>3. DOMAIN loads' = DOMAIN loads /\ \A j \in DOMAIN loads : loads'[j].for = loads[j].for
      BY <3>1, <3>2 DEF Load
    <3>4. Greeted(v)
      BY <3>1, <3>3 DEF Greeted
    <3> QED BY <1>0, <3>1, <3>4 DEF Mirrors
  <2>4. CASE Hydrate(k)
    <3>1. room' = MergeInto(room, loads[k].read) /\ loads[k].read \in Row /\ rows \in Row
          /\ Greet(k, room')
      BY <2>4 DEF Hydrate, TypeOK
    <3> DEFINE s == MergeInto(room, loads[k].read)
    <3>2. /\ s \in SessionSnapshot
          /\ \A f \in SnapshotFields \ {"pending", "queue"} : s[f] = room[f]
      BY <2>2, <3>1, MergeKeeps
    <3> HIDE DEF s
    <3>3. room' = s /\ Greet(k, s)
      BY <3>1 DEF s
    <3> QED BY <2>2, <3>2, <3>3, GreetInStep
  <2>5. CASE HydrateFails(k)
    <3>1. room' = room /\ Greet(k, room)
      BY <2>5 DEF HydrateFails
    <3> QED BY <2>2, <3>1, GreetInStep
  <2> QED BY <2>1, <2>3, <2>4, <2>5
<1>11. CASE Restart
  BY <1>11 DEF Restart, Greeted
<1>12. CASE QuietStep
  BY <1>2, <1>12, QuietType DEF server
<1>13. ASSUME NEW u \in Viewers, Drop(u) \/ Leave(u) PROVE Mirrors(v)'
  BY <1>13, GoneInStep
<1>14. ASSUME NEW u \in Viewers, OnOpen(u) PROVE Mirrors(v)'
  BY <1>14, OnOpenInStep
<1>15. ASSUME NEW u \in Viewers, Receive(u) PROVE Mirrors(v)'
  <2>1. Mirrors(v)
    BY <1>1, <1>15 DEF Receive, server
  <2> QED BY <1>15, <2>1, ReceiveInStep
<1>16. ASSUME NEW u \in Viewers, NEW k, QueueAnswered(u, k) PROVE Mirrors(v)'
  <2>1. /\ UNCHANGED <<room, subs, loads, kind, wire>>
        /\ page' = [page EXCEPT ![u] =
                       IF conn[u] = "asking" THEN Bootstrapped(kind[u], page[u], answers[u][k])
                       ELSE QueueArrives(kind[u], page[u], answers[u][k].queue)]
    BY <1>16 DEF QueueAnswered, server
  <2>2. conn[v] = "live"
    BY <1>1, <2>1, GreetedFacts
  <2>3. SameView(page[v], QueueArrives(kind[v], page[v], answers[v][k].queue))
    BY ViewerFacts, AnswerKeeps
  <2>4. page'[v] = page[v] \/ SameView(page[v], page'[v])
    BY <2>1, <2>2, <2>3 DEF TypeOK
  <2> QED BY <1>2, <2>1, <2>4
<1>17. ASSUME NEW u \in Viewers, Presses(u) \/ Answered(u) PROVE Mirrors(v)'
  BY <1>2, <1>17, PressesType, AnsweredType DEF server
<1>18. ASSUME NEW u \in Viewers, ServeRow(u) \/ Refuse(u) PROVE Mirrors(v)'
  BY <1>2, <1>18, RefuseType DEF ServeRow, server
<1>19. ASSUME NEW u \in Viewers, ServeTrack(u) PROVE Mirrors(v)'
  <2>1. UNCHANGED <<subs, loads, kind, page>>
    BY <1>19 DEF ServeTrack
  <2>2. ASSUME NEW e \in OtherEvent, Publish(<<e>>) PROVE Mirrors(v)'
    <3>1. <<e>> \in Seq(SessionEvent)
      BY OtherEventsAre
    <3> QED BY <1>3, <2>1, <2>2, <3>1
  <2> QED BY <1>2, <1>19, <2>1, <2>2, ServeTrackType
<1>20. Next => Step
  BY NextIsStep
<1> QED BY <1>4, <1>5, <1>6, <1>7, <1>8, <1>9, <1>10, <1>11, <1>12, <1>13, <1>14, <1>15,
          <1>16, <1>17, <1>18, <1>19, <1>20 DEF Step

\* The pages fold events with handlers of their own and the room with
\* applyEvent, and the two agree: once the frames on its wire have arrived, a
\* page that was sent its snapshot (onOpen) shows the track, the tally, the
\* guests and the provider's queue that the room holds, whatever order
\* publishing, hydration, GET answers, presses, drops and restarts came in.
THEOREM PagesStayInStep == Spec => []InStep
<1>1. Init => InStep
  BY DEF Init, InStep, Greeted
<1>2. TypeOK /\ TypeOK' /\ Alive /\ InStep /\ [Next]_vars => InStep'
  BY InStepStep
<1> QED BY <1>1, <1>2, RoomTypeCorrect, PTL DEF Spec
=============================================================================
