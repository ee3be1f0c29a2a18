--------------------- MODULE MemoryRepositoriesProofs ---------------------
(***************************************************************************)
(* For every number of calls and every clock, names and addresses: the     *)
(* in-memory repositories implement the repositories of the database, and  *)
(* they answer every query with what the database may answer.              *)
(*                                                                         *)
(* Lists: what filter, find and sort give of a list of rows.  Calls: for   *)
(* each table, that a call leaves the same rows in the Map as the SQL      *)
(* statement leaves in the table.  Steps: the invariant MapsInv, and the   *)
(* refinement.  Answers: for each table, that every query agrees.          *)
(***************************************************************************)
EXTENDS MemoryRepositories, TLAPS, FiniteSetTheorems, SequenceTheorems

-----------------------------------------------------------------------------
(* Lists.                                                                  *)

\* A relation that orders some places.
Orders(before, places) ==
    /\ \A i \in places : <<i, i>> \notin before
    /\ \A i, j \in places : i # j => <<i, j>> \in before \/ <<j, i>> \in before
    /\ \A i, j, k \in places :
          <<i, j>> \in before /\ <<j, k>> \in before => <<i, k>> \in before

\* q lists the rows of seq at the places, each once, as h arranges the places.
Arranges(h, q, seq, places, before) ==
    LET N == Cardinality(places)
    IN  /\ h \in Bijection(1..N, places)
        /\ q = [n \in 1..N |-> seq[h[n]]]
        /\ \A m, n \in 1..N : m < n => <<h[m], h[n]>> \in before

\* InOrder takes every place once and keeps their order.
LEMMA InOrderArranges ==
    ASSUME NEW seq, NEW places, IsFiniteSet(places), NEW before, Orders(before, places)
    PROVE  \E h : Arranges(h, InOrder(seq, places, before), seq, places, before)
<1> DEFINE N == Cardinality(places)
           Below(i) == {j \in places : <<j, i>> \in before}
           f == [i \in places |-> Cardinality(Below(i)) + 1]
           h == [n \in 1..N |-> CHOOSE i \in places : Cardinality(Below(i)) = n - 1]
<1>1. N \in Nat
  BY FS_CardinalityType
<1>2. ASSUME NEW i \in places
      PROVE  /\ IsFiniteSet(Below(i)) /\ Cardinality(Below(i)) \in Nat
             /\ Cardinality(Below(i)) < N
  <2>1. Below(i) \in SUBSET places /\ i \notin Below(i)
    BY DEF Orders
  <2>2. IsFiniteSet(Below(i)) /\ Cardinality(Below(i)) <= N /\ Cardinality(Below(i)) # N
    <3> HIDE DEF Below
    <3> QED BY <2>1, FS_Subset
  <2>3. Cardinality(Below(i)) \in Nat
    <3> HIDE DEF Below
    <3> QED BY <2>2, FS_CardinalityType
  <2> HIDE DEF N, Below
  <2> QED BY <1>1, <2>2, <2>3
<1>3. ASSUME NEW i \in places, NEW j \in places, <<i, j>> \in before
      PROVE  Cardinality(Below(i)) < Cardinality(Below(j))
  <2>1. Below(i) \in SUBSET Below(j) /\ i \in Below(j) /\ i \notin Below(i)
    BY <1>3 DEF Orders
  <2>2. /\ Cardinality(Below(i)) <= Cardinality(Below(j))
        /\ Cardinality(Below(i)) # Cardinality(Below(j))
    <3>1. IsFiniteSet(Below(j))
      BY <1>2
    <3> HIDE DEF Below
    <3> QED BY <2>1, <3>1, FS_Subset
  <2>3. Cardinality(Below(i)) \in Nat /\ Cardinality(Below(j)) \in Nat
    BY <1>2
  <2> HIDE DEF Below
  <2> QED BY <2>2, <2>3
<1>4. ASSUME NEW i \in places, NEW j \in places, i # j
      PROVE  Cardinality(Below(i)) # Cardinality(Below(j))
  <2>1. Cardinality(Below(i)) \in Nat /\ Cardinality(Below(j)) \in Nat
    BY <1>2
  <2>2. CASE <<i, j>> \in before
    <3>1. Cardinality(Below(i)) < Cardinality(Below(j))
      BY <1>3, <2>2
    <3> HIDE DEF Below
    <3> QED BY <2>1, <3>1
  <2>3. CASE <<j, i>> \in before
    <3>1. Cardinality(Below(j)) < Cardinality(Below(i))
      BY <1>3, <2>3
    <3> HIDE DEF Below
    <3> QED BY <2>1, <3>1
  <2> QED BY <1>4, <2>2, <2>3 DEF Orders
<1> HIDE DEF N, Below
<1>5. f \in Injection(places, 1..N)
  <2>1. \A i \in places : f[i] \in 1..N
    <3> SUFFICES ASSUME NEW i \in places PROVE Cardinality(Below(i)) + 1 \in 1..N
      OBVIOUS
    <3> QED BY <1>1, <1>2
  <2>2. \A i, j \in places : f[i] = f[j] => i = j
    <3> SUFFICES ASSUME NEW i \in places, NEW j \in places, f[i] = f[j], i # j
                 PROVE  FALSE
      OBVIOUS
    <3>1. Cardinality(Below(i)) \in Nat /\ Cardinality(Below(j)) \in Nat
      BY <1>2
    <3> QED BY <1>4, <3>1
  <2> HIDE DEF f
  <2>3. f \in [places -> 1..N]
    <3>1. f = [i \in places |-> f[i]]
      BY DEF f
    <3> QED BY <2>1, <3>1
  <2> QED BY <2>2, <2>3 DEF Injection, IsInjective
<1>6. IsFiniteSet(1..N) /\ Cardinality(1..N) = N
  BY <1>1, FS_Interval
<1>7. f \in Surjection(places, 1..N)
  <2> HIDE DEF f
  <2> QED BY <1>5, <1>6, FS_Injection DEF N
<1>8. ASSUME NEW n \in 1..N
      PROVE  h[n] \in places /\ Cardinality(Below(h[n])) = n - 1
  <2>1. PICK i \in places : f[i] = n
    <3> HIDE DEF f
    <3> QED BY <1>7 DEF Surjection
  <2>2. Cardinality(Below(i)) = n - 1
    BY <1>2, <2>1
  <2> QED BY <2>2
<1>9. ASSUME NEW i \in places PROVE \E n \in 1..N : h[n] = i
  <2> DEFINE n == Cardinality(Below(i)) + 1
  <2>1. n \in 1..N /\ n - 1 = Cardinality(Below(i))
    BY <1>1, <1>2
  <2>2. h[n] \in places /\ Cardinality(Below(h[n])) = Cardinality(Below(i))
    BY <1>8, <2>1
  <2> HIDE DEF h, n
  <2> QED BY <1>4, <2>1, <2>2
<1>10. ASSUME NEW m \in 1..N, NEW n \in 1..N, m < n PROVE <<h[m], h[n]>> \in before
  <2>1. /\ h[m] \in places /\ Cardinality(Below(h[m])) = m - 1
        /\ h[n] \in places /\ Cardinality(Below(h[n])) = n - 1
    BY <1>8
  <2> HIDE DEF h
  <2>2. h[m] # h[n]
    BY <2>1, <1>10, <1>1
  <2>3. CASE <<h[n], h[m]>> \in before
    <3>1. Cardinality(Below(h[n])) < Cardinality(Below(h[m]))
      BY <1>3, <2>1, <2>3
    <3> QED BY <3>1, <2>1, <1>10, <1>1
  <2> QED BY <2>1, <2>2, <2>3 DEF Orders
<1>11. h \in Bijection(1..N, places)
  <2>1. h \in [1..N -> places]
    BY <1>8
  <2>2. \A m, n \in 1..N : h[m] = h[n] => m = n
    <3> SUFFICES ASSUME NEW m \in 1..N, NEW n \in 1..N, h[m] = h[n] PROVE m = n
      OBVIOUS
    <3>1. Cardinality(Below(h[m])) = m - 1 /\ Cardinality(Below(h[n])) = n - 1
      BY <1>8
    <3>2. m - 1 = n - 1
      <4> HIDE DEF h
      <4> QED BY <3>1
    <3> QED BY <3>2, <1>1
  <2> HIDE DEF h
  <2> QED BY <1>9, <2>1, <2>2 DEF Bijection, Injection, Surjection, IsInjective
<1>12. InOrder(seq, places, before) = [n \in 1..N |-> seq[h[n]]]
  BY DEF InOrder, N, Below
<1>13. Arranges(h, InOrder(seq, places, before), seq, places, before)
  <2> HIDE DEF h
  <2> QED BY <1>10, <1>11, <1>12 DEF Arranges, N
<1> QED BY <1>13

\* No two places of a list hold the same row.
Distinct(seq) == \A i, j \in DOMAIN seq : i # j => seq[i] # seq[j]

\* The rows at some places of a list.
RowsAt(seq, places) == {seq[i] : i \in places}

\* The list that InOrder gives has the rows at the places and no others; when the
\* rows differ, it is one of the lists of the set of rows.
LEMMA ArrangedRows ==
    ASSUME NEW T, NEW seq \in Seq(T), NEW places \in SUBSET DOMAIN seq,
           NEW before, Orders(before, places)
    PROVE  LET q == InOrder(seq, places, before)
           IN  /\ q \in Seq(T) /\ Len(q) = Cardinality(places) /\ Len(q) \in Nat
               /\ DOMAIN q = 1..Len(q)
               /\ Range(q) = RowsAt(seq, places)
               /\ Distinct(seq) => /\ Distinct(q)
                                   /\ Cardinality(RowsAt(seq, places)) = Len(q)
                                   /\ q \in SetToSeqs(RowsAt(seq, places))
<1> DEFINE q == InOrder(seq, places, before)
           N == Cardinality(places)
           S == RowsAt(seq, places)
<1>1. DOMAIN seq = 1..Len(seq) /\ Len(seq) \in Nat /\ \A i \in DOMAIN seq : seq[i] \in T
  OBVIOUS
<1>2. IsFiniteSet(places) /\ N \in Nat
  <2>1. IsFiniteSet(1..Len(seq))
    BY <1>1, FS_Interval
  <2> QED BY <1>1, <2>1, FS_Subset, FS_CardinalityType
<1>3. PICK h : Arranges(h, q, seq, places, before)
  BY <1>2, InOrderArranges
<1>4. /\ h \in [1..N -> places] /\ q = [n \in 1..N |-> seq[h[n]]]
      /\ \A i \in places : \E n \in 1..N : h[n] = i
      /\ \A m, n \in 1..N : h[m] = h[n] => m = n
  BY <1>3 DEF Arranges, Bijection, Injection, Surjection, IsInjective
<1> HIDE DEF q, N
<1>5. \A n \in 1..N : h[n] \in DOMAIN seq /\ q[n] = seq[h[n]] /\ q[n] \in T
  BY <1>1, <1>4
<1>6. q \in [1..N -> T]
  BY <1>4, <1>5
<1>7. q \in Seq(T) /\ Len(q) = N /\ DOMAIN q = 1..N
  <2>1. q \in Seq(T)
    BY <1>2, <1>6, SeqDef
  <2> QED BY <1>2, <1>6, <2>1, LenProperties
<1>8. Range(q) = S
  <2>1. \A r \in S : \E n \in 1..N : q[n] = r
    BY <1>4, <1>5 DEF RowsAt
  <2>2. \A n \in 1..N : q[n] \in S
    BY <1>4, <1>5 DEF RowsAt
  <2> QED BY <1>7, <2>1, <2>2 DEF Range
<1>9. ASSUME Distinct(seq)
      PROVE  Distinct(q) /\ Cardinality(S) = N /\ q \in SetToSeqs(S)
  <2>1. \A m, n \in 1..N : m # n => q[m] # q[n]
    <3> SUFFICES ASSUME NEW m \in 1..N, NEW n \in 1..N, m # n PROVE q[m] # q[n]
      OBVIOUS
    <3>1. h[m] # h[n]
      BY <1>4
    <3> QED BY <1>5, <1>9, <3>1 DEF Distinct
  <2>2. q \in [1..N -> S] /\ \A r \in S : \E n \in 1..N : q[n] = r
    BY <1>6, <1>7, <1>8 DEF Range
  <2>3. q \in Bijection(1..N, S)
    BY <2>1, <2>2 DEF Bijection, Injection, Surjection, IsInjective
  <2>4. Cardinality(S) = N
    BY <1>2, <2>3, FS_CountingElements DEF ExistsBijection
  <2> QED BY <1>7, <2>1, <2>2, <2>4 DEF Distinct, SetToSeqs
<1> QED BY <1>2, <1>7, <1>8, <1>9 DEF q, N

\* The places of a list are ordered by which comes first.
LEMMA EarlierOrders ==
    ASSUME NEW T, NEW seq \in Seq(T), NEW places \in SUBSET DOMAIN seq
    PROVE  Orders(Earlier(seq), places)
<1>1. \A i \in places : i \in DOMAIN seq /\ i \in Int
  OBVIOUS
<1>2. \A i, j \in places : <<i, j>> \in Earlier(seq) <=> i < j
  BY <1>1 DEF Earlier, Pairs
<1> QED BY <1>1, <1>2 DEF Orders

\* What a filter gives.
LEMMA FilteredRows ==
    ASSUME NEW T, NEW seq \in Seq(T), NEW places \in SUBSET DOMAIN seq
    PROVE  LET q == InOrder(seq, places, Earlier(seq))
           IN  /\ q \in Seq(T) /\ Len(q) = Cardinality(places) /\ Len(q) \in Nat
               /\ DOMAIN q = 1..Len(q)
               /\ Range(q) = RowsAt(seq, places)
               /\ Distinct(seq) => /\ Distinct(q)
                                   /\ Cardinality(RowsAt(seq, places)) = Len(q)
                                   /\ q \in SetToSeqs(RowsAt(seq, places))
BY EarlierOrders, ArrangedRows

\* What sort by a number gives: each row once, in order of the number.
LEMMA SortedRows ==
    ASSUME NEW T, NEW seq \in Seq(T), Distinct(seq), NEW time \in [DOMAIN seq -> Int]
    PROVE  LET before == {p \in Pairs(seq) :
                            \/ time[p[1]] < time[p[2]]
                            \/ time[p[1]] = time[p[2]] /\ p[1] < p[2]}
               q == InOrder(seq, DOMAIN seq, before)
           IN  /\ q \in SetToSeqs(Range(seq))
               /\ \A m, n \in DOMAIN q : m < n =>
                     \E i, j \in DOMAIN seq : /\ q[m] = seq[i] /\ q[n] = seq[j]
                                              /\ time[i] <= time[j]
<1> DEFINE before == {p \in Pairs(seq) :
                        \/ time[p[1]] < time[p[2]]
                        \/ time[p[1]] = time[p[2]] /\ p[1] < p[2]}
           q == InOrder(seq, DOMAIN seq, before)
           N == Cardinality(DOMAIN seq)
<1>1. DOMAIN seq = 1..Len(seq) /\ Len(seq) \in Nat
  OBVIOUS
<1>2. \A i, j \in DOMAIN seq : <<i, j>> \in before <=>
                                 \/ time[i] < time[j]
                                 \/ time[i] = time[j] /\ i < j
  BY DEF Pairs
<1> HIDE DEF before
<1>3. Orders(before, DOMAIN seq)
  <2>1. \A i \in DOMAIN seq : time[i] \in Int /\ i \in Int
    BY <1>1
  <2>2. \A i \in DOMAIN seq : <<i, i>> \notin before
    BY <1>2, <2>1
  <2>3. \A i, j \in DOMAIN seq : i # j => <<i, j>> \in before \/ <<j, i>> \in before
    BY <1>2, <2>1
  <2>4. \A i, j, k \in DOMAIN seq :
            <<i, j>> \in before /\ <<j, k>> \in before => <<i, k>> \in before
    BY <1>2, <2>1
  <2> QED BY <2>2, <2>3, <2>4 DEF Orders
<1>4. RowsAt(seq, DOMAIN seq) = Range(seq)
  BY DEF RowsAt, Range
<1>5. q \in SetToSeqs(Range(seq)) /\ DOMAIN q = 1..N
  BY <1>3, <1>4, ArrangedRows
<1>6. PICK h : Arranges(h, q, seq, DOMAIN seq, before)
  <2>1. IsFiniteSet(DOMAIN seq)
    BY <1>1, FS_Interval
  <2> QED BY <1>3, <2>1, InOrderArranges
<1>7. \A m, n \in 1..N : m < n => /\ h[m] \in DOMAIN seq /\ h[n] \in DOMAIN seq
                                  /\ q[m] = seq[h[m]] /\ q[n] = seq[h[n]]
                                  /\ <<h[m], h[n]>> \in before
  <2> HIDE DEF q, N
  <2> QED BY <1>6 DEF Arranges, N, Bijection, Injection
<1>8. ASSUME NEW m \in DOMAIN q, NEW n \in DOMAIN q, m < n
      PROVE  \E i, j \in DOMAIN seq : /\ q[m] = seq[i] /\ q[n] = seq[j]
                                      /\ time[i] <= time[j]
  <2> HIDE DEF q, N
  <2>1. /\ h[m] \in DOMAIN seq /\ h[n] \in DOMAIN seq
        /\ q[m] = seq[h[m]] /\ q[n] = seq[h[n]] /\ <<h[m], h[n]>> \in before
    BY <1>5, <1>7, <1>8
  <2>2. time[h[m]] <= time[h[n]]
    BY <1>2, <2>1
  <2> QED BY <2>1, <2>2
<1> QED BY <1>5, <1>8 DEF before

\* What find gives: a row at one of the places, or null.
LEMMA FoundRow ==
    ASSUME NEW T, NEW seq \in Seq(T), NEW places \in SUBSET DOMAIN seq
    PROVE  (IF places = {} THEN None
            ELSE seq[CHOOSE i \in places : \A j \in places : i <= j])
           \in Database!One(RowsAt(seq, places))
<1>1. CASE places = {}
  BY <1>1 DEF Database!One, RowsAt
<1>2. CASE places # {}
  <2>1. IsFiniteSet(places) /\ Cardinality(places) \in Nat
    <3>1. IsFiniteSet(1..Len(seq)) /\ DOMAIN seq = 1..Len(seq)
      BY FS_Interval
    <3> QED BY <3>1, FS_Subset, FS_CardinalityType
  <2>2. Cardinality(places) # 0
    BY <1>2, <2>1, FS_EmptySet
  <2> DEFINE N == Cardinality(places)
  <2>3. PICK h : Arranges(h, InOrder(seq, places, Earlier(seq)), seq, places,
                          Earlier(seq))
    BY <2>1, EarlierOrders, InOrderArranges
  <2>4. /\ h \in [1..N -> places] /\ \A i \in places : \E n \in 1..N : h[n] = i
        /\ \A m, n \in 1..N : m < n => h[m] < h[n]
    BY <2>3 DEF Arranges, Bijection, Injection, Surjection, Earlier
  <2>5. \A j \in places : h[1] <= j
    <3> SUFFICES ASSUME NEW j \in places PROVE h[1] <= j
      OBVIOUS
    <3>1. PICK n \in 1..N : h[n] = j
      BY <2>4
    <3>2. 1 \in 1..N /\ h[1] \in places /\ h[1] \in Int
      BY <2>1, <2>2, <2>4
    <3>3. n = 1 \/ 1 < n
      BY <2>1
    <3> HIDE DEF N
    <3> QED BY <2>4, <3>1, <3>2, <3>3
  <2>6. h[1] \in places
    BY <2>1, <2>2, <2>4
  <2> DEFINE first == CHOOSE i \in places : \A j \in places : i <= j
  <2>7. first \in places
    BY <2>5, <2>6
  <2> HIDE DEF first
  <2>8. seq[first] \in RowsAt(seq, places)
    BY <2>7 DEF RowsAt
  <2> QED BY <1>2, <2>8 DEF Database!One, first
<1> QED BY <1>1, <1>2

-----------------------------------------------------------------------------
(* Calls.                                                                  *)

\* What a list holds after a row is put at its end.
LEMMA AppendedRow ==
    ASSUME NEW T, NEW seq \in Seq(T), NEW r \in T
    PROVE  LET q == Append(seq, r)
           IN  /\ q \in Seq(T)
               /\ Range(q) = Range(seq) \cup {r}
               /\ DOMAIN seq \subseteq DOMAIN q
               /\ \A i \in DOMAIN seq : q[i] = seq[i]
               /\ \E j \in DOMAIN q : j \notin DOMAIN seq /\ q[j] = r
<1> DEFINE q == Append(seq, r)
           n == Len(seq)
<1>1. n \in Nat /\ DOMAIN seq = 1..n /\ q \in Seq(T) /\ DOMAIN q = 1..(n + 1)
  BY AppendProperties, LenProperties
<1>2. (\A i \in 1..n : q[i] = seq[i]) /\ q[n + 1] = r
  BY AppendProperties
<1> HIDE DEF q, n
<1>3. n + 1 \in 1..(n + 1) /\ n + 1 \notin 1..n /\ 1..n \subseteq 1..(n + 1)
      /\ \A j \in 1..(n + 1) : j \in 1..n \/ j = n + 1
  BY <1>1
<1>4. Range(q) = Range(seq) \cup {r}
  BY <1>1, <1>2, <1>3 DEF Range
<1> QED BY <1>1, <1>2, <1>3, <1>4 DEF q

\* Rows that are changed where they stand.
LEMMA ChangedRows ==
    ASSUME NEW T, NEW seq \in Seq(T), NEW q, q = [i \in DOMAIN seq |-> q[i]],
           \A i \in DOMAIN seq : q[i] \in T
    PROVE  q \in Seq(T)
<1>1. DOMAIN seq = 1..Len(seq) /\ Len(seq) \in Nat
  OBVIOUS
<1>2. q \in [1..Len(seq) -> T]
  BY <1>1
<1> QED BY <1>1, <1>2, SeqDef

\* What the database keeps unique.
Unique(t, seq) ==
    \A i, j \in DOMAIN seq : i # j => KeysOf(t, seq[i]) \cap KeysOf(t, seq[j]) = {}

\* What is unique in the database is what KeysOf names.
LEMMA KeysOfTables ==
    ASSUME NEW r
    PROVE  /\ Database!usersKeys(r) = KeysOf("users", r)
           /\ Database!accountsKeys(r) = KeysOf("accounts", r)
           /\ Database!authIdentitiesKeys(r) = KeysOf("authIdentities", r)
           /\ Database!authSessionsKeys(r) = KeysOf("authSessions", r)
           /\ Database!emailVerificationTokensKeys(r)
                  = KeysOf("emailVerificationTokens", r)
           /\ Database!oauthStatesKeys(r) = KeysOf("oauthStates", r)
           /\ Database!sessionsKeys(r) = KeysOf("sessions", r)
           /\ Database!guestsKeys(r) = KeysOf("guests", r)
           /\ Database!guestSlotsKeys(r) = KeysOf("guestSlots", r)
           /\ Database!queueItemsKeys(r) = KeysOf("queueItems", r)
           /\ Database!queueSkipVotesKeys(r) = KeysOf("queueSkipVotes", r)
           /\ Database!karaokeClaimsKeys(r) = KeysOf("karaokeClaims", r)
           /\ Database!emailVerificationTokensKeys(r) = KeysOf("passwordResetTokens", r)
<1>1. Database!usersKeys(r) = KeysOf("users", r)
  BY DEF KeysOf, usersKeys, Database!usersKeys
<1>2. Database!accountsKeys(r) = KeysOf("accounts", r)
  BY DEF KeysOf, accountsKeys, Database!accountsKeys
<1>3. Database!authIdentitiesKeys(r) = KeysOf("authIdentities", r)
  BY DEF KeysOf, authIdentitiesKeys, Database!authIdentitiesKeys
<1>4. Database!authSessionsKeys(r) = KeysOf("authSessions", r)
  BY DEF KeysOf, authSessionsKeys, Database!authSessionsKeys
<1>5. Database!emailVerificationTokensKeys(r) = KeysOf("emailVerificationTokens", r)
  BY DEF KeysOf, emailVerificationTokensKeys, Database!emailVerificationTokensKeys
<1>6. Database!oauthStatesKeys(r) = KeysOf("oauthStates", r)
  BY DEF KeysOf, oauthStatesKeys, Database!oauthStatesKeys
<1>7. Database!sessionsKeys(r) = KeysOf("sessions", r)
  BY DEF KeysOf, sessionsKeys, Database!sessionsKeys, KeyIf, Database!KeyIf
<1>8. Database!guestsKeys(r) = KeysOf("guests", r)
  BY DEF KeysOf, guestsKeys, Database!guestsKeys
<1>9. Database!guestSlotsKeys(r) = KeysOf("guestSlots", r)
  BY DEF KeysOf, guestSlotsKeys, Database!guestSlotsKeys
<1>10. Database!queueItemsKeys(r) = KeysOf("queueItems", r)
  BY DEF KeysOf, queueItemsKeys, Database!queueItemsKeys
<1>11. Database!queueSkipVotesKeys(r) = KeysOf("queueSkipVotes", r)
  BY DEF KeysOf, queueSkipVotesKeys, Database!queueSkipVotesKeys
<1>12. Database!karaokeClaimsKeys(r) = KeysOf("karaokeClaims", r)
  BY DEF KeysOf, karaokeClaimsKeys, Database!karaokeClaimsKeys
<1>13. Database!emailVerificationTokensKeys(r) = KeysOf("passwordResetTokens", r)
  BY DEF KeysOf, passwordResetTokensKeys, Database!emailVerificationTokensKeys
<1> QED BY <1>1, <1>2, <1>3, <1>4, <1>5, <1>6, <1>7, <1>8, <1>9, <1>10, <1>11, <1>12,
    <1>13

\* No row has a unique value that r has.
Apart(t, rows, r) == \A s \in rows : KeysOf(t, s) \cap KeysOf(t, r) = {}

\* A row that shares no key is inserted.
LEMMA InsertedRow ==
    ASSUME NEW t, NEW T, NEW seq \in Seq(T), NEW r \in T,
           NEW q, q = Append(seq, r), Unique(t, q)
    PROVE  Apart(t, Range(seq), r)
<1>1. /\ DOMAIN seq \subseteq DOMAIN q
      /\ \A i \in DOMAIN seq : q[i] = seq[i]
      /\ \E j \in DOMAIN q : j \notin DOMAIN seq /\ q[j] = r
  BY AppendedRow
<1>2. PICK j \in DOMAIN q : j \notin DOMAIN seq /\ q[j] = r
  BY <1>1
<1>3. \A i \in DOMAIN seq : KeysOf(t, seq[i]) \cap KeysOf(t, r) = {}
  BY <1>1, <1>2 DEF Unique
<1> QED BY <1>3 DEF Range, Apart

\* What find gives when the rows at the places match.
FirstAt(seq, places) ==
    IF places = {} THEN None ELSE seq[CHOOSE i \in places : \A j \in places : i <= j]

\* find gives a row of the list, when one matches.
LEMMA FirstIsARow ==
    ASSUME NEW T, NEW seq \in Seq(T), NEW places \in SUBSET DOMAIN seq, places # {}
    PROVE  /\ FirstAt(seq, places) \in RowsAt(seq, places)
           /\ FirstAt(seq, places) \in Range(seq)
<1>1. RowsAt(seq, places) # {}
  BY DEF RowsAt
<1>2. FirstAt(seq, places) \in RowsAt(seq, places)
  BY <1>1, FoundRow DEF FirstAt, Database!One
<1> QED BY <1>2 DEF RowsAt, Range

\* Any two rows at the places have a unique value in common.
ShareAKey(t, seq, places) ==
    \A i, j \in places : KeysOf(t, seq[i]) \cap KeysOf(t, seq[j]) # {}

\* What find gives, when the rows that match share a key.
LEMMA OnlyRow ==
    ASSUME NEW t, NEW T, NEW seq \in Seq(T), Unique(t, seq),
           NEW places \in SUBSET DOMAIN seq, places # {}, ShareAKey(t, seq, places)
    PROVE  \A i \in places : seq[i] = FirstAt(seq, places)
<1>1. FirstAt(seq, places) \in RowsAt(seq, places)
  BY FirstIsARow
<1> QED BY <1>1 DEF RowsAt, Unique, ShareAKey

-----------------------------------------------------------------------------
(* The calls of each table: a Map's rows after a call are those of the     *)
(* table after the statement.                                              *)

\* A new user; a verified address: the same rows on either side.
LEMMA UsersStep ==
    ASSUME NEW seq \in Seq(UserRecord), NEW c \in UserCalls,
           NEW id \in Ids, NEW at \in Times,
           NEW q, q = UsersMem(c, seq, id, at), Unique("users", q)
    PROVE  /\ q \in Seq(UserRecord)
           /\ Range(q) = Database!UsersDb(c, Range(seq), id, at)
<1>0. \A i \in DOMAIN seq : seq[i] \in UserRecord
  OBVIOUS
<1>1. CASE c.op = "create"
  <2> DEFINE r == [id |-> id, primaryEmail |-> c.primaryEmail,
                  emailVerified |-> c.emailVerified]
  <2>0. c.primaryEmail \in Opt(Emails) /\ c.emailVerified \in BOOLEAN
    BY <1>1 DEF UserCalls
  <2>1. r \in UserRecord
    BY <1>1, <2>0 DEF UserRecord
  <2>2. q = Append(seq, r)
    BY <1>1 DEF UsersMem
  <2>3. Database!UsersDb(c, Range(seq), id, at)
          = Database!Insert(Range(seq), r, Database!usersKeys)
    BY <1>1 DEF Database!UsersDb, Database!Else, Else
  <2> HIDE DEF r
  <2>4. q \in Seq(UserRecord) /\ Range(q) = Range(seq) \cup {r}
    BY <2>1, <2>2, AppendedRow
  <2>5. Apart("users", Range(seq), r)
    BY <2>1, <2>2, InsertedRow
  <2>6. Database!Insert(Range(seq), r, Database!usersKeys) = Range(seq) \cup {r}
    BY <2>5, KeysOfTables DEF Apart, Database!Insert, Database!Refused
  <2> QED BY <2>3, <2>4, <2>6
<1>2. CASE c.op = "setEmailVerified"
  <2> DEFINE g(r) == IF r.id = c.id THEN [r EXCEPT !.emailVerified = TRUE] ELSE r
  <2>1. \A r \in UserRecord : r.emailVerified => [r EXCEPT !.emailVerified = TRUE] = r
    BY DEF UserRecord
  <2>2. q = [i \in DOMAIN seq |-> g(seq[i])]
    BY <1>0, <1>2, <2>1 DEF UsersMem, Assign
  <2>3. \A i \in DOMAIN seq : g(seq[i]) \in UserRecord
    BY <1>0 DEF UserRecord
  <2>4. Database!UsersDb(c, Range(seq), id, at) = {g(r) : r \in Range(seq)}
    BY <1>2 DEF Database!UsersDb, Database!Update
  <2> HIDE DEF g
  <2> QED BY <2>2, <2>3, <2>4, ChangedRows DEF Range
<1> QED BY <1>1, <1>2 DEF UserCalls

\* A slug that is taken: the Map throws where the database refuses; the same rows
\* on either side.
LEMMA AccountsStep ==
    ASSUME NEW seq \in Seq(AccountRecord), NEW c \in AccountCalls,
           NEW id \in Ids, NEW at \in Times,
           NEW q, q = AccountsMem(c, seq, id, at), Unique("accounts", q)
    PROVE  /\ q \in Seq(AccountRecord)
           /\ Range(q) = Database!AccountsDb(c, Range(seq), id, at)
<1>0. \A i \in DOMAIN seq : seq[i] \in AccountRecord
  OBVIOUS
<1> DEFINE r == [id |-> id, slug |-> c.slug, plan |-> Else(c.plan, "oss")]
           places == {i \in DOMAIN seq : seq[i].slug = c.slug}
<1>1. q = IF FirstAt(seq, places) # None THEN seq ELSE Append(seq, r)
  BY DEF AccountsMem, Find, Matches, FirstAt
<1>2. Database!AccountsDb(c, Range(seq), id, at)
        = Database!Insert(Range(seq), r, Database!accountsKeys)
  BY DEF Database!AccountsDb, Database!Else, Else
<1>3. r \in AccountRecord
  BY DEF AccountCalls, AccountRecord, Else
<1>4. None \notin AccountRecord
  BY RowAssumption DEF Tables
<1>5. CASE places = {}
  <2>1. q = Append(seq, r)
    BY <1>1, <1>5 DEF FirstAt
  <2> HIDE DEF r
  <2>2. q \in Seq(AccountRecord) /\ Range(q) = Range(seq) \cup {r}
    BY <1>3, <2>1, AppendedRow
  <2>3. Apart("accounts", Range(seq), r)
    BY <1>3, <2>1, InsertedRow
  <2>4. Database!Insert(Range(seq), r, Database!accountsKeys) = Range(seq) \cup {r}
    BY <2>3, KeysOfTables DEF Apart, Database!Insert, Database!Refused
  <2> QED BY <1>2, <2>2, <2>4
<1>6. CASE places # {}
  <2>1. FirstAt(seq, places) \in Range(seq)
    BY <1>6, FirstIsARow
  <2>2. q = seq
    BY <1>0, <1>1, <1>4, <2>1 DEF Range
  <2>3. Database!Refused(Range(seq), r, Database!accountsKeys)
    BY <1>6 DEF Database!Refused, Database!accountsKeys, Range
  <2> QED BY <1>2, <2>2, <2>3 DEF Database!Insert
<1> QED BY <1>5, <1>6

\* A new identity: the same rows on either side.
LEMMA AuthIdentitiesStep ==
    ASSUME NEW seq \in Seq(AuthIdentityRecord), NEW c \in AuthIdentityCalls,
           NEW id \in Ids, NEW at \in Times,
           NEW q, q = AuthIdentitiesMem(c, seq, id, at), Unique("authIdentities", q)
    PROVE  /\ q \in Seq(AuthIdentityRecord)
           /\ Range(q) = Database!AuthIdentitiesDb(c, Range(seq), id, at)
<1>0. \A i \in DOMAIN seq : seq[i] \in AuthIdentityRecord
  OBVIOUS
<1>1. CASE c.op = "create"
  <2> DEFINE r == [id |-> id, userId |-> c.userId, providerId |-> c.providerId,
                  providerSubject |-> c.providerSubject]
  <2>0. c.userId \in Names /\ c.providerId \in Names /\ c.providerSubject \in Names
    BY <1>1 DEF AuthIdentityCalls
  <2>1. r \in AuthIdentityRecord
    BY <1>1, <2>0 DEF AuthIdentityRecord
  <2>2. q = Append(seq, r)
    BY <1>1 DEF AuthIdentitiesMem
  <2>3. Database!AuthIdentitiesDb(c, Range(seq), id, at)
          = Database!Insert(Range(seq), r, Database!authIdentitiesKeys)
    BY <1>1 DEF Database!AuthIdentitiesDb, Database!Else, Else
  <2> HIDE DEF r
  <2>4. q \in Seq(AuthIdentityRecord) /\ Range(q) = Range(seq) \cup {r}
    BY <2>1, <2>2, AppendedRow
  <2>5. Apart("authIdentities", Range(seq), r)
    BY <2>1, <2>2, InsertedRow
  <2>6. Database!Insert(Range(seq), r, Database!authIdentitiesKeys)
            = Range(seq) \cup {r}
    BY <2>5, KeysOfTables DEF Apart, Database!Insert, Database!Refused
  <2> QED BY <2>3, <2>4, <2>6
<1> QED BY <1>1 DEF AuthIdentityCalls

\* A sign-in, and what becomes of it: the same rows on either side.
LEMMA AuthSessionsStep ==
    ASSUME NEW seq \in Seq(AuthSessionRecord), NEW c \in AuthSessionCalls,
           NEW id \in Ids, NEW at \in Times,
           NEW q, q = AuthSessionsMem(c, seq, id, at), Unique("authSessions", q)
    PROVE  /\ q \in Seq(AuthSessionRecord)
           /\ Range(q) = Database!AuthSessionsDb(c, Range(seq), id, at)
<1>0. \A i \in DOMAIN seq : seq[i] \in AuthSessionRecord
  OBVIOUS
<1>1. CASE c.op = "create"
  <2> DEFINE r == [id |-> id, sessionHash |-> c.sessionHash, currentAccountId |-> None,
                  claimsSnapshot |-> {}, lastSeenAt |-> at, expiresAt |-> c.expiresAt,
                  revokedAt |-> None]
  <2>0. c.sessionHash \in Names /\ c.expiresAt \in Times
    BY <1>1 DEF AuthSessionCalls
  <2>1. r \in AuthSessionRecord
    BY <1>1, <2>0 DEF AuthSessionRecord, Opt
  <2>2. q = Append(seq, r)
    BY <1>1 DEF AuthSessionsMem
  <2>3. Database!AuthSessionsDb(c, Range(seq), id, at)
          = Database!Insert(Range(seq), r, Database!authSessionsKeys)
    BY <1>1 DEF Database!AuthSessionsDb, Database!Else, Else
  <2> HIDE DEF r
  <2>4. q \in Seq(AuthSessionRecord) /\ Range(q) = Range(seq) \cup {r}
    BY <2>1, <2>2, AppendedRow
  <2>5. Apart("authSessions", Range(seq), r)
    BY <2>1, <2>2, InsertedRow
  <2>6. Database!Insert(Range(seq), r, Database!authSessionsKeys) = Range(seq) \cup {r}
    BY <2>5, KeysOfTables DEF Apart, Database!Insert, Database!Refused
  <2> QED BY <2>3, <2>4, <2>6
<1>2. CASE c.op = "touch"
  <2> DEFINE g(r) == IF r.id = c.id THEN [r EXCEPT !.lastSeenAt = at] ELSE r
  <2>1. \A r \in AuthSessionRecord : g(r) \in AuthSessionRecord
    BY DEF AuthSessionRecord
  <2>2. q = [i \in DOMAIN seq |-> g(seq[i])]
    BY <1>2 DEF AuthSessionsMem, Assign
  <2>3. Database!AuthSessionsDb(c, Range(seq), id, at) = {g(r) : r \in Range(seq)}
    BY <1>2 DEF Database!AuthSessionsDb, Database!Update
  <2> HIDE DEF g
  <2>4. \A i \in DOMAIN seq : g(seq[i]) \in AuthSessionRecord
    BY <1>0, <2>1
  <2> QED BY <2>2, <2>3, <2>4, ChangedRows DEF Range
<1>3. CASE c.op = "revoke"
  <2> DEFINE g(r) == IF r.id = c.id THEN [r EXCEPT !.revokedAt = at] ELSE r
  <2>1. \A r \in AuthSessionRecord : g(r) \in AuthSessionRecord
    BY DEF AuthSessionRecord, Opt
  <2>2. q = [i \in DOMAIN seq |-> g(seq[i])]
    BY <1>3 DEF AuthSessionsMem, Assign
  <2>3. Database!AuthSessionsDb(c, Range(seq), id, at) = {g(r) : r \in Range(seq)}
    BY <1>3 DEF Database!AuthSessionsDb, Database!Update
  <2> HIDE DEF g
  <2>4. \A i \in DOMAIN seq : g(seq[i]) \in AuthSessionRecord
    BY <1>0, <2>1
  <2> QED BY <2>2, <2>3, <2>4, ChangedRows DEF Range
<1>4. CASE c.op = "updateClaimsSnapshot"
  <2> DEFINE g(r) == IF r.id = c.id THEN [r EXCEPT !.claimsSnapshot = c.claims] ELSE r
  <2>0. c.claims \in SUBSET {"moderate"}
    BY <1>4 DEF AuthSessionCalls
  <2>1. \A r \in AuthSessionRecord : g(r) \in AuthSessionRecord
    BY <2>0 DEF AuthSessionRecord
  <2>2. q = [i \in DOMAIN seq |-> g(seq[i])]
    BY <1>4 DEF AuthSessionsMem, Assign
  <2>3. Database!AuthSessionsDb(c, Range(seq), id, at) = {g(r) : r \in Range(seq)}
    BY <1>4 DEF Database!AuthSessionsDb, Database!Update
  <2> HIDE DEF g
  <2>4. \A i \in DOMAIN seq : g(seq[i]) \in AuthSessionRecord
    BY <1>0, <2>1
  <2> QED BY <2>2, <2>3, <2>4, ChangedRows DEF Range
<1>5. CASE c.op = "updateCurrentAccount"
  <2> DEFINE g(r) == IF r.id = c.id
                        THEN [r EXCEPT !.currentAccountId = c.accountId] ELSE r
  <2>0. c.accountId \in Opt(Names)
    BY <1>5 DEF AuthSessionCalls
  <2>1. \A r \in AuthSessionRecord : g(r) \in AuthSessionRecord
    BY <2>0 DEF AuthSessionRecord
  <2>2. q = [i \in DOMAIN seq |-> g(seq[i])]
    BY <1>5 DEF AuthSessionsMem, Assign
  <2>3. Database!AuthSessionsDb(c, Range(seq), id, at) = {g(r) : r \in Range(seq)}
    BY <1>5 DEF Database!AuthSessionsDb, Database!Update
  <2> HIDE DEF g
  <2>4. \A i \in DOMAIN seq : g(seq[i]) \in AuthSessionRecord
    BY <1>0, <2>1
  <2> QED BY <2>2, <2>3, <2>4, ChangedRows DEF Range
<1> QED BY <1>1, <1>2, <1>3, <1>4, <1>5 DEF AuthSessionCalls

\* A new guest; a guest who signs in: the same rows on either side.
LEMMA GuestsStep ==
    ASSUME NEW seq \in Seq(GuestRecord), NEW c \in GuestCalls,
           NEW id \in Ids, NEW at \in Times,
           NEW q, q = GuestsMem(c, seq, id, at), Unique("guests", q)
    PROVE  /\ q \in Seq(GuestRecord)
           /\ Range(q) = Database!GuestsDb(c, Range(seq), id, at)
<1>0. \A i \in DOMAIN seq : seq[i] \in GuestRecord
  OBVIOUS
<1>1. CASE c.op = "create"
  <2> DEFINE r == [id |-> id, sessionId |-> c.sessionId, fingerprint |-> c.fingerprint,
                  userId |-> None]
  <2>0. c.sessionId \in Names /\ c.fingerprint \in Names
    BY <1>1 DEF GuestCalls
  <2>1. r \in GuestRecord
    BY <1>1, <2>0 DEF GuestRecord, Opt
  <2>2. q = Append(seq, r)
    BY <1>1 DEF GuestsMem
  <2>3. Database!GuestsDb(c, Range(seq), id, at)
          = Database!Insert(Range(seq), r, Database!guestsKeys)
    BY <1>1 DEF Database!GuestsDb, Database!Else, Else
  <2> HIDE DEF r
  <2>4. q \in Seq(GuestRecord) /\ Range(q) = Range(seq) \cup {r}
    BY <2>1, <2>2, AppendedRow
  <2>5. Apart("guests", Range(seq), r)
    BY <2>1, <2>2, InsertedRow
  <2>6. Database!Insert(Range(seq), r, Database!guestsKeys) = Range(seq) \cup {r}
    BY <2>5, KeysOfTables DEF Apart, Database!Insert, Database!Refused
  <2> QED BY <2>3, <2>4, <2>6
<1>2. CASE c.op = "linkUser"
  <2> DEFINE g(r) == IF r.id = c.id THEN [r EXCEPT !.userId = c.userId] ELSE r
  <2>0. c.userId \in Opt(Names)
    BY <1>2 DEF GuestCalls, Opt
  <2>1. \A r \in GuestRecord : g(r) \in GuestRecord
    BY <2>0 DEF GuestRecord
  <2>2. q = [i \in DOMAIN seq |-> g(seq[i])]
    BY <1>2 DEF GuestsMem, Assign
  <2>3. Database!GuestsDb(c, Range(seq), id, at) = {g(r) : r \in Range(seq)}
    BY <1>2 DEF Database!GuestsDb, Database!Update
  <2> HIDE DEF g
  <2>4. \A i \in DOMAIN seq : g(seq[i]) \in GuestRecord
    BY <1>0, <2>1
  <2> QED BY <2>2, <2>3, <2>4, ChangedRows DEF Range
<1> QED BY <1>1, <1>2 DEF GuestCalls

\* A slot: taken, kept alive, moved up, released; the same rows on either side.
LEMMA GuestSlotsStep ==
    ASSUME NEW seq \in Seq(GuestSlotRecord), NEW c \in GuestSlotCalls,
           NEW id \in Ids, NEW at \in Times,
           NEW q, q = GuestSlotsMem(c, seq, id, at), Unique("guestSlots", q)
    PROVE  /\ q \in Seq(GuestSlotRecord)
           /\ Range(q) = Database!GuestSlotsDb(c, Range(seq), id, at)
<1>0. \A i \in DOMAIN seq : seq[i] \in GuestSlotRecord
  OBVIOUS
<1>1. CASE c.op = "create"
  <2> DEFINE r == [id |-> id, sessionId |-> c.sessionId,
                  fingerprintHash |-> c.fingerprintHash, slotToken |-> id,
                  status |-> c.status, queuePosition |-> None,
                  lastHeartbeat |-> at, createdAt |-> at]
  <2>0. /\ c.sessionId \in Names /\ c.fingerprintHash \in Names
        /\ c.status \in GuestSlotStatus
    BY <1>1 DEF GuestSlotCalls, GuestSlotStatus
  <2>1. r \in GuestSlotRecord
    BY <1>1, <2>0 DEF GuestSlotRecord, Opt
  <2>2. q = Append(seq, r)
    BY <1>1 DEF GuestSlotsMem
  <2>3. Database!GuestSlotsDb(c, Range(seq), id, at)
          = Database!Insert(Range(seq), r, Database!guestSlotsKeys)
    BY <1>1 DEF Database!GuestSlotsDb, Database!Else, Else
  <2> HIDE DEF r
  <2>4. q \in Seq(GuestSlotRecord) /\ Range(q) = Range(seq) \cup {r}
    BY <2>1, <2>2, AppendedRow
  <2>5. Apart("guestSlots", Range(seq), r)
    BY <2>1, <2>2, InsertedRow
  <2>6. Database!Insert(Range(seq), r, Database!guestSlotsKeys) = Range(seq) \cup {r}
    BY <2>5, KeysOfTables DEF Apart, Database!Insert, Database!Refused
  <2> QED BY <2>3, <2>4, <2>6
<1>2. CASE c.op = "touchHeartbeat"
  <2> DEFINE g(r) == IF r.id = c.id THEN [r EXCEPT !.lastHeartbeat = at] ELSE r
  <2>1. \A r \in GuestSlotRecord : g(r) \in GuestSlotRecord
    BY DEF GuestSlotRecord
  <2>2. q = [i \in DOMAIN seq |-> g(seq[i])]
    BY <1>2 DEF GuestSlotsMem, Assign
  <2>3. Database!GuestSlotsDb(c, Range(seq), id, at) = {g(r) : r \in Range(seq)}
    BY <1>2 DEF Database!GuestSlotsDb, Database!Update
  <2> HIDE DEF g
  <2>4. \A i \in DOMAIN seq : g(seq[i]) \in GuestSlotRecord
    BY <1>0, <2>1
  <2> QED BY <2>2, <2>3, <2>4, ChangedRows DEF Range
<1>3. CASE c.op = "setStatus"
  <2> DEFINE g(r) == IF r.id = c.id
                  THEN [r EXCEPT !.status = c.status,
                                 !.queuePosition = Else(c.queuePosition, @)]
                  ELSE r
  <2>0. c.status \in GuestSlotStatus /\ c.queuePosition \in Opt(Ids)
    BY <1>3, StoreAssumption DEF GuestSlotCalls, GuestSlotStatus, Opt, Ids
  <2>1. \A r \in GuestSlotRecord : g(r) \in GuestSlotRecord
    BY <2>0 DEF GuestSlotRecord, Else
  <2>2. q = [i \in DOMAIN seq |-> g(seq[i])]
    BY <1>3 DEF GuestSlotsMem, Assign
  <2>3. Database!GuestSlotsDb(c, Range(seq), id, at) = {g(r) : r \in Range(seq)}
    BY <1>3 DEF Database!GuestSlotsDb, Database!Update, Database!Else, Else
  <2> HIDE DEF g
  <2>4. \A i \in DOMAIN seq : g(seq[i]) \in GuestSlotRecord
    BY <1>0, <2>1
  <2> QED BY <2>2, <2>3, <2>4, ChangedRows DEF Range
<1>4. CASE c.op = "delete"
  <2> DEFINE places == {i \in DOMAIN seq : ~(seq[i].id = c.id)}
  <2>1. q = InOrder(seq, places, Earlier(seq))
    BY <1>4 DEF GuestSlotsMem, Drop, Filter, Matches
  <2>2. Database!GuestSlotsDb(c, Range(seq), id, at) = RowsAt(seq, places)
    BY <1>0, <1>4 DEF Database!GuestSlotsDb, Database!Delete, Range, RowsAt
  <2> QED BY <2>1, <2>2, FilteredRows
<1> QED BY <1>1, <1>2, <1>3, <1>4 DEF GuestSlotCalls

\* An event of the audit log: the same rows on either side.
LEMMA SessionAuditEventsStep ==
    ASSUME NEW seq \in Seq(SessionAuditEventRecord), NEW c \in SessionAuditEventCalls,
           NEW id \in Ids, NEW at \in Times,
           NEW q, q = SessionAuditEventsMem(c, seq, id, at),
           Unique("sessionAuditEvents", q)
    PROVE  /\ q \in Seq(SessionAuditEventRecord)
           /\ Range(q) = Database!SessionAuditEventsDb(c, Range(seq), id, at)
<1>0. \A i \in DOMAIN seq : seq[i] \in SessionAuditEventRecord
  OBVIOUS
<1> DEFINE r == [id |-> id, sessionId |-> c.sessionId, createdAt |-> at]
<1>1. c.sessionId \in Names
  BY DEF SessionAuditEventCalls
<1>2. r \in SessionAuditEventRecord
  BY <1>1 DEF SessionAuditEventRecord
<1>3. q = Append(seq, r)
  BY DEF SessionAuditEventsMem
<1>4. Database!SessionAuditEventsDb(c, Range(seq), id, at) = Range(seq) \cup {r}
  BY DEF Database!SessionAuditEventsDb
<1> HIDE DEF r
<1> QED BY <1>2, <1>3, <1>4, AppendedRow

\* A report on a lyric: the same rows on either side.
LEMMA LyricsFeedbackStep ==
    ASSUME NEW seq \in Seq(LyricsFeedbackRecord), NEW c \in LyricsFeedbackCalls,
           NEW id \in Ids, NEW at \in Times,
           NEW q, q = LyricsFeedbackMem(c, seq, id, at), Unique("lyricsFeedback", q)
    PROVE  /\ q \in Seq(LyricsFeedbackRecord)
           /\ Range(q) = Database!LyricsFeedbackDb(c, Range(seq), id, at)
<1>0. \A i \in DOMAIN seq : seq[i] \in LyricsFeedbackRecord
  OBVIOUS
<1> DEFINE r == [id |-> id, lyricsCacheId |-> c.lyricsCacheId, kind |-> c.kind]
<1>1. c.lyricsCacheId \in Opt(Names) /\ c.kind \in Names
  BY DEF LyricsFeedbackCalls
<1>2. r \in LyricsFeedbackRecord
  BY <1>1 DEF LyricsFeedbackRecord
<1>3. q = Append(seq, r)
  BY DEF LyricsFeedbackMem
<1>4. Database!LyricsFeedbackDb(c, Range(seq), id, at) = Range(seq) \cup {r}
  BY DEF Database!LyricsFeedbackDb
<1> HIDE DEF r
<1> QED BY <1>2, <1>3, <1>4, AppendedRow

\* An action that is counted: the same rows on either side.
LEMMA ActionEventsStep ==
    ASSUME NEW seq \in Seq(ActionEventRecord), NEW c \in ActionEventCalls,
           NEW id \in Ids, NEW at \in Times,
           NEW q, q = ActionEventsMem(c, seq, id, at), Unique("actionEvents", q)
    PROVE  /\ q \in Seq(ActionEventRecord)
           /\ Range(q) = Database!ActionEventsDb(c, Range(seq), id, at)
<1>0. \A i \in DOMAIN seq : seq[i] \in ActionEventRecord
  OBVIOUS
<1> DEFINE r == [id |-> id, sessionId |-> c.sessionId, eventKind |-> c.eventKind,
                createdAt |-> at]
<1>1. c.sessionId \in Names /\ c.eventKind \in Names
  BY DEF ActionEventCalls
<1>2. r \in ActionEventRecord
  BY <1>1 DEF ActionEventRecord
<1>3. q = Append(seq, r)
  BY DEF ActionEventsMem
<1>4. Database!ActionEventsDb(c, Range(seq), id, at) = Range(seq) \cup {r}
  BY DEF Database!ActionEventsDb
<1> HIDE DEF r
<1> QED BY <1>2, <1>3, <1>4, AppendedRow

\* A session: opened, set up, ended and opened again; the same rows on either side.
LEMMA SessionsStep ==
    ASSUME NEW seq \in Seq(SessionRecord), NEW c \in SessionCalls,
           NEW id \in Ids, NEW at \in Times,
           NEW q, q = SessionsMem(c, seq, id, at), Unique("sessions", q)
    PROVE  /\ q \in Seq(SessionRecord)
           /\ Range(q) = Database!SessionsDb(c, Range(seq), id, at)
<1>0. \A i \in DOMAIN seq : seq[i] \in SessionRecord
  OBVIOUS
<1>1. CASE c.op = "create"
  <2> DEFINE r == [id |-> id, accountId |-> c.accountId, qrSlug |-> c.qrSlug,
                  songsPerGuestCap |-> Else(c.songsPerGuestCap, 3), startedAt |-> at,
                  endedAt |-> None]
  <2>0. /\ c.accountId \in Names /\ c.qrSlug \in Names
        /\ Else(c.songsPerGuestCap, 3) \in 1..3
    BY <1>1 DEF SessionCalls, Else
  <2>1. r \in SessionRecord
    BY <1>1, <2>0 DEF SessionRecord, Opt
  <2>2. q = Append(seq, r)
    BY <1>1 DEF SessionsMem
  <2>3. Database!SessionsDb(c, Range(seq), id, at)
          = Database!Insert(Range(seq), r, Database!sessionsKeys)
    BY <1>1 DEF Database!SessionsDb, Database!Else, Else
  <2> HIDE DEF r
  <2>4. q \in Seq(SessionRecord) /\ Range(q) = Range(seq) \cup {r}
    BY <2>1, <2>2, AppendedRow
  <2>5. Apart("sessions", Range(seq), r)
    BY <2>1, <2>2, InsertedRow
  <2>6. Database!Insert(Range(seq), r, Database!sessionsKeys) = Range(seq) \cup {r}
    BY <2>5, KeysOfTables DEF Apart, Database!Insert, Database!Refused
  <2> QED BY <2>3, <2>4, <2>6
<1>2. CASE c.op = "update" /\ c.songsPerGuestCap = None
  <2>1. q = seq
    BY <1>2 DEF SessionsMem, Assign
  <2>2. Database!SessionsDb(c, Range(seq), id, at) = Range(seq)
    BY <1>2 DEF Database!SessionsDb
  <2> QED BY <2>1, <2>2
<1>3. CASE c.op = "update" /\ c.songsPerGuestCap # None
  <2> DEFINE g(r) == IF r.id = c.id
                     THEN [r EXCEPT !.songsPerGuestCap = c.songsPerGuestCap] ELSE r
  <2>0. c.songsPerGuestCap \in 1..3
    BY <1>3 DEF SessionCalls
  <2>1. \A r \in SessionRecord : g(r) \in SessionRecord
    BY <2>0 DEF SessionRecord
  <2>2. q = [i \in DOMAIN seq |-> g(seq[i])]
    BY <1>3 DEF SessionsMem, Assign
  <2>3. Database!SessionsDb(c, Range(seq), id, at) = {g(r) : r \in Range(seq)}
    BY <1>3 DEF Database!SessionsDb, Database!Update
  <2> HIDE DEF g
  <2>4. \A i \in DOMAIN seq : g(seq[i]) \in SessionRecord
    BY <1>0, <2>1
  <2> QED BY <2>2, <2>3, <2>4, ChangedRows DEF Range
<1>4. CASE c.op = "end"
  <2> DEFINE g(r) == IF r.id = c.id /\ r.endedAt = None
                     THEN [r EXCEPT !.endedAt = at] ELSE r
  <2>1. \A r \in SessionRecord : g(r) \in SessionRecord
    BY DEF SessionRecord, Opt
  <2>2. q = [i \in DOMAIN seq |-> g(seq[i])]
    BY <1>4 DEF SessionsMem, Assign
  <2>3. Database!SessionsDb(c, Range(seq), id, at) = {g(r) : r \in Range(seq)}
    BY <1>4 DEF Database!SessionsDb, Database!Update
  <2> HIDE DEF g
  <2>4. \A i \in DOMAIN seq : g(seq[i]) \in SessionRecord
    BY <1>0, <2>1
  <2> QED BY <2>2, <2>3, <2>4, ChangedRows DEF Range
<1>5. CASE c.op = "reopen"
  <2> DEFINE g(r) == IF r.id = c.id THEN [r EXCEPT !.endedAt = None] ELSE r
             new == {g(r) : r \in Range(seq)}
             taken == \E r, s \in new :
                r # s /\ Database!sessionsKeys(r) \cap Database!sessionsKeys(s) # {}
  <2>1. \A r \in SessionRecord : g(r) \in SessionRecord
    BY DEF SessionRecord, Opt
  <2>2. q = [i \in DOMAIN seq |-> g(seq[i])]
    BY <1>5 DEF SessionsMem, Assign
  <2>3. Database!SessionsDb(c, Range(seq), id, at) = IF taken THEN Range(seq) ELSE new
    BY <1>5 DEF Database!SessionsDb, Database!Update
  <2> HIDE DEF g
  <2>4. \A i \in DOMAIN seq : g(seq[i]) \in SessionRecord
    BY <1>0, <2>1
  <2>5. q \in Seq(SessionRecord) /\ Range(q) = new
    BY <2>2, <2>4, ChangedRows DEF Range
  <2>6. ASSUME NEW x \in new, NEW y \in new, x # y
        PROVE  Database!sessionsKeys(x) \cap Database!sessionsKeys(y) = {}
    <3>1. PICK i \in DOMAIN q : q[i] = x
      BY <2>5 DEF Range
    <3>2. PICK j \in DOMAIN q : q[j] = y
      BY <2>5 DEF Range
    <3>3. i # j
      BY <2>6, <3>1, <3>2
    <3> QED BY <3>1, <3>2, <3>3, KeysOfTables DEF Unique
  <2> QED BY <2>3, <2>5, <2>6
<1> QED BY <1>1, <1>2, <1>3, <1>4, <1>5 DEF SessionCalls

\* A released slot keeps a place for a while: the same rows on either side.
LEMMA FingerprintPriorityStep ==
    ASSUME NEW seq \in Seq(FingerprintPriorityRecord),
           NEW c \in FingerprintPriorityCalls,
           NEW id \in Ids, NEW at \in Times,
           NEW q, q = FingerprintPriorityMem(c, seq, id, at),
           Unique("fingerprintPriority", q)
    PROVE  /\ q \in Seq(FingerprintPriorityRecord)
           /\ Range(q) = Database!FingerprintPriorityDb(c, Range(seq), id, at)
<1>0. \A i \in DOMAIN seq : seq[i] \in FingerprintPriorityRecord
  OBVIOUS
<1>1. CASE c.op = "upsert"
  <2> DEFINE places == {i \in DOMAIN seq : seq[i].sessionId = c.sessionId
                           /\ seq[i].fingerprintHash = c.fingerprintHash}
             new == [sessionId |-> c.sessionId, fingerprintHash |-> c.fingerprintHash,
                     releasedAt |-> at, expiresAt |-> c.expiresAt]
             g(s) == IF /\ s.sessionId = c.sessionId
                        /\ s.fingerprintHash = c.fingerprintHash
                     THEN [s EXCEPT !.releasedAt = at, !.expiresAt = c.expiresAt]
                     ELSE s
  <2>a. c.sessionId \in Names /\ c.fingerprintHash \in Names /\ c.expiresAt \in Times
    BY <1>1 DEF FingerprintPriorityCalls
  <2>b. new \in FingerprintPriorityRecord
    BY <2>a DEF FingerprintPriorityRecord
  <2>g. \A s \in FingerprintPriorityRecord : g(s) \in FingerprintPriorityRecord
    BY <2>a DEF FingerprintPriorityRecord
  <2>c. q = IF places = {} THEN Append(seq, new)
              ELSE [i \in DOMAIN seq |-> IF i \in places THEN new ELSE seq[i]]
    BY <1>1 DEF FingerprintPriorityMem, Put, Matches
  <2>d. Database!FingerprintPriorityDb(c, Range(seq), id, at)
           = IF places = {} THEN Range(seq) \cup {new} ELSE {g(s) : s \in Range(seq)}
    BY <1>1
       DEF Database!FingerprintPriorityDb, Database!Upsert, Range, Else,
           Database!Else
  <2>e. CASE places = {}
    <3>2. q = Append(seq, new)
      BY <2>c, <2>e
    <3> HIDE DEF new, g, places
    <3> QED BY <2>b, <2>d, <2>e, <3>2, AppendedRow
  <2>f. CASE places # {}
    <3>5. \A i \in places : g(seq[i]) = new
      BY <1>0, <2>a DEF FingerprintPriorityRecord
    <3>6. q = [i \in DOMAIN seq |-> g(seq[i])]
      BY <2>c, <2>f, <3>5
    <3> HIDE DEF g, places
    <3>7. \A i \in DOMAIN seq : g(seq[i]) \in FingerprintPriorityRecord
      BY <1>0, <2>g
    <3>8. Database!FingerprintPriorityDb(c, Range(seq), id, at)
              = {g(s) : s \in Range(seq)}
      BY <2>d, <2>f
    <3> QED BY <3>6, <3>7, <3>8, ChangedRows DEF Range
  <2> QED BY <2>e, <2>f
<1>2. CASE c.op = "delete"
  <2> DEFINE places == {i \in DOMAIN seq : ~(seq[i].sessionId = c.sessionId
                                             /\ seq[i].fingerprintHash
                                                    = c.fingerprintHash)}
  <2>1. q = InOrder(seq, places, Earlier(seq))
    BY <1>2 DEF FingerprintPriorityMem, Drop, Filter, Matches
  <2>2. Database!FingerprintPriorityDb(c, Range(seq), id, at) = RowsAt(seq, places)
    BY <1>0, <1>2 DEF Database!FingerprintPriorityDb, Database!Delete, Range, RowsAt
  <2> QED BY <2>1, <2>2, FilteredRows
<1> QED BY <1>1, <1>2 DEF FingerprintPriorityCalls

\* A membership is granted, or changed where it stands: the same rows on either
\* side.
LEMMA MembershipsStep ==
    ASSUME NEW seq \in Seq(MembershipRecord), NEW c \in MembershipCalls,
           NEW id \in Ids, NEW at \in Times,
           NEW q, q = MembershipsMem(c, seq, id, at), Unique("memberships", q),
           Unique("memberships", seq)
    PROVE  /\ q \in Seq(MembershipRecord)
           /\ Range(q) = Database!MembershipsDb(c, Range(seq), id, at)
<1>0. \A i \in DOMAIN seq : seq[i] \in MembershipRecord
  OBVIOUS
<1> DEFINE places == {i \in DOMAIN seq : seq[i].accountId = c.accountId
                         /\ seq[i].userId = c.userId}
           old == FirstAt(seq, places)
           new == [accountId |-> c.accountId, userId |-> c.userId, role |-> c.role,
                   status |-> Else(c.status, "active"), createdAt |-> at]
           r == [accountId |-> c.accountId, userId |-> c.userId, role |-> c.role,
                 status |-> Else(c.status, "active"),
                 createdAt |-> Else(Kept(None, old, "createdAt"), at)]
           g(s) == IF s.accountId = c.accountId /\ s.userId = c.userId
                   THEN [s EXCEPT !.role = c.role, !.status = Else(c.status, "active")]
                   ELSE s
<1>a. /\ c.accountId \in Names /\ c.userId \in Names /\ c.role \in {"owner", "viewer"}
      /\ Else(c.status, "active") \in {"active", "suspended"}
  BY DEF MembershipCalls, Else
<1>b. new \in MembershipRecord
  BY <1>a DEF MembershipRecord
<1>g. \A s \in MembershipRecord : g(s) \in MembershipRecord
  BY <1>a DEF MembershipRecord
<1>c. q = IF places = {} THEN Append(seq, r)
            ELSE [i \in DOMAIN seq |-> IF i \in places THEN r ELSE seq[i]]
  BY DEF MembershipsMem, Put, Matches, Find, FirstAt
<1>d. Database!MembershipsDb(c, Range(seq), id, at)
         = IF places = {} THEN Range(seq) \cup {new} ELSE {g(s) : s \in Range(seq)}
  BY DEF Database!MembershipsDb, Database!Upsert, Range, Else, Database!Else
<1>e. CASE places = {}
  <2>1. r = new
    BY <1>e DEF FirstAt, Kept, Else
  <2>2. q = Append(seq, new)
    BY <1>c, <1>e, <2>1
  <2> HIDE DEF new, g, places
  <2> QED BY <1>b, <1>d, <1>e, <2>2, AppendedRow
<1>f. CASE places # {}
  <2>0. places \in SUBSET DOMAIN seq /\ \A i \in places :
            seq[i].accountId = c.accountId /\ seq[i].userId = c.userId
    OBVIOUS
  <2>1. ShareAKey("memberships", seq, places)
    BY DEF ShareAKey, KeysOf, membershipsKeys
  <2>2. \A i \in places : seq[i] = old
    <3> HIDE DEF places
    <3> QED BY <1>f, <2>0, <2>1, OnlyRow
  <2>3. /\ old \in Range(seq) /\ old \in MembershipRecord /\ old.accountId = c.accountId
        /\ old.userId = c.userId
    BY <1>0, <1>f, <2>0, <2>2 DEF Range
  <2>4. old # None
    BY <2>3, RowAssumption DEF Tables
  <2>k0. Else(Kept(None, old, "createdAt"), at) = old.createdAt
    BY <1>a, <2>3, <2>4, StoreAssumption
       DEF MembershipRecord, Kept, Else, Opt, Times, Ids
  <2>l. g(old) = r
    BY <2>3, <2>k0 DEF MembershipRecord
  <2>5. \A i \in places : g(seq[i]) = r
    BY <1>0, <2>2, <2>l
  <2>6. q = [i \in DOMAIN seq |-> g(seq[i])]
    BY <1>c, <1>f, <2>5
  <2> HIDE DEF g, places
  <2>7. \A i \in DOMAIN seq : g(seq[i]) \in MembershipRecord
    BY <1>0, <1>g
  <2>8. Database!MembershipsDb(c, Range(seq), id, at) = {g(s) : s \in Range(seq)}
    BY <1>d, <1>f
  <2> QED BY <2>6, <2>7, <2>8, ChangedRows DEF Range
<1> QED BY <1>e, <1>f

\* A password is set; attempts are counted and forgiven: the same rows on either
\* side.
LEMMA PasswordCredentialsStep ==
    ASSUME NEW seq \in Seq(PasswordCredentialRecord), NEW c \in PasswordCredentialCalls,
           NEW id \in Ids, NEW at \in Times,
           NEW q, q = PasswordCredentialsMem(c, seq, id, at),
           Unique("passwordCredentials", q),
           Unique("passwordCredentials", seq),
           \A i \in DOMAIN seq : seq[i].failedAttempts < id
    PROVE  /\ q \in Seq(PasswordCredentialRecord)
           /\ Range(q) = Database!PasswordCredentialsDb(c, Range(seq), id, at)
<1>0. \A i \in DOMAIN seq : seq[i] \in PasswordCredentialRecord
  OBVIOUS
<1>1. CASE c.op = "upsert"
  <2> DEFINE places == {i \in DOMAIN seq : seq[i].userId = c.userId}
             new == [userId |-> c.userId, passwordHash |-> c.passwordHash,
                     failedAttempts |-> 0, lockedUntil |-> None]
             g(s) == IF s.userId = c.userId
                     THEN [s EXCEPT !.passwordHash = c.passwordHash,
                                    !.failedAttempts = 0, !.lockedUntil = None]
                     ELSE s
  <2>a. /\ c.userId \in Names /\ c.passwordHash \in Names
        /\ 0 \in 0..MaxCalls /\ None \in Opt(Times)
    BY <1>1, StoreAssumption DEF PasswordCredentialCalls, Opt
  <2>b. new \in PasswordCredentialRecord
    BY <2>a DEF PasswordCredentialRecord
  <2>g. \A s \in PasswordCredentialRecord : g(s) \in PasswordCredentialRecord
    BY <2>a DEF PasswordCredentialRecord
  <2>c. q = IF places = {} THEN Append(seq, new)
              ELSE [i \in DOMAIN seq |-> IF i \in places THEN new ELSE seq[i]]
    BY <1>1 DEF PasswordCredentialsMem, Put, Matches
  <2>d. Database!PasswordCredentialsDb(c, Range(seq), id, at)
           = IF places = {} THEN Range(seq) \cup {new} ELSE {g(s) : s \in Range(seq)}
    BY <1>1
       DEF Database!PasswordCredentialsDb, Database!Upsert, Range, Else,
           Database!Else
  <2>e. CASE places = {}
    <3>2. q = Append(seq, new)
      BY <2>c, <2>e
    <3> HIDE DEF new, g, places
    <3> QED BY <2>b, <2>d, <2>e, <3>2, AppendedRow
  <2>f. CASE places # {}
    <3>5. \A i \in places : g(seq[i]) = new
      BY <1>0, <2>a DEF PasswordCredentialRecord
    <3>6. q = [i \in DOMAIN seq |-> g(seq[i])]
      BY <2>c, <2>f, <3>5
    <3> HIDE DEF g, places
    <3>7. \A i \in DOMAIN seq : g(seq[i]) \in PasswordCredentialRecord
      BY <1>0, <2>g
    <3>8. Database!PasswordCredentialsDb(c, Range(seq), id, at)
              = {g(s) : s \in Range(seq)}
      BY <2>d, <2>f
    <3> QED BY <3>6, <3>7, <3>8, ChangedRows DEF Range
  <2> QED BY <2>e, <2>f
<1>2. CASE c.op = "recordFailedAttempt"
  <2> DEFINE places == {i \in DOMAIN seq : seq[i].userId = c.userId}
             old == FirstAt(seq, places)
             g(s) == IF s.userId = c.userId
                     THEN [s EXCEPT !.failedAttempts = @ + 1,
                                    !.lockedUntil = c.lockUntil]
                     ELSE s
  <2>1. c.lockUntil \in Opt(Times)
    BY <1>2 DEF PasswordCredentialCalls
  <2>2. \A i \in DOMAIN seq : g(seq[i]) \in PasswordCredentialRecord
    <3> SUFFICES ASSUME NEW i \in DOMAIN seq
                 PROVE  g(seq[i]) \in PasswordCredentialRecord
      OBVIOUS
    <3>1. seq[i].failedAttempts + 1 \in 0..MaxCalls
      BY <1>0, StoreAssumption DEF PasswordCredentialRecord, Ids
    <3> QED BY <1>0, <2>1, <3>1 DEF PasswordCredentialRecord
  <2>3. Database!PasswordCredentialsDb(c, Range(seq), id, at)
            = {g(s) : s \in Range(seq)}
    BY <1>2 DEF Database!PasswordCredentialsDb
  <2>4. q = IF old = None THEN seq
            ELSE [i \in DOMAIN seq |->
                    IF seq[i].userId = c.userId
                    THEN [seq[i] EXCEPT !.failedAttempts = old.failedAttempts + 1,
                                        !.lockedUntil = c.lockUntil]
                    ELSE seq[i]]
    BY <1>2 DEF PasswordCredentialsMem, Assign, Find, Matches, FirstAt
  <2>5. places \in SUBSET DOMAIN seq /\ \A i \in DOMAIN seq :
            i \in places <=> seq[i].userId = c.userId
    OBVIOUS
  <2>6. ShareAKey("passwordCredentials", seq, places)
    BY DEF ShareAKey, KeysOf, passwordCredentialsKeys
  <2>7. \A i \in places : seq[i] = old
    <3> HIDE DEF places
    <3> QED BY <2>5, <2>6, OnlyRow
  <2>8. None \notin PasswordCredentialRecord
    BY RowAssumption DEF Tables
  <2>9. q = [i \in DOMAIN seq |-> g(seq[i])]
    <3>1. CASE places = {}
      <4>1. q = seq
        BY <2>4, <3>1 DEF FirstAt
      <4>2. \A i \in DOMAIN seq : g(seq[i]) = seq[i]
        BY <2>5, <3>1
      <4>3. seq = [i \in DOMAIN seq |-> seq[i]]
        OBVIOUS
      <4> HIDE DEF g
      <4> QED BY <4>1, <4>2, <4>3
    <3>2. CASE places # {}
      <4>1. old # None
        BY <1>0, <2>5, <2>7, <2>8, <3>2
      <4>2. \A i \in places : g(seq[i]) = [seq[i] EXCEPT
                                  !.failedAttempts = old.failedAttempts + 1,
                                  !.lockedUntil = c.lockUntil]
        BY <2>7
      <4> QED BY <2>4, <2>5, <4>1, <4>2
    <3> QED BY <3>1, <3>2
  <2> HIDE DEF g, places, old
  <2> QED BY <1>0, <2>2, <2>3, <2>9, ChangedRows DEF Range
<1>3. CASE c.op = "resetFailedAttempts"
  <2> DEFINE g(r) == IF r.userId = c.userId
                  THEN [r EXCEPT !.failedAttempts = 0, !.lockedUntil = None] ELSE r
  <2>0. 0 \in 0..MaxCalls /\ None \in Opt(Times)
    BY <1>3, StoreAssumption DEF PasswordCredentialCalls, Opt
  <2>1. \A r \in PasswordCredentialRecord : g(r) \in PasswordCredentialRecord
    BY <2>0 DEF PasswordCredentialRecord
  <2>2. q = [i \in DOMAIN seq |-> g(seq[i])]
    BY <1>3 DEF PasswordCredentialsMem, Assign
  <2>3. Database!PasswordCredentialsDb(c, Range(seq), id, at)
            = {g(r) : r \in Range(seq)}
    BY <1>3 DEF Database!PasswordCredentialsDb, Database!Update
  <2> HIDE DEF g
  <2>4. \A i \in DOMAIN seq : g(seq[i]) \in PasswordCredentialRecord
    BY <1>0, <2>1
  <2> QED BY <2>2, <2>3, <2>4, ChangedRows DEF Range
<1> QED BY <1>1, <1>2, <1>3 DEF PasswordCredentialCalls

\* A token: issued, used, swept; the same rows on either side.
LEMMA EmailVerificationTokensStep ==
    ASSUME NEW seq \in Seq(EmailVerificationTokenRecord),
           NEW c \in EmailVerificationTokenCalls,
           NEW id \in Ids, NEW at \in Times,
           NEW q, q = EmailVerificationTokensMem(c, seq, id, at),
           Unique("emailVerificationTokens", q),
           c.op = "create" /\ q # seq => Len(q) > Len(seq)
    PROVE  /\ q \in Seq(EmailVerificationTokenRecord)
           /\ Range(q) = Database!EmailVerificationTokensDb(c, Range(seq), id, at)
<1>0. \A i \in DOMAIN seq : seq[i] \in EmailVerificationTokenRecord
  OBVIOUS
<1>1. CASE c.op = "create"
  <2> DEFINE places == {i \in DOMAIN seq : seq[i].tokenHash = c.tokenHash}
             r == [tokenHash |-> c.tokenHash, userId |-> c.userId,
                   expiresAt |-> c.expiresAt, consumedAt |-> None]
  <2>1. c.tokenHash \in Names /\ c.userId \in Names /\ c.expiresAt \in Times
    BY <1>1 DEF EmailVerificationTokenCalls
  <2>2. r \in EmailVerificationTokenRecord
    BY <2>1 DEF EmailVerificationTokenRecord, Opt
  <2>3. Database!EmailVerificationTokensDb(c, Range(seq), id, at)
          = Database!Insert(Range(seq), r, Database!emailVerificationTokensKeys)
    BY <1>1 DEF Database!EmailVerificationTokensDb
  <2>4. CASE places = {}
    <3>1. q = Append(seq, r)
      BY <1>1, <2>4 DEF EmailVerificationTokensMem, Put, Matches
    <3> HIDE DEF r, places
    <3>2. q \in Seq(EmailVerificationTokenRecord) /\ Range(q) = Range(seq) \cup {r}
      BY <2>2, <3>1, AppendedRow
    <3>3. Apart("emailVerificationTokens", Range(seq), r)
      BY <2>2, <3>1, InsertedRow
    <3>4. Database!Insert(Range(seq), r, Database!emailVerificationTokensKeys)
              = Range(seq) \cup {r}
      BY <3>3, KeysOfTables DEF Apart, Database!Insert, Database!Refused
    <3> QED BY <2>3, <3>2, <3>4
  <2>5. CASE places # {}
    <3>1. q = [i \in DOMAIN seq |-> IF i \in places THEN r ELSE seq[i]]
      BY <1>1, <2>5 DEF EmailVerificationTokensMem, Put, Matches
    <3>2. Len(q) = Len(seq)
      <4>1. q \in Seq(EmailVerificationTokenRecord) /\ DOMAIN q = DOMAIN seq
        <5> HIDE DEF r, places
        <5> QED BY <1>0, <2>2, <3>1, ChangedRows
      <4> QED BY <4>1
    <3>3. q = seq
      BY <1>1, <3>2
    <3>4. Database!Refused(Range(seq), r, Database!emailVerificationTokensKeys)
      BY <2>5 DEF Database!Refused, Database!emailVerificationTokensKeys, Range
    <3> QED BY <2>3, <3>3, <3>4 DEF Database!Insert
  <2> QED BY <2>4, <2>5
<1>2. CASE c.op = "consume"
  <2> DEFINE g(r) == IF r.tokenHash = c.tokenHash
                        THEN [r EXCEPT !.consumedAt = at] ELSE r
  <2>1. \A r \in EmailVerificationTokenRecord : g(r) \in EmailVerificationTokenRecord
    BY DEF EmailVerificationTokenRecord, Opt
  <2>2. q = [i \in DOMAIN seq |-> g(seq[i])]
    BY <1>2 DEF EmailVerificationTokensMem, Assign
  <2>3. Database!EmailVerificationTokensDb(c, Range(seq), id, at)
            = {g(r) : r \in Range(seq)}
    BY <1>2 DEF Database!EmailVerificationTokensDb, Database!Update
  <2> HIDE DEF g
  <2>4. \A i \in DOMAIN seq : g(seq[i]) \in EmailVerificationTokenRecord
    BY <1>0, <2>1
  <2> QED BY <2>2, <2>3, <2>4, ChangedRows DEF Range
<1>3. CASE c.op = "pruneExpired"
  <2> DEFINE places == {i \in DOMAIN seq :
                           ~(seq[i].expiresAt <= at \/ seq[i].consumedAt # None)}
  <2>1. q = InOrder(seq, places, Earlier(seq))
    BY <1>3 DEF EmailVerificationTokensMem, Drop, Filter, Matches
  <2>2. Database!EmailVerificationTokensDb(c, Range(seq), id, at) = RowsAt(seq, places)
    BY <1>0, <1>3
       DEF Database!EmailVerificationTokensDb, Database!Delete, Range, RowsAt
  <2> QED BY <2>1, <2>2, FilteredRows
<1> QED BY <1>1, <1>2, <1>3 DEF EmailVerificationTokenCalls

\* The same for the tokens of a password reset: the same rows on either side.
LEMMA PasswordResetTokensStep ==
    ASSUME NEW seq \in Seq(PasswordResetTokenRecord), NEW c \in PasswordResetTokenCalls,
           NEW id \in Ids, NEW at \in Times,
           NEW q, q = PasswordResetTokensMem(c, seq, id, at),
           Unique("passwordResetTokens", q),
           c.op = "create" /\ q # seq => Len(q) > Len(seq)
    PROVE  /\ q \in Seq(PasswordResetTokenRecord)
           /\ Range(q) = Database!PasswordResetTokensDb(c, Range(seq), id, at)
<1>1. Unique("emailVerificationTokens", q)
  <2>1. \A r : KeysOf("passwordResetTokens", r) = KeysOf("emailVerificationTokens", r)
    BY KeysOfTables
  <2> QED BY <2>1 DEF Unique
<1> QED BY <1>1, EmailVerificationTokensStep
        DEF PasswordResetTokenRecord, PasswordResetTokenCalls, PasswordResetTokensMem,
            Database!PasswordResetTokensDb

\* A sign-in under way: begun, finished, swept; the same rows on either side.
LEMMA OAuthStatesStep ==
    ASSUME NEW seq \in Seq(OAuthStateRecord), NEW c \in OAuthStateCalls,
           NEW id \in Ids, NEW at \in Times,
           NEW q, q = OAuthStatesMem(c, seq, id, at), Unique("oauthStates", q),
           c.op = "create" /\ q # seq => Len(q) > Len(seq)
    PROVE  /\ q \in Seq(OAuthStateRecord)
           /\ Range(q) = Database!OAuthStatesDb(c, Range(seq), id, at)
<1>0. \A i \in DOMAIN seq : seq[i] \in OAuthStateRecord
  OBVIOUS
<1>1. CASE c.op = "create"
  <2> DEFINE places == {i \in DOMAIN seq : seq[i].state = c.state}
             r == [state |-> c.state, flowKind |-> c.flowKind,
                   expiresAt |-> c.expiresAt]
  <2>1. /\ c.state \in Names /\ c.flowKind \in {"login", "connect-provider"}
        /\ c.expiresAt \in Times
    BY <1>1 DEF OAuthStateCalls
  <2>2. r \in OAuthStateRecord
    BY <2>1 DEF OAuthStateRecord
  <2>3. Database!OAuthStatesDb(c, Range(seq), id, at)
          = Database!Insert(Range(seq), r, Database!oauthStatesKeys)
    BY <1>1 DEF Database!OAuthStatesDb
  <2>4. CASE places = {}
    <3>1. q = Append(seq, r)
      BY <1>1, <2>4 DEF OAuthStatesMem, Put, Matches
    <3> HIDE DEF r, places
    <3>2. q \in Seq(OAuthStateRecord) /\ Range(q) = Range(seq) \cup {r}
      BY <2>2, <3>1, AppendedRow
    <3>3. Apart("oauthStates", Range(seq), r)
      BY <2>2, <3>1, InsertedRow
    <3>4. Database!Insert(Range(seq), r, Database!oauthStatesKeys) = Range(seq) \cup {r}
      BY <3>3, KeysOfTables DEF Apart, Database!Insert, Database!Refused
    <3> QED BY <2>3, <3>2, <3>4
  <2>5. CASE places # {}
    <3>1. q = [i \in DOMAIN seq |-> IF i \in places THEN r ELSE seq[i]]
      BY <1>1, <2>5 DEF OAuthStatesMem, Put, Matches
    <3>2. Len(q) = Len(seq)
      <4>1. q \in Seq(OAuthStateRecord) /\ DOMAIN q = DOMAIN seq
        <5> HIDE DEF r, places
        <5> QED BY <1>0, <2>2, <3>1, ChangedRows
      <4> QED BY <4>1
    <3>3. q = seq
      BY <1>1, <3>2
    <3>4. Database!Refused(Range(seq), r, Database!oauthStatesKeys)
      BY <2>5 DEF Database!Refused, Database!oauthStatesKeys, Range
    <3> QED BY <2>3, <3>3, <3>4 DEF Database!Insert
  <2> QED BY <2>4, <2>5
<1>2. CASE c.op = "delete"
  <2> DEFINE places == {i \in DOMAIN seq : ~(seq[i].state = c.state)}
  <2>1. q = InOrder(seq, places, Earlier(seq))
    BY <1>2 DEF OAuthStatesMem, Drop, Filter, Matches
  <2>2. Database!OAuthStatesDb(c, Range(seq), id, at) = RowsAt(seq, places)
    BY <1>0, <1>2 DEF Database!OAuthStatesDb, Database!Delete, Range, RowsAt
  <2> QED BY <2>1, <2>2, FilteredRows
<1>3. CASE c.op = "pruneExpired"
  <2> DEFINE places == {i \in DOMAIN seq : ~(seq[i].expiresAt <= at)}
  <2>1. q = InOrder(seq, places, Earlier(seq))
    BY <1>3 DEF OAuthStatesMem, Drop, Filter, Matches
  <2>2. Database!OAuthStatesDb(c, Range(seq), id, at) = RowsAt(seq, places)
    BY <1>0, <1>3 DEF Database!OAuthStatesDb, Database!Delete, Range, RowsAt
  <2> QED BY <2>1, <2>2, FilteredRows
<1> QED BY <1>1, <1>2, <1>3 DEF OAuthStateCalls

\* A connection: made again where it stands, refreshed, removed; the rows of the
\* table after it, or of one that keeps what an upsert leaves out.
LEMMA ProviderConnectionsStep ==
    ASSUME NEW seq \in Seq(ProviderConnectionRecord), NEW c \in ProviderConnectionCalls,
           NEW id \in Ids, NEW at \in Times,
           NEW q, q = ProviderConnectionsMem(c, seq, id, at),
           Unique("providerConnections", q),
           Unique("providerConnections", seq)
    PROVE  /\ q \in Seq(ProviderConnectionRecord)
           /\ Range(q) = IF c.op = "upsert"
                         THEN Database!ProviderConnectionsKept(c, Range(seq), id)
                         ELSE Database!ProviderConnectionsDb(c, Range(seq), id, at)
<1>0. \A i \in DOMAIN seq : seq[i] \in ProviderConnectionRecord
  OBVIOUS
<1>1. CASE c.op = "upsert"
  <2> DEFINE token == Database!RefreshToken(c, id)
  <2>h. token = IF c.refresh THEN id ELSE None
    BY DEF Database!RefreshToken
  <2> DEFINE places == {i \in DOMAIN seq : seq[i].accountId = c.accountId
                           /\ seq[i].providerId = c.providerId}
             old == FirstAt(seq, places)
             new == [id |-> id, accountId |-> c.accountId, providerId |-> c.providerId,
                     providerAccountId |-> c.providerAccountId, accessToken |-> id,
                     refreshToken |-> token]
             r == [id |-> Else(Kept(None, old, "id"), id),
                   accountId |-> c.accountId, providerId |-> c.providerId,
                   providerAccountId |->
                      Kept(c.providerAccountId, old, "providerAccountId"),
                   accessToken |-> id,
                   refreshToken |-> IF c.refresh THEN id
                                    ELSE Kept(None, old, "refreshToken")]
             g(s) == IF s.accountId = c.accountId /\ s.providerId = c.providerId
                     THEN [s EXCEPT
                             !.providerAccountId = Database!Else(c.providerAccountId, @),
                             !.accessToken = id,
                             !.refreshToken = Database!Else(token, @)]
                     ELSE s
  <2>i. \A x, y : Database!Else(x, y) = Else(x, y)
    BY DEF Database!Else, Else
  <2>a. /\ c.accountId \in Names /\ c.providerId \in Names
        /\ c.providerAccountId \in Opt(Names) /\ c.refresh \in BOOLEAN
        /\ token \in Opt(Ids)
    BY <1>1, <2>h DEF ProviderConnectionCalls, Opt
  <2>b. new \in ProviderConnectionRecord
    BY <2>a DEF ProviderConnectionRecord
  <2>g. \A s \in ProviderConnectionRecord : g(s) \in ProviderConnectionRecord
    BY <2>a, <2>i DEF ProviderConnectionRecord, Else, Opt
  <2>c. q = IF places = {} THEN Append(seq, r)
              ELSE [i \in DOMAIN seq |-> IF i \in places THEN r ELSE seq[i]]
    BY <1>1 DEF ProviderConnectionsMem, Put, Matches, Find, FirstAt
  <2>d. Database!ProviderConnectionsKept(c, Range(seq), id)
           = IF places = {} THEN Range(seq) \cup {new} ELSE {g(s) : s \in Range(seq)}
    <3> DEFINE same(s) == s.accountId = c.accountId /\ s.providerId = c.providerId
    <3>1. Database!ProviderConnectionsKept(c, Range(seq), id)
             = IF \E s \in Range(seq) : same(s)
               THEN {g(s) : s \in Range(seq)} ELSE Range(seq) \cup {new}
      BY Zenon DEF Database!ProviderConnectionsKept, Database!ConnectionUpsert,
                   Database!Upsert
    <3>2. (\E s \in Range(seq) : same(s)) <=> places # {}
      BY DEF Range
    <3> HIDE DEF new, g, places, same
    <3> QED BY <3>1, <3>2
  <2>e. CASE places = {}
    <3>1. r = new
      BY <2>e, <2>h DEF FirstAt, Kept, Else
    <3>2. q = Append(seq, new)
      BY <2>c, <2>e, <3>1
    <3> HIDE DEF new, g, places
    <3> QED BY <1>1, <2>b, <2>d, <2>e, <3>2, AppendedRow
  <2>f. CASE places # {}
    <3>0. places \in SUBSET DOMAIN seq /\ \A i \in places :
              seq[i].accountId = c.accountId /\ seq[i].providerId = c.providerId
      OBVIOUS
    <3>j. \A i \in places :
              <<"account", c.accountId, c.providerId>> \in KeysOf("providerConnections",
                                                                  seq[i])
      BY <3>0 DEF KeysOf, providerConnectionsKeys
    <3>1. ShareAKey("providerConnections", seq, places)
      BY <3>j DEF ShareAKey
    <3>2. \A i \in places : seq[i] = old
      <4> HIDE DEF places
      <4> QED BY <2>f, <3>0, <3>1, OnlyRow
    <3>3. /\ old \in Range(seq) /\ old \in ProviderConnectionRecord
          /\ old.accountId = c.accountId /\ old.providerId = c.providerId
      BY <1>0, <2>f, <3>0, <3>2 DEF Range
    <3>4. old # None
      BY <3>3, RowAssumption DEF Tables
    <3>k0. Else(Kept(None, old, "id"), id) = old.id
      BY <1>1, <2>a, <3>3, <3>4, StoreAssumption
         DEF ProviderConnectionRecord, Kept, Else, Opt, Times, Ids
    <3>k1. Kept(c.providerAccountId, old, "providerAccountId")
               = Else(c.providerAccountId, old.providerAccountId)
      BY <1>1, <2>a, <3>3, <3>4, StoreAssumption
         DEF ProviderConnectionRecord, Kept, Else, Opt, Times, Ids
    <3>k2. (IF c.refresh THEN id ELSE Kept(None, old, "refreshToken"))
               = Else(token, old.refreshToken)
      BY <1>1, <2>a, <2>h, <3>3, <3>4, StoreAssumption
         DEF ProviderConnectionRecord, Kept, Else, Opt, Times, Ids
    <3>l. g(old) = r
      BY <2>i, <3>3, <3>k0, <3>k1, <3>k2 DEF ProviderConnectionRecord
    <3>5. \A i \in places : g(seq[i]) = r
      BY <1>0, <3>2, <3>l
    <3>6. q = [i \in DOMAIN seq |-> g(seq[i])]
      BY <2>c, <2>f, <3>5
    <3> HIDE DEF g, places
    <3>7. \A i \in DOMAIN seq : g(seq[i]) \in ProviderConnectionRecord
      BY <1>0, <2>g
    <3>8. Database!ProviderConnectionsKept(c, Range(seq), id) = {g(s) : s \in Range(seq)}
      BY <2>d, <2>f
    <3> QED BY <1>1, <3>6, <3>7, <3>8, ChangedRows DEF Range
  <2> QED BY <2>e, <2>f
<1>2. CASE c.op = "updateTokens"
  <2> DEFINE g(r) == IF r.id = c.id
                  THEN [r EXCEPT !.accessToken = id,
                                 !.refreshToken = IF c.refresh THEN id ELSE @]
                  ELSE r
  <2>0. id \in Opt(Ids)
    BY <1>2 DEF ProviderConnectionCalls, Opt
  <2>1. \A r \in ProviderConnectionRecord : g(r) \in ProviderConnectionRecord
    BY <2>0 DEF ProviderConnectionRecord
  <2>2. q = [i \in DOMAIN seq |-> g(seq[i])]
    BY <1>2 DEF ProviderConnectionsMem, Assign
  <2>3. Database!ProviderConnectionsDb(c, Range(seq), id, at)
            = {g(r) : r \in Range(seq)}
    BY <1>2 DEF Database!ProviderConnectionsDb, Database!Update
  <2> HIDE DEF g
  <2>4. \A i \in DOMAIN seq : g(seq[i]) \in ProviderConnectionRecord
    BY <1>0, <2>1
  <2> QED BY <1>2, <2>2, <2>3, <2>4, ChangedRows DEF Range
<1>3. CASE c.op = "delete"
  <2> DEFINE places == {i \in DOMAIN seq : ~(seq[i].id = c.id)}
  <2>1. q = InOrder(seq, places, Earlier(seq))
    BY <1>3 DEF ProviderConnectionsMem, Drop, Filter, Matches
  <2>2. Database!ProviderConnectionsDb(c, Range(seq), id, at) = RowsAt(seq, places)
    BY <1>0, <1>3 DEF Database!ProviderConnectionsDb, Database!Delete, Range, RowsAt
  <2> QED BY <1>3, <2>1, <2>2, FilteredRows
<1> QED BY <1>1, <1>2, <1>3 DEF ProviderConnectionCalls

\* A lyric: cached, hit, suppressed; the rows of the table after it, or of one that
\* keeps what an upsert leaves out.
LEMMA LyricsCacheStep ==
    ASSUME NEW seq \in Seq(LyricsCacheRecord), NEW c \in LyricsCacheCalls,
           NEW id \in Ids, NEW at \in Times,
           NEW q, q = LyricsCacheMem(c, seq, id, at), Unique("lyricsCache", q),
           Unique("lyricsCache", seq)
    PROVE  /\ q \in Seq(LyricsCacheRecord)
           /\ Range(q) = IF c.op = "upsert"
                         THEN Database!LyricsCacheKept(c, Range(seq), id, at)
                         ELSE Database!LyricsCacheDb(c, Range(seq), id, at)
<1>0. \A i \in DOMAIN seq : seq[i] \in LyricsCacheRecord
  OBVIOUS
<1>1. CASE c.op = "upsert"
  <2> DEFINE places == {i \in DOMAIN seq : seq[i].source = c.source
                           /\ seq[i].lookupKeyHash = c.lookupKeyHash}
             old == FirstAt(seq, places)
             new == [id |-> id, source |-> c.source, lookupKeyHash |-> c.lookupKeyHash,
                     isSynced |-> c.syncedLrc # None, syncedLrc |-> c.syncedLrc,
                     createdAt |-> at, lastUsedAt |-> None, suppressedAt |-> None]
             r == [id |-> Else(Kept(None, old, "id"), id), source |-> c.source,
                   lookupKeyHash |-> c.lookupKeyHash, isSynced |-> c.syncedLrc # None,
                   syncedLrc |-> Kept(c.syncedLrc, old, "syncedLrc"),
                   createdAt |-> Else(Kept(None, old, "createdAt"), at),
                   lastUsedAt |-> Kept(None, old, "lastUsedAt"),
                   suppressedAt |-> Kept(None, old, "suppressedAt")]
             g(s) == IF s.source = c.source /\ s.lookupKeyHash = c.lookupKeyHash
                     THEN [s EXCEPT !.isSynced = c.syncedLrc # None,
                                    !.syncedLrc = Else(c.syncedLrc, @)]
                     ELSE s
  <2>a. /\ c.source \in Names /\ c.lookupKeyHash \in Names
        /\ c.syncedLrc \in Opt(Names) /\ None \in Opt(Times)
    BY <1>1 DEF LyricsCacheCalls, Opt
  <2>b. new \in LyricsCacheRecord
    BY <2>a DEF LyricsCacheRecord
  <2>g. \A s \in LyricsCacheRecord : g(s) \in LyricsCacheRecord
    BY <2>a DEF LyricsCacheRecord, Else, Opt
  <2>c. q = IF places = {} THEN Append(seq, r)
              ELSE [i \in DOMAIN seq |-> IF i \in places THEN r ELSE seq[i]]
    BY <1>1 DEF LyricsCacheMem, Put, Matches, Find, FirstAt
  <2>d. Database!LyricsCacheKept(c, Range(seq), id, at)
           = IF places = {} THEN Range(seq) \cup {new} ELSE {g(s) : s \in Range(seq)}
    BY DEF Database!LyricsCacheKept, Database!LyricUpsert, Database!Upsert, Range, Else,
           Database!Else
  <2>e. CASE places = {}
    <3>1. r = new
      BY <2>e DEF FirstAt, Kept, Else
    <3>2. q = Append(seq, new)
      BY <2>c, <2>e, <3>1
    <3> HIDE DEF new, g, places
    <3> QED BY <1>1, <2>b, <2>d, <2>e, <3>2, AppendedRow
  <2>f. CASE places # {}
    <3>0. places \in SUBSET DOMAIN seq /\ \A i \in places :
              seq[i].source = c.source /\ seq[i].lookupKeyHash = c.lookupKeyHash
      OBVIOUS
    <3>j. \A i \in places :
              <<"lookup", c.source, c.lookupKeyHash>> \in KeysOf("lyricsCache", seq[i])
      BY <3>0 DEF KeysOf, lyricsCacheKeys
    <3>1. ShareAKey("lyricsCache", seq, places)
      BY <3>j DEF ShareAKey
    <3>2. \A i \in places : seq[i] = old
      <4> HIDE DEF places
      <4> QED BY <2>f, <3>0, <3>1, OnlyRow
    <3>3. /\ old \in Range(seq) /\ old \in LyricsCacheRecord /\ old.source = c.source
          /\ old.lookupKeyHash = c.lookupKeyHash
      BY <1>0, <2>f, <3>0, <3>2 DEF Range
    <3>4. old # None
      BY <3>3, RowAssumption DEF Tables
    <3>k0. Else(Kept(None, old, "id"), id) = old.id
      BY <1>1, <2>a, <3>3, <3>4, StoreAssumption
         DEF LyricsCacheRecord, Kept, Else, Opt, Times, Ids
    <3>k1. Kept(c.syncedLrc, old, "syncedLrc") = Else(c.syncedLrc, old.syncedLrc)
      BY <1>1, <2>a, <3>3, <3>4, StoreAssumption
         DEF LyricsCacheRecord, Kept, Else, Opt, Times, Ids
    <3>k2. Else(Kept(None, old, "createdAt"), at) = old.createdAt
      BY <1>1, <2>a, <3>3, <3>4, StoreAssumption
         DEF LyricsCacheRecord, Kept, Else, Opt, Times, Ids
    <3>k3. /\ Kept(None, old, "lastUsedAt") = old.lastUsedAt
           /\ Kept(None, old, "suppressedAt") = old.suppressedAt
      BY <1>1, <2>a, <3>3, <3>4, StoreAssumption
         DEF LyricsCacheRecord, Kept, Else, Opt, Times, Ids
    <3>l. g(old) = r
      BY <3>3, <3>k0, <3>k1, <3>k2, <3>k3 DEF LyricsCacheRecord
    <3>5. \A i \in places : g(seq[i]) = r
      BY <1>0, <3>2, <3>l
    <3>6. q = [i \in DOMAIN seq |-> g(seq[i])]
      BY <2>c, <2>f, <3>5
    <3> HIDE DEF g, places
    <3>7. \A i \in DOMAIN seq : g(seq[i]) \in LyricsCacheRecord
      BY <1>0, <2>g
    <3>8. Database!LyricsCacheKept(c, Range(seq), id, at) = {g(s) : s \in Range(seq)}
      BY <2>d, <2>f
    <3> QED BY <1>1, <3>6, <3>7, <3>8, ChangedRows DEF Range
  <2> QED BY <2>e, <2>f
<1>2. CASE c.op = "recordHit"
  <2> DEFINE g(r) == IF r.id = c.id THEN [r EXCEPT !.lastUsedAt = at] ELSE r
  <2>0. at \in Opt(Times)
    BY <1>2 DEF LyricsCacheCalls, Opt
  <2>1. \A r \in LyricsCacheRecord : g(r) \in LyricsCacheRecord
    BY <2>0 DEF LyricsCacheRecord
  <2>2. q = [i \in DOMAIN seq |-> g(seq[i])]
    BY <1>2 DEF LyricsCacheMem, Assign
  <2>3. Database!LyricsCacheDb(c, Range(seq), id, at) = {g(r) : r \in Range(seq)}
    BY <1>2 DEF Database!LyricsCacheDb, Database!Update
  <2> HIDE DEF g
  <2>4. \A i \in DOMAIN seq : g(seq[i]) \in LyricsCacheRecord
    BY <1>0, <2>1
  <2> QED BY <1>2, <2>2, <2>3, <2>4, ChangedRows DEF Range
<1>3. CASE c.op = "suppress"
  <2> DEFINE g(r) == IF r.id = c.id THEN [r EXCEPT !.suppressedAt = at] ELSE r
  <2>0. at \in Opt(Times)
    BY <1>3 DEF LyricsCacheCalls, Opt
  <2>1. \A r \in LyricsCacheRecord : g(r) \in LyricsCacheRecord
    BY <2>0 DEF LyricsCacheRecord
  <2>2. q = [i \in DOMAIN seq |-> g(seq[i])]
    BY <1>3 DEF LyricsCacheMem, Assign
  <2>3. Database!LyricsCacheDb(c, Range(seq), id, at) = {g(r) : r \in Range(seq)}
    BY <1>3 DEF Database!LyricsCacheDb, Database!Update
  <2> HIDE DEF g
  <2>4. \A i \in DOMAIN seq : g(seq[i]) \in LyricsCacheRecord
    BY <1>0, <2>1
  <2> QED BY <1>3, <2>2, <2>3, <2>4, ChangedRows DEF Range
<1> QED BY <1>1, <1>2, <1>3 DEF LyricsCacheCalls

\* A subject: judged, judged again, forgotten; the rows of the table after it, or of
\* one that keeps what an upsert leaves out.
LEMMA AbuseSubjectsStep ==
    ASSUME NEW seq \in Seq(AbuseSubjectRecord), NEW c \in AbuseSubjectCalls,
           NEW id \in Ids, NEW at \in Times,
           NEW q, q = AbuseSubjectsMem(c, seq, id, at), Unique("abuseSubjects", q),
           Unique("abuseSubjects", seq)
    PROVE  /\ q \in Seq(AbuseSubjectRecord)
           /\ Range(q) = IF c.op = "upsert"
                         THEN Database!AbuseSubjectsKept(c, Range(seq), at)
                         ELSE Database!AbuseSubjectsDb(c, Range(seq), id, at)
<1>0. \A i \in DOMAIN seq : seq[i] \in AbuseSubjectRecord
  OBVIOUS
<1>1. CASE c.op = "upsert"
  <2> DEFINE places == {i \in DOMAIN seq : seq[i].subjectHash = c.subjectHash}
             old == FirstAt(seq, places)
             new == [subjectHash |-> c.subjectHash, sessionId |-> c.sessionId,
                     riskScore |-> Else(c.riskScore, "0.00"), status |-> c.status,
                     firstSeenAt |-> at, lastSeenAt |-> at, expiresAt |-> c.expiresAt]
             r == [subjectHash |-> c.subjectHash,
                   sessionId |-> Kept(c.sessionId, old, "sessionId"),
                   riskScore |-> Else(Kept(c.riskScore, old, "riskScore"), "0.00"),
                   status |-> c.status,
                   firstSeenAt |-> Else(Kept(None, old, "firstSeenAt"), at),
                   lastSeenAt |-> at,
                   expiresAt |-> Kept(c.expiresAt, old, "expiresAt")]
             g(s) == IF s.subjectHash = c.subjectHash
                     THEN [s EXCEPT !.sessionId = Else(c.sessionId, @),
                                    !.riskScore = Else(c.riskScore, @),
                                    !.status = c.status, !.lastSeenAt = at,
                                    !.expiresAt = Else(c.expiresAt, @)]
                     ELSE s
  <2>a. /\ c.subjectHash \in Names /\ c.sessionId \in Opt(Names)
        /\ c.riskScore \in {None, "1.00"} /\ c.status \in AbuseSubjectStatus
        /\ c.expiresAt \in Opt(Times) /\ "0.00" # None /\ "1.00" # None
    BY <1>1, StoreAssumption DEF AbuseSubjectCalls, Opt, Times, RiskScores
  <2>b. new \in AbuseSubjectRecord
    BY <2>a DEF AbuseSubjectRecord, Else, RiskScores
  <2>g. \A s \in AbuseSubjectRecord : g(s) \in AbuseSubjectRecord
    BY <2>a DEF AbuseSubjectRecord, Else, RiskScores, Opt
  <2>c. q = IF places = {} THEN Append(seq, r)
              ELSE [i \in DOMAIN seq |-> IF i \in places THEN r ELSE seq[i]]
    BY <1>1 DEF AbuseSubjectsMem, Put, Matches, Find, FirstAt
  <2>d. Database!AbuseSubjectsKept(c, Range(seq), at)
           = IF places = {} THEN Range(seq) \cup {new} ELSE {g(s) : s \in Range(seq)}
    BY DEF Database!AbuseSubjectsKept, Database!SubjectUpsert, Database!Upsert, Range,
           Else, Database!Else
  <2>e. CASE places = {}
    <3>1. r = new
      BY <2>e DEF FirstAt, Kept, Else
    <3>2. q = Append(seq, new)
      BY <2>c, <2>e, <3>1
    <3> HIDE DEF new, g, places
    <3> QED BY <1>1, <2>b, <2>d, <2>e, <3>2, AppendedRow
  <2>f. CASE places # {}
    <3>0. places \in SUBSET DOMAIN seq /\ \A i \in places :
              seq[i].subjectHash = c.subjectHash
      OBVIOUS
    <3>1. ShareAKey("abuseSubjects", seq, places)
      BY DEF ShareAKey, KeysOf, abuseSubjectsKeys
    <3>2. \A i \in places : seq[i] = old
      <4> HIDE DEF places
      <4> QED BY <2>f, <3>0, <3>1, OnlyRow
    <3>3. /\ old \in Range(seq) /\ old \in AbuseSubjectRecord
          /\ old.subjectHash = c.subjectHash
      BY <1>0, <2>f, <3>0, <3>2 DEF Range
    <3>4. old # None
      BY <3>3, RowAssumption DEF Tables
    <3>k0. Kept(c.sessionId, old, "sessionId") = Else(c.sessionId, old.sessionId)
      BY <1>1, <2>a, <3>3, <3>4, StoreAssumption
         DEF AbuseSubjectRecord, Kept, Else, Opt, Times, Ids, RiskScores
    <3>k1. Else(Kept(c.riskScore, old, "riskScore"), "0.00")
               = Else(c.riskScore, old.riskScore)
      BY <1>1, <2>a, <3>3, <3>4, StoreAssumption
         DEF AbuseSubjectRecord, Kept, Else, Opt, Times, Ids, RiskScores
    <3>k2. Else(Kept(None, old, "firstSeenAt"), at) = old.firstSeenAt
      BY <1>1, <2>a, <3>3, <3>4, StoreAssumption
         DEF AbuseSubjectRecord, Kept, Else, Opt, Times, Ids, RiskScores
    <3>k3. Kept(c.expiresAt, old, "expiresAt") = Else(c.expiresAt, old.expiresAt)
      BY <1>1, <2>a, <3>3, <3>4, StoreAssumption
         DEF AbuseSubjectRecord, Kept, Else, Opt, Times, Ids, RiskScores
    <3>l. g(old) = r
      BY <3>3, <3>k0, <3>k1, <3>k2, <3>k3 DEF AbuseSubjectRecord
    <3>5. \A i \in places : g(seq[i]) = r
      BY <1>0, <3>2, <3>l
    <3>6. q = [i \in DOMAIN seq |-> g(seq[i])]
      BY <2>c, <2>f, <3>5
    <3> HIDE DEF g, places
    <3>7. \A i \in DOMAIN seq : g(seq[i]) \in AbuseSubjectRecord
      BY <1>0, <2>g
    <3>8. Database!AbuseSubjectsKept(c, Range(seq), at) = {g(s) : s \in Range(seq)}
      BY <2>d, <2>f
    <3> QED BY <1>1, <3>6, <3>7, <3>8, ChangedRows DEF Range
  <2> QED BY <2>e, <2>f
<1>2. CASE c.op = "delete"
  <2> DEFINE places == {i \in DOMAIN seq : ~(seq[i].subjectHash = c.subjectHash)}
  <2>1. q = InOrder(seq, places, Earlier(seq))
    BY <1>2 DEF AbuseSubjectsMem, Drop, Filter, Matches
  <2>2. Database!AbuseSubjectsDb(c, Range(seq), id, at) = RowsAt(seq, places)
    BY <1>0, <1>2 DEF Database!AbuseSubjectsDb, Database!Delete, Range, RowsAt
  <2> QED BY <1>2, <2>1, <2>2, FilteredRows
<1> QED BY <1>1, <1>2 DEF AbuseSubjectCalls

\* An item: requested, decided, deleted, counted on; the same rows on either side.
LEMMA QueueItemsStep ==
    ASSUME NEW seq \in Seq(QueueItemRecord), NEW c \in QueueItemCalls,
           NEW id \in Ids, NEW at \in Times,
           NEW q, q = QueueItemsMem(c, seq, id, at), Unique("queueItems", q),
           \A i \in DOMAIN seq : seq[i].skipVotes < id
    PROVE  /\ q \in Seq(QueueItemRecord)
           /\ Range(q) = Database!QueueItemsDb(c, Range(seq), id, at)
<1>0. \A i \in DOMAIN seq : seq[i] \in QueueItemRecord
  OBVIOUS
<1>1. CASE c.op = "create"
  <2> DEFINE r == [id |-> id, sessionId |-> c.sessionId,
                  status |-> Else(c.status, "pending"), skipVotes |-> 0,
                  createdAt |-> at, decidedAt |-> None]
  <2>0. /\ c.sessionId \in Names /\ Else(c.status, "pending") \in QueueItemStatus
        /\ 0 \in 0..MaxCalls /\ None \in Opt(Times)
    BY <1>1, StoreAssumption DEF QueueItemCalls, Else, QueueItemStatus, Opt
  <2>1. r \in QueueItemRecord
    BY <1>1, <2>0 DEF QueueItemRecord
  <2>2. q = Append(seq, r)
    BY <1>1 DEF QueueItemsMem
  <2>3. Database!QueueItemsDb(c, Range(seq), id, at)
          = Database!Insert(Range(seq), r, Database!queueItemsKeys)
    BY <1>1 DEF Database!QueueItemsDb, Database!Else, Else
  <2> HIDE DEF r
  <2>4. q \in Seq(QueueItemRecord) /\ Range(q) = Range(seq) \cup {r}
    BY <2>1, <2>2, AppendedRow
  <2>5. Apart("queueItems", Range(seq), r)
    BY <2>1, <2>2, InsertedRow
  <2>6. Database!Insert(Range(seq), r, Database!queueItemsKeys) = Range(seq) \cup {r}
    BY <2>5, KeysOfTables DEF Apart, Database!Insert, Database!Refused
  <2> QED BY <2>3, <2>4, <2>6
<1>2. CASE c.op = "setStatus"
  <2> DEFINE g(r) == IF r.id = c.id
                  THEN [r EXCEPT !.status = c.status,
                                 !.decidedAt = Else(c.decidedAt, @)]
                  ELSE r
  <2>0. c.status \in QueueItemStatus /\ c.decidedAt \in Opt(Times)
    BY <1>2 DEF QueueItemCalls, QueueItemStatus
  <2>1. \A r \in QueueItemRecord : g(r) \in QueueItemRecord
    BY <2>0 DEF QueueItemRecord, Else
  <2>2. q = [i \in DOMAIN seq |-> g(seq[i])]
    BY <1>2 DEF QueueItemsMem, Assign
  <2>3. Database!QueueItemsDb(c, Range(seq), id, at) = {g(r) : r \in Range(seq)}
    BY <1>2 DEF Database!QueueItemsDb, Database!Update, Database!Else, Else
  <2> HIDE DEF g
  <2>4. \A i \in DOMAIN seq : g(seq[i]) \in QueueItemRecord
    BY <1>0, <2>1
  <2> QED BY <2>2, <2>3, <2>4, ChangedRows DEF Range
<1>3. CASE c.op = "delete"
  <2> DEFINE places == {i \in DOMAIN seq : ~(seq[i].id = c.id)}
  <2>1. q = InOrder(seq, places, Earlier(seq))
    BY <1>3 DEF QueueItemsMem, Drop, Filter, Matches
  <2>2. Database!QueueItemsDb(c, Range(seq), id, at) = RowsAt(seq, places)
    BY <1>0, <1>3 DEF Database!QueueItemsDb, Database!Delete, Range, RowsAt
  <2> QED BY <2>1, <2>2, FilteredRows
<1>4. CASE c.op = "incrementSkipVotes"
  <2> DEFINE g(r) == IF r.id = c.id THEN [r EXCEPT !.skipVotes = @ + 1] ELSE r
  <2>1. \A i \in DOMAIN seq : g(seq[i]) \in QueueItemRecord
    <3> SUFFICES ASSUME NEW i \in DOMAIN seq PROVE g(seq[i]) \in QueueItemRecord
      OBVIOUS
    <3>1. seq[i].skipVotes + 1 \in 0..MaxCalls
      BY <1>0, StoreAssumption DEF QueueItemRecord, Ids
    <3> QED BY <1>0, <3>1 DEF QueueItemRecord
  <2>2. q = [i \in DOMAIN seq |-> g(seq[i])]
    BY <1>4 DEF QueueItemsMem
  <2>3. Database!QueueItemsDb(c, Range(seq), id, at) = {g(r) : r \in Range(seq)}
    BY <1>4 DEF Database!QueueItemsDb
  <2> HIDE DEF g
  <2> QED BY <2>1, <2>2, <2>3, ChangedRows DEF Range
<1> QED BY <1>1, <1>2, <1>3, <1>4 DEF QueueItemCalls

\* Counters grow by one at a time.
LEMMA AttemptsAreCalls ==
    ASSUME NEW rows \in SUBSET PasswordCredentialRecord,
           NEW c \in PasswordCredentialCalls, NEW id \in Ids, NEW at \in Times,
           \A s \in rows : s.failedAttempts < id
    PROVE  \A r \in Database!PasswordCredentialsDb(c, rows, id, at) :
               r.failedAttempts <= id
<1>0. id \in Nat /\ \A s \in rows :
          s.failedAttempts \in Nat /\ s \in PasswordCredentialRecord
  BY StoreAssumption DEF Ids, PasswordCredentialRecord
<1>1. CASE c.op = "upsert"
  <2> DEFINE g(s) == IF s.userId = c.userId
                     THEN [s EXCEPT !.passwordHash = c.passwordHash,
                                    !.failedAttempts = 0, !.lockedUntil = None]
                     ELSE s
             new == [userId |-> c.userId, passwordHash |-> c.passwordHash,
                     failedAttempts |-> 0, lockedUntil |-> None]
  <2>1. Database!PasswordCredentialsDb(c, rows, id, at)
          = IF \E s \in rows : s.userId = c.userId THEN {g(s) : s \in rows}
               ELSE rows \cup {new}
    BY <1>1 DEF Database!PasswordCredentialsDb, Database!Upsert
  <2>2. new.failedAttempts <= id /\ \A s \in rows : g(s).failedAttempts <= id
    BY <1>0 DEF PasswordCredentialRecord
  <2> HIDE DEF g, new
  <2> QED BY <1>0, <2>1, <2>2
<1>2. CASE c.op = "recordFailedAttempt"
  <2> DEFINE g(s) == IF s.userId = c.userId
                     THEN [s EXCEPT !.failedAttempts = @ + 1,
                                    !.lockedUntil = c.lockUntil]
                     ELSE s
  <2>1. Database!PasswordCredentialsDb(c, rows, id, at) = {g(s) : s \in rows}
    BY <1>2 DEF Database!PasswordCredentialsDb
  <2>2. \A s \in rows : g(s).failedAttempts <= id
    BY <1>0 DEF PasswordCredentialRecord
  <2> HIDE DEF g
  <2> QED BY <2>1, <2>2
<1>3. CASE c.op = "resetFailedAttempts"
  <2> DEFINE g(s) == IF s.userId = c.userId
                     THEN [s EXCEPT !.failedAttempts = 0, !.lockedUntil = None]
                     ELSE s
  <2>1. Database!PasswordCredentialsDb(c, rows, id, at) = {g(s) : s \in rows}
    BY <1>3 DEF Database!PasswordCredentialsDb, Database!Update
  <2>2. \A s \in rows : g(s).failedAttempts <= id
    BY <1>0 DEF PasswordCredentialRecord
  <2> HIDE DEF g
  <2> QED BY <2>1, <2>2
<1> QED BY <1>1, <1>2, <1>3 DEF PasswordCredentialCalls

\* A row keeps its id, and a new one has that of the call.
LEMMA ItemsOfACall ==
    ASSUME NEW rows \in SUBSET QueueItemRecord, NEW c,
           c \in QueueItemCalls \/ c.op = "incrementSkipVotes",
           NEW id \in Ids, NEW at \in Times,
           \A s \in rows : s.skipVotes < id
    PROVE  \A r \in Database!QueueItemsDb(c, rows, id, at) :
              /\ r.skipVotes <= id
              /\ r.id = id \/ \E s \in rows : s.id = r.id
<1>0. id \in Nat /\ \A s \in rows : s.skipVotes \in Nat /\ s \in QueueItemRecord
  BY StoreAssumption DEF Ids, QueueItemRecord
<1>1. CASE c.op = "create"
  BY <1>0, <1>1 DEF Database!QueueItemsDb, Database!Insert
<1>2. CASE c.op = "setStatus"
  <2> DEFINE g(r) == IF r.id = c.id
                     THEN [r EXCEPT !.status = c.status,
                                    !.decidedAt = Database!Else(c.decidedAt, @)]
                     ELSE r
  <2>1. Database!QueueItemsDb(c, rows, id, at) = {g(r) : r \in rows}
    BY <1>2 DEF Database!QueueItemsDb, Database!Update
  <2>2. \A r \in rows : g(r).skipVotes <= id /\ g(r).id = r.id
    BY <1>0 DEF QueueItemRecord
  <2> HIDE DEF g
  <2> QED BY <2>1, <2>2
<1>3. CASE c.op = "delete"
  BY <1>0, <1>3 DEF Database!QueueItemsDb, Database!Delete
<1>4. CASE c.op = "incrementSkipVotes"
  BY <1>0, <1>4 DEF Database!QueueItemsDb, QueueItemRecord
<1> QED BY <1>1, <1>2, <1>3, <1>4 DEF QueueItemCalls

\* The votes and claims that the database has: those for an item there is.
Kin(rows, items) == Database!Cascade(rows, items)

\* A vote: in the ledger, and on the counter of its item; the same rows on either
\* side.
LEMMA QueueSkipVotesStep ==
    ASSUME NEW seq \in Seq(QueueSkipVoteRecord), NEW items \in Seq(QueueItemRecord),
           NEW c \in QueueSkipVoteCalls, NEW id \in Ids, NEW at \in Times,
           \E s \in Range(items) : s.id = c.queueItemId,
           \A i \in DOMAIN items : items[i].skipVotes < id,
           NEW q, q = QueueSkipVotesMem(c, seq, items, id, at),
           Unique("queueSkipVotes", q.votes), Unique("queueItems", items)
    PROVE  LET db == Database!QueueSkipVotesDb(c, Kin(Range(seq), Range(items)),
                                               Range(items), id, at)
           IN  /\ q.votes \in Seq(QueueSkipVoteRecord)
               /\ q.items \in Seq(QueueItemRecord)
               /\ Unique("queueItems", q.items)
               /\ Range(q.items) = db.items
               /\ Kin(Range(q.votes), Range(q.items)) = db.votes
               /\ \A r \in Range(q.items) :
                     /\ r.skipVotes <= id /\ \E s \in Range(items) : s.id = r.id
               /\ \A s \in Range(items) : \E r \in Range(q.items) : r.id = s.id
               /\ \A r \in Range(q.votes) :
                     r \in Range(seq) \/ r.queueItemId = c.queueItemId
<1>0. /\ \A i \in DOMAIN seq : seq[i] \in QueueSkipVoteRecord
      /\ \A i \in DOMAIN items : items[i] \in QueueItemRecord
  OBVIOUS
<1>a. id \in Nat /\ \A i \in DOMAIN items : items[i].skipVotes \in Nat
  BY <1>0, StoreAssumption DEF QueueItemRecord, Ids
<1> DEFINE vote == [queueItemId |-> c.queueItemId, guestId |-> c.guestId]
           one == [op |-> "incrementSkipVotes", id |-> c.queueItemId]
           places == {i \in DOMAIN seq : seq[i].queueItemId = c.queueItemId
                                          /\ seq[i].guestId = c.guestId}
           rows == Kin(Range(seq), Range(items))
           more == QueueItemsMem(one, items, id, at)
<1>1. vote \in QueueSkipVoteRecord
  BY DEF QueueSkipVoteCalls, QueueSkipVoteRecord
<1>2. None \notin QueueSkipVoteRecord
  BY RowAssumption DEF Tables
<1>3. CASE places # {}
  <2>1. FirstAt(seq, places) \in Range(seq)
    BY <1>3, FirstIsARow
  <2>2. FirstAt(seq, places) # None
    BY <1>0, <1>2, <2>1 DEF Range
  <2>3. q = [votes |-> seq, items |-> items]
    BY <2>2 DEF QueueSkipVotesMem, Find, Matches, FirstAt
  <2>4. PICK i \in DOMAIN seq : seq[i].queueItemId = c.queueItemId
                 /\ seq[i].guestId = c.guestId
    BY <1>3
  <2>5. seq[i] \in rows
    BY <2>4 DEF Kin, Database!Cascade, Range
  <2>6. Database!Refused(rows, vote, Database!queueSkipVotesKeys)
    BY <2>4, <2>5 DEF Database!Refused, Database!queueSkipVotesKeys
  <2>7. Database!QueueSkipVotesDb(c, rows, Range(items), id, at)
          = [votes |-> rows, items |-> Range(items)]
    BY <2>6 DEF Database!QueueSkipVotesDb, Database!Insert
  <2>8. \A r \in Range(items) : r.skipVotes <= id
    BY <1>a DEF Range
  <2> QED BY <2>3, <2>7, <2>8
<1>4. CASE places = {}
  <2>1. q = [votes |-> Append(seq, vote), items |-> more]
    BY <1>4 DEF QueueSkipVotesMem, Find, Matches
  <2>2. one \in QueueItemCalls
    BY DEF QueueItemCalls, QueueSkipVoteCalls
  <2>a. DOMAIN more = DOMAIN items
        /\ \A i \in DOMAIN items : more[i].id = items[i].id /\ more[i].skipVotes <= id
    <3> DEFINE g(r) == IF r.id = one.id THEN [r EXCEPT !.skipVotes = @ + 1] ELSE r
    <3>1. more = [i \in DOMAIN items |-> g(items[i])]
      BY DEF QueueItemsMem
    <3>2. \A i \in DOMAIN items :
              g(items[i]).id = items[i].id /\ g(items[i]).skipVotes <= id
      BY <1>0, <1>a DEF QueueItemRecord
    <3> HIDE DEF g, more
    <3> QED BY <3>1, <3>2
  <2>3. Unique("queueItems", more)
    <3> HIDE DEF more
    <3>1. \A r : KeysOf("queueItems", r) = {r.id}
      BY DEF KeysOf, queueItemsKeys
    <3>2. \A i, j \in DOMAIN items : i # j => items[i].id # items[j].id
      BY <3>1 DEF Unique
    <3>3. \A i, j \in DOMAIN more : i # j => more[i].id # more[j].id
      BY <2>a, <3>2
    <3> QED BY <3>1, <3>3 DEF Unique
  <2>4. /\ more \in Seq(QueueItemRecord)
        /\ Range(more) = Database!QueueItemsDb(one, Range(items), id, at)
    BY <2>2, <2>3, QueueItemsStep
  <2>5. ~Database!Refused(rows, vote, Database!queueSkipVotesKeys)
    BY <1>4 DEF Database!Refused, Database!queueSkipVotesKeys, Kin, Database!Cascade,
       Range
  <2>6. Database!QueueSkipVotesDb(c, rows, Range(items), id, at)
          = [votes |-> rows \cup {vote}, items |-> Range(more)]
    BY <2>4, <2>5 DEF Database!QueueSkipVotesDb, Database!Insert
  <2> HIDE DEF more
  <2>7. /\ \A r \in Range(more) : r.skipVotes <= id /\ \E s \in Range(items) :
               s.id = r.id
        /\ \A s \in Range(items) : \E r \in Range(more) : r.id = s.id
    BY <2>a DEF Range
  <2> HIDE DEF vote
  <2>8. /\ Range(Append(seq, vote)) = Range(seq) \cup {vote}
        /\ Append(seq, vote) \in Seq(QueueSkipVoteRecord)
    BY <1>1, AppendedRow
  <2>9. Kin(Range(Append(seq, vote)), Range(more)) = rows \cup {vote}
    <3>1. vote.queueItemId = c.queueItemId
      BY DEF vote
    <3> DEFINE known == {s.id : s \in Range(items)}
    <3>2. {s.id : s \in Range(more)} = known
      BY <2>7
    <3>3. vote.queueItemId \in known
      BY <3>1
    <3>4. /\ rows = {x \in Range(seq) : x.queueItemId \in known}
          /\ Kin(Range(Append(seq, vote)), Range(more))
               = {x \in Range(seq) \cup {vote} :
                     x.queueItemId \in {s.id : s \in Range(more)}}
      BY <2>8 DEF Kin, Database!Cascade
    <3> HIDE DEF known, rows
    <3> QED BY <3>2, <3>3, <3>4
  <2>10. q.votes = Append(seq, vote) /\ q.items = more
    BY <2>1
  <2>11. Database!QueueSkipVotesDb(c, rows, Range(items), id, at).votes
             = rows \cup {vote}
    BY <2>6
  <2>12. Database!QueueSkipVotesDb(c, rows, Range(items), id, at).items = Range(more)
    BY <2>6
  <2>13. \A r \in Range(q.votes) : r \in Range(seq) \/ r.queueItemId = c.queueItemId
    BY <2>8, <2>10 DEF vote
  <2> QED BY <2>3, <2>4, <2>7, <2>8, <2>9, <2>10, <2>11, <2>12, <2>13
<1> QED BY <1>3, <1>4

\* A claim is made for an item that is there.
OnOneOf(c, items) == c.op = "create" => \E s \in items : s.id = c.queueItemId

\* A claim for an item there is: once for a guest; a claim that is given up; the
\* same rows on either side.
LEMMA KaraokeClaimsStep ==
    ASSUME NEW seq \in Seq(KaraokeClaimRecord), NEW items, NEW c \in KaraokeClaimCalls,
           NEW id \in Ids, NEW at \in Times,
           OnOneOf(c, items),
           NEW q, q = KaraokeClaimsMem(c, seq, id, at), Unique("karaokeClaims", q)
    PROVE  /\ q \in Seq(KaraokeClaimRecord)
           /\ Kin(Range(q), items)
                = Database!KaraokeClaimsDb(c, Kin(Range(seq), items), id, at)
           /\ \A r \in Range(q) : r \in Range(seq) \/ \E s \in items :
                  s.id = r.queueItemId
<1>0. \A i \in DOMAIN seq : seq[i] \in KaraokeClaimRecord
  OBVIOUS
<1>a. c.op = "create" => \E s \in items : s.id = c.queueItemId
  BY DEF OnOneOf
<1> DEFINE rows == Kin(Range(seq), items)
<1>1. CASE c.op = "create"
  <2> DEFINE r == [id |-> id, sessionId |-> c.sessionId, queueItemId |-> c.queueItemId,
                   guestId |-> c.guestId, createdAt |-> at]
             places == {i \in DOMAIN seq : seq[i].queueItemId = c.queueItemId
                                            /\ seq[i].guestId = c.guestId}
  <2>0. c.sessionId \in Names /\ c.queueItemId \in Ids /\ c.guestId \in Names
    BY <1>1 DEF KaraokeClaimCalls
  <2>1. r \in KaraokeClaimRecord
    BY <2>0 DEF KaraokeClaimRecord
  <2>2. None \notin KaraokeClaimRecord
    BY RowAssumption DEF Tables
  <2>3. q = IF FirstAt(seq, places) # None THEN seq ELSE Append(seq, r)
    BY <1>1 DEF KaraokeClaimsMem, Find, Matches, FirstAt
  <2>4. Database!KaraokeClaimsDb(c, rows, id, at)
          = Database!Insert(rows, r, Database!karaokeClaimsKeys)
    BY <1>1 DEF Database!KaraokeClaimsDb
  <2>5. CASE places # {}
    <3>1. FirstAt(seq, places) \in Range(seq)
      BY <2>5, FirstIsARow
    <3>2. q = seq
      BY <1>0, <2>2, <2>3, <3>1 DEF Range
    <3>3. PICK i \in DOMAIN seq : /\ seq[i].queueItemId = c.queueItemId
                                  /\ seq[i].guestId = c.guestId
      BY <2>5
    <3>4. seq[i] \in rows
      BY <1>1, <1>a, <3>3 DEF Kin, Database!Cascade, Range
    <3>5. Database!Refused(rows, r, Database!karaokeClaimsKeys)
      BY <3>3, <3>4 DEF Database!Refused, Database!karaokeClaimsKeys
    <3> QED BY <2>4, <3>2, <3>5 DEF Database!Insert
  <2>6. CASE places = {}
    <3>1. q = Append(seq, r)
      BY <2>3, <2>6 DEF FirstAt
    <3>2. r.queueItemId = c.queueItemId
      OBVIOUS
    <3> HIDE DEF r
    <3>3. q \in Seq(KaraokeClaimRecord) /\ Range(q) = Range(seq) \cup {r}
      BY <2>1, <3>1, AppendedRow
    <3>4. Apart("karaokeClaims", Range(seq), r)
      BY <2>1, <3>1, InsertedRow
    <3>5. Apart("karaokeClaims", rows, r)
      BY <3>4 DEF Apart, Kin, Database!Cascade
    <3>6. Database!Insert(rows, r, Database!karaokeClaimsKeys) = rows \cup {r}
      BY <3>5, KeysOfTables DEF Apart, Database!Insert, Database!Refused
    <3>7. Kin(Range(q), items) = rows \cup {r}
      BY <1>1, <1>a, <3>2, <3>3 DEF Kin, Database!Cascade
    <3> QED BY <1>1, <1>a, <2>4, <3>2, <3>3, <3>6, <3>7
  <2> QED BY <2>5, <2>6
<1>2. CASE c.op = "delete"
  <2> DEFINE places == {i \in DOMAIN seq : ~(seq[i].id = c.id)}
  <2>1. q = InOrder(seq, places, Earlier(seq))
    BY <1>2 DEF KaraokeClaimsMem, Drop, Filter, Matches
  <2>2. q \in Seq(KaraokeClaimRecord) /\ Range(q) = RowsAt(seq, places)
    BY <2>1, FilteredRows
  <2>3. Database!KaraokeClaimsDb(c, rows, id, at) = {r \in rows : r.id # c.id}
    BY <1>2 DEF Database!KaraokeClaimsDb, Database!Delete
  <2>4. RowsAt(seq, places) = {r \in Range(seq) : r.id # c.id}
    BY DEF RowsAt, Range
  <2> QED BY <2>2, <2>3, <2>4 DEF Kin, Database!Cascade
<1> QED BY <1>1, <1>2 DEF KaraokeClaimCalls

-----------------------------------------------------------------------------
(* Steps.                                                                  *)

\* The tables, by name.
LEMMA TableNames ==
    /\ DOMAIN Tables =
         {"users", "accounts", "memberships", "authIdentities", "authSessions",
          "passwordCredentials", "emailVerificationTokens", "passwordResetTokens",
          "oauthStates", "providerConnections", "sessions", "guests", "guestSlots",
          "fingerprintPriority", "queueItems", "queueSkipVotes", "karaokeClaims",
          "sessionAuditEvents", "lyricsCache", "lyricsFeedback", "abuseSubjects",
          "actionEvents"}
    /\ DOMAIN Database!Tables = DOMAIN Tables
BY DEF Tables, Database!Tables

\* The rows of the three tables that a deleted item or a vote touches.
LEMMA QueueRows ==
    /\ Tables["queueItems"] = QueueItemRecord
    /\ Tables["queueSkipVotes"] = QueueSkipVoteRecord
    /\ Tables["karaokeClaims"] = KaraokeClaimRecord
BY DEF Tables

\* The database is asked the same.
LEMMA SameCalls ==
    ASSUME NEW t \in DOMAIN Tables
    PROVE  Database!CallsOf(t) = CallsOf(t)
<1>1. CASE t = "users"
  BY <1>1
     DEF CallsOf, Database!CallsOf, UserCalls, Database!UserCalls, Opt,
         Database!Opt, Ids, Database!Ids
<1>2. CASE t = "accounts"
  BY <1>2 DEF CallsOf, Database!CallsOf, AccountCalls, Database!AccountCalls
<1>3. CASE t = "memberships"
  BY <1>3 DEF CallsOf, Database!CallsOf, MembershipCalls, Database!MembershipCalls
<1>4. CASE t = "authIdentities"
  BY <1>4
     DEF CallsOf, Database!CallsOf, AuthIdentityCalls, Database!AuthIdentityCalls
<1>5. CASE t = "authSessions"
  BY <1>5
     DEF CallsOf, Database!CallsOf, AuthSessionCalls, Database!AuthSessionCalls,
         Opt, Database!Opt, Ids, Database!Ids, Times, Database!Times
<1>6. CASE t = "passwordCredentials"
  BY <1>6
     DEF CallsOf, Database!CallsOf, PasswordCredentialCalls,
         Database!PasswordCredentialCalls, Opt, Database!Opt, Times, Database!Times
<1>7. CASE t = "emailVerificationTokens"
  BY <1>7
     DEF CallsOf, Database!CallsOf, EmailVerificationTokenCalls,
         Database!EmailVerificationTokenCalls, Times, Database!Times
<1>8. CASE t = "passwordResetTokens"
  BY <1>8
     DEF CallsOf, Database!CallsOf, PasswordResetTokenCalls,
         Database!PasswordResetTokenCalls, EmailVerificationTokenCalls,
         Database!EmailVerificationTokenCalls, Times, Database!Times
<1>9. CASE t = "oauthStates"
  BY <1>9
     DEF CallsOf, Database!CallsOf, OAuthStateCalls, Database!OAuthStateCalls,
         Times, Database!Times
<1>10. CASE t = "providerConnections"
  BY <1>10
     DEF CallsOf, Database!CallsOf, ProviderConnectionCalls,
         Database!ProviderConnectionCalls, Opt, Database!Opt, Ids, Database!Ids
<1>11. CASE t = "sessions"
  BY <1>11
     DEF CallsOf, Database!CallsOf, SessionCalls, Database!SessionCalls, Ids,
         Database!Ids
<1>12. CASE t = "guests"
  BY <1>12
     DEF CallsOf, Database!CallsOf, GuestCalls, Database!GuestCalls, Ids,
         Database!Ids
<1>13. CASE t = "guestSlots"
  BY <1>13
     DEF CallsOf, Database!CallsOf, GuestSlotCalls, Database!GuestSlotCalls, Opt,
         Database!Opt, Ids, Database!Ids
<1>14. CASE t = "fingerprintPriority"
  BY <1>14
     DEF CallsOf, Database!CallsOf, FingerprintPriorityCalls,
         Database!FingerprintPriorityCalls, Times, Database!Times
<1>15. CASE t = "queueItems"
  BY <1>15
     DEF CallsOf, Database!CallsOf, QueueItemCalls, Database!QueueItemCalls, Opt,
         Database!Opt, Ids, Database!Ids, Times, Database!Times
<1>16. CASE t = "queueSkipVotes"
  BY <1>16
     DEF CallsOf, Database!CallsOf, QueueSkipVoteCalls, Database!QueueSkipVoteCalls,
         Ids, Database!Ids
<1>17. CASE t = "karaokeClaims"
  BY <1>17
     DEF CallsOf, Database!CallsOf, KaraokeClaimCalls, Database!KaraokeClaimCalls,
         Ids, Database!Ids
<1>18. CASE t = "sessionAuditEvents"
  BY <1>18
     DEF CallsOf, Database!CallsOf, SessionAuditEventCalls,
         Database!SessionAuditEventCalls
<1>19. CASE t = "lyricsCache"
  BY <1>19
     DEF CallsOf, Database!CallsOf, LyricsCacheCalls, Database!LyricsCacheCalls,
         Opt, Database!Opt, Ids, Database!Ids
<1>20. CASE t = "lyricsFeedback"
  BY <1>20
     DEF CallsOf, Database!CallsOf, LyricsFeedbackCalls,
         Database!LyricsFeedbackCalls, Opt, Database!Opt
<1>21. CASE t = "abuseSubjects"
  BY <1>21
     DEF CallsOf, Database!CallsOf, AbuseSubjectCalls, Database!AbuseSubjectCalls,
         Opt, Database!Opt,
         AbuseSubjectStatus, Database!AbuseSubjectStatus
<1>22. CASE t = "actionEvents"
  BY <1>22
     DEF CallsOf, Database!CallsOf, ActionEventCalls, Database!ActionEventCalls
<1> QED BY <1>1, <1>2, <1>3, <1>4, <1>5, <1>6, <1>7, <1>8, <1>9, <1>10, <1>11,
    <1>12, <1>13, <1>14, <1>15, <1>16, <1>17, <1>18, <1>19, <1>20, <1>21, <1>22,
    TableNames

-----------------------------------------------------------------------------
(* What holds of the Maps.  The counters and the ids are those of calls    *)
(* made; the database's keys are unique because the callers look first.    *)
MapsInv ==
    /\ DOMAIN mem = DOMAIN Tables
    /\ \A t \in DOMAIN Tables : mem[t] \in Seq(Tables[t]) /\ Unique(t, mem[t])
    /\ focus \in {QueueTables} \cup {{t} : t \in DOMAIN Tables \ QueueTables}
    /\ calls \in 0..MaxCalls /\ now \in Times
    /\ \A r \in Range(mem.queueItems) : r.id <= calls /\ r.skipVotes <= calls
    /\ \A r \in Range(mem.passwordCredentials) : r.failedAttempts <= calls
    /\ \A r \in Range(mem.queueSkipVotes) : r.queueItemId <= calls
    /\ \A r \in Range(mem.karaokeClaims) : r.queueItemId <= calls

\* A call on a table of its own.
Single == DOMAIN Tables \ QueueTables

\* A call on a table that no other table follows: the Map and the table hold the
\* same rows after it, or those of a table that keeps what an upsert leaves out.
LEMMA SingleCall ==
    ASSUME MapsInv, NEW t \in Single, NEW c \in CallsOf(t), calls < MaxCalls,
           NEW q, q = MethodOf(t, c, calls + 1), Unique(t, q),
           c.op = "create" /\ q # mem[t] => Len(q) > Len(mem[t])
    PROVE  q \in Seq(Tables[t]) /\ Range(q) \in Database!Outcomes(t, c, calls + 1)
<1>0. calls + 1 \in Ids /\ now \in Times
  BY StoreAssumption DEF MapsInv, Ids
<1>s. Database!StatementOn(t, c, calls + 1) \in Database!Outcomes(t, c, calls + 1)
  BY DEF Database!Outcomes
<1>1. CASE t = "users"
  <2>1. mem[t] \in Seq(UserRecord) /\ c \in UserCalls /\ Unique("users", mem[t])
    BY <1>1 DEF MapsInv, Single, Tables, CallsOf
  <2>2. q = UsersMem(c, mem[t], calls + 1, now)
    BY <1>1 DEF MethodOf
  <2>3. Database!StatementOn(t, c, calls + 1)
          = Database!UsersDb(c, Range(mem[t]), calls + 1, now)
    BY <1>1 DEF Database!StatementOn, Stored, Single
  <2>5. /\ q \in Seq(UserRecord)
        /\ Range(q) = Database!UsersDb(c, Range(mem[t]), calls + 1, now)
    BY <1>0, <1>1, <2>1, <2>2, UsersStep
  <2> QED BY <1>s, <1>1, <2>3, <2>5 DEF Tables
<1>2. CASE t = "accounts"
  <2>1. /\ mem[t] \in Seq(AccountRecord) /\ c \in AccountCalls
        /\ Unique("accounts", mem[t])
    BY <1>2 DEF MapsInv, Single, Tables, CallsOf
  <2>2. q = AccountsMem(c, mem[t], calls + 1, now)
    BY <1>2 DEF MethodOf
  <2>3. Database!StatementOn(t, c, calls + 1)
          = Database!AccountsDb(c, Range(mem[t]), calls + 1, now)
    BY <1>2 DEF Database!StatementOn, Stored, Single
  <2>5. /\ q \in Seq(AccountRecord)
        /\ Range(q) = Database!AccountsDb(c, Range(mem[t]), calls + 1, now)
    BY <1>0, <1>2, <2>1, <2>2, AccountsStep
  <2> QED BY <1>s, <1>2, <2>3, <2>5 DEF Tables
<1>3. CASE t = "memberships"
  <2>1. /\ mem[t] \in Seq(MembershipRecord) /\ c \in MembershipCalls
        /\ Unique("memberships", mem[t])
    BY <1>3 DEF MapsInv, Single, Tables, CallsOf
  <2>2. q = MembershipsMem(c, mem[t], calls + 1, now)
    BY <1>3 DEF MethodOf
  <2>3. Database!StatementOn(t, c, calls + 1)
          = Database!MembershipsDb(c, Range(mem[t]), calls + 1, now)
    BY <1>3 DEF Database!StatementOn, Stored, Single
  <2>5. /\ q \in Seq(MembershipRecord)
        /\ Range(q) = Database!MembershipsDb(c, Range(mem[t]), calls + 1, now)
    BY <1>0, <1>3, <2>1, <2>2, MembershipsStep
  <2> QED BY <1>s, <1>3, <2>3, <2>5 DEF Tables
<1>4. CASE t = "authIdentities"
  <2>1. /\ mem[t] \in Seq(AuthIdentityRecord) /\ c \in AuthIdentityCalls
        /\ Unique("authIdentities", mem[t])
    BY <1>4 DEF MapsInv, Single, Tables, CallsOf
  <2>2. q = AuthIdentitiesMem(c, mem[t], calls + 1, now)
    BY <1>4 DEF MethodOf
  <2>3. Database!StatementOn(t, c, calls + 1)
          = Database!AuthIdentitiesDb(c, Range(mem[t]), calls + 1, now)
    BY <1>4 DEF Database!StatementOn, Stored, Single
  <2>5. /\ q \in Seq(AuthIdentityRecord)
        /\ Range(q) = Database!AuthIdentitiesDb(c, Range(mem[t]), calls + 1, now)
    BY <1>0, <1>4, <2>1, <2>2, AuthIdentitiesStep
  <2> QED BY <1>s, <1>4, <2>3, <2>5 DEF Tables
<1>5. CASE t = "authSessions"
  <2>1. /\ mem[t] \in Seq(AuthSessionRecord) /\ c \in AuthSessionCalls
        /\ Unique("authSessions", mem[t])
    BY <1>5 DEF MapsInv, Single, Tables, CallsOf
  <2>2. q = AuthSessionsMem(c, mem[t], calls + 1, now)
    BY <1>5 DEF MethodOf
  <2>3. Database!StatementOn(t, c, calls + 1)
          = Database!AuthSessionsDb(c, Range(mem[t]), calls + 1, now)
    BY <1>5 DEF Database!StatementOn, Stored, Single
  <2>5. /\ q \in Seq(AuthSessionRecord)
        /\ Range(q) = Database!AuthSessionsDb(c, Range(mem[t]), calls + 1, now)
    BY <1>0, <1>5, <2>1, <2>2, AuthSessionsStep
  <2> QED BY <1>s, <1>5, <2>3, <2>5 DEF Tables
<1>6. CASE t = "passwordCredentials"
  <2>1. /\ mem[t] \in Seq(PasswordCredentialRecord) /\ c \in PasswordCredentialCalls
        /\ Unique("passwordCredentials", mem[t])
    BY <1>6 DEF MapsInv, Single, Tables, CallsOf
  <2>2. q = PasswordCredentialsMem(c, mem[t], calls + 1, now)
    BY <1>6 DEF MethodOf
  <2>3. Database!StatementOn(t, c, calls + 1)
          = Database!PasswordCredentialsDb(c, Range(mem[t]), calls + 1, now)
    BY <1>6 DEF Database!StatementOn, Stored, Single
  <2>4. \A i \in DOMAIN mem[t] : mem[t][i].failedAttempts < calls + 1
    <3> SUFFICES ASSUME NEW i \in DOMAIN mem[t]
                 PROVE  mem[t][i].failedAttempts < calls + 1
      OBVIOUS
    <3>1. /\ mem[t][i] \in PasswordCredentialRecord
          /\ mem[t][i] \in Range(mem.passwordCredentials)
      BY <1>6, <2>1 DEF Range
    <3>2. mem[t][i].failedAttempts \in Nat /\ calls \in Nat
      BY <3>1, StoreAssumption DEF MapsInv, PasswordCredentialRecord
    <3>3. mem[t][i].failedAttempts <= calls
      BY <3>1 DEF MapsInv
    <3> QED BY <3>2, <3>3
  <2>5. /\ q \in Seq(PasswordCredentialRecord)
        /\ Range(q) = Database!PasswordCredentialsDb(c, Range(mem[t]), calls + 1, now)
    BY <1>0, <1>6, <2>1, <2>2, <2>4, PasswordCredentialsStep
  <2> QED BY <1>s, <1>6, <2>3, <2>5 DEF Tables
<1>7. CASE t = "emailVerificationTokens"
  <2>1. /\ mem[t] \in Seq(EmailVerificationTokenRecord)
        /\ c \in EmailVerificationTokenCalls
        /\ Unique("emailVerificationTokens", mem[t])
    BY <1>7 DEF MapsInv, Single, Tables, CallsOf
  <2>2. q = EmailVerificationTokensMem(c, mem[t], calls + 1, now)
    BY <1>7 DEF MethodOf
  <2>3. Database!StatementOn(t, c, calls + 1)
          = Database!EmailVerificationTokensDb(c, Range(mem[t]), calls + 1, now)
    BY <1>7 DEF Database!StatementOn, Stored, Single
  <2>5. /\ q \in Seq(EmailVerificationTokenRecord)
        /\ Range(q)
               = Database!EmailVerificationTokensDb(c, Range(mem[t]), calls + 1, now)
    BY <1>0, <1>7, <2>1, <2>2, EmailVerificationTokensStep
  <2> QED BY <1>s, <1>7, <2>3, <2>5 DEF Tables
<1>8. CASE t = "passwordResetTokens"
  <2>1. /\ mem[t] \in Seq(PasswordResetTokenRecord) /\ c \in PasswordResetTokenCalls
        /\ Unique("passwordResetTokens", mem[t])
    BY <1>8 DEF MapsInv, Single, Tables, CallsOf
  <2>2. q = PasswordResetTokensMem(c, mem[t], calls + 1, now)
    BY <1>8 DEF MethodOf
  <2>3. Database!StatementOn(t, c, calls + 1)
          = Database!PasswordResetTokensDb(c, Range(mem[t]), calls + 1, now)
    BY <1>8 DEF Database!StatementOn, Stored, Single
  <2>5. /\ q \in Seq(PasswordResetTokenRecord)
        /\ Range(q) = Database!PasswordResetTokensDb(c, Range(mem[t]), calls + 1, now)
    BY <1>0, <1>8, <2>1, <2>2, PasswordResetTokensStep
  <2> QED BY <1>s, <1>8, <2>3, <2>5 DEF Tables
<1>9. CASE t = "oauthStates"
  <2>1. /\ mem[t] \in Seq(OAuthStateRecord) /\ c \in OAuthStateCalls
        /\ Unique("oauthStates", mem[t])
    BY <1>9 DEF MapsInv, Single, Tables, CallsOf
  <2>2. q = OAuthStatesMem(c, mem[t], calls + 1, now)
    BY <1>9 DEF MethodOf
  <2>3. Database!StatementOn(t, c, calls + 1)
          = Database!OAuthStatesDb(c, Range(mem[t]), calls + 1, now)
    BY <1>9 DEF Database!StatementOn, Stored, Single
  <2>5. /\ q \in Seq(OAuthStateRecord)
        /\ Range(q) = Database!OAuthStatesDb(c, Range(mem[t]), calls + 1, now)
    BY <1>0, <1>9, <2>1, <2>2, OAuthStatesStep
  <2> QED BY <1>s, <1>9, <2>3, <2>5 DEF Tables
<1>10. CASE t = "providerConnections"
  <2>1. /\ mem[t] \in Seq(ProviderConnectionRecord) /\ c \in ProviderConnectionCalls
        /\ Unique("providerConnections", mem[t])
    BY <1>10 DEF MapsInv, Single, Tables, CallsOf
  <2>2. q = ProviderConnectionsMem(c, mem[t], calls + 1, now)
    BY <1>10 DEF MethodOf
  <2>3. Database!StatementOn(t, c, calls + 1)
          = Database!ProviderConnectionsDb(c, Range(mem[t]), calls + 1, now)
    BY <1>10 DEF Database!StatementOn, Stored, Single
  <2>4. c.op = "upsert" =>
            Database!ProviderConnectionsKept(c, Range(mem[t]), calls + 1) \in Database!Outcomes(t, c, calls + 1)
    BY <1>10 DEF Database!Outcomes, Stored, Single
  <2>5. /\ q \in Seq(ProviderConnectionRecord)
        /\ Range(q) = IF c.op = "upsert" THEN Database!ProviderConnectionsKept(c, Range(mem[t]), calls + 1)
                       ELSE Database!ProviderConnectionsDb(c, Range(mem[t]), calls + 1, now)
    BY <1>0, <1>10, <2>1, <2>2, ProviderConnectionsStep
  <2> QED BY <1>s, <1>10, <2>3, <2>4, <2>5 DEF Tables
<1>11. CASE t = "sessions"
  <2>1. /\ mem[t] \in Seq(SessionRecord) /\ c \in SessionCalls
        /\ Unique("sessions", mem[t])
    BY <1>11 DEF MapsInv, Single, Tables, CallsOf
  <2>2. q = SessionsMem(c, mem[t], calls + 1, now)
    BY <1>11 DEF MethodOf
  <2>3. Database!StatementOn(t, c, calls + 1)
          = Database!SessionsDb(c, Range(mem[t]), calls + 1, now)
    BY <1>11 DEF Database!StatementOn, Stored, Single
  <2>5. /\ q \in Seq(SessionRecord)
        /\ Range(q) = Database!SessionsDb(c, Range(mem[t]), calls + 1, now)
    BY <1>0, <1>11, <2>1, <2>2, SessionsStep
  <2> QED BY <1>s, <1>11, <2>3, <2>5 DEF Tables
<1>12. CASE t = "guests"
  <2>1. mem[t] \in Seq(GuestRecord) /\ c \in GuestCalls /\ Unique("guests", mem[t])
    BY <1>12 DEF MapsInv, Single, Tables, CallsOf
  <2>2. q = GuestsMem(c, mem[t], calls + 1, now)
    BY <1>12 DEF MethodOf
  <2>3. Database!StatementOn(t, c, calls + 1)
          = Database!GuestsDb(c, Range(mem[t]), calls + 1, now)
    BY <1>12 DEF Database!StatementOn, Stored, Single
  <2>5. /\ q \in Seq(GuestRecord)
        /\ Range(q) = Database!GuestsDb(c, Range(mem[t]), calls + 1, now)
    BY <1>0, <1>12, <2>1, <2>2, GuestsStep
  <2> QED BY <1>s, <1>12, <2>3, <2>5 DEF Tables
<1>13. CASE t = "guestSlots"
  <2>1. /\ mem[t] \in Seq(GuestSlotRecord) /\ c \in GuestSlotCalls
        /\ Unique("guestSlots", mem[t])
    BY <1>13 DEF MapsInv, Single, Tables, CallsOf
  <2>2. q = GuestSlotsMem(c, mem[t], calls + 1, now)
    BY <1>13 DEF MethodOf
  <2>3. Database!StatementOn(t, c, calls + 1)
          = Database!GuestSlotsDb(c, Range(mem[t]), calls + 1, now)
    BY <1>13 DEF Database!StatementOn, Stored, Single
  <2>5. /\ q \in Seq(GuestSlotRecord)
        /\ Range(q) = Database!GuestSlotsDb(c, Range(mem[t]), calls + 1, now)
    BY <1>0, <1>13, <2>1, <2>2, GuestSlotsStep
  <2> QED BY <1>s, <1>13, <2>3, <2>5 DEF Tables
<1>14. CASE t = "fingerprintPriority"
  <2>1. /\ mem[t] \in Seq(FingerprintPriorityRecord) /\ c \in FingerprintPriorityCalls
        /\ Unique("fingerprintPriority", mem[t])
    BY <1>14 DEF MapsInv, Single, Tables, CallsOf
  <2>2. q = FingerprintPriorityMem(c, mem[t], calls + 1, now)
    BY <1>14 DEF MethodOf
  <2>3. Database!StatementOn(t, c, calls + 1)
          = Database!FingerprintPriorityDb(c, Range(mem[t]), calls + 1, now)
    BY <1>14 DEF Database!StatementOn, Stored, Single
  <2>5. /\ q \in Seq(FingerprintPriorityRecord)
        /\ Range(q) = Database!FingerprintPriorityDb(c, Range(mem[t]), calls + 1, now)
    BY <1>0, <1>14, <2>1, <2>2, FingerprintPriorityStep
  <2> QED BY <1>s, <1>14, <2>3, <2>5 DEF Tables
<1>15. CASE t = "sessionAuditEvents"
  <2>1. /\ mem[t] \in Seq(SessionAuditEventRecord) /\ c \in SessionAuditEventCalls
        /\ Unique("sessionAuditEvents", mem[t])
    BY <1>15 DEF MapsInv, Single, Tables, CallsOf
  <2>2. q = SessionAuditEventsMem(c, mem[t], calls + 1, now)
    BY <1>15 DEF MethodOf
  <2>3. Database!StatementOn(t, c, calls + 1)
          = Database!SessionAuditEventsDb(c, Range(mem[t]), calls + 1, now)
    BY <1>15 DEF Database!StatementOn, Stored, Single
  <2>5. /\ q \in Seq(SessionAuditEventRecord)
        /\ Range(q) = Database!SessionAuditEventsDb(c, Range(mem[t]), calls + 1, now)
    BY <1>0, <1>15, <2>1, <2>2, SessionAuditEventsStep
  <2> QED BY <1>s, <1>15, <2>3, <2>5 DEF Tables
<1>16. CASE t = "lyricsCache"
  <2>1. /\ mem[t] \in Seq(LyricsCacheRecord) /\ c \in LyricsCacheCalls
        /\ Unique("lyricsCache", mem[t])
    BY <1>16 DEF MapsInv, Single, Tables, CallsOf
  <2>2. q = LyricsCacheMem(c, mem[t], calls + 1, now)
    BY <1>16 DEF MethodOf
  <2>3. Database!StatementOn(t, c, calls + 1)
          = Database!LyricsCacheDb(c, Range(mem[t]), calls + 1, now)
    BY <1>16 DEF Database!StatementOn, Stored, Single
  <2>4. c.op = "upsert" =>
            Database!LyricsCacheKept(c, Range(mem[t]), calls + 1, now) \in Database!Outcomes(t, c, calls + 1)
    BY <1>16 DEF Database!Outcomes, Stored, Single
  <2>5. /\ q \in Seq(LyricsCacheRecord)
        /\ Range(q) = IF c.op = "upsert" THEN Database!LyricsCacheKept(c, Range(mem[t]), calls + 1, now)
                       ELSE Database!LyricsCacheDb(c, Range(mem[t]), calls + 1, now)
    BY <1>0, <1>16, <2>1, <2>2, LyricsCacheStep
  <2> QED BY <1>s, <1>16, <2>3, <2>4, <2>5 DEF Tables
<1>17. CASE t = "lyricsFeedback"
  <2>1. /\ mem[t] \in Seq(LyricsFeedbackRecord) /\ c \in LyricsFeedbackCalls
        /\ Unique("lyricsFeedback", mem[t])
    BY <1>17 DEF MapsInv, Single, Tables, CallsOf
  <2>2. q = LyricsFeedbackMem(c, mem[t], calls + 1, now)
    BY <1>17 DEF MethodOf
  <2>3. Database!StatementOn(t, c, calls + 1)
          = Database!LyricsFeedbackDb(c, Range(mem[t]), calls + 1, now)
    BY <1>17 DEF Database!StatementOn, Stored, Single
  <2>5. /\ q \in Seq(LyricsFeedbackRecord)
        /\ Range(q) = Database!LyricsFeedbackDb(c, Range(mem[t]), calls + 1, now)
    BY <1>0, <1>17, <2>1, <2>2, LyricsFeedbackStep
  <2> QED BY <1>s, <1>17, <2>3, <2>5 DEF Tables
<1>18. CASE t = "abuseSubjects"
  <2>1. /\ mem[t] \in Seq(AbuseSubjectRecord) /\ c \in AbuseSubjectCalls
        /\ Unique("abuseSubjects", mem[t])
    BY <1>18 DEF MapsInv, Single, Tables, CallsOf
  <2>2. q = AbuseSubjectsMem(c, mem[t], calls + 1, now)
    BY <1>18 DEF MethodOf
  <2>3. Database!StatementOn(t, c, calls + 1)
          = Database!AbuseSubjectsDb(c, Range(mem[t]), calls + 1, now)
    BY <1>18 DEF Database!StatementOn, Stored, Single
  <2>4. c.op = "upsert" =>
            Database!AbuseSubjectsKept(c, Range(mem[t]), now) \in Database!Outcomes(t, c, calls + 1)
    BY <1>18 DEF Database!Outcomes, Stored, Single
  <2>5. /\ q \in Seq(AbuseSubjectRecord)
        /\ Range(q) = IF c.op = "upsert" THEN Database!AbuseSubjectsKept(c, Range(mem[t]), now)
                       ELSE Database!AbuseSubjectsDb(c, Range(mem[t]), calls + 1, now)
    BY <1>0, <1>18, <2>1, <2>2, AbuseSubjectsStep
  <2> QED BY <1>s, <1>18, <2>3, <2>4, <2>5 DEF Tables
<1>19. CASE t = "actionEvents"
  <2>1. /\ mem[t] \in Seq(ActionEventRecord) /\ c \in ActionEventCalls
        /\ Unique("actionEvents", mem[t])
    BY <1>19 DEF MapsInv, Single, Tables, CallsOf
  <2>2. q = ActionEventsMem(c, mem[t], calls + 1, now)
    BY <1>19 DEF MethodOf
  <2>3. Database!StatementOn(t, c, calls + 1)
          = Database!ActionEventsDb(c, Range(mem[t]), calls + 1, now)
    BY <1>19 DEF Database!StatementOn, Stored, Single
  <2>5. /\ q \in Seq(ActionEventRecord)
        /\ Range(q) = Database!ActionEventsDb(c, Range(mem[t]), calls + 1, now)
    BY <1>0, <1>19, <2>1, <2>2, ActionEventsStep
  <2> QED BY <1>s, <1>19, <2>3, <2>5 DEF Tables
<1> QED BY <1>1, <1>2, <1>3, <1>4, <1>5, <1>6, <1>7, <1>8, <1>9, <1>10, <1>11,
    <1>12, <1>13, <1>14, <1>15, <1>16, <1>17, <1>18, <1>19, TableNames DEF Single,
    QueueTables

\* The database's tables, one by one.
LEMMA StoredTables ==
    /\ Stored = [u \in DOMAIN Tables |-> Stored[u]]
    /\ DOMAIN Stored = DOMAIN Tables
    /\ \A u \in DOMAIN Tables : Stored[u] =
          IF u \in {"queueSkipVotes", "karaokeClaims"}
          THEN Kin(Range(mem[u]), Range(mem.queueItems)) ELSE Range(mem[u])
BY DEF Stored, Kin, Database!Cascade

\* The same after a step.
LEMMA StoredTablesNext ==
    /\ Stored' = [u \in DOMAIN Tables |-> Stored'[u]]
    /\ DOMAIN Stored' = DOMAIN Tables
    /\ \A u \in DOMAIN Tables : Stored'[u] =
          IF u \in {"queueSkipVotes", "karaokeClaims"}
          THEN Kin(Range(mem'[u]), Range(mem'.queueItems)) ELSE Range(mem'[u])
BY DEF Stored, Kin, Database!Cascade

\* The numbers in the rows, and that a call later they are still in bounds.
LEMMA Counters ==
    ASSUME MapsInv
    PROVE  /\ calls \in Nat
           /\ \A r \in Range(mem.queueItems) :
                 /\ r \in QueueItemRecord /\ r.id \in Nat /\ r.skipVotes \in Nat
                 /\ r.id <= calls + 1 /\ r.skipVotes <= calls + 1
                 /\ r.skipVotes < calls + 1
           /\ \A r \in Range(mem.passwordCredentials) :
                 /\ r \in PasswordCredentialRecord /\ r.failedAttempts <= calls + 1
                 /\ r.failedAttempts < calls + 1
           /\ \A r \in Range(mem.queueSkipVotes) :
                 /\ r.queueItemId \in Nat /\ r.queueItemId <= calls + 1
                 /\ r.queueItemId # calls + 1
           /\ \A r \in Range(mem.karaokeClaims) :
                 /\ r.queueItemId \in Nat /\ r.queueItemId <= calls + 1
                 /\ r.queueItemId # calls + 1
<1>1. calls \in Nat
  BY StoreAssumption DEF MapsInv
<1>2. /\ mem.queueItems \in Seq(QueueItemRecord)
      /\ mem.passwordCredentials \in Seq(PasswordCredentialRecord)
      /\ mem.queueSkipVotes \in Seq(QueueSkipVoteRecord)
      /\ mem.karaokeClaims \in Seq(KaraokeClaimRecord)
  BY DEF MapsInv, Tables
<1>3. ASSUME NEW r \in Range(mem.queueItems)
      PROVE  /\ r \in QueueItemRecord /\ r.id \in Nat /\ r.skipVotes \in Nat
             /\ r.id <= calls /\ r.skipVotes <= calls
  <2>1. r \in QueueItemRecord
    BY <1>2 DEF Range
  <2> QED BY <2>1, StoreAssumption DEF MapsInv, QueueItemRecord, Ids
<1>4. ASSUME NEW r \in Range(mem.passwordCredentials)
      PROVE  /\ r \in PasswordCredentialRecord /\ r.failedAttempts \in Nat
             /\ r.failedAttempts <= calls
  <2>1. r \in PasswordCredentialRecord
    BY <1>2 DEF Range
  <2> QED BY <2>1, StoreAssumption DEF MapsInv, PasswordCredentialRecord
<1>5. ASSUME NEW r \in Range(mem.queueSkipVotes)
      PROVE  r.queueItemId \in Nat /\ r.queueItemId <= calls
  <2>1. r \in QueueSkipVoteRecord
    BY <1>2 DEF Range
  <2> QED BY <2>1, StoreAssumption DEF MapsInv, QueueSkipVoteRecord, Ids
<1>6. ASSUME NEW r \in Range(mem.karaokeClaims)
      PROVE  r.queueItemId \in Nat /\ r.queueItemId <= calls
  <2>1. r \in KaraokeClaimRecord
    BY <1>2 DEF Range
  <2> QED BY <2>1, StoreAssumption DEF MapsInv, KaraokeClaimRecord, Ids
<1> QED BY <1>1, <1>3, <1>4, <1>5, <1>6

\* Such a call keeps MapsInv and is the same call of the database.
LEMMA SingleStep ==
    ASSUME MapsInv, NEW t \in Single, Call(t)
    PROVE  MapsInv' /\ Database!Call(t)
<1>1. PICK c \in CallsOf(t) : /\ mem' = AfterCall(t, c, calls + 1)
                              /\ CallersLookFirst(t, c, mem'[t])
  BY DEF Call
<1> DEFINE q == MethodOf(t, c, calls + 1)
<1>2. /\ calls < MaxCalls /\ calls' = calls + 1 /\ focus' = focus /\ now' = now
      /\ calls \in 0..MaxCalls /\ calls + 1 \in 0..MaxCalls
      /\ t \in DOMAIN Tables /\ t # "queueSkipVotes" /\ t # "karaokeClaims"
      /\ t # "queueItems"
      /\ DOMAIN mem = DOMAIN Tables
  BY StoreAssumption DEF Call, MapsInv, Single, QueueTables
<1>3. mem' = [mem EXCEPT ![t] = q]
  BY <1>1, <1>2 DEF AfterCall
<1>4. mem'[t] = q /\ DOMAIN mem' = DOMAIN Tables /\ \A u \in DOMAIN Tables :
          u # t => mem'[u] = mem[u]
  BY <1>2, <1>3
<1>5. Unique(t, q) /\ (c.op = "create" /\ q # mem[t] => Len(q) > Len(mem[t]))
  BY <1>1, <1>4 DEF CallersLookFirst, Unique
<1>6. q \in Seq(Tables[t]) /\ Range(q) \in Database!Outcomes(t, c, calls + 1)
  BY <1>1, <1>2, <1>5, SingleCall
<1> HIDE DEF q
<1>7. \A u \in DOMAIN Tables : mem'[u] \in Seq(Tables[u]) /\ Unique(u, mem'[u])
  BY <1>4, <1>5, <1>6 DEF MapsInv
<1>8. \A r \in Range(mem'.passwordCredentials) : r.failedAttempts <= calls'
  <2>1. CASE t = "passwordCredentials"
    <3>1. Range(q) = Database!PasswordCredentialsDb(c, Range(mem.passwordCredentials),
                                                    calls + 1, now)
      BY <1>6, <2>1, StoredTables, TableNames DEF Database!StatementOn, Database!Outcomes
    <3>2. c \in PasswordCredentialCalls
      BY <2>1 DEF CallsOf
    <3>3. calls + 1 \in Ids /\ now \in Times
      BY <1>2, Counters DEF Ids, MapsInv
    <3>4. /\ Range(mem.passwordCredentials) \in SUBSET PasswordCredentialRecord
          /\ \A r \in Range(mem.passwordCredentials) : r.failedAttempts < calls + 1
      BY Counters
    <3>5. \A r \in Range(q) : r.failedAttempts <= calls + 1
      BY <3>1, <3>2, <3>3, <3>4, AttemptsAreCalls
    <3> QED BY <1>2, <1>4, <2>1, <3>5
  <2>2. CASE t # "passwordCredentials"
    BY <1>2, <1>4, <2>2, TableNames, Counters
  <2> QED BY <2>1, <2>2
<1>9. /\ \A r \in Range(mem'.queueItems) : r.id <= calls' /\ r.skipVotes <= calls'
      /\ \A r \in Range(mem'.queueSkipVotes) : r.queueItemId <= calls'
      /\ \A r \in Range(mem'.karaokeClaims) : r.queueItemId <= calls'
  BY <1>2, <1>4, TableNames, Counters
<1>10. MapsInv'
  BY <1>2, <1>4, <1>7, <1>8, <1>9 DEF MapsInv
<1>11. Stored' \in Database!AfterCalls(t, c, calls + 1)
  <2>1. [Stored EXCEPT ![t] = Range(q)] \in Database!AfterCalls(t, c, calls + 1)
    BY <1>2, <1>6 DEF Database!AfterCalls
  <2>2. \A u \in DOMAIN Tables : Stored'[u] = [Stored EXCEPT ![t] = Range(q)][u]
    BY <1>2, <1>4, StoredTables, StoredTablesNext, TableNames
  <2>3. Stored' = [Stored EXCEPT ![t] = Range(q)]
    BY <2>2, StoredTables, StoredTablesNext
  <2> QED BY <2>1, <2>3
<1> QED BY <1>1, <1>2, <1>10, <1>11, SameCalls DEF Database!Call

\* A call on the items: their votes and claims go with them; the same rows on
\* either side.
LEMMA ItemsStep ==
    ASSUME MapsInv, Call("queueItems")
    PROVE  MapsInv' /\ Database!Call("queueItems")
<1> DEFINE seq == mem.queueItems
           id == calls + 1
<1>1. PICK c \in QueueItemCalls : /\ mem' = AfterCall("queueItems", c, id)
                                  /\ CallersLookFirst("queueItems", c,
                                                      mem'["queueItems"])
  BY DEF Call, CallsOf
<1> DEFINE q == QueueItemsMem(c, seq, id, now)
           items == Database!QueueItemsDb(c, Range(seq), id, now)
<1>2. /\ calls < MaxCalls /\ calls' = id /\ focus' = focus /\ now' = now
      /\ id \in Ids /\ id \in 0..MaxCalls /\ now \in Times /\ DOMAIN mem = DOMAIN Tables
  BY Counters, StoreAssumption DEF Call, MapsInv, Ids
<1>3. mem' = [mem EXCEPT !["queueItems"] = q]
  BY <1>1 DEF AfterCall, MethodOf
<1>4. /\ mem'.queueItems = q /\ DOMAIN mem' = DOMAIN Tables
      /\ \A u \in DOMAIN Tables : u # "queueItems" => mem'[u] = mem[u]
  BY <1>2, <1>3, TableNames
<1>5. Unique("queueItems", q)
  BY <1>1, <1>4 DEF CallersLookFirst, Unique
<1>6. seq \in Seq(QueueItemRecord) /\ Unique("queueItems", seq)
  BY TableNames DEF MapsInv, Tables
<1>7. \A i \in DOMAIN seq : seq[i].skipVotes < id
  BY Counters DEF Range
<1>8. q \in Seq(QueueItemRecord) /\ Range(q) = items
  BY <1>2, <1>5, <1>6, <1>7, QueueItemsStep
<1>9. \A r \in items :
          r.skipVotes <= id /\ (r.id = id \/ \E s \in Range(seq) : s.id = r.id)
  <2>1. Range(seq) \in SUBSET QueueItemRecord /\ \A s \in Range(seq) : s.skipVotes < id
    BY Counters
  <2> QED BY <1>2, <2>1, ItemsOfACall
<1> HIDE DEF q, items
<1>10. MapsInv'
  <2>1. \A u \in DOMAIN Tables : mem'[u] \in Seq(Tables[u]) /\ Unique(u, mem'[u])
    BY <1>4, <1>5, <1>8, QueueRows DEF MapsInv
  <2>2. \A r \in Range(mem'.queueItems) : r.id <= id /\ r.skipVotes <= id
    BY <1>4, <1>8, <1>9, Counters
  <2>3. /\ \A r \in Range(mem'.passwordCredentials) : r.failedAttempts <= id
        /\ \A r \in Range(mem'.queueSkipVotes) : r.queueItemId <= id
        /\ \A r \in Range(mem'.karaokeClaims) : r.queueItemId <= id
    BY <1>4, TableNames, Counters
  <2> QED BY <1>2, <1>4, <2>1, <2>2, <2>3 DEF MapsInv
<1>11. ASSUME NEW u \in {"queueSkipVotes", "karaokeClaims"}
       PROVE  Database!Cascade(Stored[u], items) = Kin(Range(mem'[u]), items)
  <2>1. Stored[u] = Kin(Range(mem[u]), Range(seq)) /\ mem'[u] = mem[u]
    BY <1>4, StoredTables, TableNames
  <2>2. \A r \in Range(mem[u]) : r.queueItemId # id
    BY Counters
  <2>3. \A r \in Range(mem[u]) : (\E i \in items : i.id = r.queueItemId) =>
            \E i \in Range(seq) : i.id = r.queueItemId
    BY <1>9, <2>2
  <2> QED BY <2>1, <2>3 DEF Kin, Database!Cascade
<1>12. Stored' \in Database!AfterCalls("queueItems", c, id)
  <2> DEFINE after == [Stored EXCEPT !["queueItems"] = items,
                                     !["queueSkipVotes"] = Database!Cascade(@, items),
                                     !["karaokeClaims"] = Database!Cascade(@, items)]
  <2>1. after \in Database!AfterCalls("queueItems", c, id)
    BY StoredTables, TableNames DEF Database!AfterCalls, items
  <2>2. \A u \in DOMAIN Tables : Stored'[u] = after[u]
    BY <1>4, <1>8, <1>11, StoredTables, StoredTablesNext, TableNames
  <2>3. Stored' = after
    BY <2>2, StoredTables, StoredTablesNext
  <2> QED BY <2>1, <2>3
<1>13. c \in Database!CallsOf("queueItems")
  BY SameCalls, TableNames DEF CallsOf
<1> QED BY <1>2, <1>10, <1>12, <1>13 DEF Database!Call

\* A vote: the same rows on either side.
LEMMA VotesStep ==
    ASSUME MapsInv, Call("queueSkipVotes")
    PROVE  MapsInv' /\ Database!Call("queueSkipVotes")
<1> DEFINE id == calls + 1
           rows == Kin(Range(mem.queueSkipVotes), Range(mem.queueItems))
<1>1. PICK c \in QueueSkipVoteCalls :
            /\ OnAnItem("queueSkipVotes", c)
            /\ mem' = AfterCall("queueSkipVotes", c, id)
            /\ CallersLookFirst("queueSkipVotes", c, mem'["queueSkipVotes"])
  BY DEF Call, CallsOf
<1> DEFINE q == QueueSkipVotesMem(c, mem.queueSkipVotes, mem.queueItems, id, now)
           db == Database!QueueSkipVotesDb(c, rows, Range(mem.queueItems), id, now)
<1>2. /\ calls < MaxCalls /\ calls' = id /\ focus' = focus /\ now' = now
      /\ id \in Ids /\ id \in 0..MaxCalls /\ now \in Times /\ DOMAIN mem = DOMAIN Tables
  BY Counters, StoreAssumption DEF Call, MapsInv, Ids
<1>3. mem' = [mem EXCEPT !["queueItems"] = q.items, !["queueSkipVotes"] = q.votes]
  BY <1>1 DEF AfterCall
<1>4. /\ mem'.queueItems = q.items /\ mem'.queueSkipVotes = q.votes
      /\ DOMAIN mem' = DOMAIN Tables
      /\ \A u \in DOMAIN Tables :
             u \notin {"queueItems", "queueSkipVotes"} => mem'[u] = mem[u]
  BY <1>2, <1>3, TableNames
<1>5. Unique("queueSkipVotes", q.votes)
  BY <1>1, <1>4 DEF CallersLookFirst, Unique
<1>6. /\ mem.queueItems \in Seq(QueueItemRecord) /\ Unique("queueItems", mem.queueItems)
      /\ mem.queueSkipVotes \in Seq(QueueSkipVoteRecord)
  BY TableNames DEF MapsInv, Tables
<1>7. \A i \in DOMAIN mem.queueItems : mem.queueItems[i].skipVotes < id
  BY Counters DEF Range
<1>8. \E s \in Range(mem.queueItems) : s.id = c.queueItemId
  <2>1. "queueItemId" \in DOMAIN c
    BY DEF QueueSkipVoteCalls
  <2> QED BY <1>1, <2>1 DEF OnAnItem
<1>9. /\ q.votes \in Seq(QueueSkipVoteRecord) /\ q.items \in Seq(QueueItemRecord)
      /\ Unique("queueItems", q.items)
      /\ Range(q.items) = db.items
      /\ Kin(Range(q.votes), Range(q.items)) = db.votes
      /\ \A r \in Range(q.items) :
            r.skipVotes <= id /\ \E s \in Range(mem.queueItems) : s.id = r.id
      /\ \A s \in Range(mem.queueItems) : \E r \in Range(q.items) : r.id = s.id
      /\ \A r \in Range(q.votes) :
            r \in Range(mem.queueSkipVotes) \/ r.queueItemId = c.queueItemId
  BY <1>2, <1>5, <1>6, <1>7, <1>8, QueueSkipVotesStep
<1>10. \A r \in Range(q.votes) : r.queueItemId <= id
  <2>1. c.queueItemId <= id
    BY <1>8, Counters
  <2> HIDE DEF q, db
  <2>2. \A r \in Range(q.votes) :
           r \in Range(mem.queueSkipVotes) \/ r.queueItemId = c.queueItemId
    BY <1>9
  <2> QED BY <2>1, <2>2, Counters
<1> HIDE DEF q, db
<1>11. MapsInv'
  <2>1. \A u \in DOMAIN Tables : mem'[u] \in Seq(Tables[u]) /\ Unique(u, mem'[u])
    BY <1>4, <1>5, <1>9, QueueRows DEF MapsInv
  <2>2. \A r \in Range(mem'.queueItems) : r.id <= id /\ r.skipVotes <= id
    BY <1>4, <1>9, Counters
  <2>3. /\ \A r \in Range(mem'.passwordCredentials) : r.failedAttempts <= id
        /\ \A r \in Range(mem'.karaokeClaims) : r.queueItemId <= id
    BY <1>4, TableNames, Counters
  <2> QED BY <1>2, <1>4, <1>10, <2>1, <2>2, <2>3 DEF MapsInv
<1>12. Stored' \in Database!AfterCalls("queueSkipVotes", c, id)
  <2> DEFINE after == [Stored EXCEPT !["queueItems"] = db.items,
                                     !["queueSkipVotes"] = db.votes]
  <2>1. Stored.queueSkipVotes = rows /\ Stored.queueItems = Range(mem.queueItems)
    BY StoredTables, TableNames
  <2>2. after \in Database!AfterCalls("queueSkipVotes", c, id)
    BY <2>1 DEF Database!AfterCalls, db
  <2>3. Kin(Range(mem.karaokeClaims), Range(q.items))
          = Kin(Range(mem.karaokeClaims), Range(mem.queueItems))
    <3> DEFINE known == {s.id : s \in Range(mem.queueItems)}
    <3>1. {s.id : s \in Range(q.items)} = known
      <4>1. /\ \A r \in Range(q.items) : \E s \in Range(mem.queueItems) : s.id = r.id
            /\ \A s \in Range(mem.queueItems) : \E r \in Range(q.items) : r.id = s.id
        BY <1>9
      <4> QED BY <4>1
    <3>2. Kin(Range(mem.karaokeClaims), Range(q.items))
            = {x \in Range(mem.karaokeClaims) :
                  x.queueItemId \in {s.id : s \in Range(q.items)}}
      BY DEF Kin, Database!Cascade
    <3>3. Kin(Range(mem.karaokeClaims), Range(mem.queueItems))
            = {x \in Range(mem.karaokeClaims) : x.queueItemId \in known}
      BY DEF Kin, Database!Cascade
    <3> HIDE DEF known
    <3> QED BY <3>1, <3>2, <3>3
  <2>4. \A u \in DOMAIN Tables : Stored'[u] = after[u]
    BY <1>4, <1>9, <2>3, StoredTables, StoredTablesNext, TableNames
  <2>5. Stored' = after
    BY <2>4, StoredTables, StoredTablesNext
  <2> QED BY <2>2, <2>5
<1>13. c \in Database!CallsOf("queueSkipVotes")
  BY SameCalls, TableNames DEF CallsOf
<1> QED BY <1>2, <1>11, <1>12, <1>13 DEF Database!Call

\* A claim: the same rows on either side.
LEMMA ClaimsStep ==
    ASSUME MapsInv, Call("karaokeClaims")
    PROVE  MapsInv' /\ Database!Call("karaokeClaims")
<1> DEFINE id == calls + 1
           seq == mem.karaokeClaims
           items == Range(mem.queueItems)
<1>1. PICK c \in KaraokeClaimCalls :
            /\ OnAnItem("karaokeClaims", c)
            /\ mem' = AfterCall("karaokeClaims", c, id)
            /\ CallersLookFirst("karaokeClaims", c, mem'["karaokeClaims"])
  BY DEF Call, CallsOf
<1> DEFINE q == KaraokeClaimsMem(c, seq, id, now)
<1>2. /\ calls < MaxCalls /\ calls' = id /\ focus' = focus /\ now' = now
      /\ id \in Ids /\ id \in 0..MaxCalls /\ now \in Times /\ DOMAIN mem = DOMAIN Tables
  BY Counters, StoreAssumption DEF Call, MapsInv, Ids
<1>3. mem' = [mem EXCEPT !["karaokeClaims"] = q]
  BY <1>1 DEF AfterCall, MethodOf
<1>4. /\ mem'.karaokeClaims = q /\ DOMAIN mem' = DOMAIN Tables
      /\ \A u \in DOMAIN Tables : u # "karaokeClaims" => mem'[u] = mem[u]
  BY <1>2, <1>3, TableNames
<1>5. Unique("karaokeClaims", q)
  BY <1>1, <1>4 DEF CallersLookFirst, Unique
<1>6. seq \in Seq(KaraokeClaimRecord)
  BY TableNames, QueueRows DEF MapsInv
<1>7. OnOneOf(c, items)
  <2>1. c.op = "create" => "queueItemId" \in DOMAIN c
    BY DEF KaraokeClaimCalls
  <2> QED BY <1>1, <2>1 DEF OnAnItem, OnOneOf
<1>8. /\ q \in Seq(KaraokeClaimRecord)
      /\ Kin(Range(q), items)
           = Database!KaraokeClaimsDb(c, Kin(Range(seq), items), id, now)
      /\ \A r \in Range(q) : r \in Range(seq) \/ \E s \in items : s.id = r.queueItemId
  BY <1>2, <1>5, <1>6, <1>7, KaraokeClaimsStep
<1>9. \A r \in Range(q) : r.queueItemId <= id
  BY <1>8, Counters
<1> HIDE DEF q
<1>10. MapsInv'
  <2>1. \A u \in DOMAIN Tables : mem'[u] \in Seq(Tables[u]) /\ Unique(u, mem'[u])
    BY <1>4, <1>5, <1>8, QueueRows DEF MapsInv
  <2>2. /\ \A r \in Range(mem'.queueItems) : r.id <= id /\ r.skipVotes <= id
        /\ \A r \in Range(mem'.passwordCredentials) : r.failedAttempts <= id
        /\ \A r \in Range(mem'.queueSkipVotes) : r.queueItemId <= id
    BY <1>4, TableNames, Counters
  <2> QED BY <1>2, <1>4, <1>9, <2>1, <2>2 DEF MapsInv
<1>11. Stored' \in Database!AfterCalls("karaokeClaims", c, id)
  <2> DEFINE after == [Stored EXCEPT !["karaokeClaims"] = Kin(Range(q), items)]
  <2>1. Stored.karaokeClaims = Kin(Range(seq), items)
    BY StoredTables, TableNames
  <2>2. after \in Database!AfterCalls("karaokeClaims", c, id)
    BY <1>8, <2>1 DEF Database!AfterCalls, Database!Outcomes, Database!StatementOn
  <2>3. \A u \in DOMAIN Tables : Stored'[u] = after[u]
    BY <1>4, StoredTables, StoredTablesNext, TableNames
  <2>4. Stored' = after
    BY <2>3, StoredTables, StoredTablesNext
  <2> QED BY <2>2, <2>4
<1>12. c \in Database!CallsOf("karaokeClaims")
  BY SameCalls, TableNames DEF CallsOf
<1> QED BY <1>2, <1>10, <1>11, <1>12 DEF Database!Call

\* The clock: the same rows on either side.
LEMMA TickStep ==
    ASSUME MapsInv, Tick
    PROVE  MapsInv' /\ Database!Tick
<1>1. MapsInv'
  <2>1. mem' = mem /\ focus' = focus /\ calls' = calls /\ now' \in Times
    BY StoreAssumption DEF Tick, MapsInv, Times
  <2> QED BY <2>1 DEF MapsInv
<1>2. Database!Tick
  BY DEF Tick, Database!Tick, Stored
<1> QED BY <1>1, <1>2

\* Every step keeps MapsInv, and is a step of the database or none.
LEMMA StepImplements ==
    ASSUME MapsInv, [Next]_vars
    PROVE  MapsInv' /\ [Database!Next]_(Database!vars)
<1>1. ASSUME NEW t \in focus, Call(t)
      PROVE  MapsInv' /\ Database!Call(t)
  <2>1. t \in DOMAIN Tables
    <3>1. focus \in {QueueTables} \cup {{u} : u \in DOMAIN Tables \ QueueTables}
      BY DEF MapsInv
    <3> QED BY <3>1, TableNames DEF QueueTables
  <2>2. CASE t \in Single
    BY <1>1, <2>2, SingleStep
  <2>3. CASE t = "queueItems"
    BY <1>1, <2>3, ItemsStep
  <2>4. CASE t = "queueSkipVotes"
    BY <1>1, <2>4, VotesStep
  <2>5. CASE t = "karaokeClaims"
    BY <1>1, <2>5, ClaimsStep
  <2> QED BY <2>1, <2>2, <2>3, <2>4, <2>5 DEF Single, QueueTables
<1>2. CASE Tick
  BY <1>2, TickStep DEF Database!Next
<1>3. CASE UNCHANGED vars
  <2>1. mem' = mem /\ focus' = focus /\ calls' = calls /\ now' = now
    BY <1>3 DEF vars
  <2>2. MapsInv'
    BY <2>1 DEF MapsInv
  <2>3. UNCHANGED Database!vars
    BY <2>1 DEF Database!vars, Stored
  <2> QED BY <2>2, <2>3
<1> QED BY <1>1, <1>2, <1>3 DEF Next, Database!Next

\* Empty Maps are empty tables.
LEMMA InitImplements ==
    ASSUME Init
    PROVE  MapsInv /\ Database!Init
<1>1. DOMAIN mem = DOMAIN Tables /\ \A t \in DOMAIN Tables : mem[t] = <<>>
  BY DEF Init
<1>2. \A t \in DOMAIN Tables :
          mem[t] \in Seq(Tables[t]) /\ DOMAIN mem[t] = {} /\ Range(mem[t]) = {}
  <2>1. \A S : <<>> \in Seq(S)
    OBVIOUS
  <2>2. DOMAIN <<>> = {}
    OBVIOUS
  <2>3. Range(<<>>) = {}
    BY <2>2 DEF Range
  <2> QED BY <1>1, <2>1, <2>2, <2>3
<1>3. MapsInv
  <2>1. \A t \in DOMAIN Tables : Unique(t, mem[t])
    BY <1>2 DEF Unique
  <2>2. calls \in 0..MaxCalls /\ now \in Times
    BY StoreAssumption DEF Init, Times
  <2>3. focus \in {QueueTables} \cup {{t} : t \in DOMAIN Tables \ QueueTables}
    BY DEF Init
  <2> QED BY <1>1, <1>2, <2>1, <2>2, <2>3, TableNames DEF MapsInv
<1>4. Stored = [t \in DOMAIN Database!Tables |-> {}]
  <2>1. \A t \in DOMAIN Tables : Stored[t] = {}
    BY <1>2, StoredTables, TableNames DEF Kin, Database!Cascade
  <2> QED BY <2>1, StoredTables, TableNames
<1>5. focus \in {Database!QueueTables}
          \cup {{t} : t \in DOMAIN Database!Tables \ Database!QueueTables}
  BY TableNames DEF Init, QueueTables, Database!QueueTables
<1> QED BY <1>3, <1>4, <1>5 DEF Init, Database!Init

\* The repositories that keep Maps are repositories: for every method that changes a
\* table, the rows of the Map are those that the SQL statement leaves, but that a row
\* may keep what an upsert leaves out.
THEOREM MapsImplementTheDatabase == Spec => ImplementsDatabase
<1>1. Init => MapsInv /\ Database!Init
  BY InitImplements
<1>2. MapsInv /\ [Next]_vars => MapsInv' /\ [Database!Next]_(Database!vars)
  BY StepImplements
<1> QED BY <1>1, <1>2, PTL DEF Spec, ImplementsDatabase, Database!Spec

-----------------------------------------------------------------------------
(* The answers.                                                            *)

\* Every answer is one that the database may give.
Agree(answers, allowed) ==
    \A query \in DOMAIN allowed : \A arg \in DOMAIN allowed[query] :
        answers[query][arg] \in allowed[query][arg]

\* A list has finitely many rows.
LEMMA FiniteRange ==
    ASSUME NEW T, NEW seq \in Seq(T) PROVE IsFiniteSet(Range(seq))
<1>1. DOMAIN seq = 1..Len(seq) /\ Len(seq) \in Nat
  OBVIOUS
<1>2. IsFiniteSet(DOMAIN seq)
  BY <1>1, FS_Interval
<1>3. seq \in Surjection(DOMAIN seq, Range(seq))
  BY <1>1 DEF Surjection, Range
<1> QED BY <1>2, <1>3, FS_Surjection

\* A count is a count, on either side.
LEMMA SameCount ==
    ASSUME NEW S PROVE Database!Cardinality(S) = Cardinality(S)
BY DEF Database!Cardinality, Cardinality

\* find, where the database has a row that matches or none.
LEMMA OneAnswer ==
    ASSUME NEW T, NEW seq \in Seq(T), NEW places \in SUBSET DOMAIN seq,
           NEW rows, rows = RowsAt(seq, places)
    PROVE  FirstAt(seq, places) \in Database!One(rows)
BY FoundRow DEF FirstAt

\* filter, where the database lists the rows that match in any order.
LEMMA AnyAnswer ==
    ASSUME NEW T, NEW seq \in Seq(T), Distinct(seq), NEW places \in SUBSET DOMAIN seq,
           NEW rows, rows = RowsAt(seq, places)
    PROVE  InOrder(seq, places, Earlier(seq)) \in Database!AnyOrder(rows)
BY FilteredRows, SameCount DEF Database!AnyOrder, Database!SetToSeqs, SetToSeqs

\* Counting places is counting rows.
LEMMA CountAnswer ==
    ASSUME NEW T, NEW seq \in Seq(T), Distinct(seq), NEW places \in SUBSET DOMAIN seq,
           NEW rows, rows = RowsAt(seq, places)
    PROVE  Cardinality(places) = Cardinality(rows)
BY FilteredRows

\* Users: the Map answers as the table may.
LEMMA UsersAgree ==
    ASSUME NEW seq \in Seq(UserRecord), Distinct(seq), NEW at \in Times
    PROVE  Agree(UsersMemAnswers(seq, at), Database!UsersDbAnswers(Range(seq), at))
<1> DEFINE m == UsersMemAnswers(seq, at)
           d == Database!UsersDbAnswers(Range(seq), at)
<1>0. \A i \in DOMAIN seq : seq[i] \in UserRecord
  OBVIOUS
<1>1. DOMAIN d = {"findById", "findByPrimaryEmail"}
  BY DEF Database!UsersDbAnswers
<1>2. ASSUME NEW a \in DOMAIN d.findById PROVE m.findById[a] \in d.findById[a]
  <2>1. a \in Ids
    BY DEF Database!UsersDbAnswers, Database!Ids, Ids
  <2> DEFINE places == {i \in DOMAIN seq : seq[i].id = a}
             rows == {r \in Range(seq) : r.id = a}
  <2>2. m.findById[a] = FirstAt(seq, places)
    BY <2>1 DEF UsersMemAnswers, Find, Matches, FirstAt
  <2>3. d.findById[a] = Database!One(rows)
    BY <2>1 DEF Database!UsersDbAnswers, Database!Ids, Ids
  <2>4. rows = RowsAt(seq, places)
    BY DEF RowsAt, Range
  <2> HIDE DEF m, d, rows
  <2>5. places \in SUBSET DOMAIN seq
    OBVIOUS
  <2> HIDE DEF places
  <2> QED BY <2>2, <2>3, <2>4, <2>5, OneAnswer
<1>3. ASSUME NEW a \in DOMAIN d.findByPrimaryEmail
      PROVE  m.findByPrimaryEmail[a] \in d.findByPrimaryEmail[a]
  <2>1. a \in Emails
    BY DEF Database!UsersDbAnswers
  <2> DEFINE places == {i \in DOMAIN seq : seq[i].primaryEmail # None
                           /\ Lower[seq[i].primaryEmail] = Lower[a]}
             rows == {r \in Range(seq) : r.primaryEmail # None
                         /\ Lower[r.primaryEmail] = Lower[a]}
  <2>2. m.findByPrimaryEmail[a] = FirstAt(seq, places)
    BY <2>1 DEF UsersMemAnswers, Find, Matches, FirstAt
  <2>3. d.findByPrimaryEmail[a] = Database!One(rows)
    BY <2>1 DEF Database!UsersDbAnswers
  <2>4. rows = RowsAt(seq, places)
    BY DEF RowsAt, Range
  <2> HIDE DEF m, d, rows
  <2>5. places \in SUBSET DOMAIN seq
    OBVIOUS
  <2> HIDE DEF places
  <2> QED BY <2>2, <2>3, <2>4, <2>5, OneAnswer
<1> HIDE DEF m, d
<1> QED BY <1>1, <1>2, <1>3 DEF Agree, m, d

\* Accounts: the Map answers as the table may.
LEMMA AccountsAgree ==
    ASSUME NEW seq \in Seq(AccountRecord), Distinct(seq), NEW at \in Times
    PROVE  Agree(AccountsMemAnswers(seq, at),
                 Database!AccountsDbAnswers(Range(seq), at))
<1> DEFINE m == AccountsMemAnswers(seq, at)
           d == Database!AccountsDbAnswers(Range(seq), at)
<1>0. \A i \in DOMAIN seq : seq[i] \in AccountRecord
  OBVIOUS
<1>1. DOMAIN d = {"findById", "findBySlug"}
  BY DEF Database!AccountsDbAnswers
<1>2. ASSUME NEW a \in DOMAIN d.findById PROVE m.findById[a] \in d.findById[a]
  <2>1. a \in Ids
    BY DEF Database!AccountsDbAnswers, Database!Ids, Ids
  <2> DEFINE places == {i \in DOMAIN seq : seq[i].id = a}
             rows == {r \in Range(seq) : r.id = a}
  <2>2. m.findById[a] = FirstAt(seq, places)
    BY <2>1 DEF AccountsMemAnswers, Find, Matches, FirstAt
  <2>3. d.findById[a] = Database!One(rows)
    BY <2>1 DEF Database!AccountsDbAnswers, Database!Ids, Ids
  <2>4. rows = RowsAt(seq, places)
    BY DEF RowsAt, Range
  <2> HIDE DEF m, d, rows
  <2>5. places \in SUBSET DOMAIN seq
    OBVIOUS
  <2> HIDE DEF places
  <2> QED BY <2>2, <2>3, <2>4, <2>5, OneAnswer
<1>3. ASSUME NEW a \in DOMAIN d.findBySlug PROVE m.findBySlug[a] \in d.findBySlug[a]
  <2>1. a \in Names
    BY DEF Database!AccountsDbAnswers
  <2> DEFINE places == {i \in DOMAIN seq : seq[i].slug = a}
             rows == {r \in Range(seq) : r.slug = a}
  <2>2. m.findBySlug[a] = FirstAt(seq, places)
    BY <2>1 DEF AccountsMemAnswers, Find, Matches, FirstAt
  <2>3. d.findBySlug[a] = Database!One(rows)
    BY <2>1 DEF Database!AccountsDbAnswers
  <2>4. rows = RowsAt(seq, places)
    BY DEF RowsAt, Range
  <2> HIDE DEF m, d, rows
  <2>5. places \in SUBSET DOMAIN seq
    OBVIOUS
  <2> HIDE DEF places
  <2> QED BY <2>2, <2>3, <2>4, <2>5, OneAnswer
<1> HIDE DEF m, d
<1> QED BY <1>1, <1>2, <1>3 DEF Agree, m, d

\* Memberships: the Map answers as the table may.
LEMMA MembershipsAgree ==
    ASSUME NEW seq \in Seq(MembershipRecord), Distinct(seq), NEW at \in Times
    PROVE  Agree(MembershipsMemAnswers(seq, at),
                 Database!MembershipsDbAnswers(Range(seq), at))
<1> DEFINE m == MembershipsMemAnswers(seq, at)
           d == Database!MembershipsDbAnswers(Range(seq), at)
<1>0. \A i \in DOMAIN seq : seq[i] \in MembershipRecord
  OBVIOUS
<1>1. DOMAIN d = {"find", "findAllForUser"}
  BY DEF Database!MembershipsDbAnswers
<1>2. ASSUME NEW a \in DOMAIN d.find PROVE m.find[a] \in d.find[a]
  <2>1. a \in Names \X Names
    BY DEF Database!MembershipsDbAnswers
  <2> DEFINE places == {i \in DOMAIN seq : seq[i].accountId = a[1]
                           /\ seq[i].userId = a[2]}
             rows == {r \in Range(seq) : r.accountId = a[1] /\ r.userId = a[2]}
  <2>2. m.find[a] = FirstAt(seq, places)
    BY <2>1 DEF MembershipsMemAnswers, Find, Matches, FirstAt
  <2>3. d.find[a] = Database!One(rows)
    BY <2>1 DEF Database!MembershipsDbAnswers
  <2>4. rows = RowsAt(seq, places)
    BY DEF RowsAt, Range
  <2> HIDE DEF m, d, rows
  <2>5. places \in SUBSET DOMAIN seq
    OBVIOUS
  <2> HIDE DEF places
  <2> QED BY <2>2, <2>3, <2>4, <2>5, OneAnswer
<1>3. ASSUME NEW a \in DOMAIN d.findAllForUser
      PROVE  m.findAllForUser[a] \in d.findAllForUser[a]
  <2>1. a \in Names
    BY DEF Database!MembershipsDbAnswers
  <2> DEFINE places == {i \in DOMAIN seq : seq[i].userId = a}
             rows == {r \in Range(seq) : r.userId = a}
  <2>2. m.findAllForUser[a] = InOrder(seq, places, Earlier(seq))
    BY <2>1 DEF MembershipsMemAnswers, Filter, Matches
  <2>3. d.findAllForUser[a] = Database!AnyOrder(rows)
    BY <2>1 DEF Database!MembershipsDbAnswers
  <2>4. rows = RowsAt(seq, places)
    BY DEF RowsAt, Range
  <2> HIDE DEF m, d, rows
  <2>5. places \in SUBSET DOMAIN seq
    OBVIOUS
  <2> HIDE DEF places
  <2> QED BY <2>2, <2>3, <2>4, <2>5, AnyAnswer
<1> HIDE DEF m, d
<1> QED BY <1>1, <1>2, <1>3 DEF Agree, m, d

\* Identities: the Map answers as the table may.
LEMMA AuthIdentitiesAgree ==
    ASSUME NEW seq \in Seq(AuthIdentityRecord), Distinct(seq), NEW at \in Times
    PROVE  Agree(AuthIdentitiesMemAnswers(seq, at),
                 Database!AuthIdentitiesDbAnswers(Range(seq), at))
<1> DEFINE m == AuthIdentitiesMemAnswers(seq, at)
           d == Database!AuthIdentitiesDbAnswers(Range(seq), at)
<1>0. \A i \in DOMAIN seq : seq[i] \in AuthIdentityRecord
  OBVIOUS
<1>1. DOMAIN d = {"findByProvider"}
  BY DEF Database!AuthIdentitiesDbAnswers
<1>2. ASSUME NEW a \in DOMAIN d.findByProvider
      PROVE  m.findByProvider[a] \in d.findByProvider[a]
  <2>1. a \in Names \X Names
    BY DEF Database!AuthIdentitiesDbAnswers
  <2> DEFINE places == {i \in DOMAIN seq : seq[i].providerId = a[1]
                           /\ seq[i].providerSubject = a[2]}
             rows == {r \in Range(seq) : r.providerId = a[1]
                         /\ r.providerSubject = a[2]}
  <2>2. m.findByProvider[a] = FirstAt(seq, places)
    BY <2>1 DEF AuthIdentitiesMemAnswers, Find, Matches, FirstAt
  <2>3. d.findByProvider[a] = Database!One(rows)
    BY <2>1 DEF Database!AuthIdentitiesDbAnswers
  <2>4. rows = RowsAt(seq, places)
    BY DEF RowsAt, Range
  <2> HIDE DEF m, d, rows
  <2>5. places \in SUBSET DOMAIN seq
    OBVIOUS
  <2> HIDE DEF places
  <2> QED BY <2>2, <2>3, <2>4, <2>5, OneAnswer
<1> HIDE DEF m, d
<1> QED BY <1>1, <1>2 DEF Agree, m, d

\* Sign-ins that are neither revoked nor expired: the Map answers as the table may.
LEMMA AuthSessionsAgree ==
    ASSUME NEW seq \in Seq(AuthSessionRecord), Distinct(seq), NEW at \in Times
    PROVE  Agree(AuthSessionsMemAnswers(seq, at),
                 Database!AuthSessionsDbAnswers(Range(seq), at))
<1> DEFINE m == AuthSessionsMemAnswers(seq, at)
           d == Database!AuthSessionsDbAnswers(Range(seq), at)
<1>0. \A i \in DOMAIN seq : seq[i] \in AuthSessionRecord
  OBVIOUS
<1>1. DOMAIN d = {"findActiveByHash"}
  BY DEF Database!AuthSessionsDbAnswers
<1>2. ASSUME NEW a \in DOMAIN d.findActiveByHash
      PROVE  m.findActiveByHash[a] \in d.findActiveByHash[a]
  <2>1. a \in Names
    BY DEF Database!AuthSessionsDbAnswers
  <2> DEFINE places == {i \in DOMAIN seq : seq[i].sessionHash = a
                           /\ seq[i].revokedAt = None /\ ~(seq[i].expiresAt <= at)}
             rows == {r \in Range(seq) : r.sessionHash = a /\ r.revokedAt = None
                         /\ r.expiresAt > at}
  <2>2. m.findActiveByHash[a] = FirstAt(seq, places)
    BY <2>1 DEF AuthSessionsMemAnswers, Find, Matches, FirstAt
  <2>3. d.findActiveByHash[a] = Database!One(rows)
    BY <2>1 DEF Database!AuthSessionsDbAnswers
  <2>4. at \in Int /\ \A i \in DOMAIN seq : seq[i].expiresAt \in Int
    BY <1>0, StoreAssumption DEF AuthSessionRecord, Times
  <2>5. rows = RowsAt(seq, places)
    BY <2>4 DEF RowsAt, Range
  <2> HIDE DEF m, d, rows
  <2>6. places \in SUBSET DOMAIN seq
    OBVIOUS
  <2> HIDE DEF places
  <2> QED BY <2>2, <2>3, <2>5, <2>6, OneAnswer
<1> HIDE DEF m, d
<1> QED BY <1>1, <1>2 DEF Agree, m, d

\* Passwords: the Map answers as the table may.
LEMMA PasswordCredentialsAgree ==
    ASSUME NEW seq \in Seq(PasswordCredentialRecord), Distinct(seq), NEW at \in Times
    PROVE  Agree(PasswordCredentialsMemAnswers(seq, at),
                 Database!PasswordCredentialsDbAnswers(Range(seq), at))
<1> DEFINE m == PasswordCredentialsMemAnswers(seq, at)
           d == Database!PasswordCredentialsDbAnswers(Range(seq), at)
<1>0. \A i \in DOMAIN seq : seq[i] \in PasswordCredentialRecord
  OBVIOUS
<1>1. DOMAIN d = {"findByUser"}
  BY DEF Database!PasswordCredentialsDbAnswers
<1>2. ASSUME NEW a \in DOMAIN d.findByUser PROVE m.findByUser[a] \in d.findByUser[a]
  <2>1. a \in Names
    BY DEF Database!PasswordCredentialsDbAnswers
  <2> DEFINE places == {i \in DOMAIN seq : seq[i].userId = a}
             rows == {r \in Range(seq) : r.userId = a}
  <2>2. m.findByUser[a] = FirstAt(seq, places)
    BY <2>1 DEF PasswordCredentialsMemAnswers, Find, Matches, FirstAt
  <2>3. d.findByUser[a] = Database!One(rows)
    BY <2>1 DEF Database!PasswordCredentialsDbAnswers
  <2>4. rows = RowsAt(seq, places)
    BY DEF RowsAt, Range
  <2> HIDE DEF m, d, rows
  <2>5. places \in SUBSET DOMAIN seq
    OBVIOUS
  <2> HIDE DEF places
  <2> QED BY <2>2, <2>3, <2>4, <2>5, OneAnswer
<1> HIDE DEF m, d
<1> QED BY <1>1, <1>2 DEF Agree, m, d

\* Tokens that are neither used nor expired: the Map answers as the table may.
LEMMA EmailVerificationTokensAgree ==
    ASSUME NEW seq \in Seq(EmailVerificationTokenRecord), Distinct(seq),
           NEW at \in Times
    PROVE  Agree(EmailVerificationTokensMemAnswers(seq, at),
                 Database!EmailVerificationTokensDbAnswers(Range(seq), at))
<1> DEFINE m == EmailVerificationTokensMemAnswers(seq, at)
           d == Database!EmailVerificationTokensDbAnswers(Range(seq), at)
<1>0. \A i \in DOMAIN seq : seq[i] \in EmailVerificationTokenRecord
  OBVIOUS
<1>1. DOMAIN d = {"findActiveByHash"}
  BY DEF Database!EmailVerificationTokensDbAnswers
<1>2. ASSUME NEW a \in DOMAIN d.findActiveByHash
      PROVE  m.findActiveByHash[a] \in d.findActiveByHash[a]
  <2>1. a \in Names
    BY DEF Database!EmailVerificationTokensDbAnswers
  <2> DEFINE places == {i \in DOMAIN seq : seq[i].tokenHash = a
                           /\ seq[i].consumedAt = None /\ ~(seq[i].expiresAt <= at)}
             rows == {r \in Range(seq) : r.tokenHash = a /\ r.consumedAt = None
                         /\ r.expiresAt > at}
  <2>2. m.findActiveByHash[a] = FirstAt(seq, places)
    BY <2>1 DEF EmailVerificationTokensMemAnswers, Find, Matches, FirstAt
  <2>3. d.findActiveByHash[a] = Database!One(rows)
    BY <2>1 DEF Database!EmailVerificationTokensDbAnswers
  <2>4. at \in Int /\ \A i \in DOMAIN seq : seq[i].expiresAt \in Int
    BY <1>0, StoreAssumption DEF EmailVerificationTokenRecord, Times
  <2>5. rows = RowsAt(seq, places)
    BY <2>4 DEF RowsAt, Range
  <2> HIDE DEF m, d, rows
  <2>6. places \in SUBSET DOMAIN seq
    OBVIOUS
  <2> HIDE DEF places
  <2> QED BY <2>2, <2>3, <2>5, <2>6, OneAnswer
<1> HIDE DEF m, d
<1> QED BY <1>1, <1>2 DEF Agree, m, d

\* The same of reset tokens: the Map answers as the table may.
LEMMA PasswordResetTokensAgree ==
    ASSUME NEW seq \in Seq(PasswordResetTokenRecord), Distinct(seq), NEW at \in Times
    PROVE  Agree(PasswordResetTokensMemAnswers(seq, at),
                 Database!PasswordResetTokensDbAnswers(Range(seq), at))
<1> DEFINE m == PasswordResetTokensMemAnswers(seq, at)
           d == Database!PasswordResetTokensDbAnswers(Range(seq), at)
<1>0. \A i \in DOMAIN seq : seq[i] \in PasswordResetTokenRecord
  OBVIOUS
<1>1. DOMAIN d = {"findActiveByHash"}
  BY DEF Database!PasswordResetTokensDbAnswers,
     Database!EmailVerificationTokensDbAnswers
<1>2. ASSUME NEW a \in DOMAIN d.findActiveByHash
      PROVE  m.findActiveByHash[a] \in d.findActiveByHash[a]
  <2>1. a \in Names
    BY DEF Database!PasswordResetTokensDbAnswers,
       Database!EmailVerificationTokensDbAnswers
  <2> DEFINE places == {i \in DOMAIN seq : seq[i].tokenHash = a
                           /\ seq[i].consumedAt = None /\ ~(seq[i].expiresAt <= at)}
             rows == {r \in Range(seq) : r.tokenHash = a /\ r.consumedAt = None
                         /\ r.expiresAt > at}
  <2>2. m.findActiveByHash[a] = FirstAt(seq, places)
    BY <2>1 DEF PasswordResetTokensMemAnswers, EmailVerificationTokensMemAnswers,
        Find, Matches, FirstAt
  <2>3. d.findActiveByHash[a] = Database!One(rows)
    BY <2>1 DEF Database!PasswordResetTokensDbAnswers,
        Database!EmailVerificationTokensDbAnswers
  <2>4. at \in Int /\ \A i \in DOMAIN seq : seq[i].expiresAt \in Int
    BY <1>0, StoreAssumption DEF PasswordResetTokenRecord,
        EmailVerificationTokenRecord, Times
  <2>5. rows = RowsAt(seq, places)
    BY <2>4 DEF RowsAt, Range
  <2> HIDE DEF m, d, rows
  <2>6. places \in SUBSET DOMAIN seq
    OBVIOUS
  <2> HIDE DEF places
  <2> QED BY <2>2, <2>3, <2>5, <2>6, OneAnswer
<1> HIDE DEF m, d
<1> QED BY <1>1, <1>2 DEF Agree, m, d

\* States that have not expired: the Map answers as the table may.
LEMMA OAuthStatesAgree ==
    ASSUME NEW seq \in Seq(OAuthStateRecord), Distinct(seq), NEW at \in Times
    PROVE  Agree(OAuthStatesMemAnswers(seq, at),
                 Database!OAuthStatesDbAnswers(Range(seq), at))
<1> DEFINE m == OAuthStatesMemAnswers(seq, at)
           d == Database!OAuthStatesDbAnswers(Range(seq), at)
<1>0. \A i \in DOMAIN seq : seq[i] \in OAuthStateRecord
  OBVIOUS
<1>1. DOMAIN d = {"findActive"}
  BY DEF Database!OAuthStatesDbAnswers
<1>2. ASSUME NEW a \in DOMAIN d.findActive PROVE m.findActive[a] \in d.findActive[a]
  <2>1. a \in Names
    BY DEF Database!OAuthStatesDbAnswers
  <2> DEFINE places == {i \in DOMAIN seq : seq[i].state = a
                           /\ ~(seq[i].expiresAt <= at)}
             rows == {r \in Range(seq) : r.state = a /\ r.expiresAt > at}
  <2>2. m.findActive[a] = FirstAt(seq, places)
    BY <2>1 DEF OAuthStatesMemAnswers, Find, Matches, FirstAt
  <2>3. d.findActive[a] = Database!One(rows)
    BY <2>1 DEF Database!OAuthStatesDbAnswers
  <2>4. at \in Int /\ \A i \in DOMAIN seq : seq[i].expiresAt \in Int
    BY <1>0, StoreAssumption DEF OAuthStateRecord, Times
  <2>5. rows = RowsAt(seq, places)
    BY <2>4 DEF RowsAt, Range
  <2> HIDE DEF m, d, rows
  <2>6. places \in SUBSET DOMAIN seq
    OBVIOUS
  <2> HIDE DEF places
  <2> QED BY <2>2, <2>3, <2>5, <2>6, OneAnswer
<1> HIDE DEF m, d
<1> QED BY <1>1, <1>2 DEF Agree, m, d

\* Connections: the Map answers as the table may.
LEMMA ProviderConnectionsAgree ==
    ASSUME NEW seq \in Seq(ProviderConnectionRecord), Distinct(seq), NEW at \in Times
    PROVE  Agree(ProviderConnectionsMemAnswers(seq, at),
                 Database!ProviderConnectionsDbAnswers(Range(seq), at))
<1> DEFINE m == ProviderConnectionsMemAnswers(seq, at)
           d == Database!ProviderConnectionsDbAnswers(Range(seq), at)
<1>0. \A i \in DOMAIN seq : seq[i] \in ProviderConnectionRecord
  OBVIOUS
<1>1. DOMAIN d = {"findByAccountAndProvider", "findAllForAccount"}
  BY DEF Database!ProviderConnectionsDbAnswers
<1>2. ASSUME NEW a \in DOMAIN d.findByAccountAndProvider
      PROVE  m.findByAccountAndProvider[a] \in d.findByAccountAndProvider[a]
  <2>1. a \in Names \X Names
    BY DEF Database!ProviderConnectionsDbAnswers
  <2> DEFINE places == {i \in DOMAIN seq : seq[i].accountId = a[1]
                           /\ seq[i].providerId = a[2]}
             rows == {r \in Range(seq) : r.accountId = a[1] /\ r.providerId = a[2]}
  <2>2. m.findByAccountAndProvider[a] = FirstAt(seq, places)
    BY <2>1 DEF ProviderConnectionsMemAnswers, Find, Matches, FirstAt
  <2>3. d.findByAccountAndProvider[a] = Database!One(rows)
    BY <2>1 DEF Database!ProviderConnectionsDbAnswers
  <2>4. rows = RowsAt(seq, places)
    BY DEF RowsAt, Range
  <2> HIDE DEF m, d, rows
  <2>5. places \in SUBSET DOMAIN seq
    OBVIOUS
  <2> HIDE DEF places
  <2> QED BY <2>2, <2>3, <2>4, <2>5, OneAnswer
<1>3. ASSUME NEW a \in DOMAIN d.findAllForAccount
      PROVE  m.findAllForAccount[a] \in d.findAllForAccount[a]
  <2>1. a \in Names
    BY DEF Database!ProviderConnectionsDbAnswers
  <2> DEFINE places == {i \in DOMAIN seq : seq[i].accountId = a}
             rows == {r \in Range(seq) : r.accountId = a}
  <2>2. m.findAllForAccount[a] = InOrder(seq, places, Earlier(seq))
    BY <2>1 DEF ProviderConnectionsMemAnswers, Filter, Matches
  <2>3. d.findAllForAccount[a] = Database!AnyOrder(rows)
    BY <2>1 DEF Database!ProviderConnectionsDbAnswers
  <2>4. rows = RowsAt(seq, places)
    BY DEF RowsAt, Range
  <2> HIDE DEF m, d, rows
  <2>5. places \in SUBSET DOMAIN seq
    OBVIOUS
  <2> HIDE DEF places
  <2> QED BY <2>2, <2>3, <2>4, <2>5, AnyAnswer
<1> HIDE DEF m, d
<1> QED BY <1>1, <1>2, <1>3 DEF Agree, m, d

\* Guests: the Map answers as the table may.
LEMMA GuestsAgree ==
    ASSUME NEW seq \in Seq(GuestRecord), Distinct(seq), NEW at \in Times
    PROVE  Agree(GuestsMemAnswers(seq, at), Database!GuestsDbAnswers(Range(seq), at))
<1> DEFINE m == GuestsMemAnswers(seq, at)
           d == Database!GuestsDbAnswers(Range(seq), at)
<1>0. \A i \in DOMAIN seq : seq[i] \in GuestRecord
  OBVIOUS
<1>1. DOMAIN d = {"findBySessionAndFingerprint"}
  BY DEF Database!GuestsDbAnswers
<1>2. ASSUME NEW a \in DOMAIN d.findBySessionAndFingerprint
      PROVE  m.findBySessionAndFingerprint[a] \in d.findBySessionAndFingerprint[a]
  <2>1. a \in Names \X Names
    BY DEF Database!GuestsDbAnswers
  <2> DEFINE places == {i \in DOMAIN seq : seq[i].sessionId = a[1]
                           /\ seq[i].fingerprint = a[2]}
             rows == {r \in Range(seq) : r.sessionId = a[1] /\ r.fingerprint = a[2]}
  <2>2. m.findBySessionAndFingerprint[a] = FirstAt(seq, places)
    BY <2>1 DEF GuestsMemAnswers, Find, Matches, FirstAt
  <2>3. d.findBySessionAndFingerprint[a] = Database!One(rows)
    BY <2>1 DEF Database!GuestsDbAnswers
  <2>4. rows = RowsAt(seq, places)
    BY DEF RowsAt, Range
  <2> HIDE DEF m, d, rows
  <2>5. places \in SUBSET DOMAIN seq
    OBVIOUS
  <2> HIDE DEF places
  <2> QED BY <2>2, <2>3, <2>4, <2>5, OneAnswer
<1> HIDE DEF m, d
<1> QED BY <1>1, <1>2 DEF Agree, m, d

\* A priority that has not expired: the Map answers as the table may.
LEMMA FingerprintPriorityAgree ==
    ASSUME NEW seq \in Seq(FingerprintPriorityRecord), Distinct(seq), NEW at \in Times
    PROVE  Agree(FingerprintPriorityMemAnswers(seq, at),
                 Database!FingerprintPriorityDbAnswers(Range(seq), at))
<1> DEFINE m == FingerprintPriorityMemAnswers(seq, at)
           d == Database!FingerprintPriorityDbAnswers(Range(seq), at)
<1>0. \A i \in DOMAIN seq : seq[i] \in FingerprintPriorityRecord
  OBVIOUS
<1>1. DOMAIN d = {"find"}
  BY DEF Database!FingerprintPriorityDbAnswers
<1>2. ASSUME NEW a \in DOMAIN d.find PROVE m.find[a] \in d.find[a]
  <2>1. a \in Names \X Names
    BY DEF Database!FingerprintPriorityDbAnswers
  <2> DEFINE places == {i \in DOMAIN seq : seq[i].sessionId = a[1]
                           /\ seq[i].fingerprintHash = a[2]
                           /\ ~(seq[i].expiresAt <= at)}
             rows == {r \in Range(seq) : r.sessionId = a[1] /\ r.fingerprintHash = a[2]
                         /\ r.expiresAt > at}
  <2>2. m.find[a] = FirstAt(seq, places)
    BY <2>1 DEF FingerprintPriorityMemAnswers, Find, Matches, FirstAt
  <2>3. d.find[a] = Database!One(rows)
    BY <2>1 DEF Database!FingerprintPriorityDbAnswers
  <2>4. at \in Int /\ \A i \in DOMAIN seq : seq[i].expiresAt \in Int
    BY <1>0, StoreAssumption DEF FingerprintPriorityRecord, Times
  <2>5. rows = RowsAt(seq, places)
    BY <2>4 DEF RowsAt, Range
  <2> HIDE DEF m, d, rows
  <2>6. places \in SUBSET DOMAIN seq
    OBVIOUS
  <2> HIDE DEF places
  <2> QED BY <2>2, <2>3, <2>5, <2>6, OneAnswer
<1> HIDE DEF m, d
<1> QED BY <1>1, <1>2 DEF Agree, m, d

\* Cached lyrics: the Map answers as the table may.
LEMMA LyricsCacheAgree ==
    ASSUME NEW seq \in Seq(LyricsCacheRecord), Distinct(seq), NEW at \in Times
    PROVE  Agree(LyricsCacheMemAnswers(seq, at),
                 Database!LyricsCacheDbAnswers(Range(seq), at))
<1> DEFINE m == LyricsCacheMemAnswers(seq, at)
           d == Database!LyricsCacheDbAnswers(Range(seq), at)
<1>0. \A i \in DOMAIN seq : seq[i] \in LyricsCacheRecord
  OBVIOUS
<1>1. DOMAIN d = {"findBySourceAndKey"}
  BY DEF Database!LyricsCacheDbAnswers
<1>2. ASSUME NEW a \in DOMAIN d.findBySourceAndKey
      PROVE  m.findBySourceAndKey[a] \in d.findBySourceAndKey[a]
  <2>1. a \in Names \X Names
    BY DEF Database!LyricsCacheDbAnswers
  <2> DEFINE places == {i \in DOMAIN seq : seq[i].source = a[1]
                           /\ seq[i].lookupKeyHash = a[2]}
             rows == {r \in Range(seq) : r.source = a[1] /\ r.lookupKeyHash = a[2]}
  <2>2. m.findBySourceAndKey[a] = FirstAt(seq, places)
    BY <2>1 DEF LyricsCacheMemAnswers, Find, Matches, FirstAt
  <2>3. d.findBySourceAndKey[a] = Database!One(rows)
    BY <2>1 DEF Database!LyricsCacheDbAnswers
  <2>4. rows = RowsAt(seq, places)
    BY DEF RowsAt, Range
  <2> HIDE DEF m, d, rows
  <2>5. places \in SUBSET DOMAIN seq
    OBVIOUS
  <2> HIDE DEF places
  <2> QED BY <2>2, <2>3, <2>4, <2>5, OneAnswer
<1> HIDE DEF m, d
<1> QED BY <1>1, <1>2 DEF Agree, m, d

\* Feedback is counted, of one kind or of all: the Map answers as the table may.
LEMMA LyricsFeedbackAgree ==
    ASSUME NEW seq \in Seq(LyricsFeedbackRecord), Distinct(seq), NEW at \in Times
    PROVE  Agree(LyricsFeedbackMemAnswers(seq, at),
                 Database!LyricsFeedbackDbAnswers(Range(seq), at))
<1> DEFINE m == LyricsFeedbackMemAnswers(seq, at)
           d == Database!LyricsFeedbackDbAnswers(Range(seq), at)
<1>0. \A i \in DOMAIN seq : seq[i] \in LyricsFeedbackRecord
  OBVIOUS
<1>1. DOMAIN d = {"countForCacheEntry"}
  BY DEF Database!LyricsFeedbackDbAnswers
<1>2. ASSUME NEW a \in DOMAIN d.countForCacheEntry
      PROVE  m.countForCacheEntry[a] \in d.countForCacheEntry[a]
  <2>1. a \in Names \X Opt(Names)
    BY DEF Database!LyricsFeedbackDbAnswers, Database!Opt, Opt
  <2> DEFINE places == {i \in DOMAIN seq : seq[i].lyricsCacheId = a[1]
                           /\ (a[2] # None => seq[i].kind = a[2])}
             rows == {r \in Range(seq) : r.lyricsCacheId = a[1]
                         /\ (a[2] # None => r.kind = a[2])}
  <2>2. m.countForCacheEntry[a] = Cardinality(places)
    BY <2>1 DEF LyricsFeedbackMemAnswers, HowMany, Matches
  <2>3. d.countForCacheEntry[a] = {Cardinality(rows)}
    BY <2>1, SameCount DEF Database!LyricsFeedbackDbAnswers, Database!Opt, Opt
  <2>4. rows = RowsAt(seq, places)
    BY DEF RowsAt, Range
  <2> HIDE DEF m, d, rows
  <2>5. places \in SUBSET DOMAIN seq
    OBVIOUS
  <2> HIDE DEF places
  <2> QED BY <2>2, <2>3, <2>4, <2>5, CountAnswer
<1> HIDE DEF m, d
<1> QED BY <1>1, <1>2 DEF Agree, m, d

\* Subjects; those of a session while they have not expired: the Map answers as the
\* table may.
LEMMA AbuseSubjectsAgree ==
    ASSUME NEW seq \in Seq(AbuseSubjectRecord), Distinct(seq), NEW at \in Times
    PROVE  Agree(AbuseSubjectsMemAnswers(seq, at),
                 Database!AbuseSubjectsAnswers(Range(seq), at))
<1> DEFINE m == AbuseSubjectsMemAnswers(seq, at)
           d == Database!AbuseSubjectsAnswers(Range(seq), at)
<1>0. \A i \in DOMAIN seq : seq[i] \in AbuseSubjectRecord
  OBVIOUS
<1>1. DOMAIN d = {"findByHash", "findActiveForSession"}
  BY DEF Database!AbuseSubjectsAnswers, Database!AbuseSubjectsDbAnswers
<1>2. ASSUME NEW a \in DOMAIN d.findByHash PROVE m.findByHash[a] \in d.findByHash[a]
  <2>1. a \in Names
    BY DEF Database!AbuseSubjectsAnswers, Database!AbuseSubjectsDbAnswers
  <2> DEFINE places == {i \in DOMAIN seq : seq[i].subjectHash = a}
             rows == {r \in Range(seq) : r.subjectHash = a}
  <2>2. m.findByHash[a] = FirstAt(seq, places)
    BY <2>1 DEF AbuseSubjectsMemAnswers, Find, Matches, FirstAt
  <2>3. d.findByHash[a] = Database!One(rows)
    BY <2>1 DEF Database!AbuseSubjectsAnswers, Database!AbuseSubjectsDbAnswers
  <2>4. rows = RowsAt(seq, places)
    BY DEF RowsAt, Range
  <2> HIDE DEF m, d, rows
  <2>5. places \in SUBSET DOMAIN seq
    OBVIOUS
  <2> HIDE DEF places
  <2> QED BY <2>2, <2>3, <2>4, <2>5, OneAnswer
<1>3. ASSUME NEW a \in DOMAIN d.findActiveForSession
      PROVE  m.findActiveForSession[a] \in d.findActiveForSession[a]
  <2>1. a \in Names \X Opt(SUBSET AbuseSubjectStatus)
    BY DEF Database!AbuseSubjectsAnswers, Database!AbuseSubjectsDbAnswers, Database!Opt,
           Opt, Database!AbuseSubjectStatus, AbuseSubjectStatus
  <2> DEFINE places == {i \in DOMAIN seq : seq[i].sessionId = a[1]
                           /\ (a[2] # None => seq[i].status \in a[2])
                           /\ ~(seq[i].expiresAt # None /\ seq[i].expiresAt <= at)}
             rows == {r \in Range(seq) : r.sessionId = a[1]
                         /\ (a[2] \notin {None, {}} => r.status \in a[2])
                         /\ (r.expiresAt # None => r.expiresAt > at)}
  <2>2. m.findActiveForSession[a] = InOrder(seq, places, Earlier(seq))
    BY <2>1 DEF AbuseSubjectsMemAnswers, Filter, Matches
  <2>3. d.findActiveForSession[a] = IF a[2] = {} THEN Database!AnyOrder(rows) \cup {<<>>}
                                                 ELSE Database!AnyOrder(rows)
    BY <2>1
       DEF Database!AbuseSubjectsAnswers, Database!AbuseSubjectsDbAnswers, Database!Opt,
           Opt, Database!AbuseSubjectStatus, AbuseSubjectStatus
  <2>4. at \in Int /\ \A i \in DOMAIN seq :
            seq[i].expiresAt # None => seq[i].expiresAt \in Int
    BY <1>0, StoreAssumption DEF AbuseSubjectRecord, Times, Opt
  <2>5. a[2] # {} \/ a[2] = None => rows = RowsAt(seq, places)
    BY <2>4 DEF RowsAt, Range
  <2>6. a[2] = {} /\ a[2] # None => places = {}
    OBVIOUS
  <2>7. places \in SUBSET DOMAIN seq
    OBVIOUS
  <2> HIDE DEF m, d, rows, places
  <2>8. CASE a[2] # {} \/ a[2] = None
    BY <2>2, <2>3, <2>5, <2>7, <2>8, AnyAnswer
  <2>9. CASE a[2] = {} /\ a[2] # None
    <3> DEFINE q == InOrder(seq, places, Earlier(seq))
    <3>1. q \in Seq(AbuseSubjectRecord) /\ Len(q) = Cardinality(places)
      BY <2>7, FilteredRows
    <3>2. Cardinality(places) = 0
      BY <2>6, <2>9, FS_EmptySet
    <3> HIDE DEF q
    <3>3. q = <<>>
      BY <3>1, <3>2
    <3> QED BY <2>2, <2>3, <2>9, <3>3 DEF q
  <2> QED BY <2>8, <2>9
<1> HIDE DEF m, d
<1> QED BY <1>1, <1>2, <1>3 DEF Agree, m, d

\* The order by a time, and between equals as they stand.
ByTime(time, page) ==
    {p \in Pairs(page) : \/ time[page[p[1]]] < time[page[p[2]]]
                         \/ time[page[p[1]]] = time[page[p[2]]] /\ p[1] < p[2]}

\* What filter and then sort give.
Timeline(seq, places, time) ==
    LET page == InOrder(seq, places, Earlier(seq))
    IN  InOrder(page, DOMAIN page, ByTime(time, page))

\* It lists the rows that match by their time.
LEMMA SortedAnswer ==
    ASSUME NEW T, NEW seq \in Seq(T), Distinct(seq), NEW places \in SUBSET DOMAIN seq,
           NEW rows, rows = RowsAt(seq, places), NEW time \in [T -> Int],
           NEW sorted, sorted = Timeline(seq, places, time)
    PROVE  /\ sorted \in Seq(T) /\ sorted \in Database!SetToSeqs(rows)
           /\ \A i, j \in DOMAIN sorted : i < j => time[sorted[i]] <= time[sorted[j]]
<1> DEFINE page == InOrder(seq, places, Earlier(seq))
           at == [i \in DOMAIN page |-> time[page[i]]]
           before == {p \in Pairs(page) : \/ at[p[1]] < at[p[2]]
                                          \/ at[p[1]] = at[p[2]] /\ p[1] < p[2]}
<1>1. page \in Seq(T) /\ Distinct(page) /\ Range(page) = rows
  BY FilteredRows
<1> HIDE DEF page
<1>2. at \in [DOMAIN page -> Int]
  BY <1>1
<1>3. ByTime(time, page) = before
  BY DEF ByTime, Pairs
<1> HIDE DEF at
<1>4. /\ sorted \in SetToSeqs(rows)
      /\ \A m, n \in DOMAIN sorted : m < n =>
            \E i, j \in DOMAIN page : /\ sorted[m] = page[i] /\ sorted[n] = page[j]
                                      /\ at[i] <= at[j]
  <2> DEFINE q == InOrder(page, DOMAIN page, before)
  <2>1. /\ q \in SetToSeqs(Range(page))
        /\ \A m, n \in DOMAIN q : m < n =>
              \E i, j \in DOMAIN page : /\ q[m] = page[i] /\ q[n] = page[j]
                                        /\ at[i] <= at[j]
    BY <1>1, <1>2, SortedRows
  <2>2. sorted = q
    BY <1>3 DEF Timeline, page
  <2> HIDE DEF q, before
  <2> QED BY <1>1, <2>1, <2>2
<1>5. sorted \in Database!SetToSeqs(rows)
  BY <1>4, SameCount DEF SetToSeqs, Database!SetToSeqs
<1>6. sorted \in Seq(T)
  <2>1. rows \in SUBSET T
    BY <1>1 DEF Range
  <2>2. sorted \in [1..Cardinality(rows) -> rows] /\ Cardinality(rows) \in Nat
    <3>1. Cardinality(rows) = Len(page) /\ Len(page) \in Nat
      BY FilteredRows DEF page
    <3> QED BY <1>4, <3>1 DEF SetToSeqs
  <2>3. sorted \in [1..Cardinality(rows) -> T]
    BY <2>1, <2>2
  <2> QED BY <2>2, <2>3, SeqDef
<1>7. ASSUME NEW m \in DOMAIN sorted, NEW n \in DOMAIN sorted, m < n
      PROVE  time[sorted[m]] <= time[sorted[n]]
  <2>1. PICK i \in DOMAIN page, j \in DOMAIN page :
            sorted[m] = page[i] /\ sorted[n] = page[j] /\ at[i] <= at[j]
    BY <1>4, <1>7
  <2> QED BY <2>1 DEF at
<1> QED BY <1>5, <1>6, <1>7

\* Items; those of a session by their time: the Map answers as the table may.
LEMMA QueueItemsAgree ==
    ASSUME NEW seq \in Seq(QueueItemRecord), Distinct(seq), NEW at \in Times
    PROVE  Agree(QueueItemsMemAnswers(seq, at),
                 Database!QueueItemsDbAnswers(Range(seq), at))
<1> DEFINE m == QueueItemsMemAnswers(seq, at)
           d == Database!QueueItemsDbAnswers(Range(seq), at)
<1>0. \A i \in DOMAIN seq : seq[i] \in QueueItemRecord
  OBVIOUS
<1> DEFINE time == [r \in QueueItemRecord |-> r.createdAt]
<1>t. time \in [QueueItemRecord -> Int]
  BY StoreAssumption DEF QueueItemRecord, Times
<1> HIDE DEF time
<1>1. DOMAIN d = {"findById", "findAllForSession"}
  BY DEF Database!QueueItemsDbAnswers
<1>2. ASSUME NEW a \in DOMAIN d.findById PROVE m.findById[a] \in d.findById[a]
  <2>1. a \in Ids
    BY DEF Database!QueueItemsDbAnswers, Database!Ids, Ids
  <2> DEFINE places == {i \in DOMAIN seq : seq[i].id = a}
             rows == {r \in Range(seq) : r.id = a}
  <2>2. m.findById[a] = FirstAt(seq, places)
    BY <2>1 DEF QueueItemsMemAnswers, Find, Matches, FirstAt
  <2>3. d.findById[a] = Database!One(rows)
    BY <2>1 DEF Database!QueueItemsDbAnswers, Database!Ids, Ids
  <2>4. rows = RowsAt(seq, places)
    BY DEF RowsAt, Range
  <2> HIDE DEF m, d, rows
  <2>5. places \in SUBSET DOMAIN seq
    OBVIOUS
  <2> HIDE DEF places
  <2> QED BY <2>2, <2>3, <2>4, <2>5, OneAnswer
<1>3. ASSUME NEW a \in DOMAIN d.findAllForSession
      PROVE  m.findAllForSession[a] \in d.findAllForSession[a]
  <2>1. a \in Names
    BY DEF Database!QueueItemsDbAnswers
  <2> DEFINE places == {i \in DOMAIN seq : seq[i].sessionId = a}
             rows == {r \in Range(seq) : r.sessionId = a}
             page == InOrder(seq, places, Earlier(seq))
             sorted == Timeline(seq, places, time)
             allowed == {x \in Database!SetToSeqs(rows) : \A i, j \in DOMAIN x :
                            i < j => x[i].createdAt <= x[j].createdAt}
  <2>2. rows = RowsAt(seq, places) /\ places \in SUBSET DOMAIN seq
    BY DEF RowsAt, Range
  <2>3. page \in Seq(QueueItemRecord)
    <3> HIDE DEF places, rows
    <3> QED BY <2>2, FilteredRows
  <2>4. ByTime(time, page) =
                {p \in Pairs(page) :
                    \/ page[p[1]].createdAt < page[p[2]].createdAt
                    \/ page[p[1]].createdAt = page[p[2]].createdAt /\ p[1] < p[2]}
    <3> HIDE DEF page, places, rows
    <3>1. \A i \in DOMAIN page : time[page[i]] = page[i].createdAt
      BY <2>3 DEF time
    <3>2. \A p \in Pairs(page) : p[1] \in DOMAIN page /\ p[2] \in DOMAIN page
      BY DEF Pairs
    <3> HIDE DEF time
    <3> QED BY <3>1, <3>2 DEF ByTime
  <2>5. m.findAllForSession[a] = sorted
    <3>1. m.findAllForSession[a] = LET s == InOrder(page, DOMAIN page,
                       {p \in Pairs(page) :
                          \/ page[p[1]].createdAt < page[p[2]].createdAt
                          \/ page[p[1]].createdAt = page[p[2]].createdAt
                                 /\ p[1] < p[2]})
                     IN  s
      BY <2>1 DEF QueueItemsMemAnswers, Sorted, Filter, Matches
    <3>2. sorted = InOrder(page, DOMAIN page, ByTime(time, page))
      BY DEF Timeline
    <3> HIDE DEF m, d, page, places, rows, sorted
    <3> QED BY <2>4, <3>1, <3>2
  <2>6. d.findAllForSession[a] = allowed
    BY <2>1 DEF Database!QueueItemsDbAnswers, Database!Ascending
  <2> HIDE DEF places, rows
  <2>7. /\ sorted \in Seq(QueueItemRecord) /\ sorted \in Database!SetToSeqs(rows)
        /\ \A i, j \in DOMAIN sorted : i < j => time[sorted[i]] <= time[sorted[j]]
    BY <1>t, <2>2, SortedAnswer
  <2>8. sorted \in allowed
    <3> HIDE DEF sorted
    <3>1. \A i \in DOMAIN sorted : time[sorted[i]] = sorted[i].createdAt
      BY <2>7 DEF time
    <3> HIDE DEF time
    <3> QED BY <2>7, <3>1
  <2> HIDE DEF m, d, sorted, allowed
  <2> QED BY <2>5, <2>6, <2>8
<1> HIDE DEF m, d
<1> QED BY <1>1, <1>2, <1>3 DEF Agree, m, d

\* Claims; those of an item or a session by their time: the Map answers as the
\* table may.
LEMMA KaraokeClaimsAgree ==
    ASSUME NEW seq \in Seq(KaraokeClaimRecord), Distinct(seq), NEW at \in Times
    PROVE  Agree(KaraokeClaimsMemAnswers(seq, at),
                 Database!KaraokeClaimsDbAnswers(Range(seq), at))
<1> DEFINE m == KaraokeClaimsMemAnswers(seq, at)
           d == Database!KaraokeClaimsDbAnswers(Range(seq), at)
<1>0. \A i \in DOMAIN seq : seq[i] \in KaraokeClaimRecord
  OBVIOUS
<1> DEFINE time == [r \in KaraokeClaimRecord |-> r.createdAt]
<1>t. time \in [KaraokeClaimRecord -> Int]
  BY StoreAssumption DEF KaraokeClaimRecord, Times
<1> HIDE DEF time
<1>1. DOMAIN d = {"findAllForItem", "findAllForSession", "findByItemAndGuest"}
  BY DEF Database!KaraokeClaimsDbAnswers
<1>2. ASSUME NEW a \in DOMAIN d.findAllForItem
      PROVE  m.findAllForItem[a] \in d.findAllForItem[a]
  <2>1. a \in Ids
    BY DEF Database!KaraokeClaimsDbAnswers, Database!Ids, Ids
  <2> DEFINE places == {i \in DOMAIN seq : seq[i].queueItemId = a}
             rows == {r \in Range(seq) : r.queueItemId = a}
             page == InOrder(seq, places, Earlier(seq))
             sorted == Timeline(seq, places, time)
             allowed == {x \in Database!SetToSeqs(rows) : \A i, j \in DOMAIN x :
                            i < j => x[i].createdAt <= x[j].createdAt}
  <2>2. rows = RowsAt(seq, places) /\ places \in SUBSET DOMAIN seq
    BY DEF RowsAt, Range
  <2>3. page \in Seq(KaraokeClaimRecord)
    <3> HIDE DEF places, rows
    <3> QED BY <2>2, FilteredRows
  <2>4. ByTime(time, page) =
                {p \in Pairs(page) :
                    \/ page[p[1]].createdAt < page[p[2]].createdAt
                    \/ page[p[1]].createdAt = page[p[2]].createdAt /\ p[1] < p[2]}
    <3> HIDE DEF page, places, rows
    <3>1. \A i \in DOMAIN page : time[page[i]] = page[i].createdAt
      BY <2>3 DEF time
    <3>2. \A p \in Pairs(page) : p[1] \in DOMAIN page /\ p[2] \in DOMAIN page
      BY DEF Pairs
    <3> HIDE DEF time
    <3> QED BY <3>1, <3>2 DEF ByTime
  <2>5. m.findAllForItem[a] = sorted
    <3>1. m.findAllForItem[a] = LET s == InOrder(page, DOMAIN page,
                       {p \in Pairs(page) :
                          \/ page[p[1]].createdAt < page[p[2]].createdAt
                          \/ page[p[1]].createdAt = page[p[2]].createdAt
                                 /\ p[1] < p[2]})
                     IN  s
      BY <2>1 DEF KaraokeClaimsMemAnswers, Sorted, Filter, Matches
    <3>2. sorted = InOrder(page, DOMAIN page, ByTime(time, page))
      BY DEF Timeline
    <3> HIDE DEF m, d, page, places, rows, sorted
    <3> QED BY <2>4, <3>1, <3>2
  <2>6. d.findAllForItem[a] = allowed
    BY <2>1 DEF Database!KaraokeClaimsDbAnswers, Database!Ascending, Database!Ids, Ids
  <2> HIDE DEF places, rows
  <2>7. /\ sorted \in Seq(KaraokeClaimRecord) /\ sorted \in Database!SetToSeqs(rows)
        /\ \A i, j \in DOMAIN sorted : i < j => time[sorted[i]] <= time[sorted[j]]
    BY <1>t, <2>2, SortedAnswer
  <2>8. sorted \in allowed
    <3> HIDE DEF sorted
    <3>1. \A i \in DOMAIN sorted : time[sorted[i]] = sorted[i].createdAt
      BY <2>7 DEF time
    <3> HIDE DEF time
    <3> QED BY <2>7, <3>1
  <2> HIDE DEF m, d, sorted, allowed
  <2> QED BY <2>5, <2>6, <2>8
<1>3. ASSUME NEW a \in DOMAIN d.findAllForSession
      PROVE  m.findAllForSession[a] \in d.findAllForSession[a]
  <2>1. a \in Names
    BY DEF Database!KaraokeClaimsDbAnswers
  <2> DEFINE places == {i \in DOMAIN seq : seq[i].sessionId = a}
             rows == {r \in Range(seq) : r.sessionId = a}
             page == InOrder(seq, places, Earlier(seq))
             sorted == Timeline(seq, places, time)
             allowed == {x \in Database!SetToSeqs(rows) : \A i, j \in DOMAIN x :
                            i < j => x[i].createdAt <= x[j].createdAt}
  <2>2. rows = RowsAt(seq, places) /\ places \in SUBSET DOMAIN seq
    BY DEF RowsAt, Range
  <2>3. page \in Seq(KaraokeClaimRecord)
    <3> HIDE DEF places, rows
    <3> QED BY <2>2, FilteredRows
  <2>4. ByTime(time, page) =
                {p \in Pairs(page) :
                    \/ page[p[1]].createdAt < page[p[2]].createdAt
                    \/ page[p[1]].createdAt = page[p[2]].createdAt /\ p[1] < p[2]}
    <3> HIDE DEF page, places, rows
    <3>1. \A i \in DOMAIN page : time[page[i]] = page[i].createdAt
      BY <2>3 DEF time
    <3>2. \A p \in Pairs(page) : p[1] \in DOMAIN page /\ p[2] \in DOMAIN page
      BY DEF Pairs
    <3> HIDE DEF time
    <3> QED BY <3>1, <3>2 DEF ByTime
  <2>5. m.findAllForSession[a] = sorted
    <3>1. m.findAllForSession[a] = LET s == InOrder(page, DOMAIN page,
                       {p \in Pairs(page) :
                          \/ page[p[1]].createdAt < page[p[2]].createdAt
                          \/ page[p[1]].createdAt = page[p[2]].createdAt
                                 /\ p[1] < p[2]})
                     IN  s
      BY <2>1 DEF KaraokeClaimsMemAnswers, Sorted, Filter, Matches
    <3>2. sorted = InOrder(page, DOMAIN page, ByTime(time, page))
      BY DEF Timeline
    <3> HIDE DEF m, d, page, places, rows, sorted
    <3> QED BY <2>4, <3>1, <3>2
  <2>6. d.findAllForSession[a] = allowed
    BY <2>1 DEF Database!KaraokeClaimsDbAnswers, Database!Ascending
  <2> HIDE DEF places, rows
  <2>7. /\ sorted \in Seq(KaraokeClaimRecord) /\ sorted \in Database!SetToSeqs(rows)
        /\ \A i, j \in DOMAIN sorted : i < j => time[sorted[i]] <= time[sorted[j]]
    BY <1>t, <2>2, SortedAnswer
  <2>8. sorted \in allowed
    <3> HIDE DEF sorted
    <3>1. \A i \in DOMAIN sorted : time[sorted[i]] = sorted[i].createdAt
      BY <2>7 DEF time
    <3> HIDE DEF time
    <3> QED BY <2>7, <3>1
  <2> HIDE DEF m, d, sorted, allowed
  <2> QED BY <2>5, <2>6, <2>8
<1>4. ASSUME NEW a \in DOMAIN d.findByItemAndGuest
      PROVE  m.findByItemAndGuest[a] \in d.findByItemAndGuest[a]
  <2>1. a \in Ids \X Names
    BY DEF Database!KaraokeClaimsDbAnswers, Database!Ids, Ids
  <2> DEFINE places == {i \in DOMAIN seq : seq[i].queueItemId = a[1]
                           /\ seq[i].guestId = a[2]}
             rows == {r \in Range(seq) : r.queueItemId = a[1] /\ r.guestId = a[2]}
  <2>2. m.findByItemAndGuest[a] = FirstAt(seq, places)
    BY <2>1 DEF KaraokeClaimsMemAnswers, Find, Matches, FirstAt
  <2>3. d.findByItemAndGuest[a] = Database!One(rows)
    BY <2>1 DEF Database!KaraokeClaimsDbAnswers, Database!Ids, Ids
  <2>4. rows = RowsAt(seq, places)
    BY DEF RowsAt, Range
  <2> HIDE DEF m, d, rows
  <2>5. places \in SUBSET DOMAIN seq
    OBVIOUS
  <2> HIDE DEF places
  <2> QED BY <2>2, <2>3, <2>4, <2>5, OneAnswer
<1> HIDE DEF m, d
<1> QED BY <1>1, <1>2, <1>3, <1>4 DEF Agree, m, d

\* The latest events of a session: the Map answers as the table may.
LEMMA SessionAuditEventsAgree ==
    ASSUME NEW seq \in Seq(SessionAuditEventRecord), Distinct(seq), NEW at \in Times
    PROVE  Agree(SessionAuditEventsMemAnswers(seq, at),
                 Database!SessionAuditEventsDbAnswers(Range(seq), at))
<1> DEFINE m == SessionAuditEventsMemAnswers(seq, at)
           d == Database!SessionAuditEventsDbAnswers(Range(seq), at)
<1>0. \A i \in DOMAIN seq : seq[i] \in SessionAuditEventRecord
  OBVIOUS
<1> DEFINE time == [r \in SessionAuditEventRecord |-> -r.createdAt]
<1>t. time \in [SessionAuditEventRecord -> Int]
  BY StoreAssumption DEF SessionAuditEventRecord, Times
<1> HIDE DEF time
<1>1. DOMAIN d = {"listForSession"}
  BY DEF Database!SessionAuditEventsDbAnswers
<1>2. ASSUME NEW a \in DOMAIN d.listForSession
      PROVE  m.listForSession[a] \in d.listForSession[a]
  <2>1. a \in Names \X Opt(Times)
    BY DEF Database!SessionAuditEventsDbAnswers, Database!Times, Times, Database!Opt,
       Opt
  <2> DEFINE places == {i \in DOMAIN seq : seq[i].sessionId = a[1]
                           /\ (a[2] # None => seq[i].createdAt < a[2])}
             rows == {r \in Range(seq) : r.sessionId = a[1]
                         /\ (a[2] # None => r.createdAt < a[2])}
             page == InOrder(seq, places, Earlier(seq))
             sorted == Timeline(seq, places, time)
             allowed == {x \in Database!SetToSeqs(rows) : \A i, j \in DOMAIN x :
                            i < j => -x[i].createdAt <= -x[j].createdAt}
  <2>2. rows = RowsAt(seq, places) /\ places \in SUBSET DOMAIN seq
    BY DEF RowsAt, Range
  <2>3. page \in Seq(SessionAuditEventRecord)
    <3> HIDE DEF places, rows
    <3> QED BY <2>2, FilteredRows
  <2>4. ByTime(time, page) =
                {p \in Pairs(page) :
                    \/ -page[p[1]].createdAt < -page[p[2]].createdAt
                    \/ -page[p[1]].createdAt = -page[p[2]].createdAt /\ p[1] < p[2]}
    <3> HIDE DEF page, places, rows
    <3>1. \A i \in DOMAIN page : time[page[i]] = -page[i].createdAt
      BY <2>3 DEF time
    <3>2. \A p \in Pairs(page) : p[1] \in DOMAIN page /\ p[2] \in DOMAIN page
      BY DEF Pairs
    <3> HIDE DEF time
    <3> QED BY <3>1, <3>2 DEF ByTime
  <2>5. m.listForSession[a] = SubSeq(sorted, 1, IF Len(sorted) < Limit
                                                   THEN Len(sorted) ELSE Limit)
    <3>1. m.listForSession[a] = LET s == InOrder(page, DOMAIN page,
                       {p \in Pairs(page) :
                          \/ -page[p[1]].createdAt < -page[p[2]].createdAt
                          \/ -page[p[1]].createdAt = -page[p[2]].createdAt
                                 /\ p[1] < p[2]})
                     IN  SubSeq(s, 1, IF Len(s) < Limit THEN Len(s) ELSE Limit)
      BY <2>1 DEF SessionAuditEventsMemAnswers, Sorted, Filter, Matches
    <3>2. sorted = InOrder(page, DOMAIN page, ByTime(time, page))
      BY DEF Timeline
    <3> HIDE DEF m, d, page, places, rows, sorted
    <3> QED BY <2>4, <3>1, <3>2
  <2>6. d.listForSession[a] = {SubSeq(x, 1, IF Len(x) < Limit THEN Len(x)
                                               ELSE Limit) : x \in allowed}
    BY <2>1 DEF Database!SessionAuditEventsDbAnswers, Database!Ascending,
       Database!Times, Times, Database!Opt, Opt
  <2> HIDE DEF places, rows
  <2>7. /\ sorted \in Seq(SessionAuditEventRecord)
        /\ sorted \in Database!SetToSeqs(rows)
        /\ \A i, j \in DOMAIN sorted : i < j => time[sorted[i]] <= time[sorted[j]]
    BY <1>t, <2>2, SortedAnswer
  <2>8. sorted \in allowed
    <3> HIDE DEF sorted
    <3>1. \A i \in DOMAIN sorted : time[sorted[i]] = -sorted[i].createdAt
      BY <2>7 DEF time
    <3> HIDE DEF time
    <3> QED BY <2>7, <3>1
  <2> HIDE DEF m, d, sorted, allowed
  <2> QED BY <2>5, <2>6, <2>8
<1> HIDE DEF m, d
<1> QED BY <1>1, <1>2 DEF Agree, m, d

\* Whether a guest has voted: the Map answers as the table may.
LEMMA QueueSkipVotesAgree ==
    ASSUME NEW seq \in Seq(QueueSkipVoteRecord), Distinct(seq), NEW at \in Times
    PROVE  Agree(QueueSkipVotesMemAnswers(seq, at),
                 Database!QueueSkipVotesDbAnswers(Range(seq), at))
<1> DEFINE m == QueueSkipVotesMemAnswers(seq, at)
           d == Database!QueueSkipVotesDbAnswers(Range(seq), at)
<1>0. \A i \in DOMAIN seq : seq[i] \in QueueSkipVoteRecord
  OBVIOUS
<1>1. DOMAIN d = {"hasVoted"}
  BY DEF Database!QueueSkipVotesDbAnswers
<1>2. ASSUME NEW a \in DOMAIN d.hasVoted PROVE m.hasVoted[a] \in d.hasVoted[a]
  <2>1. a \in Ids \X Names
    BY DEF Database!QueueSkipVotesDbAnswers, Database!Ids, Ids
  <2> DEFINE places == {i \in DOMAIN seq : seq[i].queueItemId = a[1]
                           /\ seq[i].guestId = a[2]}
             voted == \E r \in Range(seq) : r.queueItemId = a[1] /\ r.guestId = a[2]
  <2>2. m.hasVoted[a] = (FirstAt(seq, places) # None)
    BY <2>1 DEF QueueSkipVotesMemAnswers, Find, Matches, FirstAt
  <2>3. d.hasVoted[a] = {voted}
    BY <2>1 DEF Database!QueueSkipVotesDbAnswers, Database!Ids, Ids
  <2>4. voted <=> places # {}
    BY DEF Range
  <2>5. places # {} => FirstAt(seq, places) # None
    <3>1. None \notin QueueSkipVoteRecord
      BY RowAssumption DEF Tables
    <3>2. Range(seq) \in SUBSET QueueSkipVoteRecord /\ places \in SUBSET DOMAIN seq
      BY <1>0 DEF Range
    <3> HIDE DEF places
    <3> QED BY <3>1, <3>2, FirstIsARow
  <2>6. places = {} => FirstAt(seq, places) = None
    BY DEF FirstAt
  <2>7. voted = (FirstAt(seq, places) # None)
    <3> HIDE DEF places
    <3> QED BY <2>4, <2>5, <2>6
  <2> HIDE DEF m, d, places, voted
  <2> QED BY <2>2, <2>3, <2>7
<1> HIDE DEF m, d
<1> QED BY <1>1, <1>2 DEF Agree, m, d

\* Events are counted by their kind: the Map answers as the table may.
LEMMA ActionEventsAgree ==
    ASSUME NEW seq \in Seq(ActionEventRecord), Distinct(seq), NEW at \in Times
    PROVE  Agree(ActionEventsMemAnswers(seq, at),
                 Database!ActionEventsDbAnswers(Range(seq), at))
<1> DEFINE m == ActionEventsMemAnswers(seq, at)
           d == Database!ActionEventsDbAnswers(Range(seq), at)
<1>0. \A i \in DOMAIN seq : seq[i] \in ActionEventRecord
  OBVIOUS
<1>1. DOMAIN d = {"countByKindSince"}
  BY DEF Database!ActionEventsDbAnswers
<1>2. ASSUME NEW a \in DOMAIN d.countByKindSince
      PROVE  m.countByKindSince[a] \in d.countByKindSince[a]
  <2>1. a \in Names \X Times
    BY DEF Database!ActionEventsDbAnswers, Database!Times, Times
  <2> DEFINE places(kind) == {i \in DOMAIN seq : seq[i].sessionId = a[1]
                                  /\ seq[i].eventKind = kind
                                  /\ seq[i].createdAt >= a[2]}
             rows(kind) == {r \in Range(seq) : r.sessionId = a[1]
                                  /\ r.eventKind = kind /\ r.createdAt >= a[2]}
  <2>2. m.countByKindSince[a] = [kind \in Names |-> Cardinality(places(kind))]
    BY <2>1 DEF ActionEventsMemAnswers, HowMany, Matches
  <2>3. d.countByKindSince[a] = {[kind \in Names |-> Cardinality(rows(kind))]}
    BY <2>1, SameCount DEF Database!ActionEventsDbAnswers, Database!Times, Times
  <2>4. ASSUME NEW kind \in Names
        PROVE  Cardinality(places(kind)) = Cardinality(rows(kind))
    <3>1. rows(kind) = RowsAt(seq, places(kind)) /\ places(kind) \in SUBSET DOMAIN seq
      BY DEF RowsAt, Range
    <3> HIDE DEF rows, places
    <3> QED BY <3>1, CountAnswer
  <2> HIDE DEF m, d, places, rows
  <2> QED BY <2>2, <2>3, <2>4
<1> HIDE DEF m, d
<1> QED BY <1>1, <1>2 DEF Agree, m, d

\* Slots; the first in the queue is one that waits longest: the Map answers as the
\* table may.
LEMMA GuestSlotsAgree ==
    ASSUME NEW seq \in Seq(GuestSlotRecord), Distinct(seq), NEW at \in Times
    PROVE  Agree(GuestSlotsMemAnswers(seq, at),
                 Database!GuestSlotsDbAnswers(Range(seq), at))
<1> DEFINE m == GuestSlotsMemAnswers(seq, at)
           d == Database!GuestSlotsDbAnswers(Range(seq), at)
<1>0. \A i \in DOMAIN seq : seq[i] \in GuestSlotRecord
  OBVIOUS
<1>1. DOMAIN d = {"findBySessionAndFingerprint", "findBySlotToken", "countByStatus",
                  "findActiveStaleSince", "findFirstQueued"}
  BY DEF Database!GuestSlotsDbAnswers
<1>2. ASSUME NEW a \in DOMAIN d.findBySessionAndFingerprint
      PROVE  m.findBySessionAndFingerprint[a] \in d.findBySessionAndFingerprint[a]
  <2>1. a \in Names \X Names
    BY DEF Database!GuestSlotsDbAnswers
  <2> DEFINE places == {i \in DOMAIN seq : seq[i].sessionId = a[1]
                           /\ seq[i].fingerprintHash = a[2]}
             rows == {r \in Range(seq) : r.sessionId = a[1] /\ r.fingerprintHash = a[2]}
  <2>2. m.findBySessionAndFingerprint[a] = FirstAt(seq, places)
    BY <2>1 DEF GuestSlotsMemAnswers, Find, Matches, FirstAt
  <2>3. d.findBySessionAndFingerprint[a] = Database!One(rows)
    BY <2>1 DEF Database!GuestSlotsDbAnswers
  <2>4. rows = RowsAt(seq, places)
    BY DEF RowsAt, Range
  <2> HIDE DEF m, d, rows
  <2>5. places \in SUBSET DOMAIN seq
    OBVIOUS
  <2> HIDE DEF places
  <2> QED BY <2>2, <2>3, <2>4, <2>5, OneAnswer
<1>3. ASSUME NEW a \in DOMAIN d.findBySlotToken
      PROVE  m.findBySlotToken[a] \in d.findBySlotToken[a]
  <2>1. a \in Ids
    BY DEF Database!GuestSlotsDbAnswers, Database!Ids, Ids
  <2> DEFINE places == {i \in DOMAIN seq : seq[i].slotToken = a}
             rows == {r \in Range(seq) : r.slotToken = a}
  <2>2. m.findBySlotToken[a] = FirstAt(seq, places)
    BY <2>1 DEF GuestSlotsMemAnswers, Find, Matches, FirstAt
  <2>3. d.findBySlotToken[a] = Database!One(rows)
    BY <2>1 DEF Database!GuestSlotsDbAnswers, Database!Ids, Ids
  <2>4. rows = RowsAt(seq, places)
    BY DEF RowsAt, Range
  <2> HIDE DEF m, d, rows
  <2>5. places \in SUBSET DOMAIN seq
    OBVIOUS
  <2> HIDE DEF places
  <2> QED BY <2>2, <2>3, <2>4, <2>5, OneAnswer
<1>4. ASSUME NEW a \in DOMAIN d.countByStatus
      PROVE  m.countByStatus[a] \in d.countByStatus[a]
  <2>1. a \in Names \X GuestSlotStatus
    BY DEF Database!GuestSlotsDbAnswers, Database!GuestSlotStatus, GuestSlotStatus
  <2> DEFINE places == {i \in DOMAIN seq : seq[i].sessionId = a[1]
                           /\ seq[i].status = a[2]}
             rows == {r \in Range(seq) : r.sessionId = a[1] /\ r.status = a[2]}
  <2>2. m.countByStatus[a] = Cardinality(places)
    BY <2>1 DEF GuestSlotsMemAnswers, HowMany, Matches
  <2>3. d.countByStatus[a] = {Cardinality(rows)}
    BY <2>1, SameCount DEF Database!GuestSlotsDbAnswers, Database!GuestSlotStatus,
        GuestSlotStatus
  <2>4. rows = RowsAt(seq, places)
    BY DEF RowsAt, Range
  <2> HIDE DEF m, d, rows
  <2>5. places \in SUBSET DOMAIN seq
    OBVIOUS
  <2> HIDE DEF places
  <2> QED BY <2>2, <2>3, <2>4, <2>5, CountAnswer
<1>5. ASSUME NEW a \in DOMAIN d.findActiveStaleSince
      PROVE  m.findActiveStaleSince[a] \in d.findActiveStaleSince[a]
  <2>1. a \in Names \X Times
    BY DEF Database!GuestSlotsDbAnswers, Database!Times, Times
  <2> DEFINE places == {i \in DOMAIN seq : seq[i].sessionId = a[1]
                           /\ seq[i].status = "active" /\ seq[i].lastHeartbeat <= a[2]}
             rows == {r \in Range(seq) : r.sessionId = a[1] /\ r.status = "active"
                         /\ r.lastHeartbeat <= a[2]}
  <2>2. m.findActiveStaleSince[a] = InOrder(seq, places, Earlier(seq))
    BY <2>1 DEF GuestSlotsMemAnswers, Filter, Matches
  <2>3. d.findActiveStaleSince[a] = Database!AnyOrder(rows)
    BY <2>1 DEF Database!GuestSlotsDbAnswers, Database!Times, Times
  <2>4. rows = RowsAt(seq, places)
    BY DEF RowsAt, Range
  <2> HIDE DEF m, d, rows
  <2>5. places \in SUBSET DOMAIN seq
    OBVIOUS
  <2> HIDE DEF places
  <2> QED BY <2>2, <2>3, <2>4, <2>5, AnyAnswer
<1>6. ASSUME NEW a \in DOMAIN d.findFirstQueued
      PROVE  m.findFirstQueued[a] \in d.findFirstQueued[a]
  <2>1. a \in Names
    BY DEF Database!GuestSlotsDbAnswers
  <2> DEFINE places == {i \in DOMAIN seq : seq[i].sessionId = a
                           /\ seq[i].status = "queued"}
             rows == {r \in Range(seq) : r.sessionId = a /\ r.status = "queued"}
             queued == InOrder(seq, places, Earlier(seq))
             first == {i \in DOMAIN queued :
                         \A s \in Range(queued) : queued[i].createdAt <= s.createdAt}
             allowed == {r \in rows : \A s \in rows : r.createdAt <= s.createdAt}
  <2>2. m.findFirstQueued[a] = FirstAt(queued, first)
    BY <2>1 DEF GuestSlotsMemAnswers, Filter, Find, Matches, FirstAt
  <2>3. d.findFirstQueued[a] = Database!One(allowed)
    BY <2>1 DEF Database!GuestSlotsDbAnswers
  <2>4. rows = RowsAt(seq, places) /\ places \in SUBSET DOMAIN seq
    BY DEF RowsAt, Range
  <2>5. queued \in Seq(GuestSlotRecord) /\ Range(queued) = rows
    <3> HIDE DEF places, rows
    <3> QED BY <2>4, FilteredRows
  <2> HIDE DEF queued, rows
  <2>6. allowed = RowsAt(queued, first) /\ first \in SUBSET DOMAIN queued
    BY <2>5 DEF RowsAt, Range
  <2> HIDE DEF m, d, first, allowed
  <2> QED BY <2>2, <2>3, <2>5, <2>6, OneAnswer
<1> HIDE DEF m, d
<1> QED BY <1>1, <1>2, <1>3, <1>4, <1>5, <1>6 DEF Agree, m, d

\* Sessions; of those with a slug the active one, or a latest: the Map answers as
\* the table may.
LEMMA SessionsAgree ==
    ASSUME NEW seq \in Seq(SessionRecord), Distinct(seq), NEW at \in Times,
           Unique("sessions", seq)
    PROVE  Agree(SessionsMemAnswers(seq, at),
                 Database!SessionsDbAnswers(Range(seq), at))
<1> DEFINE m == SessionsMemAnswers(seq, at)
           d == Database!SessionsDbAnswers(Range(seq), at)
<1>0. \A i \in DOMAIN seq : seq[i] \in SessionRecord
  OBVIOUS
<1>1. DOMAIN d = {"findById", "findByQrSlug", "findByAccount"}
  BY DEF Database!SessionsDbAnswers
<1>2. ASSUME NEW a \in DOMAIN d.findById PROVE m.findById[a] \in d.findById[a]
  <2>1. a \in Ids
    BY DEF Database!SessionsDbAnswers, Database!Ids, Ids
  <2> DEFINE places == {i \in DOMAIN seq : seq[i].id = a}
             rows == {r \in Range(seq) : r.id = a}
  <2>2. m.findById[a] = FirstAt(seq, places)
    BY <2>1 DEF SessionsMemAnswers, Find, Matches, FirstAt
  <2>3. d.findById[a] = Database!One(rows)
    BY <2>1 DEF Database!SessionsDbAnswers, Database!Ids, Ids
  <2>4. rows = RowsAt(seq, places)
    BY DEF RowsAt, Range
  <2> HIDE DEF m, d, rows
  <2>5. places \in SUBSET DOMAIN seq
    OBVIOUS
  <2> HIDE DEF places
  <2> QED BY <2>2, <2>3, <2>4, <2>5, OneAnswer
<1>3. ASSUME NEW a \in DOMAIN d.findByQrSlug
      PROVE  m.findByQrSlug[a] \in d.findByQrSlug[a]
  <2>1. a \in Names
    BY DEF Database!SessionsDbAnswers
  <2> DEFINE places == {i \in DOMAIN seq : seq[i].qrSlug = a}
             rows == {r \in Range(seq) : r.qrSlug = a}
             list == InOrder(seq, places, Earlier(seq))
             open == {i \in DOMAIN list : list[i].endedAt = None}
             actives == InOrder(list, open, Earlier(list))
             active == {r \in rows : r.endedAt = None}
             last == {i \in DOMAIN list :
                        \A s \in Range(list) : s.startedAt <= list[i].startedAt}
             latest(S) == {r \in S : \A s \in S : s.startedAt <= r.startedAt}
  <2>2. m.findByQrSlug[a] = IF actives # <<>> THEN actives[1] ELSE FirstAt(list, last)
    BY <2>1 DEF SessionsMemAnswers, BySlug, Filter, Find, Matches, FirstAt
  <2>3. d.findByQrSlug[a] = Database!One(latest(IF active = {} THEN rows ELSE active))
    BY <2>1 DEF Database!SessionsDbAnswers
  <2>4. rows = RowsAt(seq, places) /\ places \in SUBSET DOMAIN seq
    BY DEF RowsAt, Range
  <2>5. list \in Seq(SessionRecord) /\ Range(list) = rows
    <3> HIDE DEF places, rows
    <3> QED BY <2>4, FilteredRows
  <2>6. \A r, s \in active : r = s
    <3> SUFFICES ASSUME NEW r \in active, NEW s \in active PROVE r = s
      OBVIOUS
    <3>1. PICK i \in DOMAIN seq, j \in DOMAIN seq :
              /\ r = seq[i] /\ s = seq[j]
              /\ seq[i].qrSlug = a /\ seq[i].endedAt = None
              /\ seq[j].qrSlug = a /\ seq[j].endedAt = None
      BY DEF Range
    <3>2. <<"slug", a>> \in KeysOf("sessions", seq[i]) \cap KeysOf("sessions", seq[j])
      BY <3>1 DEF KeysOf, sessionsKeys, KeyIf
    <3>3. i = j
      BY <3>2 DEF Unique
    <3> QED BY <3>1, <3>3
  <2>7. \A r \in rows : r.startedAt \in Int
    BY <1>0, StoreAssumption DEF Range, SessionRecord, Times
  <2> HIDE DEF list, rows
  <2>8. /\ DOMAIN actives = 1..Len(actives) /\ Len(actives) \in Nat
        /\ Range(actives) = active
    <3>1. active = RowsAt(list, open) /\ open \in SUBSET DOMAIN list
      BY <2>5 DEF RowsAt, Range
    <3> HIDE DEF active, open
    <3> QED BY <2>5, <3>1, FilteredRows
  <2>9. latest(rows) = RowsAt(list, last) /\ last \in SUBSET DOMAIN list
    BY <2>5 DEF RowsAt, Range
  <2>10. CASE active = {}
    <3>1. actives = <<>>
      <4> HIDE DEF actives, active
      <4>1. Len(actives) = 0
        <5>1. \A i \in 1..Len(actives) : actives[i] \in {}
          BY <2>8, <2>10 DEF Range
        <5> QED BY <2>8, <5>1
      <4>2. actives \in Seq(SessionRecord)
        <5>1. open \in SUBSET DOMAIN list
          OBVIOUS
        <5> HIDE DEF open
        <5> QED BY <2>5, <5>1, FilteredRows DEF actives
      <4> QED BY <4>1, <4>2, EmptySeq
    <3>2. m.findByQrSlug[a] = FirstAt(list, last)
      BY <2>2, <3>1
    <3>3. d.findByQrSlug[a] = Database!One(latest(rows))
      BY <2>3, <2>10
    <3> HIDE DEF m, d, last, latest
    <3> QED BY <2>5, <2>9, <3>2, <3>3, OneAnswer
  <2>11. CASE active # {}
    <3>1. actives # <<>> /\ actives[1] \in active
      <4> HIDE DEF actives, active
      <4>1. Range(actives) # {}
        BY <2>8, <2>11
      <4>2. 1 \in DOMAIN actives
        BY <2>8, <4>1 DEF Range
      <4> QED BY <2>8, <4>2 DEF Range
    <3>2. actives[1] \in latest(active)
      <4> DEFINE r == actives[1]
      <4>1. r \in active /\ r \in rows
        BY <3>1
      <4> HIDE DEF r
      <4>2. r.startedAt \in Int
        BY <2>7, <4>1
      <4>3. \A s \in active : s.startedAt <= r.startedAt
        BY <2>6, <4>1, <4>2
      <4> HIDE DEF active
      <4> QED BY <4>1, <4>3 DEF r
    <3>3. m.findByQrSlug[a] = actives[1]
      BY <2>2, <3>1
    <3>4. d.findByQrSlug[a] = Database!One(latest(active))
      BY <2>3, <2>11
    <3> HIDE DEF m, d, actives, active, latest
    <3> QED BY <3>2, <3>3, <3>4 DEF Database!One
  <2> QED BY <2>10, <2>11
<1>4. ASSUME NEW a \in DOMAIN d.findByAccount
      PROVE  m.findByAccount[a] \in d.findByAccount[a]
  <2>1. a \in Names
    BY DEF Database!SessionsDbAnswers
  <2> DEFINE places == {i \in DOMAIN seq : seq[i].accountId = a}
             rows == {r \in Range(seq) : r.accountId = a}
  <2>2. m.findByAccount[a] = InOrder(seq, places, Earlier(seq))
    BY <2>1 DEF SessionsMemAnswers, Filter, Matches
  <2>3. d.findByAccount[a] = Database!AnyOrder(rows)
    BY <2>1 DEF Database!SessionsDbAnswers
  <2>4. rows = RowsAt(seq, places)
    BY DEF RowsAt, Range
  <2> HIDE DEF m, d, rows
  <2>5. places \in SUBSET DOMAIN seq
    OBVIOUS
  <2> HIDE DEF places
  <2> QED BY <2>2, <2>3, <2>4, <2>5, AnyAnswer
<1> HIDE DEF m, d
<1> QED BY <1>1, <1>2, <1>3, <1>4 DEF Agree, m, d

-----------------------------------------------------------------------------
\* Every row has a key, so rows that share none are different rows.
LEMMA RowsHaveKeys ==
    ASSUME NEW t \in DOMAIN Tables, NEW r PROVE KeysOf(t, r) # {}
<1>1. CASE t = "users"
  BY <1>1 DEF KeysOf, usersKeys
<1>2. CASE t = "accounts"
  BY <1>2 DEF KeysOf, accountsKeys
<1>3. CASE t = "memberships"
  BY <1>3 DEF KeysOf, membershipsKeys
<1>4. CASE t = "authIdentities"
  BY <1>4 DEF KeysOf, authIdentitiesKeys
<1>5. CASE t = "authSessions"
  BY <1>5 DEF KeysOf, authSessionsKeys
<1>6. CASE t = "passwordCredentials"
  BY <1>6 DEF KeysOf, passwordCredentialsKeys
<1>7. CASE t = "emailVerificationTokens"
  BY <1>7 DEF KeysOf, emailVerificationTokensKeys
<1>8. CASE t = "passwordResetTokens"
  BY <1>8 DEF KeysOf, passwordResetTokensKeys
<1>9. CASE t = "oauthStates"
  BY <1>9 DEF KeysOf, oauthStatesKeys
<1>10. CASE t = "providerConnections"
  BY <1>10 DEF KeysOf, providerConnectionsKeys
<1>11. CASE t = "sessions"
  BY <1>11 DEF KeysOf, sessionsKeys
<1>12. CASE t = "guests"
  BY <1>12 DEF KeysOf, guestsKeys
<1>13. CASE t = "guestSlots"
  BY <1>13 DEF KeysOf, guestSlotsKeys
<1>14. CASE t = "fingerprintPriority"
  BY <1>14 DEF KeysOf, fingerprintPriorityKeys
<1>15. CASE t = "queueItems"
  BY <1>15 DEF KeysOf, queueItemsKeys
<1>16. CASE t = "queueSkipVotes"
  BY <1>16 DEF KeysOf, queueSkipVotesKeys
<1>17. CASE t = "karaokeClaims"
  BY <1>17 DEF KeysOf, karaokeClaimsKeys
<1>18. CASE t = "sessionAuditEvents"
  BY <1>18 DEF KeysOf, sessionAuditEventsKeys
<1>19. CASE t = "lyricsCache"
  BY <1>19 DEF KeysOf, lyricsCacheKeys
<1>20. CASE t = "lyricsFeedback"
  BY <1>20 DEF KeysOf, lyricsFeedbackKeys
<1>21. CASE t = "abuseSubjects"
  BY <1>21 DEF KeysOf, abuseSubjectsKeys
<1>22. CASE t = "actionEvents"
  BY <1>22 DEF KeysOf, actionEventsKeys
<1> QED BY <1>1, <1>2, <1>3, <1>4, <1>5, <1>6, <1>7, <1>8, <1>9, <1>10, <1>11, <1>12,
    <1>13, <1>14, <1>15, <1>16, <1>17, <1>18, <1>19, <1>20, <1>21, <1>22, TableNames

\* Rows with no unique value in common differ.
LEMMA DifferentRows ==
    ASSUME NEW t \in DOMAIN Tables, NEW seq, Unique(t, seq) PROVE Distinct(seq)
BY RowsHaveKeys DEF Unique, Distinct

\* What the Maps answer, in any state that satisfies the invariant.
LEMMA TableAgrees ==
    ASSUME MapsInv, NEW t \in DOMAIN Tables
    PROVE  Agree(MemAnswersOf(t), Database!AnswersOf(t, Range(mem[t]), now))
<1>1. Distinct(mem[t]) /\ now \in Times
  BY DifferentRows DEF MapsInv
<1>2. CASE t = "users"
  <2>1. mem[t] \in Seq(UserRecord)
    BY <1>2 DEF MapsInv, Tables
  <2>2. Agree(UsersMemAnswers(mem[t], now), Database!UsersDbAnswers(Range(mem[t]), now))
    BY <1>1, <2>1, UsersAgree
  <2> QED BY <1>2, <2>2 DEF MemAnswersOf, Database!AnswersOf
<1>3. CASE t = "accounts"
  <2>1. mem[t] \in Seq(AccountRecord)
    BY <1>3 DEF MapsInv, Tables
  <2>2. Agree(AccountsMemAnswers(mem[t], now),
              Database!AccountsDbAnswers(Range(mem[t]), now))
    BY <1>1, <2>1, AccountsAgree
  <2> QED BY <1>3, <2>2 DEF MemAnswersOf, Database!AnswersOf
<1>4. CASE t = "memberships"
  <2>1. mem[t] \in Seq(MembershipRecord)
    BY <1>4 DEF MapsInv, Tables
  <2>2. Agree(MembershipsMemAnswers(mem[t], now),
              Database!MembershipsDbAnswers(Range(mem[t]), now))
    BY <1>1, <2>1, MembershipsAgree
  <2> QED BY <1>4, <2>2 DEF MemAnswersOf, Database!AnswersOf
<1>5. CASE t = "authIdentities"
  <2>1. mem[t] \in Seq(AuthIdentityRecord)
    BY <1>5 DEF MapsInv, Tables
  <2>2. Agree(AuthIdentitiesMemAnswers(mem[t], now),
              Database!AuthIdentitiesDbAnswers(Range(mem[t]), now))
    BY <1>1, <2>1, AuthIdentitiesAgree
  <2> QED BY <1>5, <2>2 DEF MemAnswersOf, Database!AnswersOf
<1>6. CASE t = "authSessions"
  <2>1. mem[t] \in Seq(AuthSessionRecord)
    BY <1>6 DEF MapsInv, Tables
  <2>2. Agree(AuthSessionsMemAnswers(mem[t], now),
              Database!AuthSessionsDbAnswers(Range(mem[t]), now))
    BY <1>1, <2>1, AuthSessionsAgree
  <2> QED BY <1>6, <2>2 DEF MemAnswersOf, Database!AnswersOf
<1>7. CASE t = "passwordCredentials"
  <2>1. mem[t] \in Seq(PasswordCredentialRecord)
    BY <1>7 DEF MapsInv, Tables
  <2>2. Agree(PasswordCredentialsMemAnswers(mem[t], now),
              Database!PasswordCredentialsDbAnswers(Range(mem[t]), now))
    BY <1>1, <2>1, PasswordCredentialsAgree
  <2> QED BY <1>7, <2>2 DEF MemAnswersOf, Database!AnswersOf
<1>8. CASE t = "emailVerificationTokens"
  <2>1. mem[t] \in Seq(EmailVerificationTokenRecord)
    BY <1>8 DEF MapsInv, Tables
  <2>2. Agree(EmailVerificationTokensMemAnswers(mem[t], now),
              Database!EmailVerificationTokensDbAnswers(Range(mem[t]), now))
    BY <1>1, <2>1, EmailVerificationTokensAgree
  <2> QED BY <1>8, <2>2 DEF MemAnswersOf, Database!AnswersOf
<1>9. CASE t = "passwordResetTokens"
  <2>1. mem[t] \in Seq(PasswordResetTokenRecord)
    BY <1>9 DEF MapsInv, Tables
  <2>2. Agree(PasswordResetTokensMemAnswers(mem[t], now),
              Database!PasswordResetTokensDbAnswers(Range(mem[t]), now))
    BY <1>1, <2>1, PasswordResetTokensAgree
  <2> QED BY <1>9, <2>2 DEF MemAnswersOf, Database!AnswersOf
<1>10. CASE t = "oauthStates"
  <2>1. mem[t] \in Seq(OAuthStateRecord)
    BY <1>10 DEF MapsInv, Tables
  <2>2. Agree(OAuthStatesMemAnswers(mem[t], now),
              Database!OAuthStatesDbAnswers(Range(mem[t]), now))
    BY <1>1, <2>1, OAuthStatesAgree
  <2> QED BY <1>10, <2>2 DEF MemAnswersOf, Database!AnswersOf
<1>11. CASE t = "providerConnections"
  <2>1. mem[t] \in Seq(ProviderConnectionRecord)
    BY <1>11 DEF MapsInv, Tables
  <2>2. Agree(ProviderConnectionsMemAnswers(mem[t], now),
              Database!ProviderConnectionsDbAnswers(Range(mem[t]), now))
    BY <1>1, <2>1, ProviderConnectionsAgree
  <2> QED BY <1>11, <2>2 DEF MemAnswersOf, Database!AnswersOf
<1>12. CASE t = "sessions"
  <2>1. mem[t] \in Seq(SessionRecord) /\ Unique("sessions", mem[t])
    BY <1>12 DEF MapsInv, Tables
  <2>2. Agree(SessionsMemAnswers(mem[t], now),
              Database!SessionsDbAnswers(Range(mem[t]), now))
    BY <1>1, <2>1, SessionsAgree
  <2> QED BY <1>12, <2>2 DEF MemAnswersOf, Database!AnswersOf
<1>13. CASE t = "guests"
  <2>1. mem[t] \in Seq(GuestRecord)
    BY <1>13 DEF MapsInv, Tables
  <2>2. Agree(GuestsMemAnswers(mem[t], now),
              Database!GuestsDbAnswers(Range(mem[t]), now))
    BY <1>1, <2>1, GuestsAgree
  <2> QED BY <1>13, <2>2 DEF MemAnswersOf, Database!AnswersOf
<1>14. CASE t = "guestSlots"
  <2>1. mem[t] \in Seq(GuestSlotRecord)
    BY <1>14 DEF MapsInv, Tables
  <2>2. Agree(GuestSlotsMemAnswers(mem[t], now),
              Database!GuestSlotsDbAnswers(Range(mem[t]), now))
    BY <1>1, <2>1, GuestSlotsAgree
  <2> QED BY <1>14, <2>2 DEF MemAnswersOf, Database!AnswersOf
<1>15. CASE t = "fingerprintPriority"
  <2>1. mem[t] \in Seq(FingerprintPriorityRecord)
    BY <1>15 DEF MapsInv, Tables
  <2>2. Agree(FingerprintPriorityMemAnswers(mem[t], now),
              Database!FingerprintPriorityDbAnswers(Range(mem[t]), now))
    BY <1>1, <2>1, FingerprintPriorityAgree
  <2> QED BY <1>15, <2>2 DEF MemAnswersOf, Database!AnswersOf
<1>16. CASE t = "queueItems"
  <2>1. mem[t] \in Seq(QueueItemRecord)
    BY <1>16 DEF MapsInv, Tables
  <2>2. Agree(QueueItemsMemAnswers(mem[t], now),
              Database!QueueItemsDbAnswers(Range(mem[t]), now))
    BY <1>1, <2>1, QueueItemsAgree
  <2> QED BY <1>16, <2>2 DEF MemAnswersOf, Database!AnswersOf
<1>17. CASE t = "queueSkipVotes"
  <2>1. mem[t] \in Seq(QueueSkipVoteRecord)
    BY <1>17 DEF MapsInv, Tables
  <2>2. Agree(QueueSkipVotesMemAnswers(mem[t], now),
              Database!QueueSkipVotesDbAnswers(Range(mem[t]), now))
    BY <1>1, <2>1, QueueSkipVotesAgree
  <2> QED BY <1>17, <2>2 DEF MemAnswersOf, Database!AnswersOf
<1>18. CASE t = "karaokeClaims"
  <2>1. mem[t] \in Seq(KaraokeClaimRecord)
    BY <1>18 DEF MapsInv, Tables
  <2>2. Agree(KaraokeClaimsMemAnswers(mem[t], now),
              Database!KaraokeClaimsDbAnswers(Range(mem[t]), now))
    BY <1>1, <2>1, KaraokeClaimsAgree
  <2> QED BY <1>18, <2>2 DEF MemAnswersOf, Database!AnswersOf
<1>19. CASE t = "sessionAuditEvents"
  <2>1. mem[t] \in Seq(SessionAuditEventRecord)
    BY <1>19 DEF MapsInv, Tables
  <2>2. Agree(SessionAuditEventsMemAnswers(mem[t], now),
              Database!SessionAuditEventsDbAnswers(Range(mem[t]), now))
    BY <1>1, <2>1, SessionAuditEventsAgree
  <2> QED BY <1>19, <2>2 DEF MemAnswersOf, Database!AnswersOf
<1>20. CASE t = "lyricsCache"
  <2>1. mem[t] \in Seq(LyricsCacheRecord)
    BY <1>20 DEF MapsInv, Tables
  <2>2. Agree(LyricsCacheMemAnswers(mem[t], now),
              Database!LyricsCacheDbAnswers(Range(mem[t]), now))
    BY <1>1, <2>1, LyricsCacheAgree
  <2> QED BY <1>20, <2>2 DEF MemAnswersOf, Database!AnswersOf
<1>21. CASE t = "lyricsFeedback"
  <2>1. mem[t] \in Seq(LyricsFeedbackRecord)
    BY <1>21 DEF MapsInv, Tables
  <2>2. Agree(LyricsFeedbackMemAnswers(mem[t], now),
              Database!LyricsFeedbackDbAnswers(Range(mem[t]), now))
    BY <1>1, <2>1, LyricsFeedbackAgree
  <2> QED BY <1>21, <2>2 DEF MemAnswersOf, Database!AnswersOf
<1>22. CASE t = "abuseSubjects"
  <2>1. mem[t] \in Seq(AbuseSubjectRecord)
    BY <1>22 DEF MapsInv, Tables
  <2>2. Agree(AbuseSubjectsMemAnswers(mem[t], now),
              Database!AbuseSubjectsAnswers(Range(mem[t]), now))
    BY <1>1, <2>1, AbuseSubjectsAgree
  <2> QED BY <1>22, <2>2 DEF MemAnswersOf, Database!AnswersOf
<1>23. CASE t = "actionEvents"
  <2>1. mem[t] \in Seq(ActionEventRecord)
    BY <1>23 DEF MapsInv, Tables
  <2>2. Agree(ActionEventsMemAnswers(mem[t], now),
              Database!ActionEventsDbAnswers(Range(mem[t]), now))
    BY <1>1, <2>1, ActionEventsAgree
  <2> QED BY <1>23, <2>2 DEF MemAnswersOf, Database!AnswersOf
<1> QED BY <1>2, <1>3, <1>4, <1>5, <1>6, <1>7, <1>8, <1>9, <1>10, <1>11, <1>12, <1>13,
    <1>14, <1>15, <1>16, <1>17, <1>18, <1>19, <1>20, <1>21, <1>22, <1>23, TableNames

\* The rows of a list that are in a set, as they stand.
TakenFrom(q, some) == InOrder(q, {i \in DOMAIN q : q[i] \in some}, Earlier(q))

\* A list that follows the time.
InTime(q, time) == \A i, j \in DOMAIN q : i < j => time[q[i]] <= time[q[j]]

\* A list of rows by their time, of which some are taken: a list of those by their time.
LEMMA TakenFromList ==
    ASSUME NEW T, NEW rows \in SUBSET T, IsFiniteSet(rows), NEW time \in [T -> Int],
           NEW q \in Database!SetToSeqs(rows), InTime(q, time), NEW some
    PROVE  /\ TakenFrom(q, some) \in Seq(T)
           /\ TakenFrom(q, some) \in Database!SetToSeqs(rows \cap some)
           /\ InTime(TakenFrom(q, some), time)
<1> DEFINE N == Cardinality(rows)
           places == {i \in DOMAIN q : q[i] \in some}
           x == TakenFrom(q, some)
<1>1. N \in Nat /\ q \in [1..N -> rows] /\ \A i, j \in 1..N : i # j => q[i] # q[j]
  BY FS_CardinalityType, SameCount DEF Database!SetToSeqs
<1> HIDE DEF N
<1>2. q \in Seq(T) /\ Distinct(q) /\ DOMAIN q = 1..N
  <2>1. q \in [1..N -> T]
    BY <1>1
  <2>2. q \in Seq(T)
    BY <1>1, <2>1, SeqDef
  <2> QED BY <1>1, <2>2 DEF Distinct
<1>3. Range(q) = rows
  <2>1. q \in Bijection(1..N, Range(q))
    BY <1>1 DEF Bijection, Injection, Surjection, IsInjective, Range
  <2>2. Cardinality(Range(q)) = N
    BY <1>1, <2>1, FS_CountingElements DEF ExistsBijection
  <2>3. Range(q) \in SUBSET rows
    BY <1>1 DEF Range
  <2> QED BY <2>2, <2>3, FS_Subset DEF N
<1>4. places \in SUBSET DOMAIN q /\ RowsAt(q, places) = rows \cap some
  BY <1>3 DEF RowsAt, Range
<1>5. x = InOrder(q, places, Earlier(q)) /\ Orders(Earlier(q), places)
  BY <1>2, <1>4, EarlierOrders DEF TakenFrom
<1> HIDE DEF places, x
<1>6. /\ x \in Seq(T) /\ x \in SetToSeqs(rows \cap some)
      /\ DOMAIN x = 1..Cardinality(places)
  <2>1. LET y == InOrder(q, places, Earlier(q))
        IN  /\ y \in Seq(T) /\ Len(y) = Cardinality(places) /\ DOMAIN y = 1..Len(y)
            /\ y \in SetToSeqs(RowsAt(q, places))
    BY <1>2, <1>4, FilteredRows
  <2> QED BY <1>4, <1>5, <2>1
<1>7. IsFiniteSet(places)
  <2>1. IsFiniteSet(1..N)
    BY <1>1, FS_Interval
  <2> QED BY <1>2, <1>4, <2>1, FS_Subset
<1>8. PICK h : Arranges(h, x, q, places, Earlier(q))
  BY <1>5, <1>7, InOrderArranges
<1>9. ASSUME NEW i \in DOMAIN x, NEW j \in DOMAIN x, i < j
      PROVE  time[x[i]] <= time[x[j]]
  <2>1. /\ h[i] \in places /\ h[j] \in places /\ x[i] = q[h[i]] /\ x[j] = q[h[j]]
        /\ <<h[i], h[j]>> \in Earlier(q)
    BY <1>6, <1>8, <1>9 DEF Arranges, Bijection, Injection
  <2>2. h[i] < h[j] /\ h[i] \in DOMAIN q /\ h[j] \in DOMAIN q
    BY <1>4, <2>1 DEF Earlier
  <2> QED BY <2>1, <2>2 DEF InTime
<1>10. x \in Database!SetToSeqs(rows \cap some)
  BY <1>6, SameCount DEF SetToSeqs, Database!SetToSeqs
<1> QED BY <1>6, <1>9, <1>10 DEF InTime, x

\* What the database has of the votes and the claims.
LEMMA KinRows ==
    ASSUME MapsInv, NEW t \in {"queueSkipVotes", "karaokeClaims"}
    PROVE  /\ Stored[t] \in SUBSET Range(mem[t])
           /\ \A r \in Range(mem[t]) : r \in Stored[t] <=>
                 \E i \in Range(mem.queueItems) : i.id = r.queueItemId
BY StoredTables, TableNames DEF Kin, Database!Cascade

\* A vote on an item that there is: the Map answers as the table may.
LEMMA VotesAnswered ==
    ASSUME MapsInv
    PROVE  LET allowed == Database!AnswersOf("queueSkipVotes", Stored["queueSkipVotes"], now)
           IN  \A query \in DOMAIN allowed : \A arg \in DOMAIN allowed[query] :
                   OfItems("queueSkipVotes", query, arg,
                           MemAnswersOf("queueSkipVotes")[query][arg])
                      \in allowed[query][arg]
<1> DEFINE t == "queueSkipVotes"
           m == MemAnswersOf(t)
           whole == Database!AnswersOf(t, Range(mem[t]), now)
           d == Database!AnswersOf(t, Stored[t], now)
<1>1. DOMAIN d = {"hasVoted"} /\ DOMAIN whole = {"hasVoted"}
  BY DEF Database!AnswersOf, Database!QueueSkipVotesDbAnswers
<1>2. ASSUME NEW a \in DOMAIN d.hasVoted
      PROVE  OfItems(t, "hasVoted", a, m.hasVoted[a]) \in d.hasVoted[a]
  <2> DEFINE of(S) == \E r \in S : r.queueItemId = a[1] /\ r.guestId = a[2]
             there == \E i \in Range(mem.queueItems) : i.id = a[1]
  <2>1. a \in DOMAIN whole.hasVoted /\ d.hasVoted[a] = {of(Stored[t])}
        /\ whole.hasVoted[a] = {of(Range(mem[t]))}
    BY DEF Database!AnswersOf, Database!QueueSkipVotesDbAnswers
  <2>2. m.hasVoted[a] = of(Range(mem[t]))
    <3>1. m.hasVoted[a] \in whole.hasVoted[a]
      BY <1>1, <2>1, TableAgrees, TableNames DEF Agree
    <3> HIDE DEF m, whole, of
    <3> QED BY <2>1, <3>1
  <2>3. OfItems(t, "hasVoted", a, m.hasVoted[a]) = (m.hasVoted[a] /\ there)
    BY DEF OfItems
  <2>4. of(Stored[t]) = (of(Range(mem[t])) /\ there)
    BY KinRows
  <2> HIDE DEF m, d, of, there
  <2> QED BY <2>1, <2>2, <2>3, <2>4
<1> HIDE DEF m, d
<1> QED BY <1>1, <1>2 DEF m, d

\* The claims on the items that there are: the Map answers as the table may.
LEMMA ClaimsAnswered ==
    ASSUME MapsInv
    PROVE  LET allowed == Database!AnswersOf("karaokeClaims", Stored["karaokeClaims"], now)
           IN  \A query \in DOMAIN allowed : \A arg \in DOMAIN allowed[query] :
                   OfItems("karaokeClaims", query, arg,
                           MemAnswersOf("karaokeClaims")[query][arg])
                      \in allowed[query][arg]
<1> DEFINE t == "karaokeClaims"
           seq == mem[t]
           m == MemAnswersOf(t)
           whole == Database!AnswersOf(t, Range(seq), now)
           d == Database!AnswersOf(t, Stored[t], now)
           time == [r \in KaraokeClaimRecord |-> r.createdAt]
           Listed(S) == {x \in Database!SetToSeqs(S) : \A i, j \in DOMAIN x :
                            i < j => x[i].createdAt <= x[j].createdAt}
<1>1. /\ DOMAIN d = {"findAllForItem", "findAllForSession", "findByItemAndGuest"}
      /\ DOMAIN whole = DOMAIN d
  BY DEF Database!AnswersOf, Database!KaraokeClaimsDbAnswers
<1>2. seq \in Seq(KaraokeClaimRecord) /\ Range(seq) \in SUBSET KaraokeClaimRecord
      /\ IsFiniteSet(Range(seq))
  <2>1. seq \in Seq(KaraokeClaimRecord)
    BY TableNames, QueueRows DEF MapsInv
  <2> QED BY <2>1, FiniteRange DEF Range
<1>3. time \in [KaraokeClaimRecord -> Int]
  BY StoreAssumption DEF KaraokeClaimRecord, Times
<1>4. ASSUME NEW rows \in SUBSET Range(seq), NEW q \in Listed(rows)
      PROVE  TakenFrom(q, Stored[t]) \in Listed(rows \cap Stored[t])
  <2>1. IsFiniteSet(rows) /\ rows \in SUBSET KaraokeClaimRecord
    BY <1>2, FS_Subset
  <2>2. \A i \in DOMAIN q : q[i] \in KaraokeClaimRecord /\ time[q[i]] = q[i].createdAt
    BY <2>1 DEF Database!SetToSeqs
  <2>3. InTime(q, time) /\ q \in Database!SetToSeqs(rows)
    BY <2>2 DEF InTime
  <2> DEFINE x == TakenFrom(q, Stored[t])
  <2>4. /\ x \in Seq(KaraokeClaimRecord)
        /\ x \in Database!SetToSeqs(rows \cap Stored[t])
        /\ InTime(x, time)
    <3> HIDE DEF time
    <3> QED BY <1>3, <2>1, <2>3, TakenFromList
  <2> HIDE DEF x
  <2>5. \A i \in DOMAIN x : x[i] \in KaraokeClaimRecord /\ time[x[i]] = x[i].createdAt
    BY <2>4
  <2>6. \A i, j \in DOMAIN x : i < j => x[i].createdAt <= x[j].createdAt
    <3> HIDE DEF time
    <3> QED BY <2>4, <2>5 DEF InTime
  <2> QED BY <2>4, <2>6 DEF x
<1>5. ASSUME NEW a \in DOMAIN d.findAllForItem
      PROVE  OfItems(t, "findAllForItem", a, m.findAllForItem[a]) \in d.findAllForItem[a]
  <2> DEFINE rows == {r \in Range(seq) : r.queueItemId = a}
             q == m.findAllForItem[a]
  <2>1. /\ a \in DOMAIN whole.findAllForItem
        /\ whole.findAllForItem[a] = Listed(rows)
        /\ d.findAllForItem[a] = Listed({r \in Stored[t] : r.queueItemId = a})
    BY DEF Database!AnswersOf, Database!KaraokeClaimsDbAnswers, Database!Ascending
  <2>2. q \in Listed(rows)
    <3>1. q \in whole.findAllForItem[a]
      BY <1>1, <2>1, TableAgrees, TableNames DEF Agree
    <3> HIDE DEF m, whole, q
    <3> QED BY <2>1, <3>1
  <2>3. rows \cap Stored[t] = {r \in Stored[t] : r.queueItemId = a}
    BY KinRows
  <2>4. OfItems(t, "findAllForItem", a, q) = TakenFrom(q, Stored[t])
    BY DEF OfItems, Filter, Matches, TakenFrom
  <2> HIDE DEF m, d, q, Listed
  <2> QED BY <1>4, <2>1, <2>2, <2>3, <2>4 DEF q
<1>6. ASSUME NEW a \in DOMAIN d.findAllForSession
      PROVE  OfItems(t, "findAllForSession", a, m.findAllForSession[a])
                \in d.findAllForSession[a]
  <2> DEFINE rows == {r \in Range(seq) : r.sessionId = a}
             q == m.findAllForSession[a]
  <2>1. /\ a \in DOMAIN whole.findAllForSession
        /\ whole.findAllForSession[a] = Listed(rows)
        /\ d.findAllForSession[a] = Listed({r \in Stored[t] : r.sessionId = a})
    BY DEF Database!AnswersOf, Database!KaraokeClaimsDbAnswers, Database!Ascending
  <2>2. q \in Listed(rows)
    <3>1. q \in whole.findAllForSession[a]
      BY <1>1, <2>1, TableAgrees, TableNames DEF Agree
    <3> HIDE DEF m, whole, q
    <3> QED BY <2>1, <3>1
  <2>3. rows \cap Stored[t] = {r \in Stored[t] : r.sessionId = a}
    BY KinRows
  <2>4. OfItems(t, "findAllForSession", a, q) = TakenFrom(q, Stored[t])
    BY DEF OfItems, Filter, Matches, TakenFrom
  <2> HIDE DEF m, d, q, Listed
  <2> QED BY <1>4, <2>1, <2>2, <2>3, <2>4 DEF q
<1>7. ASSUME NEW a \in DOMAIN d.findByItemAndGuest
      PROVE  OfItems(t, "findByItemAndGuest", a, m.findByItemAndGuest[a])
                \in d.findByItemAndGuest[a]
  <2> DEFINE of(S) == {r \in S : r.queueItemId = a[1] /\ r.guestId = a[2]}
             r == m.findByItemAndGuest[a]
  <2>1. /\ a \in DOMAIN whole.findByItemAndGuest
        /\ whole.findByItemAndGuest[a] = Database!One(of(Range(seq)))
        /\ d.findByItemAndGuest[a] = Database!One(of(Stored[t]))
    BY DEF Database!AnswersOf, Database!KaraokeClaimsDbAnswers
  <2>2. r \in Database!One(of(Range(seq)))
    <3>1. r \in whole.findByItemAndGuest[a]
      BY <1>1, <2>1, TableAgrees, TableNames DEF Agree
    <3> HIDE DEF m, whole, r, of
    <3> QED BY <2>1, <3>1
  <2>3. OfItems(t, "findByItemAndGuest", a, r) = IF r \in Stored[t] THEN r ELSE None
    BY DEF OfItems
  <2>4. None \notin Stored[t]
    <3>1. None \notin KaraokeClaimRecord
      BY RowAssumption DEF Tables
    <3> QED BY <1>2, <3>1, KinRows
  <2>5. /\ r \in Stored[t] => r \in of(Stored[t])
        /\ r \notin Stored[t] => of(Stored[t]) = {}
    <3> HIDE DEF m, d, r
    <3> QED BY <2>2, <2>4, KinRows DEF Database!One
  <2> HIDE DEF m, d, r, of
  <2> QED BY <2>1, <2>3, <2>5 DEF r, Database!One
<1> HIDE DEF m, d
<1> QED BY <1>1, <1>5, <1>6, <1>7 DEF m, d

\* In every state a Map answers, of the items that there are, with what the database
\* may answer.
THEOREM MapsAnswerAsTheDatabase == Spec => []AnswersAgree
<1>1. Init => MapsInv
  BY InitImplements
<1>2. MapsInv /\ [Next]_vars => MapsInv'
  BY StepImplements
<1>3. MapsInv => AnswersAgree
  <2> SUFFICES ASSUME MapsInv PROVE AnswersAgree
    OBVIOUS
  <2>1. \A t \in focus : t \in DOMAIN Tables
    <3>1. focus \in {QueueTables} \cup {{u} : u \in DOMAIN Tables \ QueueTables}
      BY DEF MapsInv
    <3> QED BY <3>1, TableNames DEF QueueTables
  <2> SUFFICES ASSUME NEW t \in focus
               PROVE  LET allowed == Database!AnswersOf(t, Stored[t], now)
                      IN  \A query \in DOMAIN allowed :
                          \A arg \in DOMAIN allowed[query] :
                              OfItems(t, query, arg, MemAnswersOf(t)[query][arg])
                                 \in allowed[query][arg]
    BY DEF AnswersAgree
  <2>2. CASE t \notin {"queueSkipVotes", "karaokeClaims"}
    <3>1. Stored[t] = Range(mem[t])
      BY <2>1, <2>2, StoredTables
    <3>2. Agree(MemAnswersOf(t), Database!AnswersOf(t, Stored[t], now))
      BY <2>1, <3>1, TableAgrees
    <3>3. \A query, arg, answer : OfItems(t, query, arg, answer) = answer
      BY <2>2 DEF OfItems
    <3> QED BY <3>2, <3>3 DEF Agree
  <2>3. CASE t = "queueSkipVotes"
    BY <2>3, VotesAnswered
  <2>4. CASE t = "karaokeClaims"
    BY <2>4, ClaimsAnswered
  <2> QED BY <2>2, <2>3, <2>4
<1> QED BY <1>1, <1>2, <1>3, PTL DEF Spec
=============================================================================
