-------------------------- MODULE AdmissionProofs --------------------------
(***************************************************************************)
(* Proofs about what stands between a connection and a session of the hub: *)
(* Guard, for any number of addresses, any limits, periods and sweeps, and *)
(* Roster, for any number of processes, servers, names and operations.     *)
(* The two have no state in common.                                        *)
(***************************************************************************)
EXTENDS Guard, Roster, WellFoundedInduction, TLAPS

-----------------------------------------------------------------------------
(* Induction over the natural numbers, with sets for predicates.           *)

\* A set of natural numbers that is not empty has a least element.
LEMMA LeastNumber ==
    ASSUME NEW S \in SUBSET Nat, S # {}
    PROVE  \E m \in S : \A k \in S : m <= k
<1> DEFINE less == OpToRel(<, Nat)
<1>1. IsWellFoundedOn(less, Nat)
    BY NatLessThanWellFounded, Zenon
<1>2. \A x, y \in Nat : x < y => <<x, y>> \in less
    BY DEF OpToRel
<1> HIDE DEF less
<1>3. \E m \in S : \A y \in S : <<y, m>> \notin less
    BY <1>1, WFMin
<1>4. PICK m \in S : \A y \in S : <<y, m>> \notin less
    BY <1>3
<1>5. ASSUME NEW k \in S PROVE m <= k
  <2>1. m \in Nat /\ k \in Nat
      OBVIOUS
  <2>2. ~(k < m)
      BY <1>2, <1>4, <2>1, Zenon
  <2>3. QED
      BY <2>1, <2>2
<1>6. QED
    BY <1>5

\* A set that has zero, and the successor of whatever it has, has them all.
LEMMA SetInduction ==
    ASSUME NEW S \in SUBSET Nat, 0 \in S, \A n \in S : n + 1 \in S
    PROVE  S = Nat
<1>1. ASSUME NEW x \in Nat, x \notin S PROVE FALSE
  <2>1. PICK m \in Nat \ S : \A k \in Nat \ S : m <= k
      BY <1>1, LeastNumber, Nat \ S \in SUBSET Nat, Nat \ S # {}
  <2>2. m # 0 /\ m - 1 \in Nat /\ m - 1 \in S
      BY <2>1
  <2>3. QED
      BY <2>1, <2>2
<1>2. QED
    BY <1>1

-----------------------------------------------------------------------------
(* Lists of times.                                                         *)
Sorted(s) == \A i, j \in 1 .. Len(s) : i <= j => s[i] <= s[j]

\* What is left when the first k times are dropped.
LEMMA Suffix ==
    ASSUME NEW T, NEW s \in Seq(T), NEW k \in 0 .. Len(s)
    PROVE  /\ SubSeq(s, k + 1, Len(s)) \in Seq(T)
           /\ Len(SubSeq(s, k + 1, Len(s))) = Len(s) - k
           /\ \A i \in 1 .. Len(s) - k : SubSeq(s, k + 1, Len(s))[i] = s[i + k]
OBVIOUS

\* Two lists of the same times are one list.
LEMMA SameList ==
    ASSUME NEW T, NEW s \in Seq(T), NEW t \in Seq(T), Len(s) = Len(t),
           \A i \in 1 .. Len(s) : s[i] = t[i]
    PROVE  s = t
OBVIOUS

\* Fresh drops the k times it is said to drop.
LEMMA FreshIs ==
    ASSUME NEW s \in Seq(Nat), NEW span \in Nat, NEW at \in Nat, NEW k \in 0 .. Len(s),
           \A i \in 1 .. k : s[i] + span <= at,
           k < Len(s) => s[k + 1] + span > at
    PROVE  Fresh(s, span, at) = SubSeq(s, k + 1, Len(s))
<1> DEFINE Keeps(x) == /\ \A i \in 1 .. x : s[i] + span <= at
                       /\ x < Len(s) => s[x + 1] + span > at
           keep == CHOOSE x \in 0 .. Len(s) : Keeps(x)
<1>1. keep \in 0 .. Len(s) /\ Keeps(keep)
  <2> HIDE DEF Keeps
  <2>1. Keeps(k)
      BY DEF Keeps
  <2>2. QED
      BY <2>1
<1>2. s \in [1 .. Len(s) -> Nat] /\ Len(s) \in Nat
    OBVIOUS
<1>3. keep = k
  <2>1. CASE keep < k
    <3>1. keep + 1 \in 1 .. k /\ keep < Len(s) /\ keep + 1 \in 1 .. Len(s)
        BY <1>1, <1>2, <2>1
    <3>2. s[keep + 1] + span <= at
        BY <3>1
    <3>3. s[keep + 1] + span > at
        BY <1>1, <3>1
    <3>4. s[keep + 1] \in Nat
        BY <1>2, <3>1
    <3>5. QED
        BY <3>2, <3>3, <3>4
  <2>2. CASE k < keep
    <3>1. k + 1 \in 1 .. keep /\ k < Len(s) /\ k + 1 \in 1 .. Len(s)
        BY <1>1, <1>2, <2>2
    <3>2. s[k + 1] + span <= at
        BY <1>1, <3>1
    <3>3. s[k + 1] + span > at
        BY <3>1
    <3>4. s[k + 1] \in Nat
        BY <1>2, <3>1
    <3>5. QED
        BY <3>2, <3>3, <3>4
  <2>3. QED
      BY <1>1, <2>1, <2>2
<1>4. QED
    BY <1>3 DEF Fresh

\* A sorted list falls into what is dropped and what stays.
LEMMA FreshParts ==
    ASSUME NEW s \in Seq(Nat), NEW span \in Nat, NEW at \in Nat, Sorted(s)
    PROVE  \E k \in 0 .. Len(s) :
              /\ Fresh(s, span, at) = SubSeq(s, k + 1, Len(s))
              /\ \A i \in 1 .. k : s[i] + span <= at
              /\ \A i \in k + 1 .. Len(s) : s[i] + span > at
<1> DEFINE young == {i \in 1 .. Len(s) : s[i] + span > at}
<1>1. Len(s) \in Nat /\ s \in [1 .. Len(s) -> Nat]
    OBVIOUS
<1>2. CASE young = {}
  <2>1. ASSUME NEW i \in 1 .. Len(s) PROVE s[i] + span <= at
    <3>1. s[i] \in Nat /\ ~(s[i] + span > at)
        BY <1>1, <1>2
    <3>2. QED
        BY <3>1
  <2>2. Fresh(s, span, at) = SubSeq(s, Len(s) + 1, Len(s))
    <3>1. Len(s) \in 0 .. Len(s) /\ ~(Len(s) < Len(s))
        BY <1>1
    <3>2. QED
        BY <2>1, <3>1, FreshIs
  <2>3. Len(s) \in 0 .. Len(s) /\ \A i \in Len(s) + 1 .. Len(s) : s[i] + span > at
      BY <1>1
  <2>4. QED
      BY <2>1, <2>2, <2>3
<1>3. CASE young # {}
  <2>1. young \in SUBSET Nat
      BY <1>1
  <2>2. PICK m \in young : \A i \in young : m <= i
      BY <1>3, <2>1, LeastNumber
  <2>3. m - 1 \in 0 .. Len(s) /\ s[m] + span > at /\ m - 1 + 1 = m
      BY <1>1, <2>2
  <2>4. ASSUME NEW i \in 1 .. m - 1 PROVE s[i] + span <= at
    <3>1. i \in 1 .. Len(s) /\ ~(m <= i)
        BY <1>1, <2>2
    <3>2. s[i] \in Nat /\ ~(s[i] + span > at)
        BY <1>1, <2>2, <3>1
    <3>3. QED
        BY <3>2
  <2>5. \A i \in m .. Len(s) : s[i] + span > at
      BY <1>1, <2>2, <2>3 DEF Sorted
  <2>6. Fresh(s, span, at) = SubSeq(s, m, Len(s))
      BY <1>1, <2>3, <2>4, FreshIs
  <2>7. QED
      BY <2>3, <2>4, <2>5, <2>6
<1>4. QED
    BY <1>2, <1>3

\* What stays is a sorted list of recent times.
LEMMA FreshType ==
    ASSUME NEW T \in SUBSET Nat, NEW s \in Seq(T), NEW span \in Nat, NEW at \in Nat, Sorted(s)
    PROVE  /\ Fresh(s, span, at) \in Seq(T)
           /\ Len(Fresh(s, span, at)) <= Len(s)
           /\ Sorted(Fresh(s, span, at))
           /\ \A i \in 1 .. Len(Fresh(s, span, at)) : Fresh(s, span, at)[i] + span > at
           /\ \A i \in 1 .. Len(Fresh(s, span, at)) : \E j \in 1 .. Len(s) : Fresh(s, span, at)[i] = s[j]
<1>1. s \in Seq(Nat) /\ Len(s) \in Nat
  <2>1. Len(s) \in Nat /\ s \in [1 .. Len(s) -> T]
      OBVIOUS
  <2>2. s \in [1 .. Len(s) -> Nat]
      BY <2>1
  <2>3. QED
      BY <2>1, <2>2
<1>2. PICK k \in 0 .. Len(s) :
              /\ Fresh(s, span, at) = SubSeq(s, k + 1, Len(s))
              /\ \A i \in 1 .. k : s[i] + span <= at
              /\ \A i \in k + 1 .. Len(s) : s[i] + span > at
    BY <1>1, FreshParts
<1> DEFINE t == Fresh(s, span, at)
<1>3. t \in Seq(T) /\ Len(t) = Len(s) - k /\ \A i \in 1 .. Len(s) - k : t[i] = s[i + k]
    BY <1>2, Suffix
<1> HIDE DEF t
<1>4. \A i \in 1 .. Len(t) : i + k \in k + 1 .. Len(s) /\ i + k \in 1 .. Len(s)
    BY <1>1, <1>3
<1>5. Sorted(t)
  <2>1. SUFFICES ASSUME NEW i \in 1 .. Len(t), NEW j \in 1 .. Len(t), i <= j
                 PROVE  t[i] <= t[j]
      BY DEF Sorted
  <2>2. t[i] = s[i + k] /\ t[j] = s[j + k]
      BY <1>3
  <2>3. i + k \in 1 .. Len(s) /\ j + k \in 1 .. Len(s) /\ i + k <= j + k
      BY <1>1, <1>4, <2>1
  <2>4. s[i + k] <= s[j + k]
      BY <2>3 DEF Sorted
  <2>5. QED
      BY <2>2, <2>4
<1>6. QED
    BY <1>1, <1>2, <1>3, <1>4, <1>5 DEF t

\* Dropping twice is dropping once, at the later instant.
LEMMA FreshFresh ==
    ASSUME NEW s \in Seq(Nat), NEW span \in Nat, NEW at \in Nat, NEW then \in Nat,
           at <= then, Sorted(s)
    PROVE  Fresh(Fresh(s, span, at), span, then) = Fresh(s, span, then)
<1>1. Len(s) \in Nat /\ s \in [1 .. Len(s) -> Nat]
    OBVIOUS
<1>2. PICK k \in 0 .. Len(s) :
              /\ Fresh(s, span, at) = SubSeq(s, k + 1, Len(s))
              /\ \A i \in 1 .. k : s[i] + span <= at
              /\ \A i \in k + 1 .. Len(s) : s[i] + span > at
    BY FreshParts
<1> DEFINE t == Fresh(s, span, at)
<1>3. t \in Seq(Nat) /\ Len(t) = Len(s) - k /\ \A i \in 1 .. Len(s) - k : t[i] = s[i + k]
    BY <1>2, Suffix
<1>4. Sorted(t)
    BY FreshType, Nat \in SUBSET Nat
<1> HIDE DEF t
<1>5. PICK m \in 0 .. Len(t) :
              /\ Fresh(t, span, then) = SubSeq(t, m + 1, Len(t))
              /\ \A i \in 1 .. m : t[i] + span <= then
              /\ \A i \in m + 1 .. Len(t) : t[i] + span > then
    BY <1>3, <1>4, FreshParts
<1>6. k + m \in 0 .. Len(s) /\ \A i \in k + 1 .. k + m : i - k \in 1 .. m /\ s[i] = t[i - k]
    BY <1>1, <1>3
<1>7. \A i \in 1 .. k + m : s[i] + span <= then
  <2>1. \A i \in 1 .. k : s[i] + span <= then
      BY <1>1, <1>2
  <2>2. \A i \in k + 1 .. k + m : s[i] + span <= then
      BY <1>5, <1>6
  <2>3. QED
      BY <1>1, <1>3, <2>1, <2>2
<1>8. k + m < Len(s) => s[k + m + 1] + span > then
  <2>1. SUFFICES ASSUME k + m < Len(s) PROVE s[k + m + 1] + span > then
      OBVIOUS
  <2>2. m + 1 \in m + 1 .. Len(t) /\ t[m + 1] = s[m + 1 + k] /\ m + 1 + k = k + m + 1
      BY <1>1, <1>3, <2>1
  <2>3. QED
      BY <1>5, <2>2
<1>9. Fresh(s, span, then) = SubSeq(s, k + m + 1, Len(s))
    BY <1>6, <1>7, <1>8, FreshIs
<1>10. SubSeq(t, m + 1, Len(t)) = SubSeq(s, k + m + 1, Len(s))
  <2> DEFINE u == SubSeq(t, m + 1, Len(t))
             v == SubSeq(s, k + m + 1, Len(s))
  <2>1. u \in Seq(Nat) /\ Len(u) = Len(t) - m /\ \A i \in 1 .. Len(t) - m : u[i] = t[i + m]
      BY <1>3, Suffix
  <2>2. v \in Seq(Nat) /\ Len(v) = Len(s) - (k + m)
          /\ \A i \in 1 .. Len(s) - (k + m) : v[i] = s[i + (k + m)]
      BY <1>6, Suffix
  <2> HIDE DEF u, v
  <2>3. Len(u) = Len(v) /\ \A i \in 1 .. Len(u) : u[i] = v[i]
      BY <1>1, <1>3, <2>1, <2>2
  <2>4. u = v
      BY <2>1, <2>2, <2>3, SameList
  <2>5. QED
      BY <2>4 DEF u, v
<1>11. QED
    BY <1>5, <1>9, <1>10 DEF t

\* A new event is kept, behind what is fresh.
LEMMA FreshAppend ==
    ASSUME NEW s \in Seq(Nat), NEW span \in Nat \ {0}, NEW at \in Nat, Sorted(s),
           \A i \in 1 .. Len(s) : s[i] <= at
    PROVE  /\ Sorted(Append(s, at))
           /\ Fresh(Append(s, at), span, at) = Append(Fresh(s, span, at), at)
<1> DEFINE w == Append(s, at)
<1>1. Len(s) \in Nat /\ s \in [1 .. Len(s) -> Nat]
    OBVIOUS
<1>2. /\ w \in Seq(Nat) /\ Len(w) = Len(s) + 1
      /\ \A i \in 1 .. Len(s) : w[i] = s[i]
      /\ w[Len(s) + 1] = at
    OBVIOUS
<1> HIDE DEF w
<1>3. Sorted(w)
  <2>1. SUFFICES ASSUME NEW i \in 1 .. Len(w), NEW j \in 1 .. Len(w), i <= j
                 PROVE  w[i] <= w[j]
      BY DEF Sorted
  <2>2. CASE j \in 1 .. Len(s)
    <3>1. i \in 1 .. Len(s)
        BY <1>1, <1>2, <2>1, <2>2
    <3>2. s[i] <= s[j]
        BY <2>1, <2>2, <3>1 DEF Sorted
    <3>3. w[i] = s[i] /\ w[j] = s[j]
        BY <1>2, <2>2, <3>1
    <3>4. QED
        BY <3>2, <3>3
  <2>3. CASE j = Len(s) + 1
    <3>1. w[j] = at
        BY <1>2, <2>3
    <3>2. CASE i = Len(s) + 1
        BY <1>2, <3>1, <3>2
    <3>3. CASE i \in 1 .. Len(s)
        BY <1>1, <1>2, <3>1, <3>3
    <3>4. QED
        BY <1>1, <1>2, <3>2, <3>3
  <2>4. QED
      BY <1>1, <1>2, <2>2, <2>3
<1>4. PICK k \in 0 .. Len(s) :
              /\ Fresh(s, span, at) = SubSeq(s, k + 1, Len(s))
              /\ \A i \in 1 .. k : s[i] + span <= at
              /\ \A i \in k + 1 .. Len(s) : s[i] + span > at
    BY FreshParts
<1>5. Fresh(w, span, at) = SubSeq(w, k + 1, Len(w))
  <2>1. k \in 0 .. Len(w) /\ \A i \in 1 .. k : w[i] + span <= at
      BY <1>1, <1>2, <1>4
  <2>2. w[k + 1] + span > at
    <3>1. CASE ~(k < Len(s))
      <4>1. k <= Len(s) /\ k \in Int /\ Len(s) \in Int
          BY <1>1, <1>4
      <4>2. k = Len(s)
          BY <3>1, <4>1, SMT
      <4>3. w[k + 1] = at
          BY <1>2, <4>2
      <4>4. QED
          BY <4>3
    <3>2. CASE k < Len(s)
      <4>1. k + 1 \in 1 .. Len(s) /\ k + 1 \in k + 1 .. Len(s)
          BY <1>1, <3>2
      <4>2. w[k + 1] = s[k + 1] /\ s[k + 1] + span > at
          BY <1>2, <1>4, <4>1
      <4>3. QED
          BY <4>2
    <3>3. QED
        BY <3>1, <3>2
  <2>3. QED
      BY <1>2, <2>1, <2>2, FreshIs
<1>6. SubSeq(w, k + 1, Len(w)) = Append(SubSeq(s, k + 1, Len(s)), at)
  <2> DEFINE u == SubSeq(w, k + 1, Len(w))
             t == SubSeq(s, k + 1, Len(s))
             v == Append(t, at)
  <2>1. u \in Seq(Nat) /\ Len(u) = Len(w) - k /\ \A i \in 1 .. Len(w) - k : u[i] = w[i + k]
    <3>1. k \in 0 .. Len(w)
        BY <1>1, <1>2, <1>4
    <3>2. QED
        BY <1>2, <3>1, Suffix
  <2>2. t \in Seq(Nat) /\ Len(t) = Len(s) - k /\ \A i \in 1 .. Len(s) - k : t[i] = s[i + k]
      BY Suffix
  <2> HIDE DEF u, t
  <2>3. /\ v \in Seq(Nat) /\ Len(v) = Len(t) + 1
        /\ \A i \in 1 .. Len(t) : v[i] = t[i]
        /\ v[Len(t) + 1] = at
      BY <2>2
  <2> HIDE DEF v
  <2>4. Len(u) = Len(v)
      BY <1>1, <1>2, <2>1, <2>2, <2>3
  <2>5. ASSUME NEW i \in 1 .. Len(u) PROVE u[i] = v[i]
    <3>1. CASE i = Len(t) + 1
      <4>1. i \in 1 .. Len(w) - k /\ i + k = Len(s) + 1
          BY <1>1, <1>2, <2>1, <2>2, <3>1
      <4>2. u[i] = w[Len(s) + 1] /\ v[i] = at
          BY <2>1, <2>3, <3>1, <4>1
      <4>3. QED
          BY <1>2, <4>2
    <3>2. CASE i # Len(t) + 1
      <4>1. i \in 1 .. Len(t) /\ i + k \in 1 .. Len(s)
          BY <1>1, <1>2, <2>1, <2>2, <3>2
      <4>2. QED
          BY <1>1, <1>2, <2>1, <2>2, <2>3, <4>1
    <3>3. QED
        BY <3>1, <3>2
  <2>6. u = v
      BY <2>1, <2>3, <2>4, <2>5, SameList
  <2>7. QED
      BY <2>6 DEF u, t, v
<1>7. QED
    BY <1>3, <1>4, <1>5, <1>6 DEF w
-----------------------------------------------------------------------------
(* The lengths of bans.                                                    *)
Doubling(v) == IF v < MaxBan THEN 2 * v ELSE v

\* The durations the loop of RecordAuthFailure goes through, up to n offences.
Durations(g, n) ==
    /\ g \in [0 .. n -> Nat]
    /\ \A i \in 0 .. n : g[i] = IF i <= 1 THEN BanDuration ELSE Doubling(g[i - 1])

\* A doubling can be tabulated up to any number of offences.
LEMMA DurationsExist == \A n \in Nat : \E g : Durations(g, n)
<1> DEFINE S == {n \in Nat : \E g : Durations(g, n)}
<1>1. 0 \in S
  <2> DEFINE g == [i \in 0 .. 0 |-> BanDuration]
  <2>1. Durations(g, 0)
      BY GuardAssumption DEF Durations
  <2>2. QED
      BY <2>1
<1>2. ASSUME NEW n \in S PROVE n + 1 \in S
  <2>1. PICK g : Durations(g, n)
      OBVIOUS
  <2> DEFINE next == IF n + 1 <= 1 THEN BanDuration ELSE Doubling(g[n])
             h == [i \in 0 .. n + 1 |-> IF i = n + 1 THEN next ELSE g[i]]
  <2>2. n \in Nat /\ n \in 0 .. n /\ g \in [0 .. n -> Nat] /\ g[n] \in Nat
      BY <2>1 DEF Durations
  <2>3. next \in Nat
      BY <2>2, GuardAssumption DEF Doubling
  <2> HIDE DEF next
  <2>4. h \in [0 .. n + 1 -> Nat]
      BY <2>2, <2>3
  <2>5. \A i \in 0 .. n : h[i] = g[i] /\ i \in 0 .. n + 1
      BY <2>2
  <2>6. h[n + 1] = next
      BY <2>2
  <2> HIDE DEF h
  <2>7. ASSUME NEW i \in 0 .. n + 1
        PROVE  h[i] = IF i <= 1 THEN BanDuration ELSE Doubling(h[i - 1])
    <3>1. CASE i = n + 1
      <4>1. h[i - 1] = g[n]
          BY <2>2, <2>5, <3>1
      <4>2. QED
          BY <2>6, <3>1, <4>1 DEF next
    <3>2. CASE i \in 0 .. n
      <4>1. h[i] = g[i] /\ (~(i <= 1) => h[i - 1] = g[i - 1])
          BY <2>2, <2>5, <3>2
      <4>2. QED
          BY <2>1, <3>2, <4>1 DEF Durations
    <3>3. QED
        BY <2>2, <3>1, <3>2
  <2>8. Durations(h, n + 1)
      BY <2>4, <2>7 DEF Durations
  <2>9. QED
      BY <2>2, <2>8
<1>3. S = Nat
  <2> HIDE DEF S
  <2>1. S \in SUBSET Nat
      BY DEF S
  <2>2. QED
      BY <1>1, <1>2, <2>1, SetInduction
<1>4. QED
    BY <1>3

\* Two tables of the doubling agree where both are defined.
LEMMA DurationsAgree ==
    ASSUME NEW n \in Nat, NEW m \in Nat, n <= m, NEW g, NEW h, Durations(g, n), Durations(h, m)
    PROVE  g[n] = h[n]
<1> DEFINE S == {i \in Nat : i <= n => g[i] = h[i]}
<1>1. 0 \in S
    BY DEF Durations
<1>2. ASSUME NEW i \in S PROVE i + 1 \in S
  <2>1. SUFFICES ASSUME i + 1 <= n PROVE g[i + 1] = h[i + 1]
      OBVIOUS
  <2>2. g[i] = h[i] /\ i + 1 \in 0 .. n /\ i + 1 \in 0 .. m /\ i + 1 - 1 = i
      BY <2>1
  <2>3. QED
      BY <2>2 DEF Durations
<1>3. S = Nat
  <2> HIDE DEF S
  <2>1. S \in SUBSET Nat
      BY DEF S
  <2>2. QED
      BY <1>1, <1>2, <2>1, SetInduction
<1>4. n \in S
    BY <1>3
<1>5. QED
    BY <1>4

\* The recursive definition says what it is meant to say.
LEMMA DoubledIs ==
    /\ Doubled \in [Nat -> Nat \ {0}]
    /\ \A n \in Nat : Doubled[n] = IF n <= 1 THEN BanDuration ELSE Doubling(Doubled[n - 1])
<1> DEFINE first(n) == CHOOSE g : Durations(g, n)
           f == [n \in Nat |-> first(n)[n]]
<1>1. ASSUME NEW n \in Nat PROVE Durations(first(n), n)
    BY DurationsExist
<1> HIDE DEF first
<1>2. ASSUME NEW n \in Nat PROVE f[n] \in Nat
    BY <1>1 DEF Durations
<1>3. ASSUME NEW n \in Nat
      PROVE  f[n] = IF n <= 1 THEN BanDuration ELSE Doubling(f[n - 1])
  <2>1. first(n)[n] = IF n <= 1 THEN BanDuration ELSE Doubling(first(n)[n - 1])
      BY <1>1 DEF Durations
  <2>2. CASE n <= 1
      BY <2>1, <2>2
  <2>3. CASE ~(n <= 1)
    <3>1. n - 1 \in Nat /\ n - 1 <= n
        BY <2>3
    <3>2. first(n - 1)[n - 1] = first(n)[n - 1]
        BY <1>1, <3>1, DurationsAgree
    <3>3. QED
        BY <2>1, <2>3, <3>1, <3>2
  <2>4. QED
      BY <2>2, <2>3
<1>4. f = [n \in Nat |-> IF n <= 1 THEN BanDuration
                         ELSE IF f[n - 1] < MaxBan THEN 2 * f[n - 1] ELSE f[n - 1]]
    BY <1>3 DEF Doubling
<1> HIDE DEF f
<1>5. Doubled = [n \in Nat |-> IF n <= 1 THEN BanDuration
                         ELSE IF Doubled[n - 1] < MaxBan THEN 2 * Doubled[n - 1] ELSE Doubled[n - 1]]
    BY <1>4, Zenon DEF Doubled
<1>6. \A n \in Nat : Doubled[n] = IF n <= 1 THEN BanDuration ELSE Doubling(Doubled[n - 1])
    BY <1>5 DEF Doubling
<1> DEFINE S == {n \in Nat : Doubled[n] \in Nat \ {0}}
<1>7. 0 \in S
    BY <1>6, GuardAssumption
<1>8. ASSUME NEW n \in S PROVE n + 1 \in S
  <2>1. n + 1 \in Nat /\ n + 1 - 1 = n /\ Doubled[n] \in Nat \ {0}
      OBVIOUS
  <2>2. Doubled[n + 1] \in Nat \ {0}
      BY <1>6, <2>1, GuardAssumption DEF Doubling
  <2>3. QED
      BY <2>1, <2>2
<1>9. S = Nat
  <2> HIDE DEF S
  <2>1. S \in SUBSET Nat
      BY DEF S
  <2>2. QED
      BY <1>7, <1>8, <2>1, SetInduction
<1>10. Doubled \in [Nat -> Nat \ {0}]
    BY <1>5, <1>9
<1>11. QED
    BY <1>6, <1>10

\* One more offence doubles the ban, up to the longest one.
LEMMA BanDoubles ==
    ASSUME NEW n \in Nat \ {0}
    PROVE  /\ BanLength(n) \in Nat \ {0}
           /\ BanLength(n + 1) = NextLength(BanLength(n))
<1>1. n + 1 \in Nat /\ ~(n + 1 <= 1) /\ n + 1 - 1 = n /\ n \in Nat
    OBVIOUS
<1>2. Doubled[n] \in Nat \ {0} /\ Doubled[n + 1] = Doubling(Doubled[n])
    BY <1>1, DoubledIs
<1>3. QED
    BY <1>2, GuardAssumption DEF Doubling, BanLength, NextLength
-----------------------------------------------------------------------------
(* The inductive invariant.                                                *)

\* Nothing has happened yet that lies in the future.
ClockInv ==
    /\ lastSweep <= now
    /\ \A a \in DOMAIN failures : failures[a].firstAt <= now
    /\ \A a \in Addrs : lastBan[a].at <= now

\* The window of an address in a map, empty for one that is not known.
Log(map, a) == IF a \in DOMAIN map THEN map[a] ELSE <<>>

\* Times in order, none after a given one.
Past(s, at) == Sorted(s) /\ \A i \in 1 .. Len(s) : s[i] <= at

\* However long ago the window of an address was trimmed, and whether or not a
\* sweep dropped it, its recent times are the recent admissions.
WindowInv ==
    \A a \in Addrs :
        /\ Past(Log(conns, a), now) /\ Past(admitted[a], now)
        /\ ConnLimit > 0 => admitted[a] = Fresh(Log(conns, a), Period, now)
                              /\ Len(admitted[a]) <= ConnLimit

\* The failures of the last FailureWindow: k of them were counted before the
\* record's window began and the others are in its count, all of them as long as
\* the window lasts.
Burst(record, times, at, k) ==
    /\ k < MaxFailures
    /\ \A i \in 1 .. k : times[i] <= record.firstAt
    /\ \A i \in k + 1 .. Len(times) :
          record.firstAt <= times[i] /\ times[i] <= record.firstAt + FailureWindow
    /\ Len(times) - k <= record.count
    /\ at - record.firstAt <= FailureWindow => Len(times) - k = record.count

BurstInv ==
    \A a \in Addrs :
        /\ Past(failed[a], now)
        /\ \A i \in 1 .. Len(failed[a]) : failed[a][i] + FailureWindow >= now
        /\ a \in DOMAIN failures =>
              \E k \in 0 .. Len(failed[a]) : Burst(failures[a], failed[a], now, k)
        /\ a \notin DOMAIN failures => failed[a] = <<>>

\* The record of an address remembers the offence of a ban for as long as two
\* FailureWindows after it.
Remembers(a) ==
    lastBan[a] # NeverBan /\ now - lastBan[a].at <= 2 * FailureWindow =>
        /\ a \in DOMAIN failures
        /\ lastBan[a].at <= failures[a].firstAt
        /\ failures[a].offences > 0
        /\ lastBan[a].length = BanLength(failures[a].offences)

OffenceInv == \A a \in Addrs : Remembers(a)

GuardInv == TypeOK /\ ClockInv /\ WindowInv /\ BurstInv /\ OffenceInv

-----------------------------------------------------------------------------
(* Times.                                                                  *)
LEMMA GuardConstants ==
    /\ Period \in Nat \ {0} /\ FailureWindow \in Nat /\ MaxFailures \in Nat
    /\ ConnLimit \in Nat /\ MaxPending \in Nat /\ MaxTime \in Nat /\ SweepEvery \in Nat
    /\ Times \in SUBSET Nat
BY GuardAssumption DEF Times

\* A list of instants is a list of numbers.
LEMMA TimesAreNumbers == \A s \in Seq(Times) : s \in Seq(Nat) /\ Len(s) \in Nat /\ s \in [1 .. Len(s) -> Nat]
<1>1. SUFFICES ASSUME NEW s \in Seq(Times)
               PROVE  s \in Seq(Nat) /\ Len(s) \in Nat /\ s \in [1 .. Len(s) -> Nat]
    OBVIOUS
<1>2. Len(s) \in Nat /\ s \in [1 .. Len(s) -> Times]
    OBVIOUS
<1>3. s \in [1 .. Len(s) -> Nat]
    BY <1>2, GuardConstants
<1>4. QED
    BY <1>2, <1>3

\* An address without events: nothing to trim.
LEMMA EmptyList ==
    /\ <<>> \in Seq(Times) /\ Len(<<>>) = 0
    /\ \A at \in Nat : Past(<<>>, at)
    /\ \A span, at \in Nat : Fresh(<<>>, span, at) = <<>>
<1>1. <<>> \in Seq(Times) /\ <<>> \in Seq(Nat) /\ Len(<<>>) = 0
    OBVIOUS
<1>2. \A at \in Nat : Past(<<>>, at)
    BY <1>1 DEF Past, Sorted
<1>3. ASSUME NEW span \in Nat, NEW at \in Nat PROVE Fresh(<<>>, span, at) = <<>>
  <2> DEFINE e == <<>>
  <2>1. e \in Seq(Nat) /\ Len(e) = 0 /\ SubSeq(e, 0 + 1, Len(e)) = e
      BY <1>1
  <2> HIDE DEF e
  <2>2. 0 \in 0 .. Len(e) /\ ~(0 < Len(e)) /\ \A i \in 1 .. 0 : e[i] + span <= at
      BY <2>1
  <2>3. Fresh(e, span, at) = SubSeq(e, 0 + 1, Len(e))
      BY <2>1, <2>2, FreshIs
  <2>4. QED
      BY <2>1, <2>3 DEF e
<1>4. QED
    BY <1>1, <1>2, <1>3

\* What time leaves of a list of past times.
LEMMA FreshPast ==
    ASSUME NEW s \in Seq(Times), NEW span \in Nat, NEW at \in Nat, NEW then \in Nat,
           Past(s, at), at <= then
    PROVE  /\ Fresh(s, span, then) \in Seq(Times)
           /\ Len(Fresh(s, span, then)) <= Len(s)
           /\ Past(Fresh(s, span, then), then)
           /\ \A i \in 1 .. Len(Fresh(s, span, then)) : Fresh(s, span, then)[i] + span > then
<1> DEFINE t == Fresh(s, span, then)
<1>1. Sorted(s) /\ \A i \in 1 .. Len(s) : s[i] <= at
    BY DEF Past
<1>2. /\ t \in Seq(Times) /\ Len(t) <= Len(s) /\ Sorted(t)
      /\ \A i \in 1 .. Len(t) : t[i] + span > then
      /\ \A i \in 1 .. Len(t) : \E j \in 1 .. Len(s) : t[i] = s[j]
    BY <1>1, GuardConstants, FreshType
<1> HIDE DEF t
<1>3. s \in [1 .. Len(s) -> Nat]
    BY TimesAreNumbers
<1>4. ASSUME NEW i \in 1 .. Len(t) PROVE t[i] <= then
  <2>1. PICK j \in 1 .. Len(s) : t[i] = s[j]
      BY <1>2
  <2>2. s[j] \in Nat /\ s[j] <= at
      BY <1>1, <1>3
  <2>3. QED
      BY <2>1, <2>2
<1>5. Past(t, then)
    BY <1>2, <1>4 DEF Past
<1>6. QED
    BY <1>2, <1>5 DEF t

\* The present goes behind what is past.
LEMMA PastAppend ==
    ASSUME NEW s \in Seq(Times), NEW at \in Times, Past(s, at)
    PROVE  /\ Append(s, at) \in Seq(Times) /\ Past(Append(s, at), at)
           /\ Len(Append(s, at)) = Len(s) + 1
           /\ \A i \in 1 .. Len(s) : Append(s, at)[i] = s[i]
           /\ Append(s, at)[Len(s) + 1] = at
<1>1. s \in Seq(Nat) /\ at \in Nat /\ 1 \in Nat \ {0} /\ Len(s) \in Nat
    BY TimesAreNumbers, GuardConstants
<1>2. Sorted(s) /\ \A i \in 1 .. Len(s) : s[i] <= at
    BY DEF Past
<1>3. Sorted(Append(s, at))
    BY <1>1, <1>2, FreshAppend
<1> DEFINE t == Append(s, at)
<1>4. /\ t \in Seq(Times) /\ Len(t) = Len(s) + 1 /\ t[Len(s) + 1] = at
      /\ \A i \in 1 .. Len(s) : t[i] = s[i]
    OBVIOUS
<1> HIDE DEF t
<1>5. ASSUME NEW i \in 1 .. Len(t) PROVE t[i] <= at
  <2>1. i \in 1 .. Len(s) \/ i = Len(s) + 1
      BY <1>1, <1>4
  <2>2. CASE i \in 1 .. Len(s)
      BY <1>2, <1>4, <2>2
  <2>3. CASE i = Len(s) + 1
    <3>1. t[i] = at
        BY <1>4, <2>3
    <3>2. QED
        BY <1>1, <3>1
  <2>4. QED
      BY <2>1, <2>2, <2>3
<1>6. QED
    BY <1>3, <1>4, <1>5 DEF Past, t

\* Failures that are older than two FailureWindows have no record left.
LEMMA OldRecordsAreEmpty ==
    ASSUME GuardInv, NEW a \in DOMAIN failures, now - failures[a].firstAt > 2 * FailureWindow
    PROVE  a \in Addrs /\ failed[a] = <<>>
<1> USE DEF GuardInv
<1>1. a \in Addrs /\ failures[a] \in Record
    BY DEF TypeOK
<1>2. failed[a] \in Seq(Times) /\ now \in Nat /\ failures[a].firstAt \in Nat
    BY <1>1, GuardConstants DEF TypeOK, Record
<1>3. Len(failed[a]) \in Nat /\ failed[a] \in [1 .. Len(failed[a]) -> Nat]
    BY <1>2, TimesAreNumbers
<1>4. PICK k \in 0 .. Len(failed[a]) : Burst(failures[a], failed[a], now, k)
    BY <1>1 DEF BurstInv
<1>5. ASSUME NEW i \in 1 .. Len(failed[a]) PROVE FALSE
  <2>1. failed[a][i] \in Nat /\ failed[a][i] + FailureWindow >= now
      BY <1>1, <1>3 DEF BurstInv
  <2>2. failed[a][i] <= failures[a].firstAt + FailureWindow
    <3>1. CASE i \in 1 .. k
        BY <1>2, <1>4, <2>1, <3>1, GuardConstants DEF Burst
    <3>2. CASE i \in k + 1 .. Len(failed[a])
        BY <1>4, <3>2 DEF Burst
    <3>3. QED
        BY <1>3, <3>1, <3>2
  <2>3. QED
      BY <1>2, <2>1, <2>2, GuardConstants
<1>6. Len(failed[a]) = 0
    BY <1>3, <1>5
<1>7. QED
    BY <1>1, <1>2, <1>6
-----------------------------------------------------------------------------
(* AllowConnection.                                                        *)

\* A sweep leaves every address its recent connections.
LEMMA SweepKeepsRecent ==
    ASSUME GuardInv
    PROVE  /\ DOMAIN SweptConns \subseteq Addrs
           /\ \A a \in DOMAIN SweptConns : SweptConns[a] \in Seq(Times)
           /\ \A a \in Addrs :
                 /\ Log(SweptConns, a) \in Seq(Times) /\ Past(Log(SweptConns, a), now)
                 /\ Fresh(Log(SweptConns, a), Period, now) = Fresh(Log(conns, a), Period, now)
<1>1. now \in Nat /\ now <= now /\ Period \in Nat /\ DOMAIN conns \subseteq Addrs
    BY GuardConstants DEF GuardInv, TypeOK
<1>2. \A a \in DOMAIN conns : conns[a] \in Seq(Times)
    BY DEF GuardInv, TypeOK
<1>3. \A a \in Addrs : Past(Log(conns, a), now)
    BY DEF GuardInv, WindowInv
<1>4. \A a \in Addrs : Log(conns, a) \in Seq(Times)
    BY <1>2, EmptyList DEF Log
<1>5. CASE ~SweepDue
  <2>1. SweptConns = conns
      BY <1>5 DEF SweptConns
  <2>2. QED
      BY <1>1, <1>2, <1>3, <1>4, <2>1
<1>6. CASE SweepDue
  <2> DEFINE kept == {a \in DOMAIN conns : Trim(conns[a]) # <<>>}
  <2>1. DOMAIN SweptConns = kept /\ \A a \in kept : SweptConns[a] = Trim(conns[a])
      BY <1>6 DEF SweptConns, Restrict
  <2>2. \A a \in Addrs : Log(SweptConns, a) = Fresh(Log(conns, a), Period, now)
    <3>1. SUFFICES ASSUME NEW a \in Addrs
                   PROVE  Log(SweptConns, a) = Fresh(Log(conns, a), Period, now)
        OBVIOUS
    <3>2. CASE a \in DOMAIN conns
        BY <2>1, <3>2 DEF Log, Trim
    <3>3. CASE a \notin DOMAIN conns
        BY <1>1, <2>1, <3>3, EmptyList DEF Log
    <3>4. QED
        BY <3>2, <3>3
  <2>3. \A a \in DOMAIN conns : Trim(conns[a]) \in Seq(Times)
    <3>1. SUFFICES ASSUME NEW a \in DOMAIN conns PROVE Trim(conns[a]) \in Seq(Times)
        OBVIOUS
    <3>2. conns[a] \in Seq(Times) /\ Past(conns[a], now)
        BY <1>1, <1>2, <1>3 DEF Log
    <3>3. QED
        BY <1>1, <3>2, FreshPast DEF Trim
  <2>4. ASSUME NEW a \in Addrs
        PROVE  /\ Log(SweptConns, a) \in Seq(Times) /\ Past(Log(SweptConns, a), now)
               /\ Fresh(Log(SweptConns, a), Period, now) = Fresh(Log(conns, a), Period, now)
    <3> DEFINE s == Log(conns, a)
    <3>1. s \in Seq(Times) /\ Past(s, now)
        BY <1>3, <1>4
    <3> HIDE DEF s
    <3>2. Fresh(s, Period, now) \in Seq(Times) /\ Past(Fresh(s, Period, now), now)
        BY <1>1, <3>1, FreshPast
    <3>3. s \in Seq(Nat) /\ Sorted(s)
        BY <3>1, TimesAreNumbers DEF Past
    <3>4. Fresh(Fresh(s, Period, now), Period, now) = Fresh(s, Period, now)
        BY <1>1, <3>3, FreshFresh
    <3>5. Log(SweptConns, a) = Fresh(s, Period, now)
        BY <2>2 DEF s
    <3>6. QED
        BY <3>2, <3>4, <3>5 DEF s
  <2>5. DOMAIN SweptConns \subseteq Addrs
      BY <1>1, <2>1
  <2>6. \A a \in DOMAIN SweptConns : SweptConns[a] \in Seq(Times)
      BY <2>1, <2>3
  <2>7. QED
      BY <2>4, <2>5, <2>6
<1>7. QED
    BY <1>5, <1>6

\* A sweep forgets the records that are two FailureWindows old, and no other.
LEMMA SweepForgets ==
    ASSUME GuardInv
    PROVE  /\ DOMAIN SweptFailures \subseteq DOMAIN failures
           /\ \A a \in DOMAIN SweptFailures : SweptFailures[a] = failures[a]
           /\ \A a \in DOMAIN failures \ DOMAIN SweptFailures :
                 now - failures[a].firstAt > 2 * FailureWindow
           /\ DOMAIN SweptBans \subseteq DOMAIN bans
           /\ \A a \in DOMAIN SweptBans : SweptBans[a] = bans[a]
<1>1. \A a \in DOMAIN failures : failures[a].firstAt \in Nat /\ now \in Nat /\ FailureWindow \in Nat
    BY GuardConstants DEF GuardInv, TypeOK, Record
<1>2. CASE SweepDue
    BY <1>1, <1>2 DEF SweptFailures, SweptBans, Restrict
<1>3. CASE ~SweepDue
    BY <1>3 DEF SweptFailures, SweptBans
<1>4. QED
    BY <1>2, <1>3

\* AllowConnection, with its sweep: the window of an address has every
\* admission of the last period, before and after.
LEMMA AllowStep ==
    ASSUME GuardInv, NEW a \in Addrs, NEW full \in BOOLEAN, AllowConnection(a, full)
    PROVE  GuardInv'
<1> DEFINE swept == SweptConns
           w == Window(a)
<1>1. now \in Times /\ now \in Nat /\ now' = now /\ failed' = failed /\ lastBan' = lastBan
    BY GuardConstants DEF GuardInv, TypeOK, AllowConnection
<1>2. /\ DOMAIN swept \subseteq Addrs
      /\ \A b \in DOMAIN swept : swept[b] \in Seq(Times)
      /\ \A b \in Addrs :
            /\ Log(swept, b) \in Seq(Times) /\ Past(Log(swept, b), now)
            /\ Fresh(Log(swept, b), Period, now) = Fresh(Log(conns, b), Period, now)
    BY SweepKeepsRecent
<1>3. w = Fresh(Log(conns, a), Period, now)
  <2>1. w = Fresh(Log(swept, a), Period, now)
    <3>1. CASE a \in DOMAIN swept
        BY <3>1 DEF Window, Trim, Log
    <3>2. CASE a \notin DOMAIN swept
        BY <1>1, <3>2, EmptyList, GuardConstants DEF Window, Log
    <3>3. QED
        BY <3>1, <3>2
  <2>2. QED
      BY <1>2, <2>1
<1>4. w \in Seq(Times) /\ Past(w, now) /\ Fresh(w, Period, now) = w
  <2> DEFINE s == Log(conns, a)
  <2>1. s \in Seq(Times) /\ Past(s, now)
      BY EmptyList DEF GuardInv, TypeOK, WindowInv, Log
  <2> HIDE DEF s
  <2>2. Fresh(s, Period, now) \in Seq(Times) /\ Past(Fresh(s, Period, now), now)
      BY <1>1, <2>1, FreshPast, GuardConstants
  <2>3. s \in Seq(Nat) /\ Sorted(s)
      BY <2>1, TimesAreNumbers DEF Past
  <2>4. Fresh(Fresh(s, Period, now), Period, now) = Fresh(s, Period, now)
      BY <1>1, <2>3, FreshFresh, GuardConstants
  <2>5. QED
      BY <1>3, <2>2, <2>4 DEF s
<1>5. /\ failures' = SweptFailures /\ bans' = SweptBans
      /\ lastSweep' = (IF SweepDue THEN now ELSE lastSweep)
    BY DEF AllowConnection
<1> HIDE DEF swept, w
<1> DEFINE refused == a \notin Allowed \/ Banned(a) \/ full
           limited == ConnLimit > 0 /\ Len(w) >= ConnLimit
<1>6. /\ conns' = IF refused \/ ConnLimit = 0 THEN swept
                  ELSE Put(swept, a, IF limited THEN w ELSE Append(w, now))
      /\ IF refused \/ limited
         THEN UNCHANGED <<pending, admitted>>
         ELSE /\ pending' = [pending EXCEPT ![a] = @ + 1]
              /\ admitted' = [admitted EXCEPT ![a] = Append(@, now)]
      /\ pending[a] < MaxPending
    BY DEF AllowConnection, swept, w
<1> HIDE DEF refused, limited
<1>7. Append(w, now) \in Seq(Times) /\ Past(Append(w, now), now) /\ Len(Append(w, now)) = Len(w) + 1
      /\ Fresh(Append(w, now), Period, now) = Append(w, now)
  <2>1. w \in Seq(Nat) /\ Sorted(w) /\ \A i \in 1 .. Len(w) : w[i] <= now
      BY <1>4, TimesAreNumbers DEF Past
  <2>2. Fresh(Append(w, now), Period, now) = Append(Fresh(w, Period, now), now)
      BY <1>1, <2>1, FreshAppend, GuardConstants
  <2>3. QED
      BY <1>1, <1>4, <2>2, PastAppend
<1>8. ASSUME NEW b \in Addrs
      PROVE  \/ Log(conns', b) = Log(swept, b)
             \/ b = a /\ ~refused /\ ConnLimit > 0 /\ limited /\ Log(conns', b) = w
             \/ b = a /\ ~refused /\ ConnLimit > 0 /\ ~limited /\ Log(conns', b) = Append(w, now)
  <2>1. CASE refused \/ ConnLimit = 0
      BY <1>6, <2>1
  <2>2. CASE ~(refused \/ ConnLimit = 0)
    <3> DEFINE v == IF limited THEN w ELSE Append(w, now)
    <3>1. conns' = Put(swept, a, v) /\ ConnLimit > 0
        BY <1>6, <2>2, GuardConstants
    <3> HIDE DEF v
    <3>2. Log(conns', b) = IF b = a THEN v ELSE Log(swept, b)
        BY <3>1 DEF Put, Log
    <3>3. QED
        BY <2>2, <3>1, <3>2 DEF v
  <2>3. QED
      BY <2>1, <2>2
<1>9. /\ DOMAIN conns' \subseteq Addrs
      /\ \A b \in DOMAIN conns' : conns'[b] \in Seq(Times)
    BY <1>2, <1>4, <1>6, <1>7 DEF Put
<1>10. admitted \in [Addrs -> Seq(Times)] /\ \A b \in Addrs : Past(admitted[b], now)
    BY DEF GuardInv, TypeOK, WindowInv
<1>11. admitted' \in [Addrs -> Seq(Times)] /\ pending' \in [Addrs -> 0 .. MaxPending]
  <2>1. pending \in [Addrs -> 0 .. MaxPending]
      BY DEF GuardInv, TypeOK
  <2>2. CASE refused \/ limited
      BY <1>6, <1>10, <2>1, <2>2
  <2>3. CASE ~(refused \/ limited)
    <3>1. pending[a] + 1 \in 0 .. MaxPending
        BY <1>6, <2>1, GuardConstants
    <3>2. Append(admitted[a], now) \in Seq(Times)
        BY <1>1, <1>10, PastAppend
    <3>3. QED
        BY <1>6, <1>10, <2>1, <2>3, <3>1, <3>2
  <2>4. QED
      BY <2>2, <2>3
<1>12. TypeOK'
  <2>1. lastSweep' \in Times
      BY <1>1, <1>5 DEF GuardInv, TypeOK
  <2>2. /\ DOMAIN failures' \subseteq Addrs /\ DOMAIN bans' \subseteq Addrs
        /\ \A b \in DOMAIN failures' : failures'[b] \in Record /\ failures'[b].count < MaxFailures
        /\ \A b \in DOMAIN bans' : bans'[b] \in Nat
      BY <1>5, SweepForgets DEF GuardInv, TypeOK
  <2>3. failed' \in [Addrs -> Seq(Times)] /\ lastBan' \in [Addrs -> [at : Times, length : Nat]]
      BY <1>1 DEF GuardInv, TypeOK
  <2>4. QED
      BY <1>1, <1>9, <1>11, <2>1, <2>2, <2>3 DEF TypeOK
<1>13. ClockInv'
  <2>1. lastSweep' <= now
      BY <1>1, <1>5 DEF GuardInv, ClockInv
  <2>2. \A b \in DOMAIN failures' : failures'[b].firstAt <= now
      BY <1>5, SweepForgets DEF GuardInv, ClockInv
  <2>3. QED
      BY <1>1, <2>1, <2>2 DEF GuardInv, ClockInv
<1>14. WindowInv'
  <2>1. SUFFICES ASSUME NEW b \in Addrs
                 PROVE  /\ Past(Log(conns', b), now) /\ Past(admitted'[b], now)
                        /\ ConnLimit > 0 => admitted'[b] = Fresh(Log(conns', b), Period, now)
                                              /\ Len(admitted'[b]) <= ConnLimit
      BY <1>1 DEF WindowInv
  <2>2. /\ Past(admitted[b], now)
        /\ ConnLimit > 0 => admitted[b] = Fresh(Log(conns, b), Period, now)
                              /\ Len(admitted[b]) <= ConnLimit
      BY DEF GuardInv, WindowInv
  <2>3. Past(Log(conns', b), now)
      BY <1>2, <1>4, <1>7, <1>8
  <2>4. Past(admitted'[b], now)
    <3>1. Past(Append(admitted[a], now), now)
        BY <1>1, <1>10, PastAppend
    <3>2. QED
        BY <1>6, <1>10, <2>2, <3>1
  <2>5. ASSUME ConnLimit > 0
        PROVE  admitted'[b] = Fresh(Log(conns', b), Period, now) /\ Len(admitted'[b]) <= ConnLimit
    <3>1. CASE ~(b = a /\ ~refused /\ ~limited)
      <4>1. admitted'[b] = admitted[b]
          BY <1>6, <1>10, <3>1
      <4>2. Fresh(Log(conns', b), Period, now) = Fresh(Log(conns, b), Period, now)
          BY <1>2, <1>3, <1>4, <1>8, <3>1
      <4>3. QED
          BY <2>2, <2>5, <4>1, <4>2
    <3>2. CASE b = a /\ ~refused /\ ~limited
      <4>1. admitted[a] = w
          BY <1>3, <2>2, <2>5, <3>2
      <4>2. admitted'[a] = Append(w, now)
          BY <1>6, <1>10, <3>2, <4>1
      <4>3. Log(conns', a) = Append(w, now)
          BY <1>6, <2>5, <3>2, GuardConstants DEF Put, Log
      <4>4. Len(w) + 1 <= ConnLimit
        <5>1. Len(w) \in Nat
            BY <1>4
        <5>2. QED
            BY <2>5, <3>2, <5>1, GuardConstants DEF limited
      <4>5. QED
          BY <1>7, <3>2, <4>2, <4>3, <4>4
    <3>3. QED
        BY <3>1, <3>2
  <2>6. QED
      BY <2>3, <2>4, <2>5
<1>15. BurstInv'
  <2>1. ASSUME NEW b \in Addrs, b \in DOMAIN failures, b \notin DOMAIN failures'
        PROVE  failed[b] = <<>>
      BY <1>5, <2>1, SweepForgets, OldRecordsAreEmpty
  <2>2. \A b \in DOMAIN failures' : b \in DOMAIN failures /\ failures'[b] = failures[b]
      BY <1>5, SweepForgets
  <2>3. QED
      BY <1>1, <2>1, <2>2 DEF GuardInv, BurstInv
<1>16. OffenceInv'
  <2>1. SUFFICES ASSUME NEW b \in Addrs PROVE Remembers(b)'
      BY DEF OffenceInv
  <2>2. Remembers(b)
      BY DEF GuardInv, OffenceInv
  <2>3. CASE b \in DOMAIN failures'
      BY <1>1, <1>5, <2>2, <2>3, SweepForgets DEF Remembers
  <2>4. CASE b \notin DOMAIN failures
      BY <1>1, <1>5, <2>2, <2>4, SweepForgets DEF Remembers
  <2>5. CASE b \in DOMAIN failures /\ b \notin DOMAIN failures'
    <3>1. now - failures[b].firstAt > 2 * FailureWindow
        BY <1>5, <2>5, SweepForgets
    <3>2. failures[b].firstAt \in Nat /\ lastBan[b].at \in Nat /\ FailureWindow \in Nat
        BY <2>5, GuardConstants DEF GuardInv, TypeOK, Record
    <3>3. QED
        BY <1>1, <2>2, <2>5, <3>1, <3>2 DEF Remembers
  <2>6. QED
      BY <2>3, <2>4, <2>5
<1>17. QED
    BY <1>12, <1>13, <1>14, <1>15, <1>16 DEF GuardInv

-----------------------------------------------------------------------------
(* Verdicts.                                                               *)

\* One connection less is under way.
LEMMA PendingFalls ==
    ASSUME GuardInv, NEW a \in Addrs, pending[a] > 0, pending' = [pending EXCEPT ![a] = @ - 1]
    PROVE  pending' \in [Addrs -> 0 .. MaxPending]
<1>1. pending \in [Addrs -> 0 .. MaxPending]
    BY DEF GuardInv, TypeOK
<1>2. pending[a] - 1 \in 0 .. MaxPending
    BY <1>1, GuardConstants
<1>3. QED
    BY <1>1, <1>2

\* A failure of an address: its record counts the new one.
LEMMA CountedRecord ==
    ASSUME GuardInv, NEW a \in Addrs
    PROVE  /\ Counted(a) \in [count : Nat \ {0}, firstAt : Times, offences : Nat]
           /\ Counted(a).firstAt <= now
           /\ a \in DOMAIN failures => /\ Counted(a).offences = failures[a].offences
                                        /\ failures[a].firstAt <= Counted(a).firstAt
           /\ a \in DOMAIN failures /\ now - failures[a].firstAt <= FailureWindow =>
                 Counted(a).count = failures[a].count + 1 /\ Counted(a).firstAt = failures[a].firstAt
           /\ ~(a \in DOMAIN failures /\ now - failures[a].firstAt <= FailureWindow) =>
                 Counted(a).count = 1 /\ Counted(a).firstAt = now
<1>1. now \in Times /\ now \in Nat
    BY GuardConstants DEF GuardInv, TypeOK
<1>2. a \in DOMAIN failures =>
        failures[a] \in Record /\ failures[a].firstAt \in Nat /\ failures[a].firstAt <= now
    BY GuardConstants DEF GuardInv, TypeOK, ClockInv, Record
<1>3. CASE a \in DOMAIN failures /\ now - failures[a].firstAt <= FailureWindow
  <2>1. Counted(a) = [failures[a] EXCEPT !.count = @ + 1]
      BY <1>3 DEF Counted
  <2>2. QED
      BY <1>1, <1>2, <1>3, <2>1 DEF Record
<1>4. CASE ~(a \in DOMAIN failures /\ now - failures[a].firstAt <= FailureWindow)
  <2>1. Counted(a) = [count |-> 1, firstAt |-> now,
                      offences |-> IF a \in DOMAIN failures THEN failures[a].offences ELSE 0]
      BY <1>4 DEF Counted
  <2>2. QED
      BY <1>1, <1>2, <1>4, <2>1 DEF Record
<1>5. QED
    BY <1>3, <1>4

\* With one more failure the failures of the last FailureWindow still belong to
\* two windows of the record.
LEMMA BurstGrows ==
    ASSUME GuardInv, NEW a \in Addrs, MaxFailures > 0
    PROVE  LET times == Append(failed[a], now)
           IN  /\ \E k \in 0 .. Len(times) : Burst(Counted(a), times, now, k)
               /\ \A i \in 1 .. Len(times) : times[i] + FailureWindow >= now
<1> DEFINE F == failed[a]
           t == Append(F, now)
           c == Counted(a)
<1>1. now \in Times /\ now \in Nat /\ F \in Seq(Times) /\ Past(F, now)
    BY GuardConstants DEF GuardInv, TypeOK, BurstInv
<1>2. \A i \in 1 .. Len(F) : F[i] + FailureWindow >= now /\ F[i] <= now
    BY <1>1 DEF GuardInv, BurstInv, Past
<1>3. Len(F) \in Nat /\ F \in [1 .. Len(F) -> Nat]
    BY <1>1, TimesAreNumbers
<1>4. /\ t \in Seq(Times) /\ Len(t) = Len(F) + 1 /\ t[Len(F) + 1] = now
      /\ \A i \in 1 .. Len(F) : t[i] = F[i]
    BY <1>1, PastAppend
<1>5. a \in DOMAIN failures => failures[a].firstAt \in Nat /\ failures[a].count \in Nat
                                 /\ failures[a].firstAt <= now /\ failures[a].count < MaxFailures
    BY GuardConstants DEF GuardInv, TypeOK, ClockInv, Record
<1>6. /\ c.count \in Nat /\ c.firstAt \in Nat
      /\ a \in DOMAIN failures /\ now - failures[a].firstAt <= FailureWindow =>
            c.count = failures[a].count + 1 /\ c.firstAt = failures[a].firstAt
      /\ ~(a \in DOMAIN failures /\ now - failures[a].firstAt <= FailureWindow) =>
            c.count = 1 /\ c.firstAt = now
    BY CountedRecord, GuardConstants
<1>7. a \in DOMAIN failures => \E k \in 0 .. Len(F) : Burst(failures[a], F, now, k)
    BY DEF GuardInv, BurstInv
<1>8. a \notin DOMAIN failures => F = <<>>
    BY DEF GuardInv, BurstInv
<1> HIDE DEF F, t, c
<1>9. \E k \in 0 .. Len(t) : Burst(c, t, now, k)
  <2>1. CASE a \in DOMAIN failures /\ now - failures[a].firstAt <= FailureWindow
    <3>1. PICK k \in 0 .. Len(F) : Burst(failures[a], F, now, k)
        BY <1>7, <2>1
    <3>2. k \in 0 .. Len(t) /\ k \in 0 .. Len(F)
        BY <1>3, <1>4, <3>1
    <3>3. \A i \in 1 .. k : t[i] <= c.firstAt
        BY <1>3, <1>4, <1>6, <2>1, <3>1, <3>2 DEF Burst
    <3>4. ASSUME NEW i \in k + 1 .. Len(t)
          PROVE  c.firstAt <= t[i] /\ t[i] <= c.firstAt + FailureWindow
      <4>1. CASE i = Len(F) + 1
        <5>1. t[i] = now
            BY <1>4, <4>1
        <5>2. QED
            BY <1>1, <1>5, <1>6, <2>1, <5>1, GuardConstants
      <4>2. CASE i \in k + 1 .. Len(F)
        <5>1. i \in 1 .. Len(F)
            BY <1>3, <3>2, <4>2
        <5>2. QED
            BY <1>4, <1>6, <2>1, <3>1, <4>2, <5>1 DEF Burst
      <4>3. QED
          BY <1>3, <1>4, <3>2, <4>1, <4>2
    <3>5. Len(t) - k = c.count
        BY <1>3, <1>4, <1>5, <1>6, <2>1, <3>1, <3>2 DEF Burst
    <3>6. k < MaxFailures
        BY <3>1 DEF Burst
    <3>7. Burst(c, t, now, k)
        BY <1>6, <3>3, <3>4, <3>5, <3>6 DEF Burst
    <3>8. QED
        BY <3>2, <3>7
  <2>2. CASE ~(a \in DOMAIN failures /\ now - failures[a].firstAt <= FailureWindow)
    <3> DEFINE k == Len(F)
    <3>1. k < MaxFailures
      <4>1. CASE a \notin DOMAIN failures
          BY <1>8, <4>1, GuardConstants
      <4>2. CASE a \in DOMAIN failures
        <5>1. PICK j \in 0 .. Len(F) : Burst(failures[a], F, now, j)
            BY <1>7, <4>2
        <5>2. j \in 0 .. Len(F) /\ Len(F) - j <= failures[a].count
            BY <5>1 DEF Burst
        <5>3. j = 0
          <6>1. SUFFICES ASSUME j > 0 PROVE FALSE
              BY <1>3, <5>2
          <6>2. 1 \in 1 .. j /\ 1 \in 1 .. Len(F)
              BY <1>3, <5>2, <6>1
          <6>3. F[1] <= failures[a].firstAt /\ F[1] \in Nat /\ F[1] + FailureWindow >= now
              BY <1>2, <1>3, <5>1, <6>2 DEF Burst
          <6>4. QED
              BY <1>1, <1>5, <2>2, <4>2, <6>3, GuardConstants
        <5>4. QED
            BY <1>3, <1>5, <4>2, <5>2, <5>3, GuardConstants
      <4>3. QED
          BY <4>1, <4>2
    <3>2. \A i \in 1 .. k : t[i] <= c.firstAt
        BY <1>2, <1>4, <1>6, <2>2
    <3>3. ASSUME NEW i \in k + 1 .. Len(t)
          PROVE  c.firstAt <= t[i] /\ t[i] <= c.firstAt + FailureWindow
      <4>1. i = Len(F) + 1
          BY <1>3, <1>4
      <4>2. t[i] = now /\ c.firstAt = now
          BY <1>4, <1>6, <2>2, <4>1
      <4>3. QED
          BY <1>1, <4>2, GuardConstants
    <3>4. Len(t) - k = c.count
        BY <1>3, <1>4, <1>6, <2>2
    <3>5. Burst(c, t, now, k)
        BY <1>6, <3>1, <3>2, <3>3, <3>4 DEF Burst
    <3>6. k \in 0 .. Len(t)
        BY <1>3, <1>4
    <3>7. QED
        BY <3>5, <3>6
  <2>3. QED
      BY <2>1, <2>2
<1>10. ASSUME NEW i \in 1 .. Len(t) PROVE t[i] + FailureWindow >= now
  <2>1. CASE i = Len(F) + 1
    <3>1. t[i] = now
        BY <1>4, <2>1
    <3>2. QED
        BY <1>1, <3>1, GuardConstants
  <2>2. CASE i \in 1 .. Len(F)
      BY <1>2, <1>4, <2>2
  <2>3. QED
      BY <1>3, <1>4, <2>1, <2>2
<1>11. QED
    BY <1>9, <1>10 DEF t, F, c

\* RecordAuthFailure: counting, starting a new window, and banning.
LEMMA FailureStep ==
    ASSUME GuardInv, NEW a \in Addrs, RecordAuthFailure(a)
    PROVE  GuardInv'
<1> DEFINE c == Counted(a)
           length == BanLength(c.offences + 1)
<1>1. /\ now \in Times /\ now \in Nat /\ now' = now
      /\ conns' = conns /\ lastSweep' = lastSweep /\ admitted' = admitted
    BY GuardConstants DEF GuardInv, TypeOK, RecordAuthFailure
<1>2. pending' \in [Addrs -> 0 .. MaxPending]
    BY PendingFalls DEF RecordAuthFailure
<1>3. WindowInv'
    BY <1>1 DEF GuardInv, WindowInv
<1>4. CASE MaxFailures = 0
  <2>1. UNCHANGED <<failures, bans, failed, lastBan>>
      BY <1>4 DEF RecordAuthFailure
  <2>2. TypeOK'
      BY <1>1, <1>2, <2>1 DEF GuardInv, TypeOK
  <2>3. ClockInv' /\ BurstInv' /\ OffenceInv'
      BY <1>1, <2>1 DEF GuardInv, ClockInv, BurstInv, OffenceInv, Remembers
  <2>4. QED
      BY <1>3, <2>2, <2>3 DEF GuardInv
<1>5. CASE MaxFailures # 0
  <2>1. /\ c \in [count : Nat \ {0}, firstAt : Times, offences : Nat]
        /\ c.firstAt <= now
        /\ a \in DOMAIN failures => c.offences = failures[a].offences
                                      /\ failures[a].firstAt <= c.firstAt
      BY CountedRecord
  <2>2. /\ DOMAIN failures \subseteq Addrs /\ DOMAIN bans \subseteq Addrs
        /\ \A b \in DOMAIN failures : failures[b] \in Record /\ failures[b].count < MaxFailures
        /\ \A b \in DOMAIN bans : bans[b] \in Nat
        /\ failed \in [Addrs -> Seq(Times)]
        /\ lastBan \in [Addrs -> [at : Times, length : Nat]]
      BY DEF GuardInv, TypeOK
  <2>3. /\ \A b \in DOMAIN failures : failures[b].firstAt <= now
        /\ \A b \in Addrs : lastBan[b].at <= now
        /\ lastSweep' <= now
      BY <1>1 DEF GuardInv, ClockInv
  <2>4. CASE TooMany(c)
    <3> DEFINE new == Offence(c)
    <3>1. /\ failures' = Put(failures, a, new)
          /\ bans' = Put(bans, a, now + length)
          /\ lastBan' = [lastBan EXCEPT ![a] = [at |-> now, length |-> length]]
          /\ failed' = [failed EXCEPT ![a] = <<>>]
        BY <1>5, <2>4 DEF RecordAuthFailure
    <3>2. length \in Nat \ {0}
      <4>1. c.offences + 1 \in Nat \ {0}
          BY <2>1
      <4>2. QED
          BY <4>1, BanDoubles
    <3>3. /\ new \in Record /\ new.count = 0 /\ new.firstAt = now
          /\ new.offences = c.offences + 1 /\ new.offences > 0
        BY <1>1, <2>1 DEF Offence, Record
    <3> HIDE DEF new, length, c
    <3>4. /\ DOMAIN failures' = DOMAIN failures \cup {a} /\ failures'[a] = new
          /\ \A b \in DOMAIN failures : b # a => failures'[b] = failures[b]
          /\ DOMAIN bans' = DOMAIN bans \cup {a} /\ bans'[a] = now + length
          /\ \A b \in DOMAIN bans : b # a => bans'[b] = bans[b]
        BY <3>1 DEF Put
    <3>5. /\ lastBan'[a] = [at |-> now, length |-> length] /\ failed'[a] = <<>>
          /\ \A b \in Addrs : b # a => lastBan'[b] = lastBan[b] /\ failed'[b] = failed[b]
        BY <2>2, <3>1
    <3>6. TypeOK'
      <4>1. /\ DOMAIN failures' \subseteq Addrs /\ DOMAIN bans' \subseteq Addrs
            /\ \A b \in DOMAIN bans' : bans'[b] \in Nat
          BY <1>1, <2>2, <3>2, <3>4
      <4>2. \A b \in DOMAIN failures' : failures'[b] \in Record /\ failures'[b].count < MaxFailures
          BY <1>5, <2>2, <3>3, <3>4, GuardConstants
      <4>3. failed' \in [Addrs -> Seq(Times)]
          BY <2>2, <3>1, EmptyList
      <4>4. lastBan' \in [Addrs -> [at : Times, length : Nat]]
          BY <1>1, <2>2, <3>1, <3>2
      <4>5. QED
          BY <1>1, <1>2, <4>1, <4>2, <4>3, <4>4 DEF GuardInv, TypeOK
    <3>7. ClockInv'
      <4>1. \A b \in DOMAIN failures' : failures'[b].firstAt <= now
          BY <1>1, <2>3, <3>3, <3>4
      <4>2. \A b \in Addrs : lastBan'[b].at <= now
          BY <1>1, <2>3, <3>5
      <4>3. QED
          BY <1>1, <2>3, <4>1, <4>2 DEF ClockInv
    <3>8. BurstInv'
      <4>1. SUFFICES ASSUME NEW b \in Addrs
              PROVE  /\ Past(failed'[b], now)
                     /\ \A i \in 1 .. Len(failed'[b]) : failed'[b][i] + FailureWindow >= now
                     /\ b \in DOMAIN failures' =>
                          \E k \in 0 .. Len(failed'[b]) : Burst(failures'[b], failed'[b], now, k)
                     /\ b \notin DOMAIN failures' => failed'[b] = <<>>
          BY <1>1 DEF BurstInv
      <4>2. CASE b # a
          BY <3>4, <3>5, <4>2 DEF GuardInv, BurstInv
      <4>3. CASE b = a
        <5> DEFINE e == <<>>
        <5>1. failed'[b] = e /\ Len(e) = 0 /\ Past(e, now) /\ failures'[b] = new /\ b \in DOMAIN failures'
            BY <1>1, <3>4, <3>5, <4>3, EmptyList
        <5> HIDE DEF e
        <5>2. Burst(new, e, now, 0) /\ 0 \in 0 .. Len(e)
            BY <1>5, <3>3, <5>1, GuardConstants DEF Burst
        <5>3. QED
            BY <5>1, <5>2
      <4>4. QED
          BY <4>2, <4>3
    <3>9. OffenceInv'
      <4>1. SUFFICES ASSUME NEW b \in Addrs PROVE Remembers(b)'
          BY DEF OffenceInv
      <4>2. CASE b # a
        <5>1. Remembers(b)
            BY DEF GuardInv, OffenceInv
        <5>2. QED
            BY <1>1, <3>4, <3>5, <4>2, <5>1 DEF Remembers
      <4>3. CASE b = a
        <5>1. lastBan'[b].at = now /\ lastBan'[b].length = BanLength(new.offences)
            BY <3>3, <3>5, <4>3 DEF length
        <5>2. QED
            BY <1>1, <3>3, <3>4, <4>3, <5>1 DEF Remembers
      <4>4. QED
          BY <4>2, <4>3
    <3>10. QED
        BY <1>3, <3>6, <3>7, <3>8, <3>9 DEF GuardInv
  <2>5. CASE ~TooMany(c)
    <3> DEFINE t == Append(failed[a], now)
    <3>1. /\ failures' = Put(failures, a, c) /\ bans' = bans /\ lastBan' = lastBan
          /\ failed' = [failed EXCEPT ![a] = t]
        BY <1>5, <2>5 DEF RecordAuthFailure
    <3>2. c.count < MaxFailures /\ c \in Record
        BY <2>1, <2>5, GuardConstants DEF TooMany, Record
    <3>3. t \in Seq(Times) /\ Past(t, now)
        BY <1>1, <2>2, PastAppend DEF GuardInv, BurstInv
    <3>4. /\ \E k \in 0 .. Len(t) : Burst(c, t, now, k)
          /\ \A i \in 1 .. Len(t) : t[i] + FailureWindow >= now
        BY <1>5, BurstGrows, GuardConstants
    <3> HIDE DEF c, t
    <3>5. /\ DOMAIN failures' = DOMAIN failures \cup {a} /\ failures'[a] = c
          /\ \A b \in DOMAIN failures : b # a => failures'[b] = failures[b]
          /\ failed'[a] = t /\ \A b \in Addrs : b # a => failed'[b] = failed[b]
        BY <2>2, <3>1 DEF Put
    <3>6. TypeOK'
      <4>1. /\ DOMAIN failures' \subseteq Addrs
            /\ \A b \in DOMAIN failures' : failures'[b] \in Record /\ failures'[b].count < MaxFailures
          BY <2>2, <3>2, <3>5
      <4>2. failed' \in [Addrs -> Seq(Times)]
          BY <2>2, <3>1, <3>3
      <4>3. QED
          BY <1>1, <1>2, <3>1, <4>1, <4>2 DEF GuardInv, TypeOK
    <3>7. ClockInv'
      <4>1. \A b \in DOMAIN failures' : failures'[b].firstAt <= now
          BY <2>1, <2>3, <3>5
      <4>2. QED
          BY <1>1, <2>3, <3>1, <4>1 DEF ClockInv
    <3>8. BurstInv'
        BY <1>1, <3>3, <3>4, <3>5 DEF GuardInv, BurstInv
    <3>9. OffenceInv'
      <4>1. SUFFICES ASSUME NEW b \in Addrs PROVE Remembers(b)'
          BY DEF OffenceInv
      <4>2. Remembers(b)
          BY DEF GuardInv, OffenceInv
      <4>3. CASE b # a
          BY <1>1, <3>1, <3>5, <4>2, <4>3 DEF Remembers
      <4>4. CASE b = a
        <5>1. lastBan[a].at \in Nat /\ c.firstAt \in Nat
                /\ (a \in DOMAIN failures => failures[a].firstAt \in Nat)
            BY <2>1, <2>2, GuardConstants DEF Record
        <5>2. QED
            BY <1>1, <2>1, <3>1, <3>5, <4>2, <4>4, <5>1 DEF Remembers
      <4>5. QED
          BY <4>3, <4>4
    <3>10. QED
        BY <1>3, <3>6, <3>7, <3>8, <3>9 DEF GuardInv
  <2>6. QED
      BY <2>4, <2>5
<1>6. QED
    BY <1>4, <1>5

\* A success and the lifting of a ban forget the address's failures.
LEMMA ClearStep ==
    ASSUME GuardInv, NEW a \in Addrs, failures' = Delete(failures, a), Clear(a),
           UNCHANGED <<now, conns, lastSweep, admitted>>,
           bans' = bans \/ bans' = Delete(bans, a),
           pending' \in [Addrs -> 0 .. MaxPending]
    PROVE  GuardInv'
<1>1. /\ DOMAIN failures' = DOMAIN failures \ {a}
      /\ \A b \in DOMAIN failures' : failures'[b] = failures[b]
    BY DEF Delete, Restrict
<1>2. DOMAIN bans' \subseteq DOMAIN bans /\ \A b \in DOMAIN bans' : bans'[b] = bans[b]
    BY DEF Delete, Restrict
<1>3. /\ failed' = [failed EXCEPT ![a] = <<>>] /\ lastBan' = [lastBan EXCEPT ![a] = NeverBan]
      /\ NeverBan \in [at : Times, length : Nat] /\ NeverBan.at = 0
    BY GuardConstants DEF Clear, NeverBan, Times
<1>4. failed \in [Addrs -> Seq(Times)] /\ lastBan \in [Addrs -> [at : Times, length : Nat]] /\ now \in Nat
    BY GuardConstants DEF GuardInv, TypeOK
<1>5. /\ failed'[a] = <<>> /\ lastBan'[a] = NeverBan
      /\ \A b \in Addrs : b # a => failed'[b] = failed[b] /\ lastBan'[b] = lastBan[b]
    BY <1>3, <1>4
<1>6. TypeOK'
  <2>1. failed' \in [Addrs -> Seq(Times)] /\ lastBan' \in [Addrs -> [at : Times, length : Nat]]
      BY <1>3, <1>4, EmptyList
  <2>2. QED
      BY <1>1, <1>2, <2>1 DEF GuardInv, TypeOK
<1>7. ClockInv'
    BY <1>1, <1>3, <1>4, <1>5 DEF GuardInv, ClockInv
<1>8. WindowInv'
    BY DEF GuardInv, WindowInv
<1>9. BurstInv'
  <2>1. SUFFICES ASSUME NEW b \in Addrs
          PROVE  /\ Past(failed'[b], now)
                 /\ \A i \in 1 .. Len(failed'[b]) : failed'[b][i] + FailureWindow >= now
                 /\ b \in DOMAIN failures' =>
                      \E k \in 0 .. Len(failed'[b]) : Burst(failures'[b], failed'[b], now, k)
                 /\ b \notin DOMAIN failures' => failed'[b] = <<>>
      BY DEF BurstInv
  <2>2. CASE b # a
      BY <1>1, <1>5, <2>2 DEF GuardInv, BurstInv
  <2>3. CASE b = a
      BY <1>1, <1>4, <1>5, <2>3, EmptyList
  <2>4. QED
      BY <2>2, <2>3
<1>10. OffenceInv'
  <2>1. SUFFICES ASSUME NEW b \in Addrs PROVE Remembers(b)'
      BY DEF OffenceInv
  <2>2. CASE b # a
    <3>1. Remembers(b)
        BY DEF GuardInv, OffenceInv
    <3>2. QED
        BY <1>1, <1>5, <2>2, <3>1 DEF Remembers
  <2>3. CASE b = a
      BY <1>5, <2>3 DEF Remembers
  <2>4. QED
      BY <2>2, <2>3
<1>11. QED
    BY <1>6, <1>7, <1>8, <1>9, <1>10 DEF GuardInv

-----------------------------------------------------------------------------
(* The clock.                                                              *)
LEMMA TickStep ==
    ASSUME GuardInv, Tick
    PROVE  GuardInv'
<1>1. /\ now \in Times /\ now \in Nat /\ now' = now + 1 /\ now + 1 \in Times /\ now + 1 \in Nat
      /\ now <= now + 1
    BY GuardConstants DEF GuardInv, TypeOK, Tick, Times
<1>2. /\ UNCHANGED <<conns, failures, bans, lastSweep, pending, lastBan>>
      /\ admitted' = [a \in Addrs |-> Fresh(admitted[a], Period, now + 1)]
      /\ failed' = [a \in Addrs |-> Fresh(failed[a], FailureWindow + 1, now + 1)]
    BY DEF Tick, guardVars
<1>3. /\ admitted \in [Addrs -> Seq(Times)] /\ failed \in [Addrs -> Seq(Times)]
      /\ \A a \in Addrs : Past(admitted[a], now) /\ Past(failed[a], now)
    BY DEF GuardInv, TypeOK, WindowInv, BurstInv
<1>4. \A a \in Addrs : Log(conns, a) \in Seq(Times) /\ Past(Log(conns, a), now)
    BY EmptyList DEF GuardInv, TypeOK, WindowInv, Log
<1>5. ASSUME NEW a \in Addrs
      PROVE  /\ admitted'[a] \in Seq(Times) /\ Past(admitted'[a], now + 1)
             /\ Len(admitted'[a]) <= Len(admitted[a])
    BY <1>1, <1>2, <1>3, FreshPast, GuardConstants
<1>6. ASSUME NEW a \in Addrs
      PROVE  /\ failed'[a] \in Seq(Times) /\ Past(failed'[a], now + 1)
             /\ \A i \in 1 .. Len(failed'[a]) : failed'[a][i] + FailureWindow >= now + 1
  <2>1. FailureWindow + 1 \in Nat
      BY GuardConstants
  <2>2. /\ failed'[a] \in Seq(Times) /\ Past(failed'[a], now + 1)
        /\ \A i \in 1 .. Len(failed'[a]) : failed'[a][i] + (FailureWindow + 1) > now + 1
      BY <1>1, <1>2, <1>3, <2>1, FreshPast
  <2>3. failed'[a] \in [1 .. Len(failed'[a]) -> Nat]
      BY <2>2, TimesAreNumbers
  <2>4. ASSUME NEW i \in 1 .. Len(failed'[a])
        PROVE  failed'[a][i] + FailureWindow >= now + 1
    <3>1. failed'[a][i] \in Nat /\ failed'[a][i] + (FailureWindow + 1) > now + 1
        BY <2>2, <2>3, <2>4
    <3>2. QED
        BY <1>1, <3>1, GuardConstants
  <2>5. QED
      BY <2>2, <2>4
<1>7. TypeOK'
  <2>1. admitted' \in [Addrs -> Seq(Times)] /\ failed' \in [Addrs -> Seq(Times)]
      BY <1>2, <1>5, <1>6
  <2>2. QED
      BY <1>1, <1>2, <2>1 DEF GuardInv, TypeOK
<1>8. ClockInv'
  <2>1. /\ lastSweep \in Nat /\ \A a \in DOMAIN failures : failures[a].firstAt \in Nat
        /\ \A a \in Addrs : lastBan[a].at \in Nat
      BY GuardConstants DEF GuardInv, TypeOK, Record
  <2>2. QED
      BY <1>1, <1>2, <2>1 DEF GuardInv, ClockInv
<1>9. WindowInv'
  <2>1. SUFFICES ASSUME NEW a \in Addrs
                 PROVE  /\ Past(Log(conns, a), now + 1) /\ Past(admitted'[a], now + 1)
                        /\ ConnLimit > 0 => admitted'[a] = Fresh(Log(conns, a), Period, now + 1)
                                              /\ Len(admitted'[a]) <= ConnLimit
      BY <1>1, <1>2 DEF WindowInv
  <2> DEFINE s == Log(conns, a)
  <2>2. s \in Seq(Times) /\ Past(s, now) /\ s \in Seq(Nat) /\ s \in [1 .. Len(s) -> Nat] /\ Sorted(s)
      BY <1>4, TimesAreNumbers DEF Past
  <2>3. ConnLimit > 0 => admitted[a] = Fresh(s, Period, now) /\ Len(admitted[a]) <= ConnLimit
      BY DEF GuardInv, WindowInv
  <2> HIDE DEF s
  <2>4. Past(s, now + 1)
      BY <1>1, <2>2 DEF Past
  <2>5. Fresh(Fresh(s, Period, now), Period, now + 1) = Fresh(s, Period, now + 1)
      BY <1>1, <2>2, FreshFresh, GuardConstants
  <2>6. Len(admitted'[a]) \in Nat /\ Len(admitted[a]) \in Nat
      BY <1>3, <1>5
  <2>7. QED
      BY <1>2, <1>5, <2>3, <2>4, <2>5, <2>6, GuardConstants DEF s
<1>10. BurstInv'
  <2>1. SUFFICES ASSUME NEW a \in Addrs
          PROVE  /\ a \in DOMAIN failures =>
                      \E k \in 0 .. Len(failed'[a]) : Burst(failures[a], failed'[a], now + 1, k)
                 /\ a \notin DOMAIN failures => failed'[a] = <<>>
      BY <1>1, <1>2, <1>6 DEF BurstInv
  <2>2. ASSUME a \notin DOMAIN failures PROVE failed'[a] = <<>>
    <3>1. failed[a] = <<>>
        BY <2>2 DEF GuardInv, BurstInv
    <3>2. FailureWindow + 1 \in Nat
        BY GuardConstants
    <3>3. QED
        BY <1>1, <1>2, <3>1, <3>2, EmptyList
  <2>3. ASSUME a \in DOMAIN failures
        PROVE  \E k \in 0 .. Len(failed'[a]) : Burst(failures[a], failed'[a], now + 1, k)
    <3> DEFINE F == failed[a]
               G == failed'[a]
               record == failures[a]
    <3>1. /\ F \in Seq(Times) /\ F \in Seq(Nat) /\ Len(F) \in Nat /\ F \in [1 .. Len(F) -> Nat]
          /\ Sorted(F)
        BY <1>3, TimesAreNumbers DEF Past
    <3>2. record.firstAt \in Nat /\ record.count \in Nat
        BY <2>3, GuardConstants DEF GuardInv, TypeOK, Record
    <3>3. PICK k \in 0 .. Len(F) : Burst(record, F, now, k)
        BY <2>3 DEF GuardInv, BurstInv
    <3>4. G = Fresh(F, FailureWindow + 1, now + 1) /\ FailureWindow + 1 \in Nat
        BY <1>2, GuardConstants
    <3> HIDE DEF F, G, record
    <3>5. PICK d \in 0 .. Len(F) :
                /\ Fresh(F, FailureWindow + 1, now + 1) = SubSeq(F, d + 1, Len(F))
                /\ \A i \in 1 .. d : F[i] + (FailureWindow + 1) <= now + 1
                /\ \A i \in d + 1 .. Len(F) : F[i] + (FailureWindow + 1) > now + 1
        BY <1>1, <3>1, <3>4, FreshParts
    <3>6. Len(G) = Len(F) - d /\ \A i \in 1 .. Len(F) - d : G[i] = F[i + d]
        BY <3>1, <3>4, <3>5, Suffix
    <3>7. d \in 0 .. Len(F) /\ k \in 0 .. Len(F) /\ k < MaxFailures
        BY <3>3, <3>5 DEF Burst
    <3> DEFINE m == IF d <= k THEN k - d ELSE 0
    <3>8. m \in 0 .. Len(G) /\ m < MaxFailures
        BY <3>1, <3>6, <3>7, GuardConstants
    <3>9. \A i \in 1 .. m : G[i] <= record.firstAt
      <4>1. SUFFICES ASSUME NEW i \in 1 .. m PROVE G[i] <= record.firstAt
          OBVIOUS
      <4>2. i + d \in 1 .. k /\ i \in 1 .. Len(F) - d
          BY <3>1, <3>6, <3>7
      <4>3. QED
          BY <3>3, <3>6, <4>2 DEF Burst
    <3>10. \A i \in m + 1 .. Len(G) :
              record.firstAt <= G[i] /\ G[i] <= record.firstAt + FailureWindow
      <4>1. SUFFICES ASSUME NEW i \in m + 1 .. Len(G)
                     PROVE  record.firstAt <= G[i] /\ G[i] <= record.firstAt + FailureWindow
          OBVIOUS
      <4>2. i + d \in k + 1 .. Len(F) /\ i \in 1 .. Len(F) - d
          BY <3>1, <3>6, <3>7
      <4>3. QED
          BY <3>3, <3>6, <4>2 DEF Burst
    <3>11. Len(G) - m <= record.count
      <4>1. Len(F) - k <= record.count
          BY <3>3 DEF Burst
      <4>2. QED
          BY <3>1, <3>2, <3>6, <3>7, <4>1
    <3>12. ASSUME (now + 1) - record.firstAt <= FailureWindow PROVE Len(G) - m = record.count
      <4>1. Len(F) - k = record.count
          BY <1>1, <3>2, <3>3, <3>12, GuardConstants DEF Burst
      <4>2. d <= k
        <5>1. SUFFICES ASSUME d > k PROVE FALSE
            BY <3>1, <3>7
        <5>2. d \in 1 .. d /\ d \in k + 1 .. Len(F) /\ d \in 1 .. Len(F)
            BY <3>1, <3>7, <5>1
        <5>3. record.firstAt <= F[d] /\ F[d] \in Nat /\ F[d] + (FailureWindow + 1) <= now + 1
            BY <3>1, <3>3, <3>5, <5>2 DEF Burst
        <5>4. QED
            BY <1>1, <3>2, <3>12, <5>3, GuardConstants
      <4>3. QED
          BY <3>1, <3>6, <3>7, <4>1, <4>2
    <3> HIDE DEF m
    <3>13. Burst(record, G, now + 1, m)
        BY <3>8, <3>9, <3>10, <3>11, <3>12 DEF Burst
    <3>14. QED
        BY <3>8, <3>13 DEF G, record
  <2>4. QED
      BY <2>2, <2>3
<1>11. OffenceInv'
  <2>1. SUFFICES ASSUME NEW a \in Addrs PROVE Remembers(a)'
      BY DEF OffenceInv
  <2>2. Remembers(a) /\ lastBan[a].at \in Nat
      BY GuardConstants DEF GuardInv, TypeOK, OffenceInv
  <2>3. QED
      BY <1>1, <1>2, <2>2, GuardConstants DEF Remembers
<1>12. QED
    BY <1>7, <1>8, <1>9, <1>10, <1>11 DEF GuardInv

-----------------------------------------------------------------------------
\* A new guard knows no address.
LEMMA GuardInit == Init => GuardInv
<1> SUFFICES ASSUME Init PROVE GuardInv
    OBVIOUS
<1>1. /\ now = 0 /\ lastSweep = 0 /\ 0 \in Times
      /\ DOMAIN conns = {} /\ DOMAIN failures = {} /\ DOMAIN bans = {}
    BY GuardConstants DEF Init, NoMap, Times
<1>2. /\ pending = [a \in Addrs |-> 0] /\ lastBan = [a \in Addrs |-> NeverBan]
      /\ admitted = [a \in Addrs |-> <<>>] /\ failed = [a \in Addrs |-> <<>>]
    BY DEF Init
<1>3. NeverBan \in [at : Times, length : Nat] /\ NeverBan.at = 0
    BY <1>1 DEF NeverBan
<1>4. TypeOK
    BY <1>1, <1>2, <1>3, GuardConstants, EmptyList DEF TypeOK
<1>5. ClockInv
    BY <1>1, <1>2, <1>3 DEF ClockInv
<1>6. WindowInv
  <2>1. SUFFICES ASSUME NEW a \in Addrs
                 PROVE  /\ Past(Log(conns, a), now) /\ Past(admitted[a], now)
                        /\ ConnLimit > 0 => admitted[a] = Fresh(Log(conns, a), Period, now)
                                              /\ Len(admitted[a]) <= ConnLimit
      BY DEF WindowInv
  <2>2. Log(conns, a) = <<>> /\ admitted[a] = <<>>
      BY <1>1, <1>2 DEF Log
  <2>3. QED
      BY <1>1, <2>2, EmptyList, GuardConstants
<1>7. BurstInv
    BY <1>1, <1>2, EmptyList DEF BurstInv
<1>8. OffenceInv
    BY <1>2 DEF OffenceInv, Remembers
<1>9. QED
    BY <1>4, <1>5, <1>6, <1>7, <1>8 DEF GuardInv

\* Every operation of the guard keeps the invariant.
LEMMA GuardStep == GuardInv /\ [Next]_vars => GuardInv'
<1> SUFFICES ASSUME GuardInv, [Next]_vars PROVE GuardInv'
    OBVIOUS
<1>1. ASSUME NEW a \in Addrs, NEW full \in BOOLEAN, AllowConnection(a, full) PROVE GuardInv'
    BY <1>1, AllowStep
<1>2. ASSUME NEW a \in Addrs, RecordAuthFailure(a) PROVE GuardInv'
    BY <1>2, FailureStep
<1>3. ASSUME NEW a \in Addrs, RecordAuthSuccess(a) PROVE GuardInv'
  <2>1. pending' \in [Addrs -> 0 .. MaxPending]
      BY <1>3, PendingFalls DEF RecordAuthSuccess
  <2>2. QED
      BY <1>3, <2>1, ClearStep DEF RecordAuthSuccess
<1>4. ASSUME NEW a \in Addrs, GivesUp(a) PROVE GuardInv'
  <2>1. pending' \in [Addrs -> 0 .. MaxPending]
      BY <1>4, PendingFalls DEF GivesUp
  <2>2. UNCHANGED <<now, conns, failures, bans, lastSweep, admitted, failed, lastBan>>
      BY <1>4 DEF GivesUp, guardVars, historyVars
  <2>3. TypeOK'
      BY <2>1, <2>2 DEF GuardInv, TypeOK
  <2>4. ClockInv' /\ WindowInv' /\ BurstInv' /\ OffenceInv'
      BY <2>2 DEF GuardInv, ClockInv, WindowInv, BurstInv, OffenceInv, Remembers
  <2>5. QED
      BY <2>3, <2>4 DEF GuardInv
<1>5. ASSUME NEW a \in Addrs, Unban(a) PROVE GuardInv'
  <2>1. pending' \in [Addrs -> 0 .. MaxPending]
      BY <1>5 DEF Unban, GuardInv, TypeOK
  <2>2. QED
      BY <1>5, <2>1, ClearStep DEF Unban
<1>6. CASE Tick
    BY <1>6, TickStep
<1>7. CASE UNCHANGED vars
    BY <1>7 DEF vars, GuardInv, TypeOK, ClockInv, WindowInv, BurstInv, OffenceInv, Remembers
<1>8. QED
    BY <1>1, <1>2, <1>3, <1>4, <1>5, <1>6, <1>7 DEF Next

\* The guard's invariant holds in every behaviour.
LEMMA GuardInvariant == Spec => []GuardInv
BY GuardInit, GuardStep, PTL DEF Spec

\* The steps that ban an address: its record and the ban before the step.
LEMMA BanStep ==
    ASSUME GuardInv, [Next]_vars, NEW a \in Addrs,
           lastBan'[a] # lastBan[a], lastBan'[a] # NeverBan
    PROVE  /\ MaxFailures > 0 /\ TooMany(Counted(a))
           /\ lastBan'[a].length = BanLength(Counted(a).offences + 1)
<1>1. lastBan \in [Addrs -> [at : Times, length : Nat]]
    BY DEF GuardInv, TypeOK
<1>2. ASSUME NEW b \in Addrs, RecordAuthFailure(b)
      PROVE  /\ MaxFailures > 0 /\ TooMany(Counted(a))
             /\ lastBan'[a].length = BanLength(Counted(a).offences + 1)
  <2>1. MaxFailures # 0 /\ TooMany(Counted(b))
      BY <1>2 DEF RecordAuthFailure
  <2>2. lastBan' = [lastBan EXCEPT ![b] = [at |-> now, length |-> BanLength(Counted(b).offences + 1)]]
      BY <1>2, <2>1 DEF RecordAuthFailure
  <2>3. a = b
      BY <1>1, <2>2
  <2>4. QED
      BY <1>1, <2>1, <2>2, <2>3, GuardConstants
<1>3. ASSUME NEW b \in Addrs, Clear(b) PROVE FALSE
    BY <1>1, <1>3 DEF Clear
<1>4. CASE lastBan' = lastBan
    BY <1>4
<1>5. QED
    BY <1>2, <1>3, <1>4
       DEF Next, vars, AllowConnection, RecordAuthSuccess, GivesUp, Unban, Tick, historyVars

-----------------------------------------------------------------------------
\* The maps of the guard hold windows, records and bans of addresses, and a
\* record never reaches the limit that bans (RecordAuthFailure resets it).
THEOREM GuardTypeCorrect == Spec => []TypeOK
<1>1. GuardInv => TypeOK
    BY DEF GuardInv
<1>2. QED
    BY <1>1, GuardInvariant, PTL

\* For any limit, period and sweeps: no period sees more than ConnLimit
\* connections of an address (window.allow).
THEOREM ConnectionsAreLimited == Spec => []ConnectionsLimited
<1>1. GuardInv => ConnectionsLimited
    BY DEF ConnectionsLimited, GuardInv, WindowInv
<1>2. QED
    BY <1>1, GuardInvariant, PTL

\* For any threshold and window: no FailureWindow sees as many failures of an
\* address without a ban as two windows of RecordAuthFailure could hold.
THEOREM FailuresAreBounded == Spec => []FailuresBounded
<1>1. GuardInv => FailuresBounded
  <2>1. SUFFICES ASSUME GuardInv, NEW a \in Addrs, MaxFailures > 0
                 PROVE  Len(failed[a]) <= 2 * (MaxFailures - 1)
      BY DEF FailuresBounded
  <2>2. Len(failed[a]) \in Nat
      BY <2>1 DEF GuardInv, TypeOK
  <2>3. CASE a \notin DOMAIN failures
    <3>1. Len(failed[a]) = 0
        BY <2>1, <2>3, EmptyList DEF GuardInv, BurstInv
    <3>2. QED
        BY <2>1, <3>1, GuardConstants
  <2>4. CASE a \in DOMAIN failures
    <3>1. PICK k \in 0 .. Len(failed[a]) : Burst(failures[a], failed[a], now, k)
        BY <2>1, <2>4 DEF GuardInv, BurstInv
    <3>2. failures[a].count \in Nat /\ failures[a].count < MaxFailures
        BY <2>1, <2>4 DEF GuardInv, TypeOK, Record
    <3>3. k \in Nat /\ k < MaxFailures /\ Len(failed[a]) - k <= failures[a].count
        BY <2>2, <3>1 DEF Burst
    <3>4. QED
        BY <2>2, <3>2, <3>3, GuardConstants
  <2>5. QED
      BY <2>3, <2>4
<1>2. QED
    BY <1>1, GuardInvariant, PTL

\* A ban of RecordAuthFailure is preceded by MaxFailures failures within one
\* FailureWindow, for any limits.
THEOREM SlowFailuresAreNotBanned == Spec => BanNeedsBurst
<1>1. GuardInv /\ [Next]_vars =>
        [\A a \in Addrs : lastBan'[a] # lastBan[a] /\ lastBan'[a] # NeverBan
                             => Len(failed[a]) + 1 >= MaxFailures]_vars
  <2>1. SUFFICES ASSUME GuardInv, [Next]_vars, NEW a \in Addrs,
                        lastBan'[a] # lastBan[a], lastBan'[a] # NeverBan
                 PROVE  Len(failed[a]) + 1 >= MaxFailures
      OBVIOUS
  <2>2. MaxFailures > 0 /\ Counted(a).count >= MaxFailures
      BY <2>1, BanStep DEF TooMany
  <2>3. Len(failed[a]) \in Nat
      BY <2>1 DEF GuardInv, TypeOK
  <2>4. CASE a \in DOMAIN failures /\ now - failures[a].firstAt <= FailureWindow
    <3>1. PICK k \in 0 .. Len(failed[a]) : Burst(failures[a], failed[a], now, k)
        BY <2>1, <2>4 DEF GuardInv, BurstInv
    <3>2. k \in Nat /\ Len(failed[a]) - k = failures[a].count
        BY <2>3, <2>4, <3>1 DEF Burst
    <3>3. Counted(a).count = failures[a].count + 1
        BY <2>1, <2>4, CountedRecord
    <3>4. QED
        BY <2>2, <2>3, <3>2, <3>3, GuardConstants
  <2>5. CASE ~(a \in DOMAIN failures /\ now - failures[a].firstAt <= FailureWindow)
    <3>1. Counted(a).count = 1
        BY <2>1, <2>5, CountedRecord
    <3>2. QED
        BY <2>2, <2>3, <3>1, GuardConstants
  <2>6. QED
      BY <2>4, <2>5
<1>2. QED
    BY <1>1, GuardInvariant, PTL DEF Spec, BanNeedsBurst

\* The ban of an address that offends again within two FailureWindows is twice
\* the last one, up to MaxBan, for any limits, sweeps and connections under way.
THEOREM RepeatedBansDouble == Spec => EscalatesWithinMemory
<1>1. GuardInv /\ [Next]_vars =>
        [\A a \in Addrs :
           /\ lastBan'[a] # lastBan[a] /\ lastBan'[a] # NeverBan /\ lastBan[a] # NeverBan
           /\ now - lastBan[a].at <= 2 * FailureWindow
           => lastBan'[a].length = NextLength(lastBan[a].length)]_vars
  <2>1. SUFFICES ASSUME GuardInv, [Next]_vars, NEW a \in Addrs,
                        lastBan'[a] # lastBan[a], lastBan'[a] # NeverBan, lastBan[a] # NeverBan,
                        now - lastBan[a].at <= 2 * FailureWindow
                 PROVE  lastBan'[a].length = NextLength(lastBan[a].length)
      OBVIOUS
  <2>2. lastBan'[a].length = BanLength(Counted(a).offences + 1)
      BY <2>1, BanStep
  <2>3. /\ a \in DOMAIN failures /\ failures[a].offences > 0
        /\ lastBan[a].length = BanLength(failures[a].offences)
      BY <2>1 DEF GuardInv, OffenceInv, Remembers
  <2>4. failures[a].offences \in Nat \ {0} /\ Counted(a).offences = failures[a].offences
      BY <2>1, <2>3, CountedRecord DEF GuardInv, TypeOK, Record
  <2>5. QED
      BY <2>2, <2>3, <2>4, BanDoubles
<1>2. QED
    BY <1>1, GuardInvariant, PTL DEF Spec, EscalatesWithinMemory

-----------------------------------------------------------------------------
(* The roster.                                                             *)

\* What an operation makes of a map it applies to is a map.
LEMMA EffectType ==
    ASSUME NEW c \in Call, NEW m \in Map, Possible(c, m)
    PROVE  Effect(c, m) \in Map
<1>1. c.kind \in Kinds /\ c.key \in Keys /\ c.name \in Names /\ c.token \in Nat
    BY DEF Call
<1>2. m[c.key] \in Entry \cup {None}
    BY <1>1 DEF Map
<1>3. Changed(c, m[c.key]) \in Entry \cup {None}
  <2>1. CASE c.kind = "add"
      BY <1>1, <2>1 DEF Changed, Entry
  <2>2. CASE c.kind = "remove"
      BY <2>2 DEF Changed
  <2>3. CASE c.kind \notin {"add", "remove"}
    <3>1. c.kind # "read" /\ m[c.key] \in Entry
        BY <1>2, <2>3 DEF Possible
    <3>2. QED
        BY <1>1, <2>3, <3>1 DEF Changed, Entry, Kinds
  <2>4. QED
      BY <2>1, <2>2, <2>3
<1>4. QED
    BY <1>1, <1>3 DEF Effect, Map

\* The roster without entries is a roster.
LEMMA EmptyType == Empty \in Map
BY DEF Empty, Map

\* The types hold initially and every step keeps them.
LEMMA TypeInvariant == RosterSpec => []RosterTypeOK
<1>1. RosterInit => RosterTypeOK
    BY EmptyType DEF RosterInit, RosterTypeOK
<1>2. RosterTypeOK /\ [RosterNext]_rosterVars => RosterTypeOK'
  <2> SUFFICES ASSUME RosterTypeOK, [RosterNext]_rosterVars PROVE RosterTypeOK'
      OBVIOUS
  <2> USE DEF RosterTypeOK
  <2>1. ASSUME NEW p \in Procs, Start(p) PROVE RosterTypeOK'
    <3>1. calm' \in BOOLEAN
        BY <2>1 DEF Start
    <3>2. QED
        BY <2>1, <3>1 DEF Start
  <2>2. ASSUME NEW p \in Procs, Open(p) PROVE RosterTypeOK'
      BY <2>2 DEF Open
  <2>3. ASSUME NEW p \in Procs, NEW c \in Calls, Begin(p, c) PROVE RosterTypeOK'
    <3>1. c \in Call
        BY DEF Calls, Call
    <3>2. calm' \in BOOLEAN
        BY <2>3 DEF Begin
    <3>3. QED
        BY <2>3, <3>1, <3>2 DEF Begin
  <2>4. ASSUME NEW p \in Procs, Load(p) PROVE RosterTypeOK'
      BY <2>4 DEF Load
  <2>5. ASSUME NEW p \in Procs, LoadFails(p) PROVE RosterTypeOK'
      BY <2>5 DEF LoadFails
  <2>6. ASSUME NEW p \in Procs, Apply(p) PROVE RosterTypeOK'
    <3>1. CASE Possible(call[p], entries[p])
      <4>1. Effect(call[p], entries[p]) \in Map
          BY <2>6, <3>1, EffectType DEF Apply
      <4>2. QED
          BY <2>6, <3>1, <4>1 DEF Apply
    <3>2. CASE ~Possible(call[p], entries[p])
        BY <2>6, <3>2 DEF Apply, Return
    <3>3. QED
        BY <3>1, <3>2
  <2>7. ASSUME NEW p \in Procs, Commit(p) PROVE RosterTypeOK'
    <3>1. call[p] \in Call
        BY <2>7 DEF Commit
    <3>2. truth' \in Map
        BY <2>7, <3>1, EffectType DEF Commit
    <3>3. QED
        BY <2>7, <3>1, <3>2 DEF Commit
  <2>8. ASSUME NEW p \in Procs, SaveFails(p) PROVE RosterTypeOK'
    <3>1. calm' \in BOOLEAN
        BY <2>8 DEF SaveFails
    <3>2. QED
        BY <2>8, <3>1 DEF SaveFails, Return
  <2>9. ASSUME NEW p \in Procs, Restat(p) PROVE RosterTypeOK'
    <3>1. granted' \in SUBSET Keys
        BY <2>9 DEF Restat, Call
    <3>2. QED
        BY <2>9, <3>1 DEF Restat, Return
  <2>10. ASSUME NEW p \in Procs, Stop(p) PROVE RosterTypeOK'
      BY <2>10, EmptyType DEF Stop
  <2>11. ASSUME NEW p \in Procs, Create(p) PROVE RosterTypeOK'
      BY <2>11 DEF Create
  <2>12. ASSUME NEW p \in Procs, Created(p) PROVE RosterTypeOK'
      BY <2>12 DEF Created
  <2>13. CASE UNCHANGED rosterVars
      BY <2>13 DEF rosterVars
  <2>14. QED
      BY <2>1, <2>2, <2>3, <2>4, <2>5, <2>6, <2>7, <2>8, <2>9, <2>10, <2>11, <2>12,
         <2>13 DEF RosterNext
<1>3. QED
    BY <1>1, <1>2, PTL DEF RosterSpec

\* Times stay in the past.
LEMMA TimesStep == RosterTypeOK /\ TimesArePast /\ [RosterNext]_rosterVars => TimesArePast'
<1> SUFFICES ASSUME RosterTypeOK, TimesArePast, [RosterNext]_rosterVars PROVE TimesArePast'
    OBVIOUS
<1> USE DEF RosterTypeOK, TimesArePast
<1>1. CASE UNCHANGED <<mtime, loaded, stat>>
    BY <1>1
<1>2. ASSUME NEW p \in Procs, Start(p) \/ Open(p) \/ Load(p) \/ Restat(p) \/ Created(p)
      PROVE  TimesArePast'
    BY <1>2 DEF Start, Open, Load, Restat, Created
<1>3. ASSUME NEW p \in Procs, NEW c \in Calls, Begin(p, c) PROVE TimesArePast'
    BY <1>3 DEF Begin
<1>4. ASSUME NEW p \in Procs, Commit(p) \/ Create(p) PROVE TimesArePast'
    BY <1>4 DEF Commit, Create
<1>5. ASSUME NEW p \in Procs, Stop(p) PROVE TimesArePast'
    BY <1>5 DEF Stop
<1>6. QED
    BY <1>1, <1>2, <1>3, <1>4, <1>5 DEF RosterNext, LoadFails, Apply, SaveFails, rosterVars

\* The inductive invariant: the file is the truth, caches are coherent and the
\* one writer stands where WriterInv says.
SharedInv == NoLostUpdate /\ CacheCoherent /\ WriterInv

\* Every step of every process keeps what file and memories have in common.
LEMMA SharedStep ==
    RosterTypeOK /\ TimesArePast /\ SharedInv /\ [RosterNext]_rosterVars => SharedInv'
<1> SUFFICES ASSUME RosterTypeOK, TimesArePast, SharedInv, [RosterNext]_rosterVars PROVE SharedInv'
    OBVIOUS
<1> USE DEF RosterTypeOK, TimesArePast, SharedInv, NoLostUpdate, CacheCoherent, WriterInv, Writing
<1>1. ASSUME NEW p \in Procs, Start(p) PROVE SharedInv'
  <2>1. calm' => calm /\ (mtime = 0 => \A q \in Procs : ~Writing(q))
      BY <1>1 DEF Start
  <2>2. NoLostUpdate' /\ CacheCoherent'
      BY <1>1, <2>1 DEF Start
  <2>3. WriterInv'
    <3>1. CASE mtime = 0
        BY <1>1, <2>1, <3>1 DEF Start
    <3>2. CASE mtime # 0
        BY <1>1, <2>1, <3>2 DEF Start
    <3>3. QED
        BY <3>1, <3>2
  <2>4. QED
      BY <2>2, <2>3
<1>2. ASSUME NEW p \in Procs, Open(p) PROVE SharedInv'
    BY <1>2 DEF Open
<1>3. ASSUME NEW p \in Procs, NEW c \in Calls, Begin(p, c) PROVE SharedInv'
  <2>1. c \in Call
      BY DEF Calls, Call
  <2>2. /\ pc[p] = "idle" /\ call' = [call EXCEPT ![p] = c]
        /\ UNCHANGED <<file, mtime, entries, loaded, undo, truth>>
      BY <1>3 DEF Begin
  <2>3. calm' => calm /\ (c.kind = "read" \/ \A q \in Procs : ~Writing(q))
      BY <1>3 DEF Begin
  <2>4. \/ mtime = loaded[p] /\ pc' = [pc EXCEPT ![p] = "apply"]
        \/ pc' = [pc EXCEPT ![p] = "load"]
      BY <1>3 DEF Begin
  <2>5. NoLostUpdate' /\ CacheCoherent'
      BY <2>2, <2>3, <2>4
  <2>6. ASSUME calm', NEW q \in Procs, Writing(q)' PROVE q = p \/ (Writing(q) /\ q # p)
      BY <2>2, <2>4, <2>6
  <2>7. WriterInv'
    <3>1. CASE c.kind = "read"
        BY <2>1, <2>2, <2>3, <2>4, <3>1
    <3>2. CASE c.kind # "read"
        BY <2>1, <2>2, <2>3, <2>4, <2>6, <3>2
    <3>3. QED
        BY <3>1, <3>2
  <2>8. QED
      BY <2>5, <2>7
<1>4. ASSUME NEW p \in Procs, Load(p) PROVE SharedInv'
    BY <1>4 DEF Load
<1>5. ASSUME NEW p \in Procs, LoadFails(p) PROVE SharedInv'
    BY <1>5 DEF LoadFails
<1>6. ASSUME NEW p \in Procs, Apply(p) PROVE SharedInv'
  <2>1. CASE Possible(call[p], entries[p])
    <3>1. call[p].kind # "read"
        BY <2>1 DEF Possible
    <3>2. QED
        BY <1>6, <2>1, <3>1 DEF Apply
  <2>2. CASE ~Possible(call[p], entries[p])
      BY <1>6, <2>2 DEF Apply, Return
  <2>3. QED
      BY <2>1, <2>2
<1>7. ASSUME NEW p \in Procs, Commit(p) PROVE SharedInv'
  <2>1. Writing(p) /\ Writing(p)'
      BY <1>7 DEF Commit
  <2>2. NoLostUpdate'
      BY <1>7, <2>1 DEF Commit
  <2>3. CacheCoherent'
      BY <1>7 DEF Commit
  <2>4. WriterInv'
      BY <1>7, <2>1 DEF Commit
  <2>5. QED
      BY <2>2, <2>3, <2>4
<1>8. ASSUME NEW p \in Procs, SaveFails(p) PROVE SharedInv'
  <2>1. /\ UNCHANGED <<file, mtime, loaded, truth>> /\ pc[p] = "save"
        /\ pc' = [pc EXCEPT ![p] = "idle"]
        /\ call' = [call EXCEPT ![p] = None] /\ undo' = [undo EXCEPT ![p] = None]
        /\ calm' = (calm /\ RollsBack(call[p]))
        /\ entries' = IF RollsBack(call[p]) THEN [entries EXCEPT ![p] = undo[p]] ELSE entries
      BY <1>8 DEF SaveFails, Return
  <2>2. pc'[p] = "idle" /\ (calm' => calm /\ entries'[p] = undo[p] /\ undo[p] = file)
      BY <2>1
  <2>3. \A q \in Procs \ {p} : pc'[q] = pc[q] /\ call'[q] = call[q] /\ undo'[q] = undo[q]
                                 /\ entries'[q] = entries[q]
      BY <2>1
  <2>4. NoLostUpdate' /\ CacheCoherent'
      BY <2>1, <2>2, <2>3
  <2>5. WriterInv'
    <3>1. /\ \A q \in Procs : pc'[q] \in {"save", "restat"} => call'[q].kind # "read"
          /\ \A q \in Procs : pc'[q] \in {"down", "create"} => entries'[q] = Empty
          /\ mtime' = 0 => file' = Empty
        BY <2>1, <2>2, <2>3
    <3>2. ASSUME calm', NEW q \in Procs, Writing(q)'
          PROVE  q # p /\ calm /\ Writing(q) /\ Writing(p)
        BY <2>1, <2>2, <2>3, <3>2
    <3>3. calm' => \A q \in Procs : ~Writing(q)'
        BY <3>2
    <3>4. QED
        BY <3>1, <3>3
  <2>6. QED
      BY <2>4, <2>5
<1>9. ASSUME NEW p \in Procs, Restat(p) PROVE SharedInv'
    BY <1>9 DEF Restat, Return
<1>10. ASSUME NEW p \in Procs, Stop(p) PROVE SharedInv'
    BY <1>10 DEF Stop
<1>11. ASSUME NEW p \in Procs, Create(p) PROVE SharedInv'
  <2>1. Writing(p) /\ Writing(p)'
      BY <1>11 DEF Create
  <2>2. NoLostUpdate' /\ CacheCoherent'
      BY <1>11, <2>1 DEF Create
  <2>3. WriterInv'
      BY <1>11, <2>1 DEF Create
  <2>4. QED
      BY <2>2, <2>3
<1>12. ASSUME NEW p \in Procs, Created(p) PROVE SharedInv'
    BY <1>12 DEF Created
<1>13. CASE UNCHANGED rosterVars
    BY <1>13 DEF rosterVars
<1>14. QED
    BY <1>1, <1>2, <1>3, <1>4, <1>5, <1>6, <1>7, <1>8, <1>9, <1>10, <1>11, <1>12, <1>13
       DEF RosterNext

\* Types, past modification times and SharedInv hold in every behaviour.
LEMMA SharedInvariant == RosterSpec => [](RosterTypeOK /\ TimesArePast /\ SharedInv)
<1>1. RosterInit => TimesArePast /\ SharedInv
    BY DEF RosterInit, TimesArePast, SharedInv, NoLostUpdate, CacheCoherent, WriterInv, Writing
<1>2. QED
    BY <1>1, TypeInvariant, TimesStep, SharedStep, PTL DEF RosterSpec

-----------------------------------------------------------------------------
\* Whatever hub and command line do, the roster file and the entries each
\* process holds are maps from server keys to entries, and an operation that
\* may have to undo its change has what it replaced.
THEOREM RosterTypeCorrect == RosterSpec => []RosterTypeOK
BY TypeInvariant

\* No update to the roster is lost as long as no two writing operations
\* overlap, for any number of processes, crashes and failed saves.
THEOREM UpdatesAreKept == RosterSpec => []NoLostUpdate
<1>1. SharedInv => NoLostUpdate
    BY DEF SharedInv
<1>2. QED
    BY <1>1, SharedInvariant, PTL

\* An unchanged modification time means an unchanged roster.
THEOREM SkippingReloadIsRight == RosterSpec => []CacheCoherent
<1>1. SharedInv => CacheCoherent
    BY DEF SharedInv
<1>2. QED
    BY <1>1, SharedInvariant, PTL

\* The checks of Add, Rotate, Remove, SetEnabled and Rename are made on the
\* roster all saved operations amount to.
THEOREM ChecksSeeEveryUpdate == RosterSpec => []ChecksAreCurrent
<1>1. RosterTypeOK /\ SharedInv => ChecksAreCurrent
    BY DEF RosterTypeOK, SharedInv, NoLostUpdate, WriterInv, Writing, ChecksAreCurrent
<1>2. QED
    BY <1>1, SharedInvariant, PTL
=============================================================================
