---------------------------- MODULE Filters_proofs ----------------------------
(***************************************************************************)
(* What a filter returns, for every sequence.  The proof goes by induction *)
(* on the length, as: no least number is a counterexample.                 *)
(***************************************************************************)
EXTENDS Filters, FiniteSetTheorems, WellFoundedInduction, TLAPS

\* The least element of a set of natural numbers: the finite sets 0 .. n have a
\* minimal one among those with n in T.
LEMMA Least ==
  ASSUME NEW T \in SUBSET Nat, T # {}
  PROVE  \E n \in T : \A m \in T : n <= m
<1> DEFINE Below == {0 .. n : n \in T}
<1>1. Below \subseteq FiniteSubsetsOf(Nat)
  <2>1. ASSUME NEW n \in T PROVE 0 .. n \in FiniteSubsetsOf(Nat)
    <3>1. IsFiniteSet(0 .. n)
      BY FS_Interval
    <3>2. QED BY <3>1 DEF FiniteSubsetsOf
  <2>2. QED BY <2>1
<1>2. Below # {}
  OBVIOUS
<1>3. PICK B \in Below : \A C \in Below : ~ (<<C, B>> \in StrictSubsetOrdering(Nat))
  <2> HIDE DEF Below
  <2>1. QED BY <1>1, <1>2, FS_StrictSubsetOrderingWellFounded, WFMin
<1>4. PICK n \in T : B = 0 .. n
  OBVIOUS
<1>5. ASSUME NEW m \in T, m < n PROVE FALSE
  <2>1. /\ 0 .. m \in Below
        /\ 0 .. m \subseteq 0 .. n
        /\ 0 .. m \subseteq Nat /\ 0 .. n \subseteq Nat
    BY <1>5
  <2>2. n \in 0 .. n /\ n \notin 0 .. m
    BY <1>5
  <2>3. <<0 .. m, 0 .. n>> \in StrictSubsetOrdering(Nat)
    BY <2>1, <2>2 DEF StrictSubsetOrdering
  <2>4. QED BY <1>3, <1>4, <2>1, <2>3
<1>6. QED BY <1>5

IsFilter(f, s, gone, n) ==
  f = [i \in 0 .. n |-> IF i = 0 THEN <<>>
                 ELSE IF s[i] \in gone THEN f[i - 1] ELSE Append(f[i - 1], s[i])]

LEMMA FilterExists ==
  ASSUME NEW s, NEW gone, NEW n \in Nat
  PROVE  \E f : IsFilter(f, s, gone, n)
<1> DEFINE T == {m \in Nat : ~ \E f : IsFilter(f, s, gone, m)}
<1>1. SUFFICES ASSUME T # {} PROVE FALSE
  OBVIOUS
<1>2. PICK m \in T : \A k \in T : m <= k
  <2> HIDE DEF T
  <2>1. T \in SUBSET Nat BY DEF T
  <2>2. QED BY <1>1, <2>1, Least
<1>3. CASE m = 0
  <2> DEFINE f == [i \in 0 .. 0 |-> <<>>]
  <2>1. IsFilter(f, s, gone, 0)
    BY DEF IsFilter
  <2>2. QED BY <2>1, <1>3, <1>2
<1>4. CASE m > 0
  <2>1. m - 1 \in Nat /\ m - 1 \notin T
    BY <1>2, <1>4
  <2>2. PICK f : IsFilter(f, s, gone, m - 1)
    BY <2>1
  <2> DEFINE e == IF s[m] \in gone THEN f[m - 1] ELSE Append(f[m - 1], s[m])
             g == [i \in 0 .. m |-> IF i = m THEN e ELSE f[i]]
  <2>3. \A i \in 0 .. m : g[i] = IF i = 0 THEN <<>>
                 ELSE IF s[i] \in gone THEN g[i - 1] ELSE Append(g[i - 1], s[i])
    <3> TAKE i \in 0 .. m
    <3>1. \A j \in 0 .. m - 1 : f[j] = IF j = 0 THEN <<>>
                 ELSE IF s[j] \in gone THEN f[j - 1] ELSE Append(f[j - 1], s[j])
      BY <2>1, <2>2 DEF IsFilter
    <3>2. CASE i = m
      <4>1. g[m] = e /\ g[m - 1] = f[m - 1]
        BY <1>4
      <4>2. QED BY <4>1, <3>2, <1>4
    <3>3. CASE i # m
      <4>1. i \in 0 .. m - 1
        BY <3>3, <1>2
      <4>2. g[i] = f[i] /\ (i # 0 => g[i - 1] = f[i - 1])
        BY <4>1, <3>3, <1>2
      <4>3. QED BY <4>1, <4>2, <3>1
    <3>4. QED BY <3>2, <3>3
  <2>4. IsFilter(g, s, gone, m)
    <3> HIDE DEF e
    <3>1. g = [i \in 0 .. m |-> g[i]] OBVIOUS
    <3> HIDE DEF g
    <3>2. QED BY <2>3, <3>1 DEF IsFilter
  <2>5. QED BY <2>4, <1>2
<1>5. QED BY <1>2, <1>3, <1>4

Elements(s) == {s[i] : i \in DOMAIN s}
Firsts(s, i) == {s[j] : j \in 1 .. i}

\* What the function in Without is: the elements kept of every prefix.
LEMMA FilterOfPrefixes ==
  ASSUME NEW S, NEW s \in Seq(S), NEW gone, NEW f, IsFilter(f, s, gone, Len(s))
  PROVE  \A i \in 0 .. Len(s) :
           f[i] \in Seq(S) /\ Elements(f[i]) = Firsts(s, i) \ gone
<1> DEFINE Right(i) == f[i] \in Seq(S) /\ Elements(f[i]) = Firsts(s, i) \ gone
           T == {i \in 0 .. Len(s) : ~ Right(i)}
<1>1. SUFFICES ASSUME T # {} PROVE FALSE
  OBVIOUS
<1>2. PICK m \in T : \A k \in T : m <= k
  <2> HIDE DEF T
  <2>1. T \in SUBSET Nat BY DEF T
  <2>2. QED BY <1>1, <2>1, Least
<1>3. /\ m \in 0 .. Len(s)
      /\ f[m] = IF m = 0 THEN <<>>
                ELSE IF s[m] \in gone THEN f[m - 1] ELSE Append(f[m - 1], s[m])
  BY DEF IsFilter
<1>4. m # 0
  <2>1. ASSUME m = 0 PROVE Right(m)
    BY <2>1, <1>3 DEF Elements, Firsts
  <2>2. QED BY <2>1
<1>5. m - 1 \in 0 .. Len(s) /\ Right(m - 1)
  BY <1>2, <1>3, <1>4
<1>6. s[m] \in S /\ Firsts(s, m) = Firsts(s, m - 1) \union {s[m]}
  BY <1>3, <1>4 DEF Firsts
<1>7. CASE s[m] \in gone
  BY <1>3, <1>4, <1>5, <1>6, <1>7
<1>8. CASE s[m] \notin gone
  <2> DEFINE g == f[m - 1]
  <2>1. f[m] = Append(g, s[m]) /\ g \in Seq(S)
    BY <1>3, <1>4, <1>5, <1>8
  <2> HIDE DEF g
  <2>2. Elements(Append(g, s[m])) = Elements(g) \union {s[m]}
    <3>1. /\ DOMAIN g = 1 .. Len(g) /\ DOMAIN Append(g, s[m]) = 1 .. Len(g) + 1
          /\ Append(g, s[m])[Len(g) + 1] = s[m]
          /\ \A j \in 1 .. Len(g) : Append(g, s[m])[j] = g[j]
      BY <2>1, <1>6
    <3>2. QED BY <3>1, <2>1 DEF Elements
  <2>3. Right(m)
    BY <1>5, <1>6, <1>8, <2>1, <2>2 DEF g
  <2>4. QED BY <2>3
<1>9. QED BY <1>7, <1>8

(***************************************************************************)
(* The filter of a sequence has the elements of that sequence that are not *)
(* to go, and no others.                                                   *)
(***************************************************************************)
THEOREM WithoutElements ==
  ASSUME NEW S, NEW s \in Seq(S), NEW gone
  PROVE  /\ Without(s, gone) \in Seq(S)
         /\ Elements(Without(s, gone)) = Elements(s) \ gone
<1> DEFINE f == CHOOSE g : IsFilter(g, s, gone, Len(s))
<1>1. IsFilter(f, s, gone, Len(s))
  <2>1. Len(s) \in Nat
    OBVIOUS
  <2>2. \E g : IsFilter(g, s, gone, Len(s))
    BY <2>1, FilterExists
  <2>3. QED BY <2>2
<1>2. Without(s, gone) = f[Len(s)]
  BY DEF Without, IsFilter
<1> HIDE DEF f
<1>3. Len(s) \in 0 .. Len(s) /\ Elements(s) = Firsts(s, Len(s))
  BY DEF Elements, Firsts
<1>4. f[Len(s)] \in Seq(S) /\ Elements(f[Len(s)]) = Firsts(s, Len(s)) \ gone
  BY <1>1, <1>3, FilterOfPrefixes
<1>5. QED BY <1>2, <1>3, <1>4

------------------------------------------------------------------------------
(* What FlattenSeq (SequencesExt) joins, for every sequence of sequences   *)

IsFlat(f, seqs, n) == f = [i \in 1 .. n |-> IF i = 1 THEN seqs[i] ELSE f[i - 1] \o seqs[i]]
Flat(seqs) == IF Len(seqs) = 0 THEN seqs ELSE (CHOOSE f : IsFlat(f, seqs, Len(seqs)))[Len(seqs)]

LEMMA FlatExists ==
  ASSUME NEW seqs, NEW n \in Nat
  PROVE  \E f : IsFlat(f, seqs, n)
<1> DEFINE T == {m \in Nat : ~ \E f : IsFlat(f, seqs, m)}
<1>1. SUFFICES ASSUME T # {} PROVE FALSE
  OBVIOUS
<1>2. PICK m \in T : \A k \in T : m <= k
  <2> HIDE DEF T
  <2>1. T \in SUBSET Nat BY DEF T
  <2>2. QED BY <1>1, <2>1, Least
<1>3. CASE m = 0
  <2> DEFINE f == [i \in 1 .. 0 |-> <<>>]
  <2>1. IsFlat(f, seqs, 0)
    BY DEF IsFlat
  <2>2. QED BY <2>1, <1>3, <1>2
<1>4. CASE m > 0
  <2>1. m - 1 \in Nat /\ m - 1 \notin T
    BY <1>2, <1>4
  <2>2. PICK f : IsFlat(f, seqs, m - 1)
    BY <2>1
  <2> DEFINE e == IF m = 1 THEN seqs[m] ELSE f[m - 1] \o seqs[m]
             g == [i \in 1 .. m |-> IF i = m THEN e ELSE f[i]]
  <2>3. \A i \in 1 .. m : g[i] = IF i = 1 THEN seqs[i] ELSE g[i - 1] \o seqs[i]
    <3> TAKE i \in 1 .. m
    <3>1. \A j \in 1 .. m - 1 : f[j] = IF j = 1 THEN seqs[j] ELSE f[j - 1] \o seqs[j]
      BY <2>1, <2>2 DEF IsFlat
    <3>2. CASE i = m
      <4>1. g[m] = e /\ (m # 1 => g[m - 1] = f[m - 1])
        BY <1>4
      <4>2. QED BY <4>1, <3>2, <1>4
    <3>3. CASE i # m
      <4>1. i \in 1 .. m - 1
        BY <3>3, <1>2
      <4>2. g[i] = f[i] /\ (i # 1 => g[i - 1] = f[i - 1])
        BY <4>1, <3>3, <1>2
      <4>3. QED BY <4>1, <4>2, <3>1
    <3>4. QED BY <3>2, <3>3
  <2>4. IsFlat(g, seqs, m)
    <3> HIDE DEF e
    <3>1. g = [i \in 1 .. m |-> g[i]] OBVIOUS
    <3> HIDE DEF g
    <3>2. QED BY <2>3, <3>1 DEF IsFlat
  <2>5. QED BY <2>4, <1>2
<1>5. QED BY <1>2, <1>3, <1>4

LEMMA JoinedElements ==
  ASSUME NEW S, NEW s \in Seq(S), NEW t \in Seq(S)
  PROVE  s \o t \in Seq(S) /\ Elements(s \o t) = Elements(s) \union Elements(t)
<1>1. /\ s \o t \in Seq(S) /\ Len(s \o t) = Len(s) + Len(t)
      /\ \A i \in 1 .. Len(s) : (s \o t)[i] = s[i]
      /\ \A i \in 1 .. Len(t) : (s \o t)[Len(s) + i] = t[i]
      /\ DOMAIN s = 1 .. Len(s) /\ DOMAIN t = 1 .. Len(t) /\ DOMAIN (s \o t) = 1 .. Len(s) + Len(t)
  OBVIOUS
<1>2. ASSUME NEW i \in DOMAIN (s \o t) PROVE (s \o t)[i] \in Elements(s) \union Elements(t)
  <2>1. CASE i <= Len(s)
    BY <1>1, <2>1 DEF Elements
  <2>2. CASE i > Len(s)
    <3>1. i - Len(s) \in 1 .. Len(t) /\ Len(s) + (i - Len(s)) = i
      BY <1>1, <2>2
    <3>2. QED BY <1>1, <3>1 DEF Elements
  <2>3. QED BY <1>1, <2>1, <2>2
<1>3. \A i \in DOMAIN s : s[i] \in Elements(s \o t)
  BY <1>1 DEF Elements
<1>4. \A i \in DOMAIN t : t[i] \in Elements(s \o t)
  <2>1. ASSUME NEW i \in DOMAIN t PROVE Len(s) + i \in DOMAIN (s \o t) /\ (s \o t)[Len(s) + i] = t[i]
    BY <1>1
  <2>2. QED BY <2>1 DEF Elements
<1>5. Elements(s \o t) = Elements(s) \union Elements(t)
  BY <1>2, <1>3, <1>4 DEF Elements
<1>6. QED BY <1>1, <1>5

LEMMA FlatOfPrefixes ==
  ASSUME NEW S, NEW seqs \in Seq(Seq(S)), NEW f, IsFlat(f, seqs, Len(seqs))
  PROVE  \A i \in 1 .. Len(seqs) :
           f[i] \in Seq(S) /\ Elements(f[i]) = UNION {Elements(seqs[j]) : j \in 1 .. i}
<1> DEFINE Right(i) == f[i] \in Seq(S) /\ Elements(f[i]) = UNION {Elements(seqs[j]) : j \in 1 .. i}
           T == {i \in 1 .. Len(seqs) : ~ Right(i)}
<1>1. SUFFICES ASSUME T # {} PROVE FALSE
  OBVIOUS
<1>2. PICK m \in T : \A k \in T : m <= k
  <2> HIDE DEF T
  <2>1. T \in SUBSET Nat BY DEF T
  <2>2. QED BY <1>1, <2>1, Least
<1>3. /\ m \in 1 .. Len(seqs) /\ Len(seqs) \in Nat
      /\ f[m] = IF m = 1 THEN seqs[m] ELSE f[m - 1] \o seqs[m]
      /\ seqs[m] \in Seq(S)
  <2>1. m \in 1 .. Len(seqs)
    BY <1>2
  <2>2. Len(seqs) \in Nat /\ DOMAIN seqs = 1 .. Len(seqs) /\ \A i \in DOMAIN seqs : seqs[i] \in Seq(S)
    <3> DEFINE Q == Seq(S)
    <3>1. seqs \in Seq(Q)
      OBVIOUS
    <3> HIDE DEF Q
    <3>2. Len(seqs) \in Nat /\ DOMAIN seqs = 1 .. Len(seqs) /\ \A i \in DOMAIN seqs : seqs[i] \in Q
      BY <3>1
    <3>3. QED BY <3>2 DEF Q
  <2> HIDE DEF T
  <2>3. f[m] = IF m = 1 THEN seqs[m] ELSE f[m - 1] \o seqs[m]
    BY <2>1 DEF IsFlat
  <2>4. QED BY <2>1, <2>2, <2>3
<1>4. CASE m = 1
  <2>1. 1 .. m = {1}
    BY <1>4
  <2>2. {Elements(seqs[j]) : j \in 1 .. m} = {Elements(seqs[m])}
    BY <1>4, <2>1
  <2>3. Right(m)
    BY <1>3, <1>4, <2>2
  <2>4. QED BY <1>2, <2>3
<1>5. CASE m # 1
  <2>1. m - 1 \in 1 .. Len(seqs) /\ m - 1 \notin T
    <3> HIDE DEF T
    <3>1. m - 1 \in 1 .. Len(seqs)
      BY <1>3, <1>5
    <3>2. QED BY <1>2, <1>3, <3>1
  <2>2. Right(m - 1)
    BY <2>1
  <2>3. 1 .. m = (1 .. m - 1) \union {m}
    BY <1>3, <1>5
  <2>4. f[m] \in Seq(S) /\ Elements(f[m]) = Elements(f[m - 1]) \union Elements(seqs[m])
    BY <1>3, <1>5, <2>2, JoinedElements
  <2>5. UNION {Elements(seqs[j]) : j \in 1 .. m}
          = (UNION {Elements(seqs[j]) : j \in 1 .. m - 1}) \union Elements(seqs[m])
    BY <2>3
  <2>6. Right(m)
    BY <2>2, <2>4, <2>5
  <2>7. QED BY <1>2, <2>6
<1>6. QED BY <1>4, <1>5

LEMMA FlatElements ==
  ASSUME NEW S, NEW seqs \in Seq(Seq(S))
  PROVE  /\ Flat(seqs) \in Seq(S)
         /\ Elements(Flat(seqs)) = UNION {Elements(seqs[i]) : i \in DOMAIN seqs}
<1>1. CASE Len(seqs) = 0
  <2>1. Flat(seqs) = <<>> /\ seqs = <<>> /\ DOMAIN seqs = {}
    BY <1>1 DEF Flat
  <2>2. Elements(<<>>) = {}
    BY DEF Elements
  <2>3. QED BY <2>1, <2>2
<1>2. CASE Len(seqs) # 0
  <2> DEFINE f == CHOOSE g : IsFlat(g, seqs, Len(seqs))
  <2>1. IsFlat(f, seqs, Len(seqs))
    <3>1. Len(seqs) \in Nat
      OBVIOUS
    <3>2. \E g : IsFlat(g, seqs, Len(seqs))
      BY <3>1, FlatExists
    <3>3. QED BY <3>2
  <2>2. Flat(seqs) = f[Len(seqs)]
    BY <1>2 DEF Flat
  <2> HIDE DEF f
  <2>3. Len(seqs) \in 1 .. Len(seqs) /\ DOMAIN seqs = 1 .. Len(seqs)
    BY <1>2
  <2>4. /\ f[Len(seqs)] \in Seq(S)
        /\ Elements(f[Len(seqs)]) = UNION {Elements(seqs[j]) : j \in 1 .. Len(seqs)}
    <3>1. \A i \in 1 .. Len(seqs) : f[i] \in Seq(S) /\ Elements(f[i]) = UNION {Elements(seqs[j]) : j \in 1 .. i}
      BY Zenon, <2>1, FlatOfPrefixes, ZenonT(40)
    <3>2. QED BY Zenon, <2>3, <3>1
  <2>5. QED BY <2>2, <2>3, <2>4
<1>3. QED BY <1>1, <1>2

==============================================================================
