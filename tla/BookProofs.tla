------------------------------- MODULE BookProofs -------------------------------
(***************************************************************************)
(* Proofs about Book, for any entries, ids, browsers and imported books.   *)
(***************************************************************************)
EXTENDS Book, SequenceTheorems, FiniteSetTheorems, NaturalsInduction, TLAPS

-------------------------------------------------------------------------------
(* Lists of children.                                                      *)

LEMMA ToSetFacts ==
    ASSUME NEW S, NEW s \in Seq(S)
    PROVE  /\ Len(s) \in Nat /\ DOMAIN s = 1..Len(s)
           /\ ToSet(s) \subseteq S
           /\ \A y : y \in ToSet(s) <=> \E i \in 1..Len(s) : s[i] = y
           /\ IsInjective(s) <=> \A i, j \in 1..Len(s) : s[i] = s[j] => i = j
BY LenProperties DEF ToSet, IsInjective

LEMMA EmptyFacts == ToSet(<<>>) = {} /\ IsInjective(<<>>)
<1>1. <<>> \in Seq({}) /\ Len(<<>>) = 0
  BY EmptySeq
<1>2. 1..0 = {}
  OBVIOUS
<1>3. DOMAIN <<>> = {}
  BY <1>1, <1>2, LenProperties
<1> QED BY <1>3 DEF ToSet, IsInjective

LEMMA AppendFacts ==
    ASSUME NEW S, NEW s \in Seq(S), NEW e \in S
    PROVE  /\ Append(s, e) \in Seq(S)
           /\ ToSet(Append(s, e)) = ToSet(s) \cup {e}
           /\ IsInjective(s) /\ e \notin ToSet(s) => IsInjective(Append(s, e))
<1> DEFINE t == Append(s, e)
<1>1. /\ t \in Seq(S) /\ Len(t) = Len(s) + 1 /\ Len(s) \in Nat
      /\ \A i \in 1..Len(s) : t[i] = s[i]
      /\ t[Len(s) + 1] = e
  BY AppendProperties, LenProperties
<1> HIDE DEF t
<1>2. \A i \in 1..Len(t) : i \in 1..Len(s) \/ i = Len(s) + 1
  BY <1>1
<1>3. \A y : y \in ToSet(t) <=> y \in ToSet(s) \cup {e}
  BY <1>1, <1>2, ToSetFacts
<1>4. ASSUME IsInjective(s), e \notin ToSet(s)
      PROVE  IsInjective(t)
  BY <1>1, <1>2, <1>4, ToSetFacts
<1> QED BY <1>1, <1>3, <1>4 DEF t

\* Where an element of a list without duplicates is taken out.
LEMMA WithoutFacts ==
    ASSUME NEW S, NEW s \in Seq(S), IsInjective(s), NEW x
    PROVE  /\ x \notin ToSet(s) => Without(s, x) = s
           /\ \A p \in 1..Len(s) : s[p] = x =>
                 /\ Len(Without(s, x)) = Len(s) - 1
                 /\ \A i \in 1..Len(s) - 1 :
                       Without(s, x)[i] = IF i < p THEN s[i] ELSE s[i + 1]
           /\ Without(s, x) \in Seq(S)
           /\ ToSet(Without(s, x)) = ToSet(s) \ {x}
           /\ IsInjective(Without(s, x))
<1> DEFINE t == Without(s, x)
<1>0. Len(s) \in Nat /\ (\A i, j \in 1..Len(s) : s[i] = s[j] => i = j)
  BY ToSetFacts
<1>1. ASSUME x \notin ToSet(s) PROVE t = s
  BY <1>1, ToSetFacts DEF Without, RemoveFirst
<1>2. ASSUME NEW p \in 1..Len(s), s[p] = x
      PROVE  /\ t \in Seq(S) /\ Len(t) = Len(s) - 1
             /\ \A i \in 1..Len(s) - 1 : t[i] = IF i < p THEN s[i] ELSE s[i + 1]
  <2>1. {i \in 1..Len(s) : s[i] = x} = {p}
    BY <1>0, <1>2
  <2>2. SelectInSeq(s, LAMBDA v : v = x) = p
    BY <2>1 DEF SelectInSeq, Min
  <2> DEFINE u == SubSeq(s, 1, p - 1)
             v == SubSeq(s, p + 1, Len(s))
  <2>3. t = u \o v
    BY <1>2, <2>2 DEF Without, RemoveFirst, RemoveAt
  <2>4. u \in Seq(S) /\ Len(u) = p - 1 /\ (\A i \in 1..p - 1 : u[i] = s[i])
    BY <1>0, SubSeqProperties, ElementOfSeq
  <2>5. v \in Seq(S) /\ Len(v) = Len(s) - p /\ (\A i \in 1..Len(s) - p : v[i] = s[p + i])
    BY <1>0, SubSeqProperties, ElementOfSeq
  <2> HIDE DEF u, v, t
  <2>6. /\ t \in Seq(S) /\ Len(t) = Len(u) + Len(v)
        /\ \A i \in 1..Len(u) + Len(v) : t[i] = IF i <= Len(u) THEN u[i] ELSE v[i - Len(u)]
    BY <2>3, <2>4, <2>5, ConcatProperties
  <2>7. t \in Seq(S) /\ Len(t) = Len(s) - 1
    BY <1>0, <2>4, <2>5, <2>6
  <2>8. ASSUME NEW i \in 1..Len(s) - 1
        PROVE  t[i] = IF i < p THEN s[i] ELSE s[i + 1]
    <3>1. CASE i < p
      <4>1. i \in 1..Len(u) + Len(v) /\ i <= Len(u) /\ i \in 1..p - 1
        BY <1>0, <2>4, <2>5, <3>1
      <4> QED BY <2>4, <2>6, <3>1, <4>1
    <3>2. CASE ~(i < p)
      <4>1. /\ i - (p - 1) \in 1..Len(s) - p /\ p + (i - (p - 1)) = i + 1
            /\ i \in 1..Len(u) + Len(v) /\ ~(i <= Len(u)) /\ i - Len(u) = i - (p - 1)
        BY <1>0, <2>4, <2>5, <3>2
      <4>2. t[i] = v[i - (p - 1)]
        BY <2>6, <4>1
      <4>3. v[i - (p - 1)] = s[p + (i - (p - 1))]
        BY <2>5, <4>1
      <4> QED BY <3>2, <4>1, <4>2, <4>3
    <3> QED BY <3>1, <3>2
  <2> QED BY <2>7, <2>8
<1> HIDE DEF t
<1>3. t \in Seq(S) /\ ToSet(t) = ToSet(s) \ {x} /\ IsInjective(t)
  <2>1. CASE x \notin ToSet(s)
    BY <1>1, <2>1
  <2>2. CASE x \in ToSet(s)
    <3>1. PICK p \in 1..Len(s) : s[p] = x
      BY <2>2, ToSetFacts
    <3>2. /\ t \in Seq(S) /\ Len(t) = Len(s) - 1
          /\ \A i \in 1..Len(s) - 1 : t[i] = IF i < p THEN s[i] ELSE s[i + 1]
      BY <1>2, <3>1
    <3>3. \A i \in 1..Len(s) : i # p => \E j \in 1..Len(s) - 1 : t[j] = s[i]
      <4> SUFFICES ASSUME NEW i \in 1..Len(s), i # p
                   PROVE  \E j \in 1..Len(s) - 1 : t[j] = s[i]
        OBVIOUS
      <4>1. CASE i < p
        BY <1>0, <3>2, <4>1
      <4>2. CASE i > p
        <5>1. i - 1 \in 1..Len(s) - 1 /\ ~(i - 1 < p) /\ (i - 1) + 1 = i
          BY <1>0, <4>2
        <5>2. t[i - 1] = s[(i - 1) + 1]
          BY <3>2, <5>1
        <5> QED BY <5>1, <5>2
      <4> QED BY <1>0, <4>1, <4>2
    <3>4. \A j \in 1..Len(s) - 1 : \E i \in 1..Len(s) : i # p /\ t[j] = s[i]
      BY <1>0, <3>2
    <3>5. \A y : y \in ToSet(t) <=> \E j \in 1..Len(s) - 1 : t[j] = y
      BY <3>2, ToSetFacts
    <3>6. \A y : y \in ToSet(t) <=> y \in ToSet(s) /\ y # x
      <4> SUFFICES ASSUME NEW y
                   PROVE  y \in ToSet(t) <=> y \in ToSet(s) /\ y # x
        OBVIOUS
      <4>1. y \in ToSet(t) => y \in ToSet(s) /\ y # x
        BY <1>0, <3>1, <3>4, <3>5, ToSetFacts
      <4>2. y \in ToSet(s) /\ y # x => y \in ToSet(t)
        BY <1>0, <3>1, <3>3, <3>5, ToSetFacts
      <4> QED BY <4>1, <4>2
    <3>7. IsInjective(t)
      BY <1>0, <3>2, ToSetFacts
    <3> QED BY <3>2, <3>6, <3>7
  <2> QED BY <2>1, <2>2
<1> QED BY <1>1, <1>2, <1>3 DEF t

LEMMA InsertFacts ==
    ASSUME NEW S, NEW s \in Seq(S), NEW e \in S, NEW k \in 1..Len(s) + 1
    PROVE  /\ InsertAt(s, k, e) \in Seq(S)
           /\ Len(InsertAt(s, k, e)) = Len(s) + 1
           /\ \A i \in 1..k - 1 : InsertAt(s, k, e)[i] = s[i]
           /\ InsertAt(s, k, e)[k] = e
           /\ \A i \in k..Len(s) : InsertAt(s, k, e)[i + 1] = s[i]
           /\ ToSet(InsertAt(s, k, e)) = ToSet(s) \cup {e}
           /\ IsInjective(s) /\ e \notin ToSet(s) => IsInjective(InsertAt(s, k, e))
<1> DEFINE t == InsertAt(s, k, e)
           u == SubSeq(s, 1, k - 1)
           v == SubSeq(s, k, Len(s))
           m == u \o <<e>>
<1>0. Len(s) \in Nat
  BY ToSetFacts
<1>1. t = m \o v
  BY DEF InsertAt
<1>2. u \in Seq(S) /\ Len(u) = k - 1 /\ (\A i \in 1..k - 1 : u[i] = s[i])
  BY <1>0, SubSeqProperties, ElementOfSeq
<1>3. /\ v \in Seq(S) /\ Len(v) = Len(s) - (k - 1)
      /\ \A i \in 1..Len(s) - (k - 1) : v[i] = s[k + i - 1]
  BY <1>0, SubSeqProperties, ElementOfSeq
<1>4. m = Append(u, e)
  BY <1>2, AppendIsConcat
<1>5. /\ m \in Seq(S) /\ Len(m) = k /\ m[k] = e
      /\ \A i \in 1..k - 1 : m[i] = s[i]
  BY <1>2, <1>4, AppendProperties
<1> HIDE DEF m, u, v, t
<1>6. /\ t \in Seq(S) /\ Len(t) = Len(m) + Len(v)
      /\ \A i \in 1..Len(m) + Len(v) : t[i] = IF i <= Len(m) THEN m[i] ELSE v[i - Len(m)]
  BY <1>1, <1>3, <1>5, ConcatProperties
<1>7. Len(t) = Len(s) + 1
  BY <1>0, <1>3, <1>5, <1>6
<1>8. (\A i \in 1..k - 1 : t[i] = s[i]) /\ t[k] = e
  <2>1. \A i \in 1..k : i \in 1..Len(m) + Len(v) /\ i <= Len(m) /\ (i \in 1..k - 1 \/ i = k)
    BY <1>0, <1>3, <1>5
  <2>2. \A i \in 1..k - 1 : i \in 1..k
    OBVIOUS
  <2> QED BY <1>5, <1>6, <2>1, <2>2
<1>9. \A i \in k..Len(s) : t[i + 1] = s[i]
  <2> SUFFICES ASSUME NEW i \in k..Len(s)
               PROVE  t[i + 1] = s[i]
    OBVIOUS
  <2>1. /\ i + 1 \in 1..Len(m) + Len(v) /\ ~(i + 1 <= Len(m))
        /\ (i + 1) - Len(m) \in 1..Len(s) - (k - 1)
        /\ k + ((i + 1) - Len(m)) - 1 = i
    BY <1>0, <1>3, <1>5
  <2> QED BY <1>3, <1>6, <2>1
<1>10. \A i \in 1..Len(t) : i \in 1..k - 1 \/ i = k \/ (i - 1 \in k..Len(s) /\ (i - 1) + 1 = i)
  BY <1>0, <1>7
<1>11. \A i \in 1..Len(t) : \/ i \in 1..k - 1 /\ t[i] = s[i]
                            \/ i = k /\ t[i] = e
                            \/ i - 1 \in k..Len(s) /\ t[i] = s[i - 1]
  BY <1>8, <1>9, <1>10
<1>12. \A i \in 1..Len(s) : \E j \in 1..Len(t) : t[j] = s[i]
  <2> SUFFICES ASSUME NEW i \in 1..Len(s)
               PROVE  \E j \in 1..Len(t) : t[j] = s[i]
    OBVIOUS
  <2>1. (i \in 1..k - 1 /\ i \in 1..Len(t)) \/ (i \in k..Len(s) /\ i + 1 \in 1..Len(t))
    BY <1>0, <1>7
  <2> QED BY <1>8, <1>9, <2>1
<1>13. \A y : y \in ToSet(t) <=> y \in ToSet(s) \/ y = e
  <2>1. \A i \in 1..Len(t) : t[i] = e \/ \E j \in 1..Len(s) : t[i] = s[j]
    BY <1>0, <1>11
  <2>2. k \in 1..Len(t)
    BY <1>0, <1>7
  <2>3. (\A y : y \in ToSet(t) <=> \E i \in 1..Len(t) : t[i] = y)
        /\ (\A y : y \in ToSet(s) <=> \E i \in 1..Len(s) : s[i] = y)
    BY <1>6, ToSetFacts
  <2> QED BY <1>8, <1>12, <2>1, <2>2, <2>3
<1>14. ASSUME IsInjective(s), e \notin ToSet(s)
       PROVE  IsInjective(t)
  <2>1. \A i \in 1..Len(s) : s[i] # e
    BY <1>14, ToSetFacts
  <2>2. \A i, j \in 1..Len(s) : s[i] = s[j] => i = j
    BY <1>14, ToSetFacts
  <2> SUFFICES ASSUME NEW i \in 1..Len(t), NEW j \in 1..Len(t), t[i] = t[j]
               PROVE  i = j
    BY <1>6, ToSetFacts
  <2> DEFINE q(n) == IF n < k THEN n ELSE n - 1
  <2>3. \A n \in 1..Len(t) : n # k => q(n) \in 1..Len(s) /\ t[n] = s[q(n)]
    BY <1>0, <1>7, <1>11
  <2>4. t[k] = e
    BY <1>8
  <2>5. CASE i = k \/ j = k
    BY <2>1, <2>3, <2>4, <2>5
  <2>6. CASE i # k /\ j # k
    <3>1. q(i) = q(j)
      BY <2>2, <2>3, <2>6
    <3> QED BY <1>0, <1>7, <2>6, <3>1
  <2> QED BY <2>5, <2>6
<1> QED
  BY <1>6, <1>7, <1>8, <1>9, <1>13, <1>14 DEF t

\* Where Place puts x: at q, before the child it is dropped on.
LEMMA PlaceFacts ==
    ASSUME NEW S, NEW s \in Seq(S), IsInjective(s), NEW x \in S, NEW i \in Nat
    PROVE  /\ Place(s, x, i) \in Seq(S)
           /\ ToSet(Place(s, x, i)) = ToSet(s) \cup {x}
           /\ IsInjective(Place(s, x, i))
           /\ Without(Place(s, x, i), x) = Without(s, x)
           /\ \A j \in 1..Len(s) : s[j] # x =>
                 (At(Place(s, x, i), s[j]) < At(Place(s, x, i), x) <=> j <= i)
<1> DEFINE rest == Without(s, x)
           at == {j \in 1..Len(s) : s[j] = x}
           k == IF \E j \in at : i > j - 1 THEN i - 1 ELSE i
           c == IF k < Len(rest) THEN k ELSE Len(rest)
           t == InsertAt(rest, c + 1, x)
<1>1. Place(s, x, i) = t
  BY DEF Place
<1>2. /\ Len(s) \in Nat
      /\ \A n, m \in 1..Len(s) : s[n] = s[m] => n = m
      /\ x \in ToSet(s) <=> \E n \in 1..Len(s) : s[n] = x
  BY ToSetFacts
<1>3. /\ rest \in Seq(S) /\ IsInjective(rest) /\ ToSet(rest) = ToSet(s) \ {x}
      /\ x \notin ToSet(s) => rest = s
      /\ \A p \in 1..Len(s) : s[p] = x =>
            /\ Len(rest) = Len(s) - 1
            /\ \A n \in 1..Len(s) - 1 : rest[n] = IF n < p THEN s[n] ELSE s[n + 1]
  BY WithoutFacts
<1>4. Len(rest) \in Nat /\ (\A n, m \in 1..Len(rest) : rest[n] = rest[m] => n = m)
      /\ (\A n \in 1..Len(rest) : rest[n] # x)
  BY <1>3, ToSetFacts
<1>5. c \in Nat /\ c + 1 \in 1..Len(rest) + 1
  <2>1. k \in Nat
    BY <1>2
  <2> HIDE DEF k, rest
  <2> QED BY <1>4, <2>1
\* An element of s is at from(j) in rest.
<1> DEFINE from(j) == IF \E p \in at : p < j THEN j - 1 ELSE j
<1>6. ASSUME NEW j \in 1..Len(s), s[j] # x
      PROVE  /\ from(j) \in 1..Len(rest) /\ rest[from(j)] = s[j]
             /\ from(j) <= c <=> j <= i
  <2>1. CASE x \notin ToSet(s)
    <3>1. at = {} /\ rest = s
      BY <1>2, <1>3, <2>1
    <3>2. from(j) = j /\ k = i
      BY <3>1
    <3> HIDE DEF from, k, rest, at
    <3> QED BY <1>2, <1>6, <3>1, <3>2
  <2>2. CASE x \in ToSet(s)
    <3>1. PICK p \in 1..Len(s) : s[p] = x
      BY <1>2, <2>2
    <3>2. at = {p}
      BY <1>2, <3>1
    <3>3. Len(rest) = Len(s) - 1 /\ j # p
          /\ \A n \in 1..Len(s) - 1 : rest[n] = IF n < p THEN s[n] ELSE s[n + 1]
      BY <1>3, <1>6, <3>1
    <3>4. k = IF i > p - 1 THEN i - 1 ELSE i
      BY <3>2
    <3>5. from(j) = IF p < j THEN j - 1 ELSE j
      BY <3>2
    <3> HIDE DEF from, k, rest, at
    <3>6. from(j) \in 1..Len(rest) /\ rest[from(j)] = s[j]
      <4>1. CASE p < j
        <5>1. j - 1 \in 1..Len(s) - 1 /\ ~(j - 1 < p) /\ (j - 1) + 1 = j
          BY <1>2, <4>1
        <5> QED BY <3>3, <3>5, <4>1, <5>1
      <4>2. CASE j < p
        <5>1. j \in 1..Len(s) - 1 /\ ~(p < j)
          BY <1>2, <4>2
        <5> QED BY <3>3, <3>5, <4>2, <5>1
      <4> QED BY <3>3, <4>1, <4>2
    <3>7. from(j) <= c <=> j <= i
      BY <1>2, <3>3, <3>4, <3>5
    <3> QED BY <3>6, <3>7
  <2> QED BY <2>1, <2>2
<1> HIDE DEF rest, c, k, at, from
<1>7. /\ t \in Seq(S) /\ Len(t) = Len(rest) + 1 /\ t[c + 1] = x
      /\ \A n \in 1..c : t[n] = rest[n]
      /\ \A n \in c + 1..Len(rest) : t[n + 1] = rest[n]
      /\ ToSet(t) = ToSet(rest) \cup {x}
      /\ IsInjective(t)
  <2>1. x \notin ToSet(rest) /\ (c + 1) - 1 = c
    BY <1>3, <1>5
  <2> HIDE DEF t
  <2> QED BY <1>3, <1>5, <2>1, InsertFacts DEF t
<1> HIDE DEF t
<1>8. Without(t, x) = rest
  <2>1. /\ Without(t, x) \in Seq(S) /\ Len(Without(t, x)) = Len(t) - 1
        /\ \A n \in 1..Len(t) - 1 :
              Without(t, x)[n] = IF n < c + 1 THEN t[n] ELSE t[n + 1]
    <3>1. c + 1 \in 1..Len(t)
      BY <1>4, <1>5, <1>7
    <3>2. /\ Without(t, x) \in Seq(S)
          /\ \A p \in 1..Len(t) : t[p] = x =>
                /\ Len(Without(t, x)) = Len(t) - 1
                /\ \A n \in 1..Len(t) - 1 :
                      Without(t, x)[n] = IF n < p THEN t[n] ELSE t[n + 1]
      <4>1. t \in Seq(S) /\ IsInjective(t)
        BY <1>7
      <4> QED BY <4>1, WithoutFacts
    <3> QED BY <1>7, <3>1, <3>2
  <2>2. ASSUME NEW n \in 1..Len(rest) PROVE Without(t, x)[n] = rest[n]
    <3>1. n \in 1..Len(t) - 1 /\ (n \in 1..c \/ n \in c + 1..Len(rest))
      BY <1>4, <1>5, <1>7
    <3>2. CASE n \in 1..c
      <4>1. n < c + 1
        BY <1>5, <3>2
      <4> QED BY <1>7, <2>1, <3>1, <3>2, <4>1
    <3>3. CASE n \in c + 1..Len(rest)
      <4>1. ~(n < c + 1)
        BY <1>5, <3>3
      <4> QED BY <1>7, <2>1, <3>1, <3>3, <4>1
    <3> QED BY <3>1, <3>2, <3>3
  <2>3. Len(Without(t, x)) = Len(rest)
    BY <1>4, <1>7, <2>1
  <2> HIDE DEF rest
  <2> QED BY <1>3, <2>1, <2>2, <2>3, SeqEqual
<1>9. ASSUME NEW n \in 1..Len(t) PROVE At(t, t[n]) = n
  <2>1. \A m \in 1..Len(t) : t[m] = t[n] => m = n
    BY <1>7, ToSetFacts
  <2> QED BY <2>1 DEF At
<1>10. At(t, x) = c + 1
  <2>1. c + 1 \in 1..Len(t)
    BY <1>4, <1>5, <1>7
  <2> QED BY <1>7, <1>9, <2>1
<1>11. ASSUME NEW j \in 1..Len(s), s[j] # x
       PROVE  At(t, s[j]) < At(t, x) <=> j <= i
  <2>1. from(j) \in 1..Len(rest) /\ rest[from(j)] = s[j] /\ (from(j) <= c <=> j <= i)
    BY <1>6, <1>11
  <2>2. CASE from(j) <= c
    <3>1. from(j) \in 1..c /\ from(j) \in 1..Len(t) /\ from(j) < c + 1
      BY <1>4, <1>5, <1>7, <2>1, <2>2
    <3>2. At(t, s[j]) = from(j)
      BY <1>7, <1>9, <2>1, <3>1
    <3> QED BY <1>10, <2>1, <2>2, <3>1, <3>2
  <2>3. CASE ~(from(j) <= c)
    <3>1. /\ from(j) \in c + 1..Len(rest) /\ from(j) + 1 \in 1..Len(t)
          /\ ~(from(j) + 1 < c + 1)
      BY <1>4, <1>5, <1>7, <2>1, <2>3
    <3>2. At(t, s[j]) = from(j) + 1
      BY <1>7, <1>9, <2>1, <3>1
    <3> QED BY <1>10, <2>1, <2>3, <3>1, <3>2
  <2> QED BY <2>2, <2>3
<1> QED
  BY <1>1, <1>3, <1>7, <1>8, <1>11 DEF rest

LEMMA ConcatFacts ==
    ASSUME NEW S, NEW s \in Seq(S), NEW t \in Seq(S)
    PROVE  /\ s \o t \in Seq(S)
           /\ ToSet(s \o t) = ToSet(s) \cup ToSet(t)
           /\ IsInjective(s) /\ IsInjective(t) /\ ToSet(s) \cap ToSet(t) = {}
                 => IsInjective(s \o t)
<1> DEFINE u == s \o t
<1>1. /\ u \in Seq(S) /\ Len(u) = Len(s) + Len(t) /\ Len(s) \in Nat /\ Len(t) \in Nat
      /\ \A i \in 1..Len(s) + Len(t) : u[i] = IF i <= Len(s) THEN s[i] ELSE t[i - Len(s)]
  BY ConcatProperties, LenProperties
<1> HIDE DEF u
<1>2. \A i \in 1..Len(u) : \/ (i \in 1..Len(s) /\ u[i] = s[i])
                           \/ (i - Len(s) \in 1..Len(t) /\ u[i] = t[i - Len(s)])
  BY <1>1
<1>3. /\ \A i \in 1..Len(s) : i \in 1..Len(u) /\ u[i] = s[i]
      /\ \A i \in 1..Len(t) : Len(s) + i \in 1..Len(u) /\ u[Len(s) + i] = t[i]
  <2>1. \A i \in 1..Len(s) : i \in 1..Len(u) /\ u[i] = s[i]
    BY <1>1
  <2>2. ASSUME NEW i \in 1..Len(t)
        PROVE  Len(s) + i \in 1..Len(u) /\ u[Len(s) + i] = t[i]
    <3>1. /\ Len(s) + i \in 1..Len(s) + Len(t) /\ ~(Len(s) + i <= Len(s))
          /\ (Len(s) + i) - Len(s) = i
      BY <1>1
    <3> QED BY <1>1, <3>1
  <2> QED BY <2>1, <2>2
<1>4. /\ \A y : y \in ToSet(u) <=> \E i \in 1..Len(u) : u[i] = y
      /\ \A y : y \in ToSet(s) <=> \E i \in 1..Len(s) : s[i] = y
      /\ \A y : y \in ToSet(t) <=> \E i \in 1..Len(t) : t[i] = y
  BY <1>1, ToSetFacts
<1>5. ToSet(u) = ToSet(s) \cup ToSet(t)
  <2>1. \A y : y \in ToSet(u) => y \in ToSet(s) \cup ToSet(t)
    BY <1>2, <1>4
  <2>2. \A y : y \in ToSet(s) \cup ToSet(t) => y \in ToSet(u)
    BY <1>3, <1>4
  <2> QED BY <2>1, <2>2
<1>6. ASSUME IsInjective(s), IsInjective(t), ToSet(s) \cap ToSet(t) = {}
      PROVE  IsInjective(u)
  <2> SUFFICES ASSUME NEW i \in 1..Len(u), NEW j \in 1..Len(u), u[i] = u[j]
               PROVE  i = j
    BY <1>1, ToSetFacts
  <2>0. /\ \A n, m \in 1..Len(s) : s[n] = s[m] => n = m
        /\ \A n, m \in 1..Len(t) : t[n] = t[m] => n = m
    BY <1>6, ToSetFacts
  <2>1. CASE i \in 1..Len(s) /\ u[i] = s[i]
    <3>1. ~(j - Len(s) \in 1..Len(t) /\ u[j] = t[j - Len(s)])
      BY <1>4, <1>6, <2>1
    <3>2. j \in 1..Len(s) /\ u[j] = s[j]
      BY <1>2, <3>1
    <3> QED BY <2>0, <2>1, <3>2
  <2>2. CASE i - Len(s) \in 1..Len(t) /\ u[i] = t[i - Len(s)]
    <3>1. ~(j \in 1..Len(s) /\ u[j] = s[j])
      BY <1>4, <1>6, <2>2
    <3>2. j - Len(s) \in 1..Len(t) /\ u[j] = t[j - Len(s)]
      BY <1>2, <3>1
    <3>3. i - Len(s) = j - Len(s)
      BY <2>0, <2>2, <3>2
    <3> QED BY <1>1, <3>3
  <2> QED BY <1>2, <2>1, <2>2
<1> QED BY <1>1, <1>5, <1>6 DEF u

\* A list under new ids (Renamed of Graft).
Copied(new, s) == [i \in 1..Len(s) |-> new[s[i]]]

\* A list whose elements are renamed one to one.
LEMMA RenamedFacts ==
    ASSUME NEW S, NEW D, NEW s \in Seq(D), NEW new \in [D -> S],
           \A x, y \in D : new[x] = new[y] => x = y
    PROVE  /\ Copied(new, s) \in Seq(S)
           /\ ToSet(Copied(new, s)) = {new[y] : y \in ToSet(s)}
           /\ IsInjective(s) => IsInjective(Copied(new, s))
<1> DEFINE t == Copied(new, s)
<1>1. Len(s) \in Nat /\ DOMAIN s = 1..Len(s) /\ (\A i \in 1..Len(s) : s[i] \in D)
  BY LenProperties, ElementOfSeq
<1>2. t \in [1..Len(s) -> S]
  BY <1>1 DEF Copied
<1>3. t \in Seq(S)
  BY <1>1, <1>2, SeqDef
<1>4. DOMAIN t = 1..Len(s) /\ (\A i \in 1..Len(s) : t[i] = new[s[i]])
  BY DEF Copied
<1> HIDE DEF t
<1>5. ToSet(t) = {new[y] : y \in ToSet(s)}
  BY <1>1, <1>4 DEF ToSet
<1>6. IsInjective(s) => IsInjective(t)
  BY <1>1, <1>4 DEF IsInjective
<1> QED BY <1>3, <1>5, <1>6 DEF t

-------------------------------------------------------------------------------
(* What is below a node: the least set with it that is closed under        *)
(* children.                                                               *)

\* The children of a book's folders are nodes of the book.
Inside(b) == \A f \in Folders(b) : Children(b, f) \subseteq Nodes(b)

LEMMA BelowFacts ==
    ASSUME NEW b, Inside(b), NEW x
    PROVE  /\ x \in Below(b, x)
           /\ Below(b, x) \subseteq Nodes(b) \cup {x}
           /\ \A z \in Below(b, x) : Children(b, z) \subseteq Below(b, x)
<1>1. x \in Below(b, x) /\ Below(b, x) \subseteq Nodes(b) \cup {x}
  BY DEF Below
<1>2. ASSUME NEW z \in Below(b, x), NEW c \in Children(b, z), c # x
      PROVE  c \in Below(b, x)
  <2>1. c \in Nodes(b)
    BY <1>2 DEF Inside, Children
  <2>2. ASSUME NEW S \in SUBSET (Nodes(b) \ {x, c}),
               \A y \in S \cup {x} : Children(b, y) \subseteq S \cup {x}
        PROVE  FALSE
    <3>1. z \notin S \cup {x}
      BY <1>2, <2>2
    <3>2. S \in SUBSET (Nodes(b) \ {x, z})
      BY <3>1
    <3> QED BY <2>2, <3>1, <3>2 DEF Below
  <2> QED BY <2>1, <2>2 DEF Below
<1> QED BY <1>1, <1>2

LEMMA BelowLeast ==
    ASSUME NEW b, Inside(b), NEW x, NEW T, x \in T,
           \A z \in T : Children(b, z) \subseteq T
    PROVE  Below(b, x) \subseteq T
<1> SUFFICES ASSUME NEW y \in Below(b, x), y \notin T
             PROVE  FALSE
  OBVIOUS
<1> DEFINE S == (T \cap Nodes(b)) \ {x}
<1>1. S \in SUBSET (Nodes(b) \ {x, y}) /\ y # x
  OBVIOUS
<1>2. \A z \in S \cup {x} : Children(b, z) \subseteq S \cup {x}
  BY DEF Inside, Children
<1> QED BY <1>1, <1>2 DEF Below

\* What is below x, x apart, is a child of something below x.
LEMMA BelowParent ==
    ASSUME NEW b, Inside(b), NEW x, NEW y \in Below(b, x), y # x
    PROVE  \E g \in Below(b, x) : y \in Children(b, g)
<1> DEFINE T == {z \in Below(b, x) : z = x \/ \E g \in Below(b, x) : z \in Children(b, g)}
<1>1. x \in T /\ (\A z \in T : Children(b, z) \subseteq T)
  BY BelowFacts
<1>2. Below(b, x) \subseteq T
  BY <1>1, BelowLeast
<1> QED BY <1>2

\* What a tree is in short, and what it says of its nodes.
LEMMA TreeFacts ==
    ASSUME NEW b, IsBook(b), Tree(b)
    PROVE  /\ Inside(b)
           /\ b.next \in Nat /\ b.next >= 1 /\ b.next \notin Nodes(b) \cup {Root}
           /\ Root \in Folders(b) /\ Root \notin Nodes(b) /\ Root \notin Providers(b)
           /\ Nodes(b) \subseteq Id /\ Nodes(b) \subseteq Nat
           /\ \A f \in Folders(b) : b.kids[f] \in Seq(Id) /\ IsInjective(b.kids[f])
           /\ \A f \in Folders(b) : f \in Nodes(b) \/ f = Root
<1>1. Id \subseteq Nat \ {0}
  BY BookAssumption DEF Id
<1>2. b.next \in Nat /\ b.next >= 1
  BY BookAssumption DEF IsBook
<1> QED BY <1>1, <1>2 DEF IsBook, Tree, Inside, Nodes, Root, Folders, Providers

-------------------------------------------------------------------------------
(* The operations on a book keep it a tree.                                *)

\* A leaf is added, last, to a folder.
LEMMA LeafOK ==
    ASSUME NEW b, IsBook(b), Tree(b), NEW parent \in Folders(b),
           NEW t, t.next = b.next + 1,
           Nodes(t) = Nodes(b) \cup {b.next},
           Folders(b) \subseteq Folders(t), Providers(b) \subseteq Providers(t),
           Folders(t) \cap Providers(t) = {},
           \A f \in Folders(t) \ {parent} : t.kids[f] = IF f = b.next THEN <<>> ELSE b.kids[f],
           t.kids[parent] = Append(b.kids[parent], b.next),
           b.next \in Id
    PROVE  Tree(t)
<1>0. /\ Inside(b) /\ b.next \in Nat /\ b.next \notin Nodes(b) \cup {Root}
      /\ Root \in Folders(b) /\ Root \notin Nodes(b)
      /\ \A f \in Folders(b) : b.kids[f] \in Seq(Id) /\ IsInjective(b.kids[f])
      /\ \A f \in Folders(b) : f \in Nodes(b) \/ f = Root
  BY TreeFacts
<1>1. ToSet(<<>>) = {} /\ IsInjective(<<>>)
  BY EmptyFacts
<1>2. \A f \in Folders(t) : f \in Folders(b) \/ f = b.next
  <2>1. \A f \in Folders(t) : f # Root => f \in Nodes(t) /\ f \notin Providers(b)
    BY DEF Nodes
  <2> QED BY <1>0, <2>1 DEF Nodes
<1>3. Children(t, parent) = Children(b, parent) \cup {b.next} /\ IsInjective(t.kids[parent])
  <2>1. b.next \notin ToSet(b.kids[parent])
    BY <1>0 DEF Inside, Children
  <2>2. /\ ToSet(t.kids[parent]) = ToSet(b.kids[parent]) \cup {b.next}
        /\ IsInjective(t.kids[parent])
    BY <1>0, <2>1, AppendFacts
  <2> QED BY <2>2 DEF Children
<1>4. \A f \in Folders(t) \ {parent} :
         Children(t, f) = Children(b, f) /\ IsInjective(t.kids[f])
  <2> SUFFICES ASSUME NEW f \in Folders(t) \ {parent}
               PROVE  Children(t, f) = Children(b, f) /\ IsInjective(t.kids[f])
    OBVIOUS
  <2>1. CASE f = b.next
    <3>1. f \notin Folders(b)
      BY <1>0, <2>1
    <3> QED BY <1>1, <2>1, <3>1 DEF Children
  <2>2. CASE f # b.next
    <3>1. f \in Folders(b) /\ t.kids[f] = b.kids[f]
      BY <1>2, <2>2
    <3> QED BY <1>0, <3>1 DEF Children
  <2> QED BY <2>1, <2>2
<1>5. Inside(t)
  BY <1>0, <1>2, <1>3, <1>4 DEF Inside, Children
<1>6. ASSUME NEW x \in Nodes(t)
      PROVE  /\ x < t.next
             /\ \E f \in Folders(t) : \A g \in Folders(t) : x \in Children(t, g) <=> g = f
  <2>1. CASE x = b.next
    <3>1. \A g \in Folders(t) : x \notin Children(b, g)
      BY <1>0, <2>1 DEF Inside, Children
    <3> QED BY <1>0, <1>3, <1>4, <2>1, <3>1
  <2>2. CASE x # b.next
    <3>1. x \in Nodes(b)
      BY <2>2
    <3>2. x < b.next /\ x \in Nat
      BY <3>1, TreeFacts DEF Tree
    <3>3. PICK f \in Folders(b) : \A g \in Folders(b) : x \in Children(b, g) <=> g = f
      BY <3>1 DEF Tree
    <3>4. \A g \in Folders(t) : x \in Children(t, g) <=> g = f
      BY <1>2, <1>3, <1>4, <2>2, <3>3 DEF Children
    <3> QED BY <1>0, <3>2, <3>3, <3>4
  <2> QED BY <2>1, <2>2
<1>7. Below(t, Root) = Nodes(t) \cup {Root}
  <2> DEFINE T == Below(t, Root)
  <2>1. Root \in T /\ T \subseteq Nodes(t) \cup {Root} /\ (\A z \in T : Children(t, z) \subseteq T)
    BY <1>5, BelowFacts
  <2>2. \A z \in T : Children(b, z) \subseteq T
    BY <1>3, <1>4, <2>1 DEF Children
  <2> HIDE DEF T
  <2>3. Nodes(b) \cup {Root} \subseteq T
    BY <1>0, <2>1, <2>2, BelowLeast DEF Tree
  <2>4. b.next \in T
    BY <1>0, <1>3, <2>1, <2>3
  <2> QED BY <2>1, <2>3, <2>4 DEF T
<1> QED
  BY <1>0, <1>3, <1>4, <1>5, <1>6, <1>7 DEF Tree, Inside

\* An id is used up, or more of them.
LEMMA SkippedOK ==
    ASSUME NEW b, IsBook(b), Tree(b), NEW t, t.kids = b.kids,
           Providers(t) = Providers(b), t.next \in Nat, t.next >= b.next
    PROVE  Tree(t)
<1>1. Folders(t) = Folders(b) /\ Nodes(t) = Nodes(b)
  BY DEF Folders, Nodes
<1>2. \A f : Children(t, f) = Children(b, f)
  BY <1>1 DEF Children
<1>3. Below(t, Root) = Below(b, Root)
  BY <1>1, <1>2 DEF Below
<1>4. \A x \in Nodes(t) : x < t.next
  BY <1>1, TreeFacts DEF Tree
<1> QED
  BY <1>1, <1>2, <1>3, <1>4 DEF Tree

LEMMA AddFolderOK ==
    ASSUME NEW b, IsBook(b), Tree(b), b.next <= MaxId, NEW parent
    PROVE  /\ IsBook(AddFolder(b, parent)) /\ Tree(AddFolder(b, parent))
           /\ AddFolder(b, parent).next >= b.next
           /\ AddFolder(b, parent).entry = b.entry
<1> DEFINE t == AddFolder(b, parent)
<1>0. MaxId \in Nat /\ b.next \in Id /\ b.next \notin Folders(b) /\ b.next \notin Providers(b)
  BY BookAssumption, TreeFacts DEF Id, Nodes
<1>1. CASE parent \in Folders(b)
  <2> DEFINE kids == Extended([b.kids EXCEPT ![parent] = Append(@, b.next)], b.next, <<>>)
  <2>1. t = [kids |-> kids, entry |-> b.entry, next |-> b.next + 1]
    BY <1>1 DEF AddFolder, IsBook
  <2>2. /\ DOMAIN kids = Folders(b) \cup {b.next}
        /\ kids[parent] = Append(b.kids[parent], b.next)
        /\ kids[b.next] = <<>>
        /\ \A f \in Folders(b) \ {parent} : kids[f] = b.kids[f]
    BY <1>0, <1>1 DEF Extended, Folders, IsBook
  <2>3. kids \in [DOMAIN kids -> Seq(Id)]
    <3>1. Append(b.kids[parent], b.next) \in Seq(Id)
      BY <1>0, <1>1, AppendFacts, TreeFacts
    <3>2. kids = [f \in DOMAIN kids |-> kids[f]]
      BY DEF Extended
    <3>3. \A f \in DOMAIN kids : kids[f] \in Seq(Id)
      BY <2>2, <3>1, TreeFacts, EmptySeq
    <3> HIDE DEF kids
    <3> QED BY <3>2, <3>3
  <2> HIDE DEF kids, t
  <2>4. IsBook(t)
    BY <1>0, <2>1, <2>2, <2>3, SMTT(30) DEF IsBook, Folders, Providers, Id
  <2>5. Nodes(t) = Nodes(b) \cup {b.next} /\ Folders(t) = Folders(b) \cup {b.next}
        /\ Providers(t) = Providers(b) /\ Folders(t) \cap Providers(t) = {}
    BY <1>0, <2>1, <2>2, TreeFacts DEF Nodes, Folders, Providers, Tree
  <2>6. Tree(t)
    BY <1>0, <1>1, <2>1, <2>2, <2>5, LeafOK
  <2>7. b.next + 1 >= b.next
    BY TreeFacts
  <2> QED BY <2>1, <2>4, <2>6, <2>7 DEF t
<1>2. CASE parent \notin Folders(b)
  <2>1. t = [kids |-> b.kids, entry |-> b.entry, next |-> b.next + 1]
    BY <1>2 DEF AddFolder, IsBook
  <2> HIDE DEF t
  <2>2. b.next \in Nat /\ b.next + 1 \in 1..MaxId + 1
    BY <1>0, TreeFacts
  <2>3. IsBook(t)
    BY <2>1, <2>2 DEF IsBook, Folders, Providers
  <2>4. Tree(t)
    BY <2>1, <2>2, SkippedOK DEF Providers
  <2> QED BY <2>1, <2>2, <2>3, <2>4 DEF t
<1> QED BY <1>1, <1>2

LEMMA AddProviderOK ==
    ASSUME NEW b, IsBook(b), Tree(b), b.next <= MaxId, NEW parent, NEW e \in Entry
    PROVE  /\ IsBook(AddProvider(b, parent, e)) /\ Tree(AddProvider(b, parent, e))
           /\ AddProvider(b, parent, e).next >= b.next
           /\ Providers(b) \subseteq Providers(AddProvider(b, parent, e))
           /\ Providers(AddProvider(b, parent, e)) \subseteq Providers(b) \cup {b.next}
           /\ \A p \in Providers(b) : AddProvider(b, parent, e).entry[p] = b.entry[p]
<1> DEFINE t == AddProvider(b, parent, e)
<1>0. MaxId \in Nat /\ b.next \in Id /\ b.next \notin Folders(b) /\ b.next \notin Providers(b)
  BY BookAssumption, TreeFacts DEF Id, Nodes
<1>1. CASE parent \in Folders(b)
  <2> DEFINE kids == [b.kids EXCEPT ![parent] = Append(@, b.next)]
             entry == Extended(b.entry, b.next, e)
  <2>1. t = [kids |-> kids, entry |-> entry, next |-> b.next + 1]
    BY <1>1 DEF AddProvider
  <2>2. /\ DOMAIN kids = Folders(b)
        /\ kids[parent] = Append(b.kids[parent], b.next)
        /\ \A f \in Folders(b) \ {parent} : kids[f] = b.kids[f]
    BY <1>1 DEF Folders, IsBook
  <2>3. kids \in [Folders(b) -> Seq(Id)]
    <3>1. Append(b.kids[parent], b.next) \in Seq(Id)
      BY <1>0, <1>1, AppendFacts, TreeFacts
    <3> QED BY <3>1 DEF IsBook
  <2>4. /\ entry \in [Providers(b) \cup {b.next} -> Entry]
        /\ \A p \in Providers(b) : entry[p] = b.entry[p]
    BY <1>0 DEF Extended, IsBook, Providers
  <2> HIDE DEF kids, entry, t
  <2>5. Folders(t) = Folders(b) /\ Providers(t) = Providers(b) \cup {b.next}
    BY <2>1, <2>2, <2>4 DEF Folders, Providers
  <2>6. IsBook(t)
    <3>1. b.next + 1 \in 1..MaxId + 1
      BY <1>0, TreeFacts
    <3> QED BY <1>0, <2>1, <2>3, <2>4, <2>5, <3>1 DEF IsBook
  <2>7. Nodes(t) = Nodes(b) \cup {b.next} /\ Folders(t) \cap Providers(t) = {}
    BY <1>0, <2>5, TreeFacts DEF Nodes, Tree
  <2>8. Tree(t)
    BY <1>0, <1>1, <2>1, <2>2, <2>5, <2>7, LeafOK
  <2>9. b.next + 1 >= b.next
    BY TreeFacts
  <2> QED BY <2>1, <2>4, <2>5, <2>6, <2>8, <2>9 DEF t
<1>2. CASE parent \notin Folders(b)
  <2>1. t = [kids |-> b.kids, entry |-> b.entry, next |-> b.next + 1]
    BY <1>2 DEF AddProvider, IsBook
  <2> HIDE DEF t
  <2>2. b.next \in Nat /\ b.next + 1 \in 1..MaxId + 1
    BY <1>0, TreeFacts
  <2>3. IsBook(t)
    BY <2>1, <2>2 DEF IsBook, Folders, Providers
  <2>4. Tree(t)
    BY <2>1, <2>2, SkippedOK DEF Providers
  <2> QED BY <2>1, <2>2, <2>3, <2>4 DEF t, Providers
<1> QED BY <1>1, <1>2

LEMMA UpdateProviderOK ==
    ASSUME NEW b, IsBook(b), Tree(b), NEW id, NEW e \in Entry
    PROVE  /\ IsBook(UpdateProvider(b, id, e)) /\ Tree(UpdateProvider(b, id, e))
           /\ UpdateProvider(b, id, e).next = b.next
           /\ Providers(UpdateProvider(b, id, e)) = Providers(b)
           /\ \A p \in Providers(b) :
                 UpdateProvider(b, id, e).entry[p] = IF p = id THEN e ELSE b.entry[p]
<1> DEFINE t == UpdateProvider(b, id, e)
<1>1. CASE id \in Providers(b)
  <2> DEFINE entry == [b.entry EXCEPT ![id] = e]
  <2>1. t = [kids |-> b.kids, entry |-> entry, next |-> b.next]
    BY <1>1 DEF UpdateProvider, IsBook
  <2>2. /\ entry \in [Providers(b) -> Entry]
        /\ \A p \in Providers(b) : entry[p] = IF p = id THEN e ELSE b.entry[p]
    BY <1>1 DEF IsBook
  <2> HIDE DEF entry, t
  <2>3. Folders(t) = Folders(b) /\ Providers(t) = Providers(b)
    BY <2>1, <2>2 DEF Folders, Providers
  <2>4. IsBook(t)
    BY <2>1, <2>2, <2>3 DEF IsBook
  <2>5. Tree(t)
    BY <2>1, <2>3, SkippedOK, TreeFacts
  <2> QED BY <2>1, <2>2, <2>3, <2>4, <2>5 DEF t
<1>2. CASE id \notin Providers(b)
  BY <1>2 DEF UpdateProvider
<1> QED BY <1>1, <1>2

LEMMA RemovedOK ==
    ASSUME NEW b, IsBook(b), Tree(b), NEW x \in Nodes(b)
    PROVE  /\ IsBook(Removed(b, x)) /\ Tree(Removed(b, x))
           /\ Removed(b, x).next = b.next
           /\ Providers(Removed(b, x)) = Providers(b) \ Below(b, x)
           /\ \A p \in Providers(b) \ Below(b, x) : Removed(b, x).entry[p] = b.entry[p]
<1> DEFINE t == Removed(b, x)
           gone == Below(b, x)
           kids == [f \in Folders(b) \ gone |-> Without(b.kids[f], x)]
           entry == [p \in Providers(b) \ gone |-> b.entry[p]]
<1>0. /\ Inside(b) /\ Root \in Folders(b) /\ Root \notin Nodes(b) /\ Root \notin Providers(b)
      /\ \A f \in Folders(b) : b.kids[f] \in Seq(Id) /\ IsInjective(b.kids[f])
      /\ \A f \in Folders(b) : f \in Nodes(b) \/ f = Root
      /\ Folders(b) \cap Providers(b) = {}
  BY TreeFacts DEF Tree
<1>1. /\ x \in gone /\ gone \subseteq Nodes(b) /\ Root \notin gone
      /\ \A z \in gone : Children(b, z) \subseteq gone
  BY <1>0, BelowFacts
<1>2. \A y \in gone : y # x => \E g \in gone : y \in Children(b, g)
  BY <1>0, BelowParent
<1>3. t = [kids |-> kids, entry |-> entry, next |-> b.next]
  <2>1. t = [b EXCEPT !.kids = kids, !.entry = entry]
    BY DEF Removed
  <2>2. b = [kids |-> b.kids, entry |-> b.entry, next |-> b.next]
    BY DEF IsBook
  <2> HIDE DEF t, kids, entry
  <2> QED BY <2>1, <2>2
<1>4. /\ DOMAIN kids = Folders(b) \ gone
      /\ \A f \in Folders(b) \ gone : kids[f] = Without(b.kids[f], x)
  OBVIOUS
<1>5. \A f \in Folders(b) : /\ Without(b.kids[f], x) \in Seq(Id)
                            /\ ToSet(Without(b.kids[f], x)) = ToSet(b.kids[f]) \ {x}
                            /\ IsInjective(Without(b.kids[f], x))
  BY <1>0, WithoutFacts
<1>6. /\ entry \in [Providers(b) \ gone -> Entry]
      /\ \A p \in Providers(b) \ gone : entry[p] = b.entry[p]
  BY DEF IsBook, Providers
<1>7. kids \in [Folders(b) \ gone -> Seq(Id)]
  BY <1>5
<1> HIDE DEF t, gone, kids, entry
<1>8. /\ Folders(t) = Folders(b) \ gone /\ Providers(t) = Providers(b) \ gone
      /\ Nodes(t) = Nodes(b) \ gone
  BY <1>1, <1>3, <1>4, <1>6 DEF Folders, Providers, Nodes
<1>9. IsBook(t)
  BY <1>3, <1>6, <1>7, <1>8 DEF IsBook
<1>10. \A f \in Folders(t) : Children(t, f) = Children(b, f) \ {x} /\ IsInjective(t.kids[f])
  BY <1>3, <1>4, <1>5, <1>8 DEF Children
\* What is left of a folder that is not removed is not removed either.
<1>11. \A f \in Folders(t) : Children(t, f) \subseteq Nodes(t)
  <2> SUFFICES ASSUME NEW f \in Folders(t), NEW y \in Children(t, f), y \in gone
               PROVE  FALSE
    BY <1>0, <1>8, <1>10 DEF Inside
  <2>1. y \in Children(b, f) /\ y # x /\ f \in Folders(b) /\ f \notin gone /\ y \in Nodes(b)
    BY <1>0, <1>8, <1>10 DEF Inside
  <2>2. PICK g \in gone : y \in Children(b, g)
    BY <1>2, <2>1
  <2>3. g \in Folders(b)
    BY <2>2 DEF Children
  <2> QED BY <2>1, <2>2, <2>3 DEF Tree
<1>12. ASSUME NEW y \in Nodes(t)
       PROVE  /\ y < t.next
              /\ \E f \in Folders(t) : \A g \in Folders(t) : y \in Children(t, g) <=> g = f
  <2>1. y \in Nodes(b) /\ y \notin gone /\ y # x
    BY <1>1, <1>8
  <2>2. PICK f \in Folders(b) : \A g \in Folders(b) : y \in Children(b, g) <=> g = f
    BY <2>1 DEF Tree
  <2>3. f \in Folders(t)
    BY <1>1, <1>8, <2>1, <2>2
  <2>4. \A g \in Folders(t) : y \in Children(t, g) <=> g = f
    BY <1>8, <1>10, <2>1, <2>2
  <2> QED BY <1>3, <2>1, <2>3, <2>4 DEF Tree
<1>13. Below(t, Root) = Nodes(t) \cup {Root}
  <2> DEFINE T == Below(t, Root)
  <2>1. Root \in T /\ T \subseteq Nodes(t) \cup {Root} /\ (\A z \in T : Children(t, z) \subseteq T)
    BY <1>11, BelowFacts DEF Inside
  <2> HIDE DEF T
  <2>2. \A z \in T \cup gone : Children(b, z) \subseteq T \cup gone
    <3> SUFFICES ASSUME NEW z \in T, z \notin gone
                 PROVE  Children(b, z) \subseteq T \cup gone
      BY <1>1
    <3>1. CASE z \in Folders(b)
      BY <1>1, <1>8, <1>10, <2>1, <3>1
    <3>2. CASE z \notin Folders(b)
      BY <3>2 DEF Children
    <3> QED BY <3>1, <3>2
  <2>3. Nodes(b) \cup {Root} \subseteq T \cup gone
    BY <1>0, <2>1, <2>2, BelowLeast, ZenonT(40) DEF Tree
  <2> QED BY <1>1, <1>8, <2>1, <2>3 DEF T
<1>14. Tree(t)
  BY <1>0, <1>1, <1>8, <1>10, <1>11, <1>12, <1>13 DEF Tree
<1> QED BY <1>3, <1>6, <1>8, <1>9, <1>14 DEF t, gone

LEMMA MovedOK ==
    ASSUME NEW b, IsBook(b), Tree(b), NEW x, NEW into, CanMove(b, x, into), NEW i \in Nat
    PROVE  /\ IsBook(MoveNodeTo(b, x, into, i)) /\ Tree(MoveNodeTo(b, x, into, i))
           /\ MoveNodeTo(b, x, into, i).next = b.next
           /\ MoveNodeTo(b, x, into, i).entry = b.entry
<1> DEFINE t == MoveNodeTo(b, x, into, i)
           gone == Below(b, x)
           kids == [f \in Folders(b) |-> IF f = into THEN Place(b.kids[f], x, i)
                                         ELSE Without(b.kids[f], x)]
<1>0. /\ Inside(b) /\ Root \in Folders(b) /\ Root \notin Nodes(b)
      /\ \A f \in Folders(b) : b.kids[f] \in Seq(Id) /\ IsInjective(b.kids[f])
      /\ x \in Nodes(b) /\ x \in Id /\ into \in Folders(b) /\ into \notin gone
      /\ x # Root
  BY TreeFacts DEF CanMove
<1>1. /\ x \in gone /\ gone \subseteq Nodes(b)
      /\ \A z \in gone : Children(b, z) \subseteq gone
  BY <1>0, BelowFacts
<1>2. t = [kids |-> kids, entry |-> b.entry, next |-> b.next]
  <2>1. t = [b EXCEPT !.kids = kids]
    BY DEF MoveNodeTo
  <2>2. b = [kids |-> b.kids, entry |-> b.entry, next |-> b.next]
    BY DEF IsBook
  <2> HIDE DEF t, kids
  <2> QED BY <2>1, <2>2
<1>3. \A f \in Folders(b) : /\ Without(b.kids[f], x) \in Seq(Id)
                            /\ ToSet(Without(b.kids[f], x)) = ToSet(b.kids[f]) \ {x}
                            /\ IsInjective(Without(b.kids[f], x))
  BY <1>0, WithoutFacts
<1>4. /\ Place(b.kids[into], x, i) \in Seq(Id)
      /\ ToSet(Place(b.kids[into], x, i)) = ToSet(b.kids[into]) \cup {x}
      /\ IsInjective(Place(b.kids[into], x, i))
  BY <1>0, PlaceFacts
<1>5. /\ kids \in [Folders(b) -> Seq(Id)]
      /\ \A f \in Folders(b) :
            /\ IsInjective(kids[f])
            /\ ToSet(kids[f]) = IF f = into THEN ToSet(b.kids[f]) \cup {x}
                                ELSE ToSet(b.kids[f]) \ {x}
  BY <1>3, <1>4
<1> HIDE DEF t, gone, kids
<1>6. Folders(t) = Folders(b) /\ Providers(t) = Providers(b) /\ Nodes(t) = Nodes(b)
  BY <1>2, <1>5 DEF Folders, Providers, Nodes
<1>7. IsBook(t)
  BY <1>2, <1>5, <1>6 DEF IsBook
<1>8. \A f \in Folders(b) :
         /\ IsInjective(t.kids[f])
         /\ Children(t, f) = IF f = into THEN Children(b, f) \cup {x} ELSE Children(b, f) \ {x}
  BY <1>2, <1>5, <1>6 DEF Children
<1>9. Inside(t)
  BY <1>0, <1>6, <1>8 DEF Inside
<1>10. ASSUME NEW y \in Nodes(t)
       PROVE  /\ y < t.next
              /\ \E f \in Folders(t) : \A g \in Folders(t) : y \in Children(t, g) <=> g = f
  <2>1. PICK f \in Folders(b) : \A g \in Folders(b) : y \in Children(b, g) <=> g = f
    BY <1>6 DEF Tree
  <2>2. y < t.next
    BY <1>2, <1>6 DEF Tree
  <2>3. CASE y = x
    BY <1>0, <1>6, <1>8, <2>2, <2>3
  <2>4. CASE y # x
    BY <1>6, <1>8, <2>1, <2>2, <2>4
  <2> QED BY <2>3, <2>4
\* Nothing but x and what is below it hangs on x; so the folder that x is moved to
\* is reached without it.
<1>11. Below(t, Root) = Nodes(t) \cup {Root}
  <2> DEFINE T == Below(t, Root)
             U == gone \cap T
  <2>1. Root \in T /\ T \subseteq Nodes(t) \cup {Root} /\ (\A z \in T : Children(t, z) \subseteq T)
    BY <1>9, BelowFacts
  <2> HIDE DEF T
  <2>2. \A z \in T \cup gone : Children(b, z) \subseteq T \cup gone
    <3> SUFFICES ASSUME NEW z \in T, z \notin gone
                 PROVE  Children(b, z) \subseteq T \cup gone
      BY <1>1
    <3>1. CASE z \in Folders(b)
      BY <1>1, <1>8, <2>1, <3>1
    <3>2. CASE z \notin Folders(b)
      BY <3>2 DEF Children
    <3> QED BY <3>1, <3>2
  <2>3. Nodes(b) \cup {Root} \subseteq T \cup gone
    BY <1>0, <2>1, <2>2, BelowLeast, ZenonT(40) DEF Tree
  <2>4. into \in T /\ x \in T
    <3>1. into \in T
      BY <1>0, <2>3 DEF Nodes
    <3> QED BY <1>0, <1>8, <2>1, <3>1
  <2>5. \A z \in U : Children(b, z) \subseteq U
    <3> SUFFICES ASSUME NEW z \in U, z \in Folders(b)
                 PROVE  Children(b, z) \subseteq U
      BY DEF Children
    <3>1. Children(t, z) = Children(b, z) \ {x}
      BY <1>0, <1>8
    <3> QED BY <1>1, <2>1, <2>4, <3>1
  <2>6. gone \subseteq U
    BY <1>0, <1>1, <2>4, <2>5, BelowLeast DEF gone
  <2> QED BY <1>6, <2>1, <2>3, <2>6 DEF T
<1>12. Tree(t)
  BY <1>0, <1>6, <1>8, <1>9, <1>10, <1>11 DEF Tree, Inside
<1> QED BY <1>2, <1>7, <1>12 DEF t

\* The ids of the copies are new, and each is given once.
LEMMA ReidFacts ==
    ASSUME NEW b, IsBook(b), Tree(b), NEW from \in Imports,
           b.next + Len(Preorder(from)) <= MaxId + 1
    PROVE  /\ Len(Preorder(from)) \in Nat
           /\ Reid(b, from) \in [Nodes(from) -> Id]
           /\ \A x, y \in Nodes(from) : Reid(b, from)[x] = Reid(b, from)[y] => x = y
           /\ \A x \in Nodes(from) :
                 /\ b.next <= Reid(b, from)[x]
                 /\ Reid(b, from)[x] < b.next + Len(Preorder(from))
<1> DEFINE pre == Preorder(from)
           nth(x) == CHOOSE i \in 1..Len(pre) : pre[i] = x
<1>1. pre \in Seq(Nodes(from)) /\ ToSet(pre) = Nodes(from)
  BY BookAssumption
<1> HIDE DEF pre
<1>2. Len(pre) \in Nat /\ (\A x \in Nodes(from) : \E i \in 1..Len(pre) : pre[i] = x)
  BY <1>1, ToSetFacts
<1>3. \A x \in Nodes(from) : nth(x) \in 1..Len(pre) /\ pre[nth(x)] = x
  BY <1>2
<1>4. Reid(b, from) = [x \in Nodes(from) |-> b.next + nth(x) - 1]
  BY DEF Reid, pre
<1> HIDE DEF nth
<1>5. b.next \in Nat /\ b.next >= 1 /\ MaxId \in Nat /\ b.next + Len(pre) <= MaxId + 1
  BY TreeFacts, BookAssumption DEF pre
<1>6. \A x \in Nodes(from) :
         /\ Reid(b, from)[x] = b.next + nth(x) - 1
         /\ Reid(b, from)[x] \in Id
         /\ b.next <= Reid(b, from)[x] /\ Reid(b, from)[x] < b.next + Len(pre)
  BY <1>2, <1>3, <1>4, <1>5 DEF Id
<1>7. \A x, y \in Nodes(from) : Reid(b, from)[x] = Reid(b, from)[y] => nth(x) = nth(y)
  BY <1>2, <1>3, <1>5, <1>6
<1> QED
  BY <1>2, <1>3, <1>4, <1>6, <1>7 DEF pre

\* What a merge leaves alone and what it adds: t is b with a copy of `from`, whose
\* nodes are renamed by new.
IsGraft(t, b, from, new) ==
    /\ t = [kids |-> t.kids, entry |-> t.entry, next |-> b.next + Len(Preorder(from))]
    /\ Folders(t) = Folders(b) \cup {new[f] : f \in Folders(from) \ {Root}}
    /\ Providers(t) = Providers(b) \cup {new[p] : p \in Providers(from)}
    /\ t.kids[Root] = b.kids[Root] \o Copied(new, from.kids[Root])
    /\ \A f \in Folders(b) \ {Root} : t.kids[f] = b.kids[f]
    /\ \A f \in Folders(from) \ {Root} : t.kids[new[f]] = Copied(new, from.kids[f])
    /\ \A p \in Providers(b) : t.entry[p] = b.entry[p]
    /\ \A p \in Providers(from) : t.entry[new[p]] = from.entry[p]
    /\ t.kids = [f \in Folders(t) |-> t.kids[f]]
    /\ t.entry = [p \in Providers(t) |-> t.entry[p]]

LEMMA GraftFacts ==
    ASSUME NEW b, IsBook(b), Tree(b), NEW from \in Imports,
           b.next + Len(Preorder(from)) <= MaxId + 1,
           NEW t, t = Graft(b, from), NEW new, new = Reid(b, from)
    PROVE  IsGraft(t, b, from, new)
<1> DEFINE old(y) == CHOOSE x \in Nodes(from) : new[x] = y
           kids == [y \in Folders(b) \cup {new[f] : f \in Folders(from) \ {Root}} |->
                     CASE y = Root -> b.kids[Root] \o Copied(new, from.kids[Root])
                       [] y \in Folders(b) \ {Root} -> b.kids[y]
                       [] OTHER -> Copied(new, from.kids[old(y)])]
           entry == [y \in Providers(b) \cup {new[p] : p \in Providers(from)} |->
                     IF y \in Providers(b) THEN b.entry[y] ELSE from.entry[old(y)]]
<1>0. IsBook(from) /\ Tree(from)
  BY BookAssumption
<1>1. t = [kids |-> kids, entry |-> entry, next |-> b.next + Len(Preorder(from))]
  BY DEF Graft, Copied
<1>2. /\ \A x, y \in Nodes(from) : new[x] = new[y] => x = y
      /\ \A x \in Nodes(from) : new[x] \notin Nodes(b) \cup {Root}
  <2>1. /\ \A x, y \in Nodes(from) : new[x] = new[y] => x = y
        /\ \A x \in Nodes(from) : b.next <= new[x] /\ new[x] \in Id
    BY ReidFacts
  <2>2. (\A x \in Nodes(b) : x < b.next /\ x \in Nat) /\ Root < b.next /\ Root \in Nat
        /\ b.next \in Nat /\ (\A x \in Id : x \in Nat)
    BY BookAssumption, TreeFacts DEF Tree, Root, Id
  <2> QED BY <2>1, <2>2
<1>3. \A x \in Nodes(from) : old(new[x]) = x
  BY <1>2
<1> HIDE DEF old
<1>4. /\ \A f \in Folders(from) \ {Root} : f \in Nodes(from)
      /\ \A p \in Providers(from) : p \in Nodes(from)
      /\ \A f \in Folders(b) \ {Root} : f \in Nodes(b)
      /\ \A p \in Providers(b) : p \in Nodes(b)
      /\ Root \in Folders(b)
  BY <1>0, TreeFacts DEF Nodes
<1>5. /\ DOMAIN kids = Folders(b) \cup {new[f] : f \in Folders(from) \ {Root}}
      /\ kids[Root] = b.kids[Root] \o Copied(new, from.kids[Root])
      /\ \A f \in Folders(b) \ {Root} : kids[f] = b.kids[f]
  BY <1>4
<1>6. \A f \in Folders(from) \ {Root} : kids[new[f]] = Copied(new, from.kids[f])
  <2> SUFFICES ASSUME NEW f \in Folders(from) \ {Root}
               PROVE  kids[new[f]] = Copied(new, from.kids[f])
    OBVIOUS
  <2>1. new[f] # Root /\ new[f] \notin Folders(b) \ {Root} /\ old(new[f]) = f
    BY <1>2, <1>3, <1>4
  <2> QED BY <2>1
<1>7. /\ DOMAIN entry = Providers(b) \cup {new[p] : p \in Providers(from)}
      /\ \A p \in Providers(b) : entry[p] = b.entry[p]
  OBVIOUS
<1>8. \A p \in Providers(from) : entry[new[p]] = from.entry[p]
  <2> SUFFICES ASSUME NEW p \in Providers(from)
               PROVE  entry[new[p]] = from.entry[p]
    OBVIOUS
  <2>1. new[p] \notin Providers(b) /\ old(new[p]) = p
    BY <1>2, <1>3, <1>4
  <2> QED BY <2>1
<1>9. kids = [f \in DOMAIN kids |-> kids[f]] /\ entry = [p \in DOMAIN entry |-> entry[p]]
  OBVIOUS
<1> HIDE DEF kids, entry
<1>10. Folders(t) = DOMAIN kids /\ Providers(t) = DOMAIN entry
  BY <1>1 DEF Folders, Providers
<1>11. /\ t.kids = kids /\ t.entry = entry
       /\ t = [kids |-> t.kids, entry |-> t.entry, next |-> b.next + Len(Preorder(from))]
  BY <1>1
<1>12. /\ t.kids = [f \in Folders(t) |-> t.kids[f]]
       /\ t.entry = [p \in Providers(t) |-> t.entry[p]]
  BY <1>9, <1>10, <1>11
<1> QED
  BY <1>5, <1>6, <1>7, <1>8, <1>10, <1>11, <1>12 DEF IsGraft

LEMMA GraftOK ==
    ASSUME NEW b, IsBook(b), Tree(b), NEW from \in Imports,
           b.next + Len(Preorder(from)) <= MaxId + 1
    PROVE  IsBook(Graft(b, from)) /\ Tree(Graft(b, from))
<1> DEFINE t == Graft(b, from)
           new == Reid(b, from)
           Image(S) == {new[x] : x \in S}
<1>a. t = Graft(b, from) /\ new = Reid(b, from)
  OBVIOUS
<1> HIDE DEF t, new
<1>b. IsGraft(t, b, from, new)
  BY <1>a, GraftFacts
<1>0. /\ Folders(t) = Folders(b) \cup Image(Folders(from) \ {Root})
      /\ Providers(t) = Providers(b) \cup Image(Providers(from))
      /\ t = [kids |-> t.kids, entry |-> t.entry, next |-> b.next + Len(Preorder(from))]
      /\ t.kids[Root] = b.kids[Root] \o Copied(new, from.kids[Root])
      /\ \A f \in Folders(b) \ {Root} : t.kids[f] = b.kids[f]
      /\ \A f \in Folders(from) \ {Root} : t.kids[new[f]] = Copied(new, from.kids[f])
      /\ \A p \in Providers(b) : t.entry[p] = b.entry[p]
      /\ \A p \in Providers(from) : t.entry[new[p]] = from.entry[p]
      /\ t.kids = [f \in Folders(t) |-> t.kids[f]]
      /\ t.entry = [p \in Providers(t) |-> t.entry[p]]
  BY <1>b DEF IsGraft
<1>1. /\ Len(Preorder(from)) \in Nat /\ new \in [Nodes(from) -> Id]
      /\ \A x, y \in Nodes(from) : new[x] = new[y] => x = y
      /\ \A x \in Nodes(from) : b.next <= new[x] /\ new[x] < b.next + Len(Preorder(from))
  BY <1>a, ReidFacts
<1>2. /\ Inside(b) /\ b.next \in Nat /\ b.next >= 1 /\ Nodes(b) \subseteq Nat
      /\ Root \in Folders(b) /\ Root \notin Nodes(b) /\ Root \notin Providers(b)
      /\ \A f \in Folders(b) : b.kids[f] \in Seq(Id) /\ IsInjective(b.kids[f])
      /\ \A f \in Folders(b) : f \in Nodes(b) \/ f = Root
      /\ \A x \in Nodes(b) : x < b.next
  BY TreeFacts DEF Tree
<1>3. /\ IsBook(from) /\ Tree(from)
      /\ Inside(from) /\ Nodes(from) \subseteq Id
      /\ Root \in Folders(from) /\ Root \notin Nodes(from) /\ Root \notin Providers(from)
      /\ \A f \in Folders(from) : from.kids[f] \in Seq(Id) /\ IsInjective(from.kids[f])
      /\ \A f \in Folders(from) : f \in Nodes(from) \/ f = Root
  <2>1. IsBook(from) /\ Tree(from)
    BY BookAssumption
  <2> QED BY <2>1, TreeFacts
<1>4. MaxId \in Nat /\ Id \subseteq Nat /\ Root = 0
  BY BookAssumption DEF Id, Root
\* No copy has an id that was taken.
<1>5. \A x \in Nodes(from) : new[x] \notin Nodes(b) /\ new[x] # Root
  BY <1>1, <1>2, <1>4
\* The lists of copies.
<1>6. \A f \in Folders(from) :
         /\ Copied(new, from.kids[f]) \in Seq(Id)
         /\ ToSet(Copied(new, from.kids[f])) = Image(Children(from, f))
         /\ IsInjective(Copied(new, from.kids[f]))
  <2> SUFFICES ASSUME NEW f \in Folders(from)
               PROVE  /\ Copied(new, from.kids[f]) \in Seq(Id)
                      /\ ToSet(Copied(new, from.kids[f])) = Image(Children(from, f))
                      /\ IsInjective(Copied(new, from.kids[f]))
    OBVIOUS
  <2>1. from.kids[f] \in Seq(Nodes(from))
    <3>1. \A i \in 1..Len(from.kids[f]) : from.kids[f][i] \in Nodes(from)
      BY <1>3, ToSetFacts DEF Inside, Children
    <3>2. /\ Len(from.kids[f]) \in Nat
          /\ from.kids[f] \in [1..Len(from.kids[f]) -> Id]
      BY <1>3, LenProperties
    <3>3. from.kids[f] \in [1..Len(from.kids[f]) -> Nodes(from)]
      BY <3>1, <3>2
    <3> QED BY <3>2, <3>3, SeqDef
  <2>2. Children(from, f) = ToSet(from.kids[f])
    BY DEF Children
  <2>3. /\ Copied(new, from.kids[f]) \in Seq(Id)
        /\ ToSet(Copied(new, from.kids[f])) = {new[y] : y \in ToSet(from.kids[f])}
        /\ IsInjective(from.kids[f]) => IsInjective(Copied(new, from.kids[f]))
    BY <1>1, <2>1, RenamedFacts
  <2> QED BY <1>3, <2>2, <2>3
<1>7. /\ Children(t, Root) = Children(b, Root) \cup Image(Children(from, Root))
      /\ t.kids[Root] \in Seq(Id) /\ IsInjective(t.kids[Root])
  <2>1. ToSet(b.kids[Root]) = Children(b, Root) /\ Children(b, Root) \subseteq Nodes(b)
    BY <1>2 DEF Children, Inside
  <2>2. ToSet(b.kids[Root]) \cap ToSet(Copied(new, from.kids[Root])) = {}
    <3>1. ToSet(Copied(new, from.kids[Root])) = Image(Children(from, Root))
      BY <1>3, <1>6
    <3>2. \A y \in Children(from, Root) : y \in Nodes(from)
      BY <1>3 DEF Inside
    <3> HIDE DEF Image
    <3>3. \A z \in Image(Children(from, Root)) : z \notin Nodes(b)
      BY <1>5, <3>2 DEF Image
    <3> QED BY <2>1, <3>1, <3>3
  <2>3. /\ t.kids[Root] \in Seq(Id) /\ IsInjective(t.kids[Root])
        /\ ToSet(t.kids[Root]) = ToSet(b.kids[Root]) \cup ToSet(Copied(new, from.kids[Root]))
    BY <1>0, <1>2, <1>3, <1>6, <2>2, ConcatFacts
  <2>4. Children(t, Root) = ToSet(t.kids[Root])
    BY <1>0, <1>2 DEF Children
  <2> QED BY <1>3, <1>6, <2>1, <2>3, <2>4
<1>8. \A f \in Folders(b) \ {Root} :
         /\ Children(t, f) = Children(b, f)
         /\ t.kids[f] \in Seq(Id) /\ IsInjective(t.kids[f])
  BY <1>0, <1>2 DEF Children
<1>9. \A f \in Folders(from) \ {Root} :
         /\ Children(t, new[f]) = Image(Children(from, f))
         /\ t.kids[new[f]] \in Seq(Id) /\ IsInjective(t.kids[new[f]])
  BY <1>0, <1>6 DEF Children
<1>10. \A f \in Folders(t) : \/ f = Root
                             \/ f \in Folders(b) \ {Root}
                             \/ \E g \in Folders(from) \ {Root} : f = new[g]
  BY <1>0
<1>11. Nodes(t) = Nodes(b) \cup Image(Nodes(from))
  BY <1>0, <1>2, <1>3, <1>5 DEF Nodes
<1>12. IsBook(t)
  <2>1. /\ t.kids \in [Folders(t) -> Seq(Id)]
        /\ \A f \in Folders(t) : IsInjective(t.kids[f])
    BY <1>0, <1>7, <1>8, <1>9, <1>10, ZenonT(40)
  <2>2. ASSUME NEW p \in Providers(t)
        PROVE  t.entry[p] \in Entry
    <3>1. CASE p \in Providers(b)
      <4>1. b.entry[p] \in Entry
        BY <3>1 DEF IsBook
      <4> QED BY <1>0, <3>1, <4>1
    <3>2. CASE p \in Image(Providers(from))
      <4>1. PICK q \in Providers(from) : p = new[q]
        BY <3>2
      <4>2. from.entry[q] \in Entry
        BY <1>3 DEF IsBook
      <4> QED BY <1>0, <4>1, <4>2
    <3> QED BY <1>0, <3>1, <3>2
  <2>3. t.entry \in [Providers(t) -> Entry]
    BY <1>0, <2>2
  <2>4. b.next + Len(Preorder(from)) \in 1..MaxId + 1
    BY <1>1, <1>2, <1>4
  <2>5. Folders(t) \subseteq {Root} \cup Id /\ Providers(t) \subseteq Id
    BY <1>0, <1>1, <1>3 DEF IsBook, Nodes
  <2> QED BY <1>0, <2>1, <2>3, <2>4, <2>5 DEF IsBook
<1>13. Inside(t)
  <2> SUFFICES ASSUME NEW f \in Folders(t)
               PROVE  Children(t, f) \subseteq Nodes(t)
    BY DEF Inside
  <2>1. \A g \in Folders(from) : Image(Children(from, g)) \subseteq Image(Nodes(from))
    BY <1>3 DEF Inside
  <2> HIDE DEF Image
  <2>2. CASE f = Root
    BY <1>2, <1>3, <1>7, <1>11, <2>1, <2>2 DEF Inside
  <2>3. CASE f \in Folders(b) \ {Root}
    BY <1>2, <1>8, <1>11, <2>3 DEF Inside
  <2>4. CASE \E g \in Folders(from) \ {Root} : f = new[g]
    BY <1>9, <1>11, <2>1, <2>4
  <2> QED BY <1>10, <2>2, <2>3, <2>4
<1>14. Folders(t) \cap Providers(t) = {}
  BY <1>0, <1>1, <1>2, <1>3, <1>5 DEF Tree, Nodes
<1>15. \A f \in Folders(from), y \in Nodes(from) :
          new[y] \in Image(Children(from, f)) <=> y \in Children(from, f)
  BY <1>1, <1>3 DEF Inside
<1>16. ASSUME NEW x \in Nodes(t)
       PROVE  /\ x < t.next
              /\ \E f \in Folders(t) : \A g \in Folders(t) : x \in Children(t, g) <=> g = f
  <2>1. CASE x \in Nodes(b)
    <3>1. x < b.next + Len(Preorder(from))
      BY <1>1, <1>2, <2>1
    <3>2. PICK f \in Folders(b) : \A g \in Folders(b) : x \in Children(b, g) <=> g = f
      BY <2>1 DEF Tree
    <3>3. \A h \in Folders(from) : x \notin Image(Children(from, h))
      BY <1>3, <1>5, <2>1 DEF Inside
    <3>4. \A h \in Folders(from) \ {Root} : new[h] # f
      BY <1>2, <1>3, <1>5, <3>2
    <3>5. ASSUME NEW g \in Folders(t)
          PROVE  x \in Children(t, g) <=> g = f
      <4>1. CASE g = Root
        BY <1>2, <1>3, <1>7, <3>2, <3>3, <4>1
      <4>2. CASE g \in Folders(b) \ {Root}
        BY <1>8, <3>2, <4>2
      <4>3. CASE \E h \in Folders(from) \ {Root} : g = new[h]
        BY <1>9, <3>3, <3>4, <4>3
      <4> QED BY <1>10, <4>1, <4>2, <4>3
    <3>6. f \in Folders(t)
      BY <1>0
    <3> QED BY <1>0, <3>1, <3>5, <3>6
  <2>2. CASE x \in Image(Nodes(from))
    <3>1. PICK y \in Nodes(from) : x = new[y]
      BY <2>2
    <3>2. PICK h \in Folders(from) : \A g \in Folders(from) : y \in Children(from, g) <=> g = h
      BY <1>3 DEF Tree
    <3> DEFINE f == IF h = Root THEN Root ELSE new[h]
    <3>3. f \in Folders(t)
      BY <1>0, <1>2
    <3>4. ASSUME NEW g \in Folders(t)
          PROVE  x \in Children(t, g) <=> g = f
      <4>0. x \notin Nodes(b)
        BY <1>5, <3>1
      <4>1. CASE g = Root
        <5>1. x \in Children(t, g) <=> y \in Children(from, Root)
          BY <1>2, <1>3, <1>7, <1>15, <3>1, <4>0, <4>1 DEF Inside
        <5>2. g = f <=> h = Root
          BY <1>3, <1>5, <4>1
        <5> QED BY <1>3, <3>2, <5>1, <5>2
      <4>2. CASE g \in Folders(b) \ {Root}
        <5>1. x \notin Children(t, g)
          BY <1>2, <1>8, <4>0, <4>2 DEF Inside
        <5>2. g # f
          BY <1>2, <1>3, <1>5, <4>2
        <5> QED BY <5>1, <5>2
      <4>3. CASE \E j \in Folders(from) \ {Root} : g = new[j]
        <5>1. PICK j \in Folders(from) \ {Root} : g = new[j]
          BY <4>3
        <5>2. x \in Children(t, g) <=> j = h
          BY <1>9, <1>15, <3>1, <3>2, <5>1
        <5>3. g = f <=> j = h
          BY <1>1, <1>3, <1>5, <5>1
        <5> QED BY <5>2, <5>3
      <4> QED BY <1>10, <4>1, <4>2, <4>3
    <3>5. x < t.next
      BY <1>0, <1>1, <3>1
    <3> QED BY <3>3, <3>4, <3>5
  <2> QED BY <1>11, <2>1, <2>2
<1>17. Below(t, Root) = Nodes(t) \cup {Root}
  <2> DEFINE T == Below(t, Root)
             U == {x \in Nodes(from) : new[x] \in T} \cup {Root}
  <2>1. Root \in T /\ T \subseteq Nodes(t) \cup {Root} /\ (\A z \in T : Children(t, z) \subseteq T)
    BY <1>13, BelowFacts
  <2> HIDE DEF T
  <2>2. \A z \in T : Children(b, z) \subseteq T
    <3> SUFFICES ASSUME NEW z \in T, z \in Folders(b)
                 PROVE  Children(b, z) \subseteq Children(t, z)
      BY <2>1 DEF Children
    <3> QED BY <1>7, <1>8
  <2>3. Nodes(b) \cup {Root} \subseteq T
    BY <1>2, <2>1, <2>2, BelowLeast DEF Tree
  <2>4. \A z \in U : Children(from, z) \subseteq U
    <3> SUFFICES ASSUME NEW z \in U, z \in Folders(from), NEW y \in Children(from, z)
                 PROVE  y \in U
      BY DEF Children
    <3>1. y \in Nodes(from)
      BY <1>3 DEF Inside
    <3>2. new[y] \in T
      <4>1. CASE z = Root
        BY <1>7, <2>1, <4>1
      <4>2. CASE z # Root
        BY <1>9, <2>1, <4>2, ZenonT(40)
      <4> QED BY <4>1, <4>2
    <3> QED BY <3>1, <3>2
  <2>5. Nodes(from) \subseteq U
    <3>1. Root \in U
      OBVIOUS
    <3> HIDE DEF U
    <3>2. Below(from, Root) \subseteq U
      BY <1>3, <2>4, <3>1, BelowLeast
    <3> QED BY <1>3, <3>2 DEF Tree
  <2>6. Image(Nodes(from)) \subseteq T
    BY <1>3, <2>5
  <2> QED BY <1>11, <2>1, <2>3, <2>6 DEF T
<1>18. \A f \in Folders(t) : IsInjective(t.kids[f])
  BY <1>7, <1>8, <1>9, <1>10
<1>19. Root \in Folders(t)
  BY <1>0, <1>2
<1>20. Tree(t)
  BY <1>13, <1>14, <1>16, <1>17, <1>18, <1>19 DEF Tree, Inside
<1> QED BY <1>12, <1>20, <1>a

-------------------------------------------------------------------------------
(* The inductive invariant.  Sessions and hubs are keyed by ids: that none  *)
(* of them runs ahead of the counter is what keeps a new or merged provider *)
(* from finding a hub of another under its id.                              *)

Handed == \A id \in DOMAIN hub \ strays : id < book.next

BookInv == TypeOK /\ Tree(book) /\ SurvivesRestart /\ SessionsMatch /\ Handed

LEMMA EmptyOK == IsBook(Empty) /\ Tree(Empty)
<1> DEFINE none == <<>>
           k == [f \in {Root} |-> none]
<1>1. none \in Seq(Id) /\ DOMAIN none = {} /\ none \in [{} -> Entry]
  <2>1. none \in Seq(Id) /\ none \in Seq(Entry) /\ Len(none) = 0
    BY EmptySeq
  <2>2. 1..0 = {}
    OBVIOUS
  <2> HIDE DEF none
  <2> QED BY <2>1, <2>2, LenProperties
<1>2. ToSet(none) = {} /\ IsInjective(none)
  BY EmptyFacts
<1>3. Empty = [kids |-> k, entry |-> none, next |-> 1]
  BY DEF Empty
<1> HIDE DEF none
<1>4. DOMAIN k = {Root} /\ k[Root] = none /\ k \in [{Root} -> Seq(Id)]
  BY <1>1
<1> HIDE DEF k
<1>5. Folders(Empty) = {Root} /\ Providers(Empty) = {} /\ Nodes(Empty) = {}
  BY <1>1, <1>3, <1>4 DEF Folders, Providers, Nodes
<1>6. \A f \in Folders(Empty) : Children(Empty, f) = {} /\ IsInjective(Empty.kids[f])
  BY <1>2, <1>3, <1>4, <1>5 DEF Children
<1>7. Below(Empty, Root) = Nodes(Empty) \cup {Root}
  <2>1. Inside(Empty)
    BY <1>6 DEF Inside
  <2> QED BY <1>5, <2>1, BelowFacts
<1>8. Tree(Empty)
  BY <1>5, <1>6, <1>7 DEF Tree
<1>9. IsBook(Empty)
  <2> DEFINE b == Empty
  <2>1. /\ b.kids = k /\ b.entry = none /\ b.next = 1
        /\ b = [kids |-> b.kids, entry |-> b.entry, next |-> b.next]
        /\ Folders(b) = {Root} /\ Providers(b) = {}
    BY <1>3, <1>5
  <2> HIDE DEF b
  <2>2. b.next \in 1..MaxId + 1
    BY <2>1, BookAssumption
  <2>3. IsBook(b)
    BY <1>1, <1>4, <2>1, <2>2 DEF IsBook
  <2> QED BY <2>3 DEF b
<1> QED BY <1>8, <1>9

LEMMA InitOK == Init => BookInv
<1> SUFFICES ASSUME Init PROVE BookInv
  OBVIOUS
<1> DEFINE none == <<>>
<1>1. DOMAIN none = {}
  <2>1. none \in Seq(Id) /\ Len(none) = 0 /\ 1..0 = {}
    BY EmptySeq
  <2> HIDE DEF none
  <2> QED BY <2>1, LenProperties
<1>2. open = none /\ hub = none
  BY DEF Init
<1> HIDE DEF none
<1>3. Cardinality(staged) = 0 /\ 0 <= 1
  BY FS_EmptySet DEF Init
<1>4. TypeOK
  BY <1>1, <1>2, <1>3, EmptyOK DEF Init, TypeOK
<1>5. Tree(book) /\ SurvivesRestart /\ SessionsMatch /\ Handed
  BY <1>1, <1>2, EmptyOK DEF Init, SurvivesRestart, SessionsMatch, Handed
<1> QED BY <1>4, <1>5 DEF BookInv

\* What the ids of the book are, and those of the hubs.
LEMMA InvFacts ==
    ASSUME BookInv
    PROVE  /\ IsBook(book) /\ Tree(book) /\ disk = book
           /\ book.next \in Nat /\ Id \subseteq Nat
           /\ Nodes(book) \subseteq Id /\ Providers(book) \subseteq Nodes(book)
           /\ \A p \in Providers(book) : p < book.next /\ book.entry[p] \in Entry
           /\ DOMAIN hub = DOMAIN open \cup web /\ DOMAIN open \subseteq Id
           /\ web \subseteq Id /\ strays \subseteq DOMAIN hub
<1>1. /\ IsBook(book) /\ Tree(book) /\ disk = book
      /\ DOMAIN hub = DOMAIN open \cup web /\ DOMAIN open \subseteq Id
      /\ web \subseteq Id /\ strays \subseteq DOMAIN hub
  BY DEF BookInv, TypeOK, SurvivesRestart
<1>2. book.next \in Nat /\ Nodes(book) \subseteq Id /\ Root \notin Providers(book)
  BY <1>1, TreeFacts
<1>3. Id \subseteq Nat
  BY BookAssumption DEF Id
<1>4. Providers(book) \subseteq Nodes(book)
  BY <1>2 DEF Nodes
<1>5. \A p \in Providers(book) : p < book.next /\ book.entry[p] \in Entry
  BY <1>1, <1>4 DEF Tree, IsBook
<1> QED BY <1>1, <1>2, <1>3, <1>4, <1>5

\* A change of the book that keeps what it says of the providers it had.
LEMMA GrowsOK ==
    ASSUME BookInv, NEW b, IsBook(b), Tree(b), Save(b), b.next >= book.next,
           \A p \in Providers(b) : p < book.next => p \in Providers(book),
           \A p \in Providers(book) : p \in Providers(b) /\ b.entry[p] = book.entry[p],
           UNCHANGED <<last, open, active, hub, web, strays>>,
           staged' = staged \/ staged' = {}
    PROVE  BookInv'
<1>1. book' = b /\ disk' = b /\ b.next \in Nat /\ book.next \in Nat
  BY InvFacts, TreeFacts DEF Save
<1>2. staged' \subseteq Imports /\ Cardinality(staged') <= 1 /\ staged' \subseteq staged
  <2>1. Cardinality({}) = 0 /\ 0 <= 1
    BY FS_EmptySet
  <2> QED BY <2>1 DEF BookInv, TypeOK
<1>3. TypeOK'
  BY <1>1, <1>2 DEF BookInv, TypeOK
<1>4. SurvivesRestart'
  BY <1>1 DEF BookInv, SurvivesRestart
<1>5. Handed'
  BY <1>1, InvFacts DEF BookInv, Handed
<1>6. SessionsMatch'
  <2> SUFFICES ASSUME NEW id \in DOMAIN hub \ strays
               PROVE  /\ id \in DOMAIN open => id \in Providers(b) /\ open[id] = b.entry[id]
                      /\ id \in Providers(b) => hub[id] = b.entry[id].addr
    BY <1>1 DEF SessionsMatch
  <2>1. id < book.next
    BY DEF BookInv, Handed
  <2> QED BY <2>1 DEF BookInv, SessionsMatch
<1> QED BY <1>1, <1>3, <1>4, <1>5, <1>6 DEF BookInv

LEMMA NewFolderOK ==
    ASSUME BookInv, NEW parent, NewFolder(parent)
    PROVE  BookInv'
<1> DEFINE b == AddFolder(book, parent)
<1>1. /\ Save(b) /\ book.next <= MaxId
      /\ UNCHANGED <<last, open, active, hub, web, strays>> /\ staged' = staged
  BY DEF NewFolder
<1>2. IsBook(b) /\ Tree(b) /\ b.next >= book.next /\ b.entry = book.entry
  BY <1>1, InvFacts, AddFolderOK
<1> HIDE DEF b
<1>3. Providers(b) = Providers(book)
  BY <1>2 DEF Providers
<1> QED BY <1>1, <1>2, <1>3, GrowsOK

\* NewProvider and AddDiscovered.
LEMMA AddsOK ==
    ASSUME BookInv, NEW parent, NEW e \in Entry, book.next <= MaxId,
           Save(AddProvider(book, parent, e)),
           UNCHANGED <<last, open, active, hub, web, staged, strays>>
    PROVE  BookInv'
<1> DEFINE b == AddProvider(book, parent, e)
<1>1. /\ IsBook(b) /\ Tree(b) /\ b.next >= book.next
      /\ Providers(book) \subseteq Providers(b)
      /\ Providers(b) \subseteq Providers(book) \cup {book.next}
      /\ \A p \in Providers(book) : b.entry[p] = book.entry[p]
  BY InvFacts, AddProviderOK
<1>2. Save(b)
  OBVIOUS
<1> HIDE DEF b
<1>3. \A p \in Providers(b) : p < book.next => p \in Providers(book)
  BY <1>1, InvFacts
<1> QED BY <1>1, <1>2, <1>3, GrowsOK

\* A place in a folder is a number.
LEMMA DropsFacts ==
    ASSUME BookInv, NEW into \in Folders(book), NEW i \in Drops(into)
    PROVE  i \in Nat
<1>1. Len(book.kids[into]) \in Nat /\ MaxId \in Nat
  BY InvFacts, TreeFacts, ToSetFacts, BookAssumption
<1> QED BY <1>1 DEF Drops

LEMMA MoveOK ==
    ASSUME BookInv, NEW x, NEW into, Move(x, into)
    PROVE  BookInv'
<1>1. /\ CanMove(book, x, into)
      /\ UNCHANGED <<last, open, active, hub, web, strays>> /\ staged' = staged
      /\ \E i \in Drops(into) : Save(MoveNodeTo(book, x, into, i))
  BY DEF Move
<1>2. PICK i \in Drops(into) : Save(MoveNodeTo(book, x, into, i))
  BY <1>1
<1>3. i \in Nat
  BY <1>1, DropsFacts DEF CanMove
<1> DEFINE b == MoveNodeTo(book, x, into, i)
<1>4. IsBook(b) /\ Tree(b) /\ b.next = book.next /\ b.entry = book.entry
  BY <1>1, <1>3, InvFacts, MovedOK
<1>5. Save(b)
  BY <1>2
<1> HIDE DEF b
<1>6. Providers(b) = Providers(book) /\ b.next >= book.next
  BY <1>4, InvFacts DEF Providers
<1> QED BY <1>1, <1>4, <1>5, <1>6, GrowsOK

LEMMA MergeOK ==
    ASSUME BookInv, NEW from \in Imports, Merge(from)
    PROVE  BookInv'
<1> DEFINE b == Graft(book, from)
           new == Reid(book, from)
<1>1. /\ Save(b) /\ book.next + Len(Preorder(from)) <= MaxId + 1
      /\ UNCHANGED <<last, open, active, hub, web, strays>> /\ staged' = {}
  BY DEF Merge
<1>2. IsBook(b) /\ Tree(b)
  BY <1>1, InvFacts, GraftOK
<1>3. b = Graft(book, from) /\ new = Reid(book, from)
  OBVIOUS
<1> HIDE DEF b, new
<1>4. IsGraft(b, book, from, new)
  BY <1>1, <1>3, InvFacts, GraftFacts
<1>5. /\ Len(Preorder(from)) \in Nat
      /\ \A x \in Nodes(from) : book.next <= new[x] /\ new[x] \in Nat
  BY <1>1, <1>3, InvFacts, ReidFacts
<1>6. b.next >= book.next
  <2>1. b.next = book.next + Len(Preorder(from))
    BY <1>4 DEF IsGraft
  <2> QED BY <1>5, <2>1, InvFacts
<1>7. \A p \in Providers(b) : p < book.next => p \in Providers(book)
  <2> SUFFICES ASSUME NEW q \in Providers(from), new[q] < book.next
               PROVE  FALSE
    BY <1>4 DEF IsGraft
  <2>1. q \in Nodes(from)
    BY BookAssumption, TreeFacts DEF Nodes
  <2> QED BY <1>5, <2>1, InvFacts
<1>8. \A p \in Providers(book) : p \in Providers(b) /\ b.entry[p] = book.entry[p]
  BY <1>4 DEF IsGraft
<1> QED BY <1>1, <1>2, <1>6, <1>7, <1>8, GrowsOK

\* The session and the hub of a provider that is edited follow it.
LEMMA EditOK ==
    ASSUME BookInv, NEW id, NEW e \in Entry, Edit(id, e)
    PROVE  BookInv'
<1> DEFINE b == UpdateProvider(book, id, e)
           moved == id \in Providers(book) /\ book.entry[id].addr # e.addr
<1>1. /\ IsBook(b) /\ Tree(b) /\ b.next = book.next /\ Providers(b) = Providers(book)
      /\ \A p \in Providers(book) : b.entry[p] = IF p = id THEN e ELSE book.entry[p]
  BY InvFacts, UpdateProviderOK
<1>2. /\ book' = b /\ disk' = b
      /\ open' = IF id \in DOMAIN open
                 THEN [open EXCEPT ![id].name = e.name,
                                   ![id].addr = IF moved THEN e.addr ELSE @]
                 ELSE open
      /\ hub' = IF moved /\ id \in DOMAIN hub THEN [hub EXCEPT ![id] = e.addr] ELSE hub
      /\ UNCHANGED <<last, active, web, staged, strays>>
  BY DEF Edit, Save
<1> HIDE DEF b
<1>3. DOMAIN open' = DOMAIN open /\ DOMAIN hub' = DOMAIN hub
  BY <1>2
<1>4. TypeOK'
  BY <1>1, <1>2, <1>3 DEF BookInv, TypeOK
<1>5. SurvivesRestart' /\ Handed'
  BY <1>1, <1>2, <1>3 DEF BookInv, SurvivesRestart, Handed
<1>6. SessionsMatch'
  <2> SUFFICES ASSUME NEW h \in DOMAIN hub \ strays
               PROVE  /\ h \in DOMAIN open => h \in Providers(b) /\ open'[h] = b.entry[h]
                      /\ h \in Providers(b) => hub'[h] = b.entry[h].addr
    BY <1>2, <1>3 DEF SessionsMatch
  <2>1. /\ h \in DOMAIN open => h \in Providers(book) /\ open[h] = book.entry[h]
        /\ h \in Providers(book) => hub[h] = book.entry[h].addr
    BY DEF BookInv, SessionsMatch
  <2>2. CASE h # id
    BY <1>1, <1>2, <2>1, <2>2
  <2>3. CASE h = id
    <3>1. h \in Providers(book) => hub'[h] = e.addr
      BY <1>2, <2>1, <2>3
    <3>2. ASSUME h \in DOMAIN open
          PROVE  open'[h] = e
      <4>1. /\ e = [name |-> e.name, addr |-> e.addr]
            /\ open[h] = [name |-> open[h].name, addr |-> open[h].addr]
        BY <2>1, <3>2, InvFacts, BookAssumption
      <4>2. open'[h].name = e.name /\ open'[h].addr = e.addr
            /\ open'[h] = [name |-> open'[h].name, addr |-> open'[h].addr]
        BY <1>2, <2>1, <2>3, <3>2, <4>1
      <4> QED BY <4>1, <4>2
    <3> QED BY <1>1, <2>1, <2>3, <3>1, <3>2
  <2> QED BY <2>2, <2>3
<1> QED BY <1>1, <1>2, <1>4, <1>5, <1>6 DEF BookInv

\* What closing sessions leaves open, and which hubs stay.
LEMMA CloseFacts ==
    ASSUME BookInv, NEW S, Close(S)
    PROVE  /\ DOMAIN open' = DOMAIN open \ S
           /\ \A id \in DOMAIN open' : open'[id] = open[id]
           /\ DOMAIN hub' = DOMAIN open' \cup web
           /\ \A id \in DOMAIN hub' : id \in DOMAIN hub /\ hub'[id] = hub[id]
           /\ strays' = strays \cap DOMAIN hub'
           /\ IF DOMAIN open' = {} THEN active' = NoId ELSE active' \in DOMAIN open'
           /\ last' \subseteq Id
           /\ DOMAIN open' # {} => last' = DOMAIN open'
<1>1. /\ DOMAIN open' = DOMAIN open \ S
      /\ \A id \in DOMAIN open' : open'[id] = open[id]
  BY DEF Close
<1>2. DOMAIN hub = DOMAIN open \cup web
  BY InvFacts
<1>3. /\ DOMAIN hub' = DOMAIN open' \cup web
      /\ \A id \in DOMAIN hub' : id \in DOMAIN hub /\ hub'[id] = hub[id]
  BY <1>1, <1>2 DEF Close
<1>4. IF DOMAIN open' = {} THEN active' = NoId ELSE active' \in DOMAIN open'
  BY <1>1 DEF Close, BookInv, TypeOK
<1>5. last' \subseteq Id /\ (DOMAIN open' # {} => last' = DOMAIN open')
  BY <1>1, InvFacts DEF Close, BookInv, TypeOK, SurvivesRestart
<1>6. strays' = strays \cap DOMAIN hub'
  BY DEF Close
<1> QED BY <1>1, <1>3, <1>4, <1>5, <1>6

\* Sessions are closed because their providers are gone, or by themselves.
LEMMA ClosedOK ==
    ASSUME BookInv, NEW b, IsBook(b), Tree(b), Save(b), b.next = book.next, NEW S, Close(S),
           Providers(b) \subseteq Providers(book),
           \A p \in Providers(book) \ S : p \in Providers(b),
           \A p \in Providers(b) : b.entry[p] = book.entry[p],
           UNCHANGED <<web, staged>>
    PROVE  BookInv'
<1>1. book' = b /\ disk' = b
  BY DEF Save
<1>2. /\ DOMAIN open' = DOMAIN open \ S
      /\ \A id \in DOMAIN open' : open'[id] = open[id]
      /\ DOMAIN hub' = DOMAIN open' \cup web
      /\ \A id \in DOMAIN hub' : id \in DOMAIN hub /\ hub'[id] = hub[id]
      /\ strays' = strays \cap DOMAIN hub'
      /\ IF DOMAIN open' = {} THEN active' = NoId ELSE active' \in DOMAIN open'
      /\ last' \subseteq Id
      /\ DOMAIN open' # {} => last' = DOMAIN open'
  BY CloseFacts
<1>3. TypeOK'
  BY <1>1, <1>2 DEF BookInv, TypeOK
<1>4. SurvivesRestart' /\ Handed'
  BY <1>1, <1>2 DEF BookInv, SurvivesRestart, Handed
<1>5. SessionsMatch'
  <2> SUFFICES ASSUME NEW h \in DOMAIN hub', h \notin strays'
               PROVE  /\ h \in DOMAIN open' => h \in Providers(b) /\ open'[h] = b.entry[h]
                      /\ h \in Providers(b) => hub'[h] = b.entry[h].addr
    BY <1>1 DEF SessionsMatch
  <2>1. h \in DOMAIN hub \ strays /\ hub'[h] = hub[h]
    BY <1>2
  <2>2. /\ h \in DOMAIN open => h \in Providers(book) /\ open[h] = book.entry[h]
        /\ h \in Providers(book) => hub[h] = book.entry[h].addr
    BY <2>1 DEF BookInv, SessionsMatch
  <2>3. h \in DOMAIN open' => h \in DOMAIN open \ S /\ open'[h] = open[h]
    BY <1>2
  <2> QED BY <2>1, <2>2, <2>3
<1> QED BY <1>1, <1>3, <1>4, <1>5 DEF BookInv

LEMMA RemoveNodeOK ==
    ASSUME BookInv, NEW x, RemoveNode(x)
    PROVE  BookInv'
<1> DEFINE b == Removed(book, x)
           S == Below(book, x) \cap Providers(book)
<1>1. x \in Nodes(book) /\ Save(b) /\ Close(S) /\ UNCHANGED <<web, staged>>
  BY DEF RemoveNode
<1>2. /\ IsBook(b) /\ Tree(b) /\ b.next = book.next
      /\ Providers(b) = Providers(book) \ Below(book, x)
      /\ \A p \in Providers(book) \ Below(book, x) : b.entry[p] = book.entry[p]
  BY <1>1, InvFacts, RemovedOK
<1>3. \A p \in Providers(book) \ S : p \in Providers(b)
  BY <1>2
<1> HIDE DEF b, S
<1> QED BY <1>1, <1>2, <1>3, ClosedOK

LEMMA DisconnectOK ==
    ASSUME BookInv, NEW id, Disconnect(id)
    PROVE  BookInv'
<1>1. Save(book) /\ Close({id}) /\ UNCHANGED <<web, staged>>
  BY InvFacts DEF Disconnect, Save
<1> QED BY <1>1, InvFacts, ClosedOK

\* A hub that is shared keeps its address; a new one takes that of the book.
LEMMA LeaseFacts ==
    ASSUME BookInv, NEW id \in Providers(book), Lease({id})
    PROVE  /\ DOMAIN hub' = DOMAIN hub \cup {id}
           /\ \A h \in DOMAIN hub : hub'[h] = hub[h]
           /\ id \in DOMAIN hub \/ hub'[id] = book.entry[id].addr
BY DEF Lease

LEMMA OpenProviderOK ==
    ASSUME BookInv, NEW id, OpenProvider(id)
    PROVE  BookInv'
<1>1. /\ id \in Providers(book) /\ id \notin DOMAIN open /\ id \in Id /\ id < book.next
      /\ DOMAIN open' = DOMAIN open \cup {id}
      /\ open'[id] = book.entry[id]
      /\ \A h \in DOMAIN open : open'[h] = open[h]
      /\ active' = id /\ last' = DOMAIN open'
      /\ UNCHANGED <<book, disk, web, staged, strays>>
  BY InvFacts DEF OpenProvider, Extended
<1>2. /\ DOMAIN hub' = DOMAIN hub \cup {id}
      /\ \A h \in DOMAIN hub : hub'[h] = hub[h]
      /\ id \in DOMAIN hub \/ hub'[id] = book.entry[id].addr
  BY <1>1, LeaseFacts DEF OpenProvider
<1>3. TypeOK'
  BY <1>1, <1>2 DEF BookInv, TypeOK
<1>4. SurvivesRestart' /\ Handed'
  BY <1>1, <1>2 DEF BookInv, SurvivesRestart, Handed
<1>5. SessionsMatch'
  BY <1>1, <1>2 DEF BookInv, SessionsMatch
<1> QED BY <1>1, <1>3, <1>4, <1>5 DEF BookInv

LEMMA WebOpensOK ==
    ASSUME BookInv, NEW id, WebOpens(id)
    PROVE  BookInv'
<1>1. /\ id \in Providers(book) /\ id \in Id /\ id < book.next
      /\ web' = web \cup {id}
      /\ UNCHANGED <<book, disk, last, open, active, staged, strays>>
  BY InvFacts DEF WebOpens
<1>2. /\ DOMAIN hub' = DOMAIN hub \cup {id}
      /\ \A h \in DOMAIN hub : hub'[h] = hub[h]
      /\ id \in DOMAIN hub \/ hub'[id] = book.entry[id].addr
  BY <1>1, LeaseFacts DEF WebOpens
<1>3. TypeOK'
  BY <1>1, <1>2 DEF BookInv, TypeOK
<1>4. SurvivesRestart' /\ Handed'
  BY <1>1, <1>2 DEF BookInv, SurvivesRestart, Handed
<1>5. SessionsMatch'
  <2> SUFFICES ASSUME NEW h \in DOMAIN hub', h \notin strays
               PROVE  /\ h \in DOMAIN open => h \in Providers(book) /\ open[h] = book.entry[h]
                      /\ h \in Providers(book) => hub'[h] = book.entry[h].addr
    BY <1>1 DEF SessionsMatch
  <2>1. CASE h \in DOMAIN hub
    BY <1>2, <2>1 DEF BookInv, SessionsMatch
  <2>2. CASE h \notin DOMAIN hub
    BY <1>2, <2>2, InvFacts
  <2> QED BY <2>1, <2>2
<1> QED BY <1>1, <1>3, <1>4, <1>5 DEF BookInv

LEMMA WebClosesOK ==
    ASSUME BookInv, NEW id, WebCloses(id)
    PROVE  BookInv'
<1>1. /\ web' = web \ {id}
      /\ UNCHANGED <<book, disk, last, open, active, staged>>
      /\ strays' = strays \cap DOMAIN hub'
      /\ DOMAIN hub' = DOMAIN open \cup web'
      /\ \A h \in DOMAIN hub' : hub'[h] = hub[h]
  BY DEF WebCloses
<1>2. DOMAIN hub' \subseteq DOMAIN hub
  BY <1>1, InvFacts
<1>3. TypeOK'
  BY <1>1 DEF BookInv, TypeOK
<1>4. SurvivesRestart' /\ Handed'
  BY <1>1, <1>2 DEF BookInv, SurvivesRestart, Handed
<1>5. SessionsMatch'
  BY <1>1, <1>2 DEF BookInv, SessionsMatch
<1> QED BY <1>1, <1>3, <1>4, <1>5 DEF BookInv

\* Nothing of book, sessions and hubs changes.
LEMMA AsideOK ==
    ASSUME BookInv,
           UNCHANGED <<book, disk, last, open, hub, web, strays>>,
           active' = active \/ active' \in DOMAIN open,
           staged' \in {staged, {}} \/ \E b \in Imports : staged' = {b}
    PROVE  BookInv'
<1>1. staged' \subseteq Imports /\ Cardinality(staged') <= 1
      /\ (\A b \in staged' : b \in staged \/ b \in Imports)
  <2>1. Cardinality({}) = 0 /\ 0 <= 1 /\ 1 <= 1
    BY FS_EmptySet
  <2>2. \A b : Cardinality({b}) = 1
    BY FS_Singleton
  <2> QED BY <2>1, <2>2 DEF BookInv, TypeOK
<1>2. \A b \in staged' : IsBook(b)
  BY <1>1, BookAssumption
<1>3. TypeOK'
  BY <1>1, <1>2 DEF BookInv, TypeOK
<1> QED BY <1>3 DEF BookInv, SurvivesRestart, SessionsMatch, Handed

\* Every hub that is live when another book takes over is a stray from then on.
LEMMA ReplaceOK ==
    ASSUME BookInv, NEW b \in Imports, Replace(b)
    PROVE  BookInv'
<1>1. /\ IsBook(b) /\ Tree(b) /\ book' = b /\ disk' = b /\ staged' = {} /\ strays' = DOMAIN hub
      /\ UNCHANGED <<last, open, active, hub, web>>
  BY BookAssumption DEF Replace, Save
<1>2. Cardinality(staged') <= 1
  BY <1>1, FS_EmptySet
<1>3. TypeOK'
  BY <1>1, <1>2 DEF BookInv, TypeOK
<1>4. SurvivesRestart' /\ Handed' /\ SessionsMatch'
  BY <1>1 DEF BookInv, SurvivesRestart, Handed, SessionsMatch
<1> QED BY <1>1, <1>3, <1>4 DEF BookInv

\* A set of ids has a least one: the choice of the active session is made.
LEMMA LeastId ==
    ASSUME NEW T, T \subseteq Nat, T # {}
    PROVE  \E x \in T : \A y \in T : x <= y
<1>1. \E x \in T : \A y \in T : <<y, x>> \notin OpToRel(<, Nat)
  BY NatLessThanWellFounded, WFMin
<1>2. PICK x \in T : \A y \in T : <<y, x>> \notin OpToRel(<, Nat)
  BY <1>1
<1>3. \A y \in T : ~(y < x)
  BY <1>2 DEF OpToRel
<1> QED BY <1>3

LEMMA RestartOK ==
    ASSUME BookInv, NEW mode \in {"ConnectNone", "ConnectAll", "ConnectLast"}, Restart(mode)
    PROVE  BookInv'
<1> DEFINE S == AtStart(mode)
<1>1. disk = book /\ book' = book /\ disk' = book
  BY InvFacts DEF Restart
<1>2. S \subseteq Providers(book)
  BY <1>1 DEF AtStart
<1>3. S \subseteq Id /\ S \subseteq Nat /\ (\A p \in S : p < book.next)
  BY <1>2, InvFacts
<1>4. /\ DOMAIN open' = S /\ (\A id \in S : open'[id] = book.entry[id])
      /\ DOMAIN hub' = S /\ (\A id \in S : hub'[id] = book.entry[id].addr)
      /\ active' = IF S = {} THEN NoId ELSE CHOOSE id \in S : \A o \in S : id <= o
      /\ last' = IF S = {} THEN last ELSE S
      /\ web' = {} /\ staged' = {} /\ strays' = {}
  BY <1>1 DEF Restart
<1> HIDE DEF S
<1>5. S # {} => active' \in S
  BY <1>3, <1>4, LeastId
<1>6. Cardinality(staged') <= 1
  BY <1>4, FS_EmptySet
<1>7. TypeOK'
  BY <1>1, <1>3, <1>4, <1>5, <1>6 DEF BookInv, TypeOK
<1>8. SurvivesRestart' /\ Handed'
  BY <1>1, <1>3, <1>4 DEF SurvivesRestart, Handed
<1>9. SessionsMatch'
  BY <1>1, <1>2, <1>4 DEF SessionsMatch
<1> QED BY <1>1, <1>7, <1>8, <1>9 DEF BookInv

-------------------------------------------------------------------------------
(* The theorems.                                                           *)

THEOREM NextOK == BookInv /\ [Next]_vars => BookInv'
<1> SUFFICES ASSUME BookInv, [Next]_vars PROVE BookInv'
  OBVIOUS
<1>1. ASSUME NEW p \in Seen, NewFolder(p) PROVE BookInv'
  BY <1>1, NewFolderOK
<1>2. ASSUME NEW p \in Seen, NEW e \in Entry, NewProvider(p, e) PROVE BookInv'
  BY <1>2, AddsOK DEF NewProvider
<1>3. ASSUME NEW e \in Entry, AddDiscovered(e) PROVE BookInv'
  BY <1>3, AddsOK DEF AddDiscovered
<1>4. ASSUME NEW id \in Seen \ {Root}, NEW e \in Entry, Edit(id, e) PROVE BookInv'
  BY <1>4, EditOK
<1>5. ASSUME NEW x \in Nodes(book), NEW into \in Folders(book), Move(x, into)
      PROVE  BookInv'
  BY <1>5, MoveOK
<1>6. ASSUME NEW x \in Nodes(book), RemoveNode(x) PROVE BookInv'
  BY <1>6, RemoveNodeOK
<1>7. ASSUME NEW id \in Id, Disconnect(id) \/ OpenProvider(id) PROVE BookInv'
  BY <1>7, DisconnectOK, OpenProviderOK
<1>8. ASSUME NEW id \in Id, Activate(id) PROVE BookInv'
  BY <1>8, AsideOK DEF Activate
<1>9. ASSUME NEW id \in Id, WebOpens(id) \/ WebCloses(id) PROVE BookInv'
  BY <1>9, WebOpensOK, WebClosesOK
<1>10. ASSUME NEW b \in Imports, Stage(b) PROVE BookInv'
  BY <1>10, AsideOK DEF Stage
<1>11. ASSUME NEW b \in Imports, Merge(b) \/ Replace(b) PROVE BookInv'
  BY <1>11, MergeOK, ReplaceOK
<1>12. CASE Cancel
  BY <1>12, AsideOK DEF Cancel
<1>13. ASSUME NEW mode \in {"ConnectNone", "ConnectAll", "ConnectLast"}, Restart(mode)
       PROVE  BookInv'
  BY <1>13, RestartOK
<1>14. CASE UNCHANGED vars
  BY <1>14, AsideOK DEF vars
<1> QED
  BY <1>1, <1>2, <1>3, <1>4, <1>5, <1>6, <1>7, <1>8, <1>9, <1>10, <1>11, <1>12, <1>13, <1>14
  DEF Next

THEOREM Invariance == Spec => []BookInv
<1>1. Init => BookInv
  BY InitOK
<1>2. BookInv /\ [Next]_vars => BookInv'
  BY NextOK
<1> QED BY <1>1, <1>2, PTL DEF Spec

\* Whatever is added, edited, dragged, removed, merged or loaded, the book is a
\* tree of distinct nodes with unique ids, for any files imported and any ids.
THEOREM BookStaysATree == Spec => []ATree
<1>1. BookInv => ATree
  BY DEF BookInv, ATree
<1> QED BY <1>1, Invariance, PTL

\* A session shows, and its hub connects to, what the book says of its provider,
\* for any number of browsers that keep hubs alive.
THEOREM SessionsFollowTheBook == Spec => []SessionsMatch
<1>1. BookInv => SessionsMatch
  BY DEF BookInv
<1> QED BY <1>1, Invariance, PTL

\* What a restart reads back is the book that was shown and, while sessions are
\* open, exactly those that are.
THEOREM RestartsFindIt == Spec => []SurvivesRestart
<1>1. BookInv => SurvivesRestart
  BY DEF BookInv
<1> QED BY <1>1, Invariance, PTL

\* Wherever in the tree a node is dropped, it ends up between the siblings it was
\* dropped between, and these keep their order.
THEOREM MovesGoWhereAsked == Spec => []MovesAsAsked
<1>1. BookInv => MovesAsAsked
  <2> SUFFICES ASSUME BookInv, NEW x \in Nodes(book), NEW into \in Folders(book),
                      CanMove(book, x, into), NEW i \in Drops(into)
               PROVE  LET was == book.kids[into]
                          is == MoveNodeTo(book, x, into, i).kids[into]
                      IN  /\ x \in ToSet(is)
                          /\ \A j \in 1..Len(was) :
                               was[j] # x => (At(is, was[j]) < At(is, x) <=> j <= i)
                          /\ Without(is, x) = Without(was, x)
    BY DEF MovesAsAsked
  <2> DEFINE was == book.kids[into]
             is == MoveNodeTo(book, x, into, i).kids[into]
  <2>1. was \in Seq(Id) /\ IsInjective(was) /\ x \in Id /\ i \in Nat
    BY InvFacts, TreeFacts, DropsFacts
  <2>2. is = Place(was, x, i)
    <3> DEFINE kids == [f \in Folders(book) |-> IF f = into THEN Place(book.kids[f], x, i)
                                                ELSE Without(book.kids[f], x)]
    <3>1. MoveNodeTo(book, x, into, i) = [book EXCEPT !.kids = kids]
      BY DEF MoveNodeTo
    <3>2. book = [kids |-> book.kids, entry |-> book.entry, next |-> book.next]
      BY InvFacts DEF IsBook
    <3>3. kids[into] = Place(was, x, i)
      OBVIOUS
    <3> HIDE DEF kids
    <3> QED BY <3>1, <3>2, <3>3
  <2> HIDE DEF was, is
  <2>3. /\ Place(was, x, i) \in Seq(Id)
        /\ ToSet(Place(was, x, i)) = ToSet(was) \cup {x}
        /\ IsInjective(Place(was, x, i))
        /\ Without(Place(was, x, i), x) = Without(was, x)
        /\ \A j \in 1..Len(was) : was[j] # x =>
              (At(Place(was, x, i), was[j]) < At(Place(was, x, i), x) <=> j <= i)
    BY <2>1, PlaceFacts, Zenon
  <2>4. /\ x \in ToSet(is)
        /\ \A j \in 1..Len(was) : was[j] # x => (At(is, was[j]) < At(is, x) <=> j <= i)
        /\ Without(is, x) = Without(was, x)
    BY <2>2, <2>3
  <2> QED BY <2>4 DEF was, is
<1> QED BY <1>1, Invariance, PTL

\* The copy that MergeCopies asks for is the one that Reid numbers.
LEMMA MergeStep ==
    ASSUME BookInv, NEW b \in staged, Merge(b)
    PROVE  \E new \in [Nodes(b) -> Nodes(book') \ Nodes(book)] :
            LET copy(s) == [i \in 1..Len(s) |-> new[s[i]]]
            IN  /\ \A x, y \in Nodes(b) : new[x] = new[y] => x = y
                /\ \A p \in Providers(b) :
                     new[p] \in Providers(book') /\ book'.entry[new[p]] = b.entry[p]
                /\ \A f \in Folders(b) \ {Root} :
                     new[f] \in Folders(book') /\ book'.kids[new[f]] = copy(b.kids[f])
                /\ book'.kids[Root] = book.kids[Root] \o copy(b.kids[Root])
                /\ \A f \in Folders(book) \ {Root} : book'.kids[f] = book.kids[f]
                /\ \A p \in Providers(book) : book'.entry[p] = book.entry[p]
<1> DEFINE new == Reid(book, b)
<1>1. b \in Imports /\ book' = Graft(book, b) /\ book.next + Len(Preorder(b)) <= MaxId + 1
  BY DEF Merge, Save, BookInv, TypeOK
<1>2. new = Reid(book, b)
  OBVIOUS
<1> HIDE DEF new
<1>3. IsGraft(book', book, b, new)
  BY <1>1, <1>2, InvFacts, GraftFacts
<1>4. /\ new \in [Nodes(b) -> Id]
      /\ \A x, y \in Nodes(b) : new[x] = new[y] => x = y
      /\ \A x \in Nodes(b) : book.next <= new[x]
  BY <1>1, <1>2, InvFacts, ReidFacts
<1>5. (\A x \in Nodes(book) : x < book.next /\ x \in Nat) /\ book.next \in Nat /\ book.next >= 1
  BY InvFacts, TreeFacts DEF Tree
<1>6. \A x \in Nodes(b) : new[x] \in Nodes(book') \ Nodes(book)
  <2> SUFFICES ASSUME NEW x \in Nodes(b)
               PROVE  new[x] \in Nodes(book') /\ new[x] \notin Nodes(book)
    OBVIOUS
  <2>1. new[x] \notin Nodes(book) /\ new[x] # Root
    BY <1>4, <1>5, InvFacts DEF Root
  <2>2. new[x] \in Folders(book') \cup Providers(book')
    BY <1>3 DEF IsGraft, Nodes
  <2> QED BY <2>1, <2>2 DEF Nodes
<1>7. new \in [Nodes(b) -> Nodes(book') \ Nodes(book)]
  BY <1>4, <1>6
<1>8. /\ \A p \in Providers(b) : new[p] \in Providers(book') /\ book'.entry[new[p]] = b.entry[p]
      /\ \A f \in Folders(b) \ {Root} :
            new[f] \in Folders(book') /\ book'.kids[new[f]] = Copied(new, b.kids[f])
      /\ book'.kids[Root] = book.kids[Root] \o Copied(new, b.kids[Root])
      /\ \A f \in Folders(book) \ {Root} : book'.kids[f] = book.kids[f]
      /\ \A p \in Providers(book) : book'.entry[p] = book.entry[p]
  BY <1>3 DEF IsGraft
<1> WITNESS new \in [Nodes(b) -> Nodes(book') \ Nodes(book)]
<1> QED BY <1>4, <1>8 DEF Copied

\* A merge adds a copy of the imported tree under ids that nothing had and keeps
\* the rest, for any book and any file.
THEOREM MergesCopy == Spec => MergeCopies
<1>1. BookInv /\ [Next]_vars =>
        [book' # book => \A b \in staged : Merge(b) =>
          \E new \in [Nodes(b) -> Nodes(book') \ Nodes(book)] :
            LET copy(s) == [i \in 1..Len(s) |-> new[s[i]]]
            IN  /\ \A x, y \in Nodes(b) : new[x] = new[y] => x = y
                /\ \A p \in Providers(b) :
                     new[p] \in Providers(book') /\ book'.entry[new[p]] = b.entry[p]
                /\ \A f \in Folders(b) \ {Root} :
                     new[f] \in Folders(book') /\ book'.kids[new[f]] = copy(b.kids[f])
                /\ book'.kids[Root] = book.kids[Root] \o copy(b.kids[Root])
                /\ \A f \in Folders(book) \ {Root} : book'.kids[f] = book.kids[f]
                /\ \A p \in Providers(book) : book'.entry[p] = book.entry[p]]_vars
  BY MergeStep
<1> QED BY <1>1, Invariance, PTL DEF Spec, MergeCopies

===============================================================================
