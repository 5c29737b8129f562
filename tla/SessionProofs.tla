----------------------------- MODULE SessionProofs -----------------------------
(***************************************************************************)
(* Theorems about Session: the session and the hub agree on what is        *)
(* subscribed, what is shown is the device's or marked, a pulse ends, and  *)
(* labels are given up only after lost requests, for any parameters and    *)
(* bounds.  The second part is about the Registry in which sessions and    *)
(* sockets open their hubs.                                                *)
(***************************************************************************)
EXTENDS Session, Registry, FiniteSetTheorems, SequenceTheorems, TLAPS

-------------------------------------------------------------------------------
(* The inductive invariant.                                                *)

Reports(p) == {e \in EventType : e.kind = "Values" /\ p \in DOMAIN e.vals}

Tells(p, v) == {e \in Reports(p) : e.vals[p] = v}

Restarts == {Event("Connected"), Event("Retargeted")}

\* Commands whose answer tells the value of p.
Asks(p) == {Send("GetNode", NoPath, 0)} \cup [kind : {"Refresh"}, path : {p}, val : Value]

\* The value of p has been asked for, or is under way, or is shown unless it is
\* unknown or marked.
ToldAhead(p) ==
    \/ ~NoneIn(cmds, Asks(p))
    \/ LastIn(events, Reports(p), Tells(p, value[p]))
    \/ /\ NoneIn(events, Reports(p))
       /\ s.shown[p] \in {Unknown, value[p]} \/ p \in s.pending

\* Once the matrix was asked for on the present connection.
TruthAhead ==
    hub.up /\ s.requested /\ NoneIn(events, Restarts) =>
        \A p \in Path : ToldAhead(p)

\* Nothing of the provider is known or asked for before its matrix.
NodeFirst ==
    ~s.node => /\ ~s.requested
               /\ \A p \in Path : s.shown[p] = Unknown

\* Before the first connection there is nothing to set.
Before ==
    ~lapse /\ ~hub.up => events = <<>> /\ ~s.node /\ s.edit = {} /\ pulsed = {}

\* Commands that set p, and those that set it to false.
Sets(p) == [kind : {"Set"}, path : {p}, val : Value]

Resets(p) == [kind : {"Set"}, path : {p}, val : {0}]

\* The last write about a pulsed switch that waits says false, or else the device,
\* unless the reset is yet to come.
ResetAhead ==
    ~lapse =>
        \A p \in pulsed \ s.pulses :
            \/ LastIn(cmds, Sets(p), Resets(p))
            \/ value[p] = 0 /\ NoneIn(cmds, Sets(p))

\* A session that has attempted the labels of a tree it no longer has lost them to
\* a retarget.
TriesOfTree ==
    /\ ~s.node => s.tries = 0 \/ lost >= MaxAttempts
    /\ ~NoneIn(events, {Event("Retargeted")}) => lost >= MaxAttempts

SessionInv ==
    /\ SubscriptionsAgree
    /\ NodeFirst
    /\ TruthAhead
    /\ Before
    /\ ResetAhead
    /\ TriesOfTree
    /\ GivesUpOnlyOnLoss

-------------------------------------------------------------------------------
(* Sequences of messages.                                                  *)

\* SetToSeq lists a finite set.
LEMMA SetToSeqFacts ==
    ASSUME NEW S, IsFiniteSet(S)
    PROVE  /\ SetToSeq(S) \in Seq(S) /\ IsInjective(SetToSeq(S))
           /\ \A m \in S : \E i \in 1..Len(SetToSeq(S)) : SetToSeq(S)[i] = m
<1> DEFINE n == Cardinality(S)
           Lists(f) == f \in [1..n -> S] /\ IsInjective(f)
<1>1. n \in Nat /\ IsFiniteSet(1..n) /\ Cardinality(1..n) = n
  <2>1. n \in Nat
    BY FS_CardinalityType
  <2> QED BY <2>1, FS_Interval
<1>2. \E f \in [1..n -> S] : IsInjective(f)
  <2>1. PICK f : f \in Bijection(1..n, S)
    BY FS_CardinalityType DEF ExistsBijection
  <2> QED BY <2>1 DEF Bijection, Injection, IsInjective
<1>3. SetToSeq(S) \in [1..n -> S] /\ IsInjective(SetToSeq(S))
  BY <1>2 DEF SetToSeq
<1>4. SetToSeq(S) \in Injection(1..n, S)
  BY <1>3 DEF Injection, IsInjective
<1>5. SetToSeq(S) \in Surjection(1..n, S)
  BY <1>1, <1>4, FS_Injection
<1>6. SetToSeq(S) \in Seq(S) /\ Len(SetToSeq(S)) = n
  BY <1>1, <1>3
<1> QED BY <1>3, <1>5, <1>6 DEF Surjection

LEMMA ConcatFacts ==
    ASSUME NEW T, NEW x \in Seq(T), NEW y \in Seq(T)
    PROVE  /\ x \o y \in Seq(T)
           /\ Len(x) \in Nat /\ Len(y) \in Nat /\ Len(x \o y) = Len(x) + Len(y)
           /\ \A i \in 1..Len(x) : i \in 1..Len(x \o y) /\ (x \o y)[i] = x[i]
           /\ \A k \in 1..Len(y) : Len(x) + k \in 1..Len(x \o y) /\ (x \o y)[Len(x) + k] = y[k]
<1>1. x \o y \in Seq(T) /\ Len(x) \in Nat /\ Len(y) \in Nat /\ Len(x \o y) = Len(x) + Len(y)
  BY ConcatProperties
<1>2. \A i \in 1..Len(x) + Len(y) : (x \o y)[i] = IF i <= Len(x) THEN x[i] ELSE y[i - Len(x)]
  BY ConcatProperties
<1>3. \A i \in 1..Len(x) : i \in 1..Len(x) + Len(y) /\ i <= Len(x)
  BY <1>1
<1>4. \A k \in 1..Len(y) : /\ Len(x) + k \in 1..Len(x) + Len(y)
                           /\ ~(Len(x) + k <= Len(x)) /\ (Len(x) + k) - Len(x) = k
  BY <1>1
<1>5. \A i \in 1..Len(x) : (x \o y)[i] = x[i]
  BY <1>2, <1>3
<1>6. \A k \in 1..Len(y) : (x \o y)[Len(x) + k] = y[k]
  BY <1>2, <1>4
<1> QED BY <1>1, <1>3, <1>4, <1>5, <1>6

\* The last message of a set, and none of a set, in what is put together.
LEMMA ConcatLast ==
    ASSUME NEW T, NEW x \in Seq(T), NEW y \in Seq(T), NEW A, NEW G
    PROVE  /\ NoneIn(x \o y, A) <=> NoneIn(x, A) /\ NoneIn(y, A)
           /\ LastIn(x \o y, A, G) <=>
                 LastIn(y, A, G) \/ (LastIn(x, A, G) /\ NoneIn(y, A))
<1> DEFINE z == x \o y
           m == Len(x)
           n == Len(y)
<1>1. /\ m \in Nat /\ n \in Nat /\ Len(z) = m + n
      /\ \A i \in 1..m : i \in 1..m + n /\ z[i] = x[i]
      /\ \A k \in 1..n : m + k \in 1..m + n /\ z[m + k] = y[k]
  BY ConcatFacts
<1> HIDE DEF z
<1>2. \A i \in 1..m + n : i \in 1..m \/ (i - m \in 1..n /\ i = m + (i - m))
  BY <1>1
<1>3. NoneIn(z, A) <=> NoneIn(x, A) /\ NoneIn(y, A)
  <2>1. ASSUME NoneIn(z, A) PROVE NoneIn(x, A) /\ NoneIn(y, A)
    BY <1>1, <2>1 DEF NoneIn
  <2>2. ASSUME NoneIn(x, A), NoneIn(y, A) PROVE NoneIn(z, A)
    <3> SUFFICES ASSUME NEW i \in 1..m + n PROVE z[i] \notin A
      BY <1>1 DEF NoneIn
    <3>1. CASE i \in 1..m
      BY <1>1, <2>2, <3>1 DEF NoneIn
    <3>2. CASE i - m \in 1..n /\ i = m + (i - m)
      BY <1>1, <2>2, <3>2 DEF NoneIn
    <3> QED BY <1>2, <3>1, <3>2
  <2> QED BY <2>1, <2>2
<1>4. ASSUME NEW k \in 1..n
      PROVE  (\A j \in (m + k) + 1..m + n : z[j] \notin A)
                <=> \A j \in k + 1..n : y[j] \notin A
  <2>1. \A j \in k + 1..n : j \in 1..n /\ m + j \in (m + k) + 1..m + n
    BY <1>1
  <2>2. \A j \in (m + k) + 1..m + n : j - m \in k + 1..n /\ j - m \in 1..n /\ j = m + (j - m)
    BY <1>1
  <2> QED BY <1>1, <2>1, <2>2
<1>5. ASSUME NEW i \in 1..m
      PROVE  (\A j \in i + 1..m + n : z[j] \notin A)
                <=> NoneIn(y, A) /\ \A j \in i + 1..m : x[j] \notin A
  <2>1. \A j \in i + 1..m : j \in 1..m /\ j \in i + 1..m + n
    BY <1>1
  <2>2. \A k \in 1..n : m + k \in i + 1..m + n
    BY <1>1
  <2>3. \A j \in i + 1..m + n : j \in i + 1..m \/ (j - m \in 1..n /\ j = m + (j - m))
    BY <1>1
  <2> QED BY <1>1, <2>1, <2>2, <2>3 DEF NoneIn
<1>6. ASSUME LastIn(y, A, G) PROVE LastIn(z, A, G)
  <2>1. PICK k \in 1..n : y[k] \in G /\ \A j \in k + 1..n : y[j] \notin A
    BY <1>6 DEF LastIn
  <2> QED BY <1>1, <1>4, <2>1 DEF LastIn
<1>7. ASSUME LastIn(x, A, G), NoneIn(y, A) PROVE LastIn(z, A, G)
  <2>1. PICK i \in 1..m : x[i] \in G /\ \A j \in i + 1..m : x[j] \notin A
    BY <1>7 DEF LastIn
  <2> QED BY <1>1, <1>5, <1>7, <2>1 DEF LastIn
<1>8. ASSUME LastIn(z, A, G)
      PROVE  LastIn(y, A, G) \/ (LastIn(x, A, G) /\ NoneIn(y, A))
  <2>1. PICK i \in 1..m + n : z[i] \in G /\ \A j \in i + 1..m + n : z[j] \notin A
    BY <1>1, <1>8 DEF LastIn
  <2>2. CASE i \in 1..m
    BY <1>1, <1>5, <2>1, <2>2 DEF LastIn
  <2>3. CASE i - m \in 1..n /\ i = m + (i - m)
    BY <1>1, <1>4, <2>1, <2>3 DEF LastIn
  <2> QED BY <1>2, <2>2, <2>3
<1> QED BY <1>3, <1>6, <1>7, <1>8 DEF z

LEMMA SingleLast ==
    ASSUME NEW e, NEW A, NEW G
    PROVE  /\ NoneIn(<<e>>, A) <=> e \notin A
           /\ LastIn(<<e>>, A, G) <=> e \in G
<1>1. Len(<<e>>) = 1 /\ <<e>>[1] = e /\ 1..1 = {1} /\ 1 + 1..1 = {}
  OBVIOUS
<1> QED BY <1>1 DEF NoneIn, LastIn

\* The same when the first message is taken.
LEMMA TailLast ==
    ASSUME NEW T, NEW x \in Seq(T), x # <<>>, NEW A, NEW G
    PROVE  /\ Head(x) \in T /\ Tail(x) \in Seq(T) /\ Len(Tail(x)) < Len(x)
           /\ NoneIn(x, A) <=> Head(x) \notin A /\ NoneIn(Tail(x), A)
           /\ LastIn(x, A, G) <=>
                 LastIn(Tail(x), A, G) \/ (Head(x) \in G /\ NoneIn(Tail(x), A))
<1>1. /\ <<Head(x)>> \in Seq(T) /\ Tail(x) \in Seq(T) /\ Head(x) \in T
      /\ Len(Tail(x)) < Len(x)
  OBVIOUS
<1>2. x = <<Head(x)>> \o Tail(x)
  <2>1. /\ Len(x) \in Nat /\ Len(Tail(x)) = Len(x) - 1 /\ Head(x) = x[1] /\ Len(<<Head(x)>>) = 1
        /\ \A i \in 1..Len(Tail(x)) : Tail(x)[i] = x[i + 1]
    OBVIOUS
  <2>2. /\ <<Head(x)>> \o Tail(x) \in Seq(T)
        /\ Len(<<Head(x)>> \o Tail(x)) = 1 + Len(Tail(x))
        /\ \A i \in 1..1 + Len(Tail(x)) : (<<Head(x)>> \o Tail(x))[i] =
              IF i <= 1 THEN <<Head(x)>>[i] ELSE Tail(x)[i - 1]
    BY <1>1, <2>1, ConcatProperties
  <2>3. \A i \in 1..Len(x) : i = 1 \/ (i - 1 \in 1..Len(Tail(x)) /\ (i - 1) + 1 = i /\ ~(i <= 1))
    BY <2>1
  <2>4. Len(<<Head(x)>> \o Tail(x)) = Len(x)
    BY <2>1, <2>2
  <2>5. \A i \in 1..Len(x) : x[i] = (<<Head(x)>> \o Tail(x))[i]
    BY <2>1, <2>2, <2>3
  <2> QED BY <2>2, <2>4, <2>5, SeqEqual
<1>3. /\ NoneIn(<<Head(x)>>, A) <=> Head(x) \notin A
      /\ LastIn(<<Head(x)>>, A, G) <=> Head(x) \in G
  BY SingleLast
<1> DEFINE h == <<Head(x)>>
           t == Tail(x)
<1>4. /\ NoneIn(h \o t, A) <=> NoneIn(h, A) /\ NoneIn(t, A)
      /\ LastIn(h \o t, A, G) <=> LastIn(t, A, G) \/ (LastIn(h, A, G) /\ NoneIn(t, A))
  <2>1. h \in Seq(T) /\ t \in Seq(T)
    BY <1>1
  <2> HIDE DEF h, t
  <2> QED BY <2>1, ConcatLast
<1> QED BY <1>1, <1>2, <1>3, <1>4, Zenon

\* Messages of a kind are counted by their places.
LEMMA CountType ==
    ASSUME NEW T, NEW x \in Seq(T), NEW k
    PROVE  Count(x, k) \in Nat /\ IsFiniteSet({i \in 1..Len(x) : x[i].kind = k})
<1>1. IsFiniteSet(1..Len(x))
  BY FS_Interval
<1>2. IsFiniteSet({i \in 1..Len(x) : x[i].kind = k})
  BY <1>1, FS_Subset
<1> QED BY <1>2, FS_CardinalityType DEF Count

LEMMA ConcatCount ==
    ASSUME NEW T, NEW x \in Seq(T), NEW y \in Seq(T), NEW k
    PROVE  /\ Count(x \o y, k) >= Count(x, k)
           /\ (\E i \in 1..Len(y) : y[i].kind = k) => Count(x \o y, k) >= Count(x, k) + 1
<1> DEFINE z == x \o y
           X == {i \in 1..Len(x) : x[i].kind = k}
           Z == {i \in 1..Len(z) : z[i].kind = k}
<1>1. /\ z \in Seq(T) /\ Len(x) \in Nat /\ Len(y) \in Nat /\ Len(z) = Len(x) + Len(y)
      /\ \A i \in 1..Len(x) : i \in 1..Len(z) /\ z[i] = x[i]
      /\ \A i \in 1..Len(y) : Len(x) + i \in 1..Len(z) /\ z[Len(x) + i] = y[i]
  BY ConcatFacts
<1>2. IsFiniteSet(X) /\ IsFiniteSet(Z)
  BY <1>1, CountType
<1>3. Count(x, k) = Cardinality(X) /\ Count(z, k) = Cardinality(Z)
  BY DEF Count
<1>4. Cardinality(X) \in Nat /\ Cardinality(Z) \in Nat
  BY <1>2, FS_CardinalityType
<1>5. X \subseteq Z
  BY <1>1
<1>6. ASSUME NEW i \in 1..Len(y), y[i].kind = k
      PROVE  Cardinality(Z) >= Cardinality(X) + 1
  <2>1. Len(x) + i \in Z /\ Len(x) + i \notin X
    BY <1>1, <1>6
  <2>2. X \cup {Len(x) + i} \subseteq Z
    BY <1>5, <2>1
  <2> HIDE DEF X, Z
  <2>3. Cardinality(X \cup {Len(x) + i}) = Cardinality(X) + 1
    BY <1>2, <2>1, FS_AddElement
  <2>4. Cardinality(X \cup {Len(x) + i}) <= Cardinality(Z)
    BY <1>2, <2>2, FS_Subset
  <2> QED BY <1>4, <2>3, <2>4
<1> HIDE DEF X, Z
<1>7. Cardinality(Z) >= Cardinality(X)
  BY <1>2, <1>4, <1>5, FS_Subset
<1> QED BY <1>3, <1>6, <1>7

LEMMA TailCount ==
    ASSUME NEW T, NEW x \in Seq(T), x # <<>>, NEW k
    PROVE  Count(x, k) <= IF Head(x).kind = k THEN Count(Tail(x), k) + 1 ELSE Count(Tail(x), k)
<1> DEFINE t == Tail(x)
           X == {i \in 1..Len(x) : x[i].kind = k}
           Z == {i \in 1..Len(t) : t[i].kind = k}
           later == X \ {1}
           f == [i \in later |-> i - 1]
<1>1. /\ t \in Seq(T) /\ Len(x) \in Nat /\ Len(t) = Len(x) - 1 /\ Head(x) = x[1]
      /\ \A i \in 1..Len(t) : t[i] = x[i + 1]
      /\ Len(x) >= 1
  OBVIOUS
<1>2. IsFiniteSet(X) /\ IsFiniteSet(Z)
  BY <1>1, CountType
<1>3. Count(x, k) = Cardinality(X) /\ Count(t, k) = Cardinality(Z)
  BY DEF Count
<1>4. Cardinality(X) \in Nat /\ Cardinality(Z) \in Nat
  BY <1>2, FS_CardinalityType
<1>5. f \in Injection(later, Z)
  <2>1. \A i \in later : i - 1 \in 1..Len(t) /\ (i - 1) + 1 = i
    BY <1>1
  <2>2. \A i \in later : i - 1 \in Z
    BY <1>1, <2>1
  <2>3. \A i, j \in later : i - 1 = j - 1 => i = j
    BY <1>1
  <2> HIDE DEF later, Z
  <2>4. f \in [later -> Z]
    BY <2>2
  <2> QED BY <2>3, <2>4 DEF Injection, IsInjective
<1>6. Cardinality(later) <= Cardinality(Z)
  BY <1>2, <1>5, FS_Injection
<1>7. Cardinality(later) = IF 1 \in X THEN Cardinality(X) - 1 ELSE Cardinality(X)
  BY <1>2, FS_RemoveElement
<1>8. 1 \in X <=> Head(x).kind = k
  BY <1>1
<1> HIDE DEF X, Z, later, t
<1> QED
  BY <1>3, <1>4, <1>6, <1>7, <1>8 DEF t

LEMMA ListFacts ==
    ASSUME NEW T, NEW M \in SUBSET T, IsFiniteSet(M)
    PROVE  /\ SetToSeq(M) \in Seq(T)
           /\ \A A : M \cap A = {} => NoneIn(SetToSeq(M), A)
           /\ \A A, m : m \in M \cap A => ~NoneIn(SetToSeq(M), A)
           /\ \A A, G : \A m : M \cap A = {m} /\ G \subseteq A =>
                 (LastIn(SetToSeq(M), A, G) <=> m \in G)
<1> DEFINE q == SetToSeq(M)
<1>1. /\ q \in Seq(M) /\ IsInjective(q)
      /\ \A m \in M : \E i \in 1..Len(q) : q[i] = m
  BY SetToSeqFacts
<1> HIDE DEF q
<1>2. \A i \in 1..Len(q) : q[i] \in M
  BY <1>1
<1>3. q \in Seq(T)
  BY <1>1, <1>2
<1>4. ASSUME NEW A, NEW G, NEW m, M \cap A = {m}, G \subseteq A
      PROVE  LastIn(q, A, G) <=> m \in G
  <2>1. \A i \in 1..Len(q) : q[i] \in A <=> q[i] = m
    BY <1>2, <1>4
  <2>2. ASSUME m \in G PROVE LastIn(q, A, G)
    <3>1. PICK i \in 1..Len(q) : q[i] = m
      BY <1>1, <1>4
    <3>2. \A j \in i + 1..Len(q) : j \in 1..Len(q) /\ j # i
      BY <1>1
    <3>3. \A j \in i + 1..Len(q) : q[j] # m
      BY <1>1, <3>1, <3>2 DEF IsInjective
    <3>4. \A j \in i + 1..Len(q) : q[j] \notin A
      BY <2>1, <3>2, <3>3
    <3> QED BY <2>2, <3>1, <3>4 DEF LastIn
  <2>3. ASSUME LastIn(q, A, G) PROVE m \in G
    <3>1. PICK i \in 1..Len(q) : q[i] \in G
      BY <2>3 DEF LastIn
    <3> QED BY <1>4, <2>1, <3>1
  <2> QED BY <2>2, <2>3
<1>5. \A A : M \cap A = {} => NoneIn(q, A)
  BY <1>2 DEF NoneIn
<1>6. \A A, m : m \in M \cap A => ~NoneIn(q, A)
  BY <1>1 DEF NoneIn
<1> QED BY <1>3, <1>4, <1>5, <1>6 DEF q

\* One command of a kind for each parameter of a set.
LEMMA SendsFinite ==
    ASSUME NEW kind, NEW S \in SUBSET Path
    PROVE  IsFiniteSet({Send(kind, p, 0) : p \in S})
<1> DEFINE f == [p \in S |-> Send(kind, p, 0)]
<1>1. IsFiniteSet(S)
  BY SessionAssumption, FS_Subset
<1>2. f \in Surjection(S, {Send(kind, p, 0) : p \in S})
  BY DEF Surjection
<1> QED BY <1>1, <1>2, FS_Surjection

LEMMA FiveFacts ==
    ASSUME NEW T, NEW a \in Seq(T), NEW b \in Seq(T), NEW c \in Seq(T),
           NEW d \in Seq(T), NEW e \in Seq(T)
    PROVE  /\ a \o b \o c \o d \o e \in Seq(T)
           /\ \A A : NoneIn(a \o b \o c \o d \o e, A) <=>
                 NoneIn(a, A) /\ NoneIn(b, A) /\ NoneIn(c, A) /\ NoneIn(d, A) /\ NoneIn(e, A)
           /\ \A A, G :
                 LastIn(a, A, G) /\ NoneIn(b, A) /\ NoneIn(c, A) /\ NoneIn(d, A) /\ NoneIn(e, A)
                 => LastIn(a \o b \o c \o d \o e, A, G)
<1> DEFINE ab == a \o b
           abc == ab \o c
           abcd == abc \o d
           all == abcd \o e
<1>1. ab \in Seq(T)
  BY ConcatFacts
<1>2. \A A, G : /\ NoneIn(ab, A) <=> NoneIn(a, A) /\ NoneIn(b, A)
                /\ LastIn(a, A, G) /\ NoneIn(b, A) => LastIn(ab, A, G)
  BY ConcatLast
<1> HIDE DEF ab
<1>3. abc \in Seq(T)
  BY <1>1, ConcatFacts
<1>4. \A A, G : /\ NoneIn(abc, A) <=> NoneIn(ab, A) /\ NoneIn(c, A)
                /\ LastIn(ab, A, G) /\ NoneIn(c, A) => LastIn(abc, A, G)
  BY <1>1, ConcatLast
<1> HIDE DEF abc
<1>5. abcd \in Seq(T)
  BY <1>3, ConcatFacts
<1>6. \A A, G : /\ NoneIn(abcd, A) <=> NoneIn(abc, A) /\ NoneIn(d, A)
                /\ LastIn(abc, A, G) /\ NoneIn(d, A) => LastIn(abcd, A, G)
  BY <1>3, ConcatLast
<1> HIDE DEF abcd
<1>7. all \in Seq(T)
  BY <1>5, ConcatFacts
<1>8. \A A, G : /\ NoneIn(all, A) <=> NoneIn(abcd, A) /\ NoneIn(e, A)
                /\ LastIn(abcd, A, G) /\ NoneIn(e, A) => LastIn(all, A, G)
  BY <1>5, ConcatLast
<1> HIDE DEF all
<1>9. /\ all \in Seq(T)
      /\ \A A : NoneIn(all, A) <=>
            NoneIn(a, A) /\ NoneIn(b, A) /\ NoneIn(c, A) /\ NoneIn(d, A) /\ NoneIn(e, A)
      /\ \A A, G :
            LastIn(a, A, G) /\ NoneIn(b, A) /\ NoneIn(c, A) /\ NoneIn(d, A) /\ NoneIn(e, A)
            => LastIn(all, A, G)
  BY <1>2, <1>4, <1>6, <1>7, <1>8
<1> QED BY <1>9 DEF all, abcd, abc, ab

-------------------------------------------------------------------------------
(* A pass of ui(), part by part.                                           *)

Fetch == {Send("GetNode", NoPath, 0), Send("GetLabels", NoPath, 0)}

Talk == Fetch \cup [kind : {"Refresh", "Set"}, path : Path, val : Value]

\* What asking for nodes and labels leaves alone.
Beside(t, u) ==
    /\ u.node = t.node /\ u.labels = t.labels
    /\ u.shown = t.shown /\ u.pending = t.pending
    /\ u.pulses = t.pulses /\ u.edit = t.edit /\ u.subscribed = t.subscribed

LEMMA EagerOK ==
    ASSUME NEW t \in SessionType
    PROVE  LET u == EagerFetch(t) IN
           /\ u.to \in SessionType /\ u.out \in Seq(Fetch)
           /\ Beside(t, u.to) /\ u.to.requested = t.requested /\ u.to.tries = t.tries
<1> DEFINE get == <<Send("GetNode", NoPath, 0)>>
<1>1. get \in Seq(Fetch) /\ <<>> \in Seq(Fetch)
  BY EmptySeq DEF Fetch
<1> HIDE DEF get
<1> DEFINE v == [t EXCEPT !.fetched = TRUE]
<1>4. v \in SessionType /\ Beside(t, v) /\ v.requested = t.requested /\ v.tries = t.tries
  BY DEF SessionType, Beside
<1> HIDE DEF v
<1>2. CASE EagerFetch(t) = [to |-> v, out |-> get]
  BY <1>1, <1>2, <1>4
<1>3. CASE EagerFetch(t) = [to |-> t, out |-> <<>>]
  BY <1>1, <1>3 DEF Beside
<1> QED BY <1>2, <1>3 DEF EagerFetch, get, v

LEMMA LabelOK ==
    ASSUME NEW t \in SessionType, NEW when \in BOOLEAN
    PROVE  LET u == label_fetch_step(t, when) IN
           /\ u.to \in SessionType /\ u.out \in Seq(Fetch)
           /\ Beside(t, u.to) /\ u.to.requested = t.requested
           /\ \/ u.to.tries = t.tries
              \/ /\ t.node /\ u.to.tries = t.tries + 1
                 /\ u.out = <<Send("GetLabels", NoPath, 0)>>
<1> DEFINE get == <<Send("GetLabels", NoPath, 0)>>
           more == t.active /\ t.node /\ ~t.labels /\ t.tries < MaxAttempts /\ when
<1>1. get \in Seq(Fetch) /\ <<>> \in Seq(Fetch)
  BY EmptySeq DEF Fetch
<1> HIDE DEF get
<1>2. CASE more
  <2>1. label_fetch_step(t, when) = [to |-> [t EXCEPT !.tries = @ + 1], out |-> get]
    BY <1>2 DEF label_fetch_step, get
  <2>2. t.tries \in 0..MaxAttempts /\ t.tries + 1 \in 0..MaxAttempts
    BY <1>2, SessionAssumption DEF SessionType
  <2> DEFINE v == [t EXCEPT !.tries = @ + 1]
  <2>3. v \in SessionType
    BY <2>2 DEF SessionType
  <2>4. Beside(t, v) /\ v.requested = t.requested /\ v.tries = t.tries + 1
    BY DEF Beside, SessionType
  <2>5. label_fetch_step(t, when) = [to |-> v, out |-> get]
    BY <2>1
  <2> HIDE DEF v
  <2>6. t.node
    BY <1>2
  <2> HIDE DEF more
  <2> QED BY <1>1, <2>3, <2>4, <2>5, <2>6 DEF get
<1>3. CASE ~more
  <2>1. label_fetch_step(t, when) = [to |-> t, out |-> <<>>]
    BY <1>3 DEF label_fetch_step
  <2> QED BY <1>1, <2>1 DEF Beside
<1> QED BY <1>2, <1>3

LEMMA LazyOK ==
    ASSUME NEW t \in SessionType
    PROVE  LET u == LazyFetch(t) IN
           /\ u.to \in SessionType /\ u.out \in Seq(Fetch)
           /\ Beside(t, u.to) /\ u.to.tries = t.tries
           /\ \/ u.to.requested = t.requested
              \/ t.node /\ u.out = <<Send("GetNode", NoPath, 0)>>
<1> DEFINE get == <<Send("GetNode", NoPath, 0)>>
           more == t.active /\ t.node /\ t.expanded /\ ~t.requested
<1>1. get \in Seq(Fetch) /\ <<>> \in Seq(Fetch)
  BY EmptySeq DEF Fetch
<1> HIDE DEF get
<1>2. CASE more
  <2> DEFINE v == [t EXCEPT !.requested = TRUE]
  <2>1. LazyFetch(t) = [to |-> v, out |-> get]
    BY <1>2 DEF LazyFetch, get
  <2>2. v \in SessionType /\ Beside(t, v) /\ v.tries = t.tries
    BY DEF SessionType, Beside
  <2> HIDE DEF v
  <2> QED BY <1>1, <1>2, <2>1, <2>2 DEF get
<1>3. CASE ~more
  <2>1. LazyFetch(t) = [to |-> t, out |-> <<>>]
    BY <1>3 DEF LazyFetch
  <2> QED BY <1>1, <2>1 DEF Beside
<1> QED BY <1>2, <1>3

\* The subscriptions that a pass leaves are those that it announces.
LEMMA ReconcileOK ==
    ASSUME NEW t \in SessionType
    PROVE  LET u == Reconcile(t) IN
           /\ u.to \in SessionType /\ u.out \in Seq(Cmd)
           /\ u.to = [t EXCEPT !.subscribed = u.to.subscribed]
           /\ \A p : NoneIn(u.out, Sets(p))
           /\ \A p \in Path :
                 IF p \in u.to.subscribed <=> p \in t.subscribed
                 THEN NoneIn(u.out, About(p))
                 ELSE /\ ~NoneIn(u.out, About(p))
                      /\ p \in u.to.subscribed <=> LastIn(u.out, About(p), Subscribing(p))
<1>0. <<>> \in Seq(Cmd) /\ Len(<<>>) = 0 /\ 1..0 = {}
  BY EmptySeq
<1>1. CASE ~t.active
  <2>1. Reconcile(t) = [to |-> t, out |-> <<>>]
    BY <1>1 DEF Reconcile
  <2>2. t = [t EXCEPT !.subscribed = t.subscribed]
    BY DEF SessionType
  <2> QED BY <1>0, <2>1, <2>2 DEF NoneIn
<1>2. CASE t.active
  <2> DEFINE new == {Send("Subscribe", p, 0) : p \in Rows(t) \ t.subscribed}
             old == {Send("Unsubscribe", p, 0) : p \in t.subscribed \ Rows(t)}
             M == new \cup old
             v == [t EXCEPT !.subscribed = Rows(t)]
  <2>1. Reconcile(t) = [to |-> v, out |-> SetToSeq(M)]
    BY <1>2 DEF Reconcile
  <2>2. Rows(t) \subseteq Path /\ t.subscribed \subseteq Path
    BY DEF Rows, SessionType
  <2>3. v \in SessionType /\ v.subscribed = Rows(t) /\ v = [t EXCEPT !.subscribed = v.subscribed]
    BY <2>2 DEF SessionType
  <2>4. new \subseteq Cmd /\ old \subseteq Cmd
    BY <2>2 DEF Cmd, Send, Value
  <2>5. IsFiniteSet(M)
    <3>1. IsFiniteSet(new) /\ IsFiniteSet(old)
      BY <2>2, SendsFinite
    <3> QED BY <3>1, FS_Union
  <2>6. \A p : M \cap Sets(p) = {}
    BY DEF Sets, Send
  <2>7. ASSUME NEW p \in Path, p \in Rows(t), p \notin t.subscribed
        PROVE  /\ M \cap About(p) = {Send("Subscribe", p, 0)}
               /\ Send("Subscribe", p, 0) \in Subscribing(p)
    BY <2>7 DEF About, Subscribing, Send, Value
  <2>8. ASSUME NEW p \in Path, p \notin Rows(t), p \in t.subscribed
        PROVE  /\ M \cap About(p) = {Send("Unsubscribe", p, 0)}
               /\ Send("Unsubscribe", p, 0) \notin Subscribing(p)
    BY <2>8 DEF About, Subscribing, Send, Value
  <2>9. ASSUME NEW p \in Path, p \in Rows(t) <=> p \in t.subscribed
        PROVE  M \cap About(p) = {}
    BY <2>9 DEF About, Send
  <2>10. \A p : Subscribing(p) \subseteq About(p)
    BY DEF Subscribing, About
  <2>11. M \in SUBSET Cmd
    BY <2>4
  <2> HIDE DEF M, v
  <2>12. /\ SetToSeq(M) \in Seq(Cmd)
         /\ \A A : M \cap A = {} => NoneIn(SetToSeq(M), A)
         /\ \A A, m : m \in M \cap A => ~NoneIn(SetToSeq(M), A)
         /\ \A A, G : \A m : M \cap A = {m} /\ G \subseteq A =>
               (LastIn(SetToSeq(M), A, G) <=> m \in G)
    BY <2>5, <2>11, ListFacts
  <2>13. ASSUME NEW p \in Path
         PROVE  IF p \in v.subscribed <=> p \in t.subscribed
                THEN NoneIn(SetToSeq(M), About(p))
                ELSE /\ ~NoneIn(SetToSeq(M), About(p))
                     /\ p \in v.subscribed <=> LastIn(SetToSeq(M), About(p), Subscribing(p))
    <3>1. CASE p \in Rows(t) /\ p \notin t.subscribed
      BY <2>3, <2>7, <2>10, <2>12, <3>1
    <3>2. CASE p \notin Rows(t) /\ p \in t.subscribed
      BY <2>3, <2>8, <2>10, <2>12, <3>2
    <3>3. CASE p \in Rows(t) <=> p \in t.subscribed
      BY <2>3, <2>9, <2>12, <3>3
    <3> QED BY <3>1, <3>2, <3>3
  <2> QED BY <2>1, <2>3, <2>6, <2>12, <2>13
<1> QED BY <1>1, <1>2

LEMMA TalkFacts ==
    ASSUME NEW q \in Seq(Talk), NEW p \in Path
    PROVE  NoneIn(q, About(p))
  BY DEF NoneIn, Talk, Fetch, Send, About

LEMMA FetchFacts ==
    ASSUME NEW q \in Seq(Fetch)
    PROVE  q \in Seq(Talk) /\ \A p : NoneIn(q, Sets(p))
<1>1. q \in Seq(Talk)
  BY DEF Talk
<1>2. \A p : NoneIn(q, Sets(p))
  BY DEF NoneIn, Fetch, Send, Sets
<1> QED BY <1>1, <1>2

\* A pulse that is due is reset, the others wait.
LEMMA PulsesOK ==
    ASSUME NEW t \in SessionType, NEW due \in SUBSET t.pulses
    PROVE  LET u == PulsesDue(t, due) IN
           /\ u.to \in SessionType /\ u.out \in Seq(Talk)
           /\ u.to = [t EXCEPT !.pulses = @ \ due]
           /\ \A p : p \in due => LastIn(u.out, Sets(p), Resets(p))
           /\ \A p : p \notin due => NoneIn(u.out, Sets(p))
<1> DEFINE M == {Send("Set", p, 0) : p \in due}
           v == [t EXCEPT !.pulses = @ \ due]
<1>1. PulsesDue(t, due) = [to |-> v, out |-> SetToSeq(M)]
  BY DEF PulsesDue
<1>2. t.pulses \subseteq Switch /\ due \subseteq Path
  BY DEF SessionType, Path
<1>3. v \in SessionType
  <2>1. t.pulses \ due \in SUBSET Switch
    BY <1>2
  <2> QED BY <2>1 DEF SessionType
<1>4. M \in SUBSET Talk
  BY <1>2 DEF Talk, Send, Value
<1>5. IsFiniteSet(M)
  BY <1>2, SendsFinite
<1>6. \A p : p \in due =>
         M \cap Sets(p) = {Send("Set", p, 0)} /\ Send("Set", p, 0) \in Resets(p)
  BY DEF Sets, Resets, Send, Value
<1>7. \A p : p \notin due => M \cap Sets(p) = {}
  BY DEF Sets, Send
<1>8. \A p : Resets(p) \subseteq Sets(p)
  BY DEF Resets, Sets, Value
<1> HIDE DEF M
<1>9. /\ SetToSeq(M) \in Seq(Talk)
      /\ \A A : M \cap A = {} => NoneIn(SetToSeq(M), A)
      /\ \A A, G : \A m : M \cap A = {m} /\ G \subseteq A =>
            (LastIn(SetToSeq(M), A, G) <=> m \in G)
  BY <1>4, <1>5, ListFacts
<1>10. \A p : p \in due => LastIn(SetToSeq(M), Sets(p), Resets(p))
  BY <1>6, <1>8, <1>9
<1>11. \A p : p \notin due => NoneIn(SetToSeq(M), Sets(p))
  BY <1>7, <1>9
<1> QED BY <1>1, <1>3, <1>9, <1>10, <1>11

\* The clicks: those that write, and the others.
Writing == {"Pulse", "Set", "Apply"}

Other == {"nothing", "Activate", "Lock", "Expand", "Close", "Popup", "Edit", "Cancel"}

IsClick(c) ==
    /\ c.what \in Writing \cup Other
    /\ c.what = "Pulse" => c.path \in Switch
    /\ c.what = "Set" => c.path \in Path /\ c.val \in Value
    /\ c.what = "Apply" => c.path \in Text /\ c.val \in Value
    /\ c.what = "Edit" => c.path \in Text

LEMMA GestureOK ==
    ASSUME NEW t \in SessionType, NEW c \in Gestures(t)
    PROVE  /\ IsClick(c) /\ c.what \in Other
           /\ c.what = "Edit" => t.node
  BY DEF Gestures, Idle, Click, IsClick, Other, Writing, Rows, SessionType

LEMMA WriteOK ==
    ASSUME NEW t \in SessionType, NEW c \in Writes(t)
    PROVE  /\ IsClick(c) /\ c.what \in Writing
           /\ t.edit # {} \/ \E p \in Path : t.shown[p] # Unknown
<1>1. ASSUME NEW S, S \subseteq {p \in Path : t.shown[p] # Unknown}, c \in editor(t, S)
      PROVE  /\ IsClick(c) /\ c.what \in Writing
             /\ \E p \in Path : t.shown[p] # Unknown
  <2>1. PICK p \in S :
           \/ p \in Switch /\ c = Click("Pulse", p, 1)
           \/ p \in Switch /\ c = Click("Set", p, 1 - t.shown[p])
           \/ p \in Text /\ \E v \in Value : c = Click("Set", p, v)
    BY <1>1 DEF editor
  <2>2. p \in Path /\ t.shown[p] \in Value
    BY <1>1, <2>1 DEF SessionType, Unknown
  <2>3. 1 - t.shown[p] \in Value
    BY <2>2 DEF Value
  <2>4. CASE p \in Switch /\ c = Click("Pulse", p, 1)
    BY <1>1, <2>4, <2>2 DEF Click, IsClick, Writing
  <2>5. CASE p \in Switch /\ c = Click("Set", p, 1 - t.shown[p])
    BY <1>1, <2>5, <2>2, <2>3 DEF Click, IsClick, Writing
  <2>6. CASE p \in Text /\ \E v \in Value : c = Click("Set", p, v)
    BY <1>1, <2>6, <2>2 DEF Click, IsClick, Writing
  <2> QED BY <2>1, <2>4, <2>5, <2>6
<1>2. CASE c \in RowWrites(t)
  BY <1>1, <1>2 DEF RowWrites, Rows
<1>3. CASE c \in PopupWrites(t)
  BY <1>1, <1>3 DEF PopupWrites
<1>4. CASE c \in EditorWrites(t)
  BY <1>4 DEF EditorWrites, Click, IsClick, Writing, SessionType
<1> QED BY <1>2, <1>3, <1>4 DEF Writes

\* What a click leaves alone, and what it may do to the rest.
ClickEffect(t, c, u) ==
    /\ u.to \in SessionType /\ u.out \in Seq(Talk)
    /\ u.to.node = t.node /\ u.to.requested = t.requested
    /\ u.to.labels = t.labels /\ u.to.tries = t.tries /\ u.to.subscribed = t.subscribed
    /\ t.pending \subseteq u.to.pending
    /\ \A p \in Path : u.to.shown[p] = t.shown[p] \/ ~NoneIn(u.out, Asks(p))
    /\ \A p \in Path : t.shown[p] = Unknown => u.to.shown[p] = Unknown
    /\ u.to.edit # {} => t.edit # {} \/ c.what = "Edit"
    /\ c.what = "Pulse" => c.path \in u.to.pulses
    /\ \A p : c.what \in Other \/ c.path # p =>
          NoneIn(u.out, Sets(p)) /\ (p \in u.to.pulses <=> p \in t.pulses)

\* A click that sends nothing.
LEMMA SilentClick ==
    ASSUME NEW t \in SessionType, NEW v \in SessionType, NEW c, NEW u,
           u = [to |-> v, out |-> <<>>],
           v.node = t.node, v.requested = t.requested, v.labels = t.labels,
           v.tries = t.tries, v.subscribed = t.subscribed, v.pending = t.pending,
           v.shown = t.shown, v.pulses = t.pulses,
           v.edit # {} => t.edit # {} \/ c.what = "Edit", c.what # "Pulse"
    PROVE  ClickEffect(t, c, u)
<1>1. <<>> \in Seq(Talk) /\ \A p : NoneIn(<<>>, Sets(p))
  <2>1. <<>> \in Seq(Talk) /\ Len(<<>>) = 0 /\ 1..0 = {}
    BY EmptySeq
  <2> QED BY <2>1 DEF NoneIn
<1>2. u.to = v /\ u.out = <<>>
  OBVIOUS
<1> QED BY <1>1, <1>2 DEF ClickEffect

LEMMA OneWrite ==
    ASSUME NEW q \in Path, NEW val \in Value
    PROVE  /\ <<Send("Set", q, val)>> \in Seq(Talk)
           /\ \A p : p # q => NoneIn(<<Send("Set", q, val)>>, Sets(p))
<1>1. Send("Set", q, val) \in Talk
  BY DEF Send, Talk
<1>2. \A p : p # q => Send("Set", q, val) \notin Sets(p)
  BY DEF Send, Sets
<1> QED BY <1>1, <1>2, SingleLast

LEMMA ClickOK ==
    ASSUME NEW t \in SessionType, NEW c, IsClick(c)
    PROVE  ClickEffect(t, c, Clicked(t, c))
<1> DEFINE u == Clicked(t, c)
<1>1. CASE c.what = "Pulse"
  <2> DEFINE v == [t EXCEPT !.pulses = @ \cup {c.path}]
  <2>1. u = [to |-> v, out |-> <<Send("Set", c.path, 1)>>]
    BY <1>1 DEF Clicked, ClickedElse
  <2>2. c.path \in Switch /\ c.path \in Path /\ 1 \in Value
    BY <1>1 DEF IsClick, Path, Value
  <2>3. v \in SessionType
    <3>1. t.pulses \cup {c.path} \in SUBSET Switch
      BY <2>2 DEF SessionType
    <3> QED BY <3>1 DEF SessionType
  <2>4. /\ v.node = t.node /\ v.requested = t.requested /\ v.labels = t.labels
        /\ v.tries = t.tries /\ v.subscribed = t.subscribed /\ v.pending = t.pending
        /\ v.shown = t.shown /\ v.edit = t.edit /\ v.pulses = t.pulses \cup {c.path}
    BY DEF SessionType
  <2>5. c.what \notin Other
    BY <1>1 DEF Other
  <2> HIDE DEF v, u
  <2>6. ClickEffect(t, c, u)
    BY <2>1, <2>2, <2>3, <2>4, <2>5, OneWrite DEF ClickEffect
  <2> QED BY <2>6 DEF u
<1>2. CASE c.what = "Set"
  <2> DEFINE v == [t EXCEPT !.pulses = IF c.val = 0 THEN @ \ {c.path} ELSE @]
  <2>1. u = [to |-> v, out |-> <<Send("Set", c.path, c.val)>>]
    BY <1>2 DEF Clicked, ClickedElse
  <2>2. c.path \in Path /\ c.val \in Value
    BY <1>2 DEF IsClick
  <2>3. v \in SessionType
    BY DEF SessionType
  <2>4. /\ v.node = t.node /\ v.requested = t.requested /\ v.labels = t.labels
        /\ v.tries = t.tries /\ v.subscribed = t.subscribed /\ v.pending = t.pending
        /\ v.shown = t.shown /\ v.edit = t.edit
        /\ v.pulses = IF c.val = 0 THEN t.pulses \ {c.path} ELSE t.pulses
    BY DEF SessionType
  <2>5. c.what \notin Other /\ c.what # "Pulse"
    BY <1>2 DEF Other
  <2> HIDE DEF v, u
  <2>6. ClickEffect(t, c, u)
    BY <2>1, <2>2, <2>3, <2>4, <2>5, OneWrite DEF ClickEffect
  <2> QED BY <2>6 DEF u
<1>3. CASE c.what = "Apply"
  <2> DEFINE shown == IF t.node /\ t.shown[c.path] # Unknown THEN c.val ELSE t.shown[c.path]
             v == [t EXCEPT !.edit = {}, !.pending = @ \cup {c.path},
                            !.shown = [@ EXCEPT ![c.path] = shown]]
             write == <<Send("Set", c.path, c.val)>>
             read == <<Send("Refresh", c.path, 0)>>
             both == <<Send("Set", c.path, c.val), Send("Refresh", c.path, 0)>>
  <2>1. u = [to |-> v, out |-> both]
    BY <1>3 DEF Clicked
  <2>2. c.path \in Path /\ c.val \in Value /\ 0 \in Value
    BY <1>3 DEF IsClick, Path, Value
  <2>3. /\ t.shown \in [Path -> Value \cup {Unknown}]
        /\ shown \in Value \cup {Unknown}
        /\ t.pending \cup {c.path} \in SUBSET Path
    BY <2>2 DEF SessionType
  <2>4. [t.shown EXCEPT ![c.path] = shown] \in [Path -> Value \cup {Unknown}]
    BY <2>3
  <2>5. v \in SessionType
    BY <2>3, <2>4 DEF SessionType
  <2>6. /\ v.node = t.node /\ v.requested = t.requested /\ v.labels = t.labels
        /\ v.tries = t.tries /\ v.subscribed = t.subscribed
        /\ v.pending = t.pending \cup {c.path} /\ v.edit = {} /\ v.pulses = t.pulses
        /\ v.shown = [t.shown EXCEPT ![c.path] = shown]
    BY DEF SessionType
  <2>7. /\ \A p \in Path : p # c.path => v.shown[p] = t.shown[p]
        /\ \A p \in Path : t.shown[p] = Unknown => v.shown[p] = Unknown
    BY <2>2, <2>3, <2>6
  <2>8. c.what \notin Other /\ c.what # "Pulse"
    BY <1>3 DEF Other
  <2>9. both = write \o read /\ write \in Seq(Talk) /\ read \in Seq(Talk)
    <3>1. Send("Set", c.path, c.val) \in Talk /\ Send("Refresh", c.path, 0) \in Talk
      BY <2>2 DEF Send, Talk
    <3> QED BY <3>1
  <2>10. /\ both \in Seq(Talk)
         /\ \A A : NoneIn(both, A) <=> NoneIn(write, A) /\ NoneIn(read, A)
    <3> HIDE DEF both, write, read
    <3> QED BY <2>9, ConcatFacts, ConcatLast
  <2>11. ~NoneIn(both, Asks(c.path))
    <3>1. Send("Refresh", c.path, 0) \in Asks(c.path)
      BY <2>2 DEF Send, Asks
    <3> QED BY <2>10, <3>1, SingleLast
  <2>12. \A p : p # c.path => NoneIn(both, Sets(p))
    <3>1. \A p : p # c.path => NoneIn(write, Sets(p))
      BY <2>2, OneWrite
    <3>2. \A p : Send("Refresh", c.path, 0) \notin Sets(p)
      BY DEF Send, Sets
    <3> QED BY <2>10, <3>1, <3>2, SingleLast
  <2> HIDE DEF v, u, both
  <2>13. ClickEffect(t, c, u)
    BY <2>1, <2>5, <2>6, <2>7, <2>8, <2>10, <2>11, <2>12 DEF ClickEffect
  <2> QED BY <2>13 DEF u
<1>4. CASE c.what = "Popup"
  <2> DEFINE v == [t EXCEPT !.popup = TRUE, !.signal = TRUE]
             get == <<Send("GetNode", NoPath, 0)>>
  <2>1. u = [to |-> v, out |-> IF t.signal THEN <<>> ELSE get]
    BY <1>4 DEF Clicked, ClickedElse
  <2>2. v \in SessionType
    BY DEF SessionType
  <2>3. /\ v.node = t.node /\ v.requested = t.requested /\ v.labels = t.labels
        /\ v.tries = t.tries /\ v.subscribed = t.subscribed /\ v.pending = t.pending
        /\ v.shown = t.shown /\ v.edit = t.edit /\ v.pulses = t.pulses
    BY DEF SessionType
  <2>4. get \in Seq(Talk) /\ \A p : NoneIn(get, Sets(p))
    <3>1. get \in Seq(Fetch)
      BY DEF Fetch
    <3> QED BY <3>1, FetchFacts
  <2> HIDE DEF v, u, get
  <2>5. CASE ~t.signal
    <3>1. u = [to |-> v, out |-> get]
      BY <2>1, <2>5
    <3>2. ClickEffect(t, c, u)
      BY <1>4, <2>2, <2>3, <2>4, <3>1 DEF ClickEffect
    <3> QED BY <3>2 DEF u
  <2>6. CASE t.signal
    <3>1. u = [to |-> v, out |-> <<>>]
      BY <2>1, <2>6
    <3> QED BY <1>4, <2>2, <2>3, <3>1, SilentClick DEF u
  <2> QED BY <2>5, <2>6 DEF u
<1>5. CASE c.what = "Edit"
  <2> DEFINE v == [t EXCEPT !.edit = {c.path}]
  <2>1. u = [to |-> v, out |-> <<>>]
    BY <1>5 DEF Clicked, ClickedElse
  <2>2. v \in SessionType
    BY <1>5 DEF SessionType, IsClick
  <2>3. /\ v.node = t.node /\ v.requested = t.requested /\ v.labels = t.labels
        /\ v.tries = t.tries /\ v.subscribed = t.subscribed /\ v.pending = t.pending
        /\ v.shown = t.shown /\ v.pulses = t.pulses
    BY DEF SessionType
  <2> HIDE DEF v, u
  <2> QED BY <1>5, <2>1, <2>2, <2>3, SilentClick DEF u
<1>6. CASE c.what \in Other \ {"Popup", "Edit"}
  <2> DEFINE IsNext(v) ==
               /\ v \in SessionType
               /\ v.node = t.node /\ v.requested = t.requested /\ v.labels = t.labels
               /\ v.tries = t.tries /\ v.subscribed = t.subscribed /\ v.pending = t.pending
               /\ v.shown = t.shown /\ v.pulses = t.pulses /\ (v.edit # {} => t.edit # {})
  <2>1. \E v : u = [to |-> v, out |-> <<>>] /\ IsNext(v)
    <3>1. CASE c.what = "Cancel"
      <4>1. u = [to |-> [t EXCEPT !.edit = {}], out |-> <<>>]
        BY <3>1 DEF Clicked, ClickedElse
      <4>2. IsNext([t EXCEPT !.edit = {}])
        BY DEF SessionType
      <4> QED BY <4>1, <4>2
    <3>2. CASE c.what = "Expand"
      <4>1. u = [to |-> [t EXCEPT !.expanded = ~@], out |-> <<>>]
        BY <3>2 DEF Clicked, ClickedElse
      <4>2. IsNext([t EXCEPT !.expanded = ~@])
        BY DEF SessionType
      <4> QED BY <4>1, <4>2
    <3>3. CASE c.what = "Close"
      <4>1. u = [to |-> [t EXCEPT !.popup = FALSE], out |-> <<>>]
        BY <3>3 DEF Clicked, ClickedElse
      <4>2. IsNext([t EXCEPT !.popup = FALSE])
        BY DEF SessionType
      <4> QED BY <4>1, <4>2
    <3>4. CASE c.what = "Activate"
      <4>1. u = [to |-> [t EXCEPT !.active = ~@], out |-> <<>>]
        BY <3>4 DEF Clicked, ClickedElse
      <4>2. IsNext([t EXCEPT !.active = ~@])
        BY DEF SessionType
      <4> QED BY <4>1, <4>2
    <3>5. CASE c.what \in {"nothing", "Lock"}
      <4>1. u = [to |-> t, out |-> <<>>]
        BY <3>5 DEF Clicked, ClickedElse
      <4> QED BY <4>1
    <3> QED BY <1>6, <3>1, <3>2, <3>3, <3>4, <3>5 DEF Other
  <2>2. PICK v : u = [to |-> v, out |-> <<>>] /\ IsNext(v)
    BY <2>1
  <2>3. c.what # "Pulse"
    BY <1>6 DEF Other
  <2> HIDE DEF u
  <2> QED BY <2>2, <2>3, SilentClick DEF u
<1> QED BY <1>1, <1>2, <1>3, <1>4, <1>5, <1>6 DEF IsClick, Writing, Other

\* What a pass with the click c and the pulses that are due leaves behind: it says
\* talk, and then subs about the subscriptions.
UiEffect(c, due, talk, subs) ==
    /\ talk \in Seq(Talk) /\ subs \in Seq(Cmd) /\ cmds' = cmds \o (talk \o subs)
    /\ s' \in SessionType
    /\ s'.node = s.node /\ s'.labels = s.labels
    /\ \/ s'.requested = s.requested
       \/ s.node /\ ~NoneIn(talk, {Send("GetNode", NoPath, 0)})
    /\ \/ s'.tries = s.tries
       \/ s.node /\ s'.tries = s.tries + 1 /\ ~NoneIn(talk, {Send("GetLabels", NoPath, 0)})
    /\ s.pending \subseteq s'.pending
    /\ \A p \in Path : s'.shown[p] = s.shown[p] \/ ~NoneIn(talk, Asks(p))
    /\ \A p \in Path : s.shown[p] = Unknown => s'.shown[p] = Unknown
    /\ s'.edit # {} => s.edit # {} \/ c.what = "Edit"
    /\ c.what = "Pulse" => c.path \in s'.pulses
    /\ \A p : NoneIn(subs, Sets(p))
    /\ \A p : c.what \in Other \/ c.path # p =>
          IF p \in due
          THEN LastIn(talk, Sets(p), Resets(p))
          ELSE NoneIn(talk, Sets(p)) /\ (p \in s'.pulses <=> p \in s.pulses)
    /\ \A p \in Path :
          IF p \in s'.subscribed <=> p \in s.subscribed
          THEN NoneIn(subs, About(p))
          ELSE /\ ~NoneIn(subs, About(p))
               /\ p \in s'.subscribed <=> LastIn(subs, About(p), Subscribing(p))

LEMMA UiOK ==
    ASSUME TypeOK, NEW due \in SUBSET s.pulses, NEW when \in BOOLEAN,
           NEW c, IsClick(c), Ui(c, due, when)
    PROVE  \E talk, subs : UiEffect(c, due, talk, subs)
<1> DEFINE a == PulsesDue(s, due)
           b == Clicked(a.to, c)
           e == EagerFetch(b.to)
           f == label_fetch_step(e.to, when)
           g == LazyFetch(f.to)
           h == Reconcile(g.to)
           talk == a.out \o b.out \o e.out \o f.out \o g.out
<1>1. s' = h.to /\ cmds' = cmds \o (talk \o h.out)
  BY DEF Ui
<1>2. /\ s \in SessionType /\ a.to \in SessionType /\ a.out \in Seq(Talk)
      /\ a.to = [s EXCEPT !.pulses = @ \ due]
      /\ \A p : p \in due => LastIn(a.out, Sets(p), Resets(p))
      /\ \A p : p \notin due => NoneIn(a.out, Sets(p))
  <2>1. s \in SessionType
    BY DEF TypeOK
  <2> QED BY <2>1, PulsesOK
<1>3. /\ a.to.node = s.node /\ a.to.requested = s.requested /\ a.to.labels = s.labels
      /\ a.to.tries = s.tries /\ a.to.subscribed = s.subscribed
      /\ a.to.pending = s.pending /\ a.to.shown = s.shown /\ a.to.edit = s.edit
      /\ a.to.pulses = s.pulses \ due
  BY <1>2 DEF SessionType
<1> HIDE DEF a
<1>4. ClickEffect(a.to, c, b)
  BY <1>2, ClickOK
<1>5. b.to \in SessionType /\ b.out \in Seq(Talk)
  BY <1>4 DEF ClickEffect
<1> HIDE DEF b
<1>6. /\ e.to \in SessionType /\ e.out \in Seq(Fetch)
      /\ Beside(b.to, e.to) /\ e.to.requested = b.to.requested /\ e.to.tries = b.to.tries
  BY <1>5, EagerOK
<1> HIDE DEF e
<1>7. /\ f.to \in SessionType /\ f.out \in Seq(Fetch)
      /\ Beside(e.to, f.to) /\ f.to.requested = e.to.requested
      /\ \/ f.to.tries = e.to.tries
         \/ /\ e.to.node /\ f.to.tries = e.to.tries + 1
            /\ f.out = <<Send("GetLabels", NoPath, 0)>>
  BY <1>6, LabelOK
<1> HIDE DEF f
<1>8. /\ g.to \in SessionType /\ g.out \in Seq(Fetch)
      /\ Beside(f.to, g.to) /\ g.to.tries = f.to.tries
      /\ \/ g.to.requested = f.to.requested
         \/ f.to.node /\ g.out = <<Send("GetNode", NoPath, 0)>>
  BY <1>7, LazyOK
<1> HIDE DEF g
<1>9. /\ h.to \in SessionType /\ h.out \in Seq(Cmd)
      /\ h.to = [g.to EXCEPT !.subscribed = h.to.subscribed]
      /\ \A p : NoneIn(h.out, Sets(p))
      /\ \A p \in Path :
            IF p \in h.to.subscribed <=> p \in g.to.subscribed
            THEN NoneIn(h.out, About(p))
            ELSE /\ ~NoneIn(h.out, About(p))
                 /\ p \in h.to.subscribed <=> LastIn(h.out, About(p), Subscribing(p))
  BY <1>8, ReconcileOK
<1> HIDE DEF h
<1>10. /\ h.to.node = g.to.node /\ h.to.requested = g.to.requested /\ h.to.labels = g.to.labels
       /\ h.to.tries = g.to.tries /\ h.to.pending = g.to.pending /\ h.to.shown = g.to.shown
       /\ h.to.edit = g.to.edit /\ h.to.pulses = g.to.pulses
  BY <1>8, <1>9 DEF SessionType
<1>11. Beside(b.to, g.to)
  BY <1>6, <1>7, <1>8 DEF Beside
<1>12. /\ talk \in Seq(Talk)
       /\ \A A : NoneIn(talk, A) <=>
             NoneIn(a.out, A) /\ NoneIn(b.out, A) /\ NoneIn(e.out, A)
             /\ NoneIn(f.out, A) /\ NoneIn(g.out, A)
       /\ \A A, G :
             LastIn(a.out, A, G) /\ NoneIn(b.out, A) /\ NoneIn(e.out, A)
             /\ NoneIn(f.out, A) /\ NoneIn(g.out, A)
             => LastIn(talk, A, G)
  <2>1. e.out \in Seq(Talk) /\ f.out \in Seq(Talk) /\ g.out \in Seq(Talk)
    BY <1>6, <1>7, <1>8, FetchFacts
  <2> QED BY <1>2, <1>5, <2>1, FiveFacts
<1> HIDE DEF talk
<1>13. \A p : NoneIn(e.out, Sets(p)) /\ NoneIn(f.out, Sets(p)) /\ NoneIn(g.out, Sets(p))
  BY <1>6, <1>7, <1>8, FetchFacts
<1>14. s'.node = s.node /\ s'.labels = s.labels /\ s.pending \subseteq s'.pending
  BY <1>1, <1>3, <1>4, <1>10, <1>11 DEF Beside, ClickEffect
<1>15. \/ s'.requested = s.requested
       \/ s.node /\ ~NoneIn(talk, {Send("GetNode", NoPath, 0)})
  <2>1. CASE g.to.requested = f.to.requested
    BY <1>1, <1>3, <1>4, <1>6, <1>7, <1>10, <2>1 DEF Beside, ClickEffect
  <2>2. CASE f.to.node /\ g.out = <<Send("GetNode", NoPath, 0)>>
    <3>1. s.node
      BY <1>3, <1>4, <1>6, <1>7, <2>2 DEF Beside, ClickEffect
    <3>2. ~NoneIn(g.out, {Send("GetNode", NoPath, 0)})
      BY <2>2, SingleLast
    <3> QED BY <1>12, <3>1, <3>2
  <2> QED BY <1>8, <2>1, <2>2
<1>16. \/ s'.tries = s.tries
       \/ s.node /\ s'.tries = s.tries + 1 /\ ~NoneIn(talk, {Send("GetLabels", NoPath, 0)})
  <2>1. CASE f.to.tries = e.to.tries
    BY <1>1, <1>3, <1>4, <1>6, <1>8, <1>10, <2>1 DEF ClickEffect
  <2>2. CASE /\ e.to.node /\ f.to.tries = e.to.tries + 1
             /\ f.out = <<Send("GetLabels", NoPath, 0)>>
    <3>1. s.node /\ s'.tries = s.tries + 1
      BY <1>1, <1>3, <1>4, <1>6, <1>8, <1>10, <2>2 DEF Beside, ClickEffect
    <3>2. ~NoneIn(f.out, {Send("GetLabels", NoPath, 0)})
      BY <2>2, SingleLast
    <3> QED BY <1>12, <3>1, <3>2
  <2> QED BY <1>7, <2>1, <2>2
<1>17. /\ \A p \in Path : s'.shown[p] = s.shown[p] \/ ~NoneIn(talk, Asks(p))
       /\ \A p \in Path : s.shown[p] = Unknown => s'.shown[p] = Unknown
  <2>1. s'.shown = b.to.shown
    BY <1>1, <1>10, <1>11 DEF Beside
  <2> QED BY <1>3, <1>4, <1>12, <2>1 DEF ClickEffect
<1>18. /\ s'.edit # {} => s.edit # {} \/ c.what = "Edit"
       /\ c.what = "Pulse" => c.path \in s'.pulses
  BY <1>1, <1>3, <1>4, <1>10, <1>11 DEF Beside, ClickEffect
<1>19. ASSUME NEW p, c.what \in Other \/ c.path # p
       PROVE  IF p \in due
              THEN LastIn(talk, Sets(p), Resets(p))
              ELSE NoneIn(talk, Sets(p)) /\ (p \in s'.pulses <=> p \in s.pulses)
  <2>1. NoneIn(b.out, Sets(p)) /\ (p \in b.to.pulses <=> p \in s.pulses \ due)
    BY <1>3, <1>4, <1>19 DEF ClickEffect
  <2>2. s'.pulses = b.to.pulses
    BY <1>1, <1>10, <1>11 DEF Beside
  <2>3. CASE p \in due
    BY <1>2, <1>12, <1>13, <2>1, <2>3
  <2>4. CASE p \notin due
    BY <1>2, <1>12, <1>13, <2>1, <2>2, <2>4
  <2> QED BY <2>3, <2>4
<1>20. g.to.subscribed = s.subscribed
  BY <1>3, <1>4, <1>11 DEF Beside, ClickEffect
<1>21. UiEffect(c, due, talk, h.out)
  BY <1>1, <1>9, <1>12, <1>14, <1>15, <1>16, <1>17, <1>18, <1>19, <1>20 DEF UiEffect
<1> QED BY <1>21

-------------------------------------------------------------------------------
(* Steps that take a command or drain or add an event.                     *)

\* What is left when the command c was taken.
LEMMA TakenFacts ==
    ASSUME TypeOK, NEW c, Taken(c)
    PROVE  /\ c \in Cmd /\ cmds' \in Seq(Cmd)
           /\ \A A : NoneIn(cmds, A) <=> c \notin A /\ NoneIn(cmds', A)
           /\ \A A, G : LastIn(cmds, A, G) <=>
                 LastIn(cmds', A, G) \/ (c \in G /\ NoneIn(cmds', A))
           /\ Count(cmds, "GetLabels") \in Nat /\ Count(cmds', "GetLabels") \in Nat
           /\ Count(cmds, "GetLabels") <= Count(cmds', "GetLabels") + 1
           /\ c.kind # "GetLabels" => Count(cmds, "GetLabels") <= Count(cmds', "GetLabels")
<1>1. cmds \in Seq(Cmd) /\ cmds # <<>> /\ c = Head(cmds) /\ cmds' = Tail(cmds)
  BY DEF TypeOK, Taken
<1>2. c \in Cmd /\ cmds' \in Seq(Cmd)
  BY <1>1
<1>3. /\ \A A : NoneIn(cmds, A) <=> c \notin A /\ NoneIn(cmds', A)
      /\ \A A, G : LastIn(cmds, A, G) <=>
            LastIn(cmds', A, G) \/ (c \in G /\ NoneIn(cmds', A))
  BY <1>1, TailLast
<1>4. Count(cmds, "GetLabels") \in Nat /\ Count(cmds', "GetLabels") \in Nat
  BY <1>1, <1>2, CountType
<1>5. Count(cmds, "GetLabels") <=
        IF c.kind = "GetLabels" THEN Count(cmds', "GetLabels") + 1 ELSE Count(cmds', "GetLabels")
  BY <1>1, TailCount
<1> QED BY <1>2, <1>3, <1>4, <1>5

\* What waits when the event e was added.
LEMMA EmittedFacts ==
    ASSUME TypeOK, NEW e \in EventType, Emit(<<e>>)
    PROVE  /\ events' \in Seq(EventType) /\ Len(events') <= MaxEvents + 1
           /\ \A A : NoneIn(events', A) <=> NoneIn(events, A) /\ e \notin A
           /\ \A A, G : LastIn(events', A, G) <=>
                 e \in G \/ (LastIn(events, A, G) /\ e \notin A)
           /\ Count(events, "Labels") \in Nat /\ Count(events', "Labels") \in Nat
           /\ Count(events', "Labels") >= Count(events, "Labels")
           /\ e.kind = "Labels" => Count(events', "Labels") >= Count(events, "Labels") + 1
<1> DEFINE one == <<e>>
<1>1. /\ events \in Seq(EventType) /\ one \in Seq(EventType)
      /\ Len(one) = 1 /\ one[1] = e
  BY DEF TypeOK
<1>2. events' = events \o one /\ Len(events) < MaxEvents /\ MaxEvents \in Nat
  BY SessionAssumption DEF Emit
<1>3. /\ \A A : NoneIn(one, A) <=> e \notin A
      /\ \A A, G : LastIn(one, A, G) <=> e \in G
  BY SingleLast
<1> HIDE DEF one
<1>4. events' \in Seq(EventType) /\ Len(events') = Len(events) + 1 /\ Len(events) \in Nat
  <2>1. /\ events \o one \in Seq(EventType) /\ Len(events) \in Nat
        /\ Len(events \o one) = Len(events) + Len(one)
    BY <1>1, ConcatFacts
  <2> QED BY <1>1, <1>2, <2>1
<1>5. /\ \A A : NoneIn(events', A) <=> NoneIn(events, A) /\ NoneIn(one, A)
      /\ \A A, G : LastIn(events', A, G) <=>
            LastIn(one, A, G) \/ (LastIn(events, A, G) /\ NoneIn(one, A))
  BY <1>1, <1>2, ConcatLast
<1>6. Count(events, "Labels") \in Nat /\ Count(events', "Labels") \in Nat
  BY <1>1, <1>4, CountType
<1>7. /\ Count(events', "Labels") >= Count(events, "Labels")
      /\ (\E i \in 1..Len(one) : one[i].kind = "Labels") =>
            Count(events', "Labels") >= Count(events, "Labels") + 1
  BY <1>1, <1>2, ConcatCount
<1>8. 1 \in 1..Len(one)
  BY <1>1
<1> QED BY <1>1, <1>2, <1>3, <1>4, <1>5, <1>6, <1>7, <1>8

\* Events are told apart by their kinds.
LEMMA EventFacts ==
    /\ \A k \in {"Connected", "Retargeted", "Root", "Labels"} :
          /\ Event(k) \in EventType /\ Event(k).kind = k
          /\ \A p : Event(k) \notin Reports(p)
    /\ \A e \in EventType : e.kind \in {"Connected", "Retargeted", "Root", "Labels", "Values"}
    /\ \A e \in EventType : e.kind = "Values" =>
          DOMAIN e.vals \subseteq Path /\ e.vals \in [DOMAIN e.vals -> Value]
    /\ \A e \in EventType : e \in Restarts <=> e.kind \in {"Connected", "Retargeted"}
    /\ \A e \in EventType : e = Event("Retargeted") <=> e.kind = "Retargeted"
<1>1. \A k \in {"Connected", "Retargeted", "Root", "Labels"} :
          Event(k) \in EventType /\ Event(k).kind = k /\ \A p : Event(k) \notin Reports(p)
  BY DEF Event, EventType, Reports
<1>2. ASSUME NEW e \in EventType
      PROVE  /\ e.kind \in {"Connected", "Retargeted", "Root", "Labels", "Values"}
             /\ e.kind = "Values" =>
                   DOMAIN e.vals \subseteq Path /\ e.vals \in [DOMAIN e.vals -> Value]
             /\ e.kind # "Values" => e = [kind |-> e.kind]
  BY DEF EventType
<1>3. ASSUME NEW e \in EventType
      PROVE  /\ e \in Restarts <=> e.kind \in {"Connected", "Retargeted"}
             /\ e = Event("Retargeted") <=> e.kind = "Retargeted"
  BY <1>2 DEF Restarts, Event
<1> QED BY <1>1, <1>2, <1>3

\* A report of the values of the parameters S.
LEMMA ValuesFacts ==
    ASSUME NEW S \in SUBSET Path, NEW v \in [Path -> Value]
    PROVE  /\ Values(S, v) \in EventType /\ Values(S, v).kind = "Values"
           /\ Values(S, v) \notin Restarts /\ Values(S, v) # Event("Retargeted")
           /\ \A p : Values(S, v) \in Reports(p) <=> p \in S
           /\ \A p \in S : Values(S, v) \in Tells(p, v[p])
<1> DEFINE w == [p \in S |-> v[p]]
           e == [kind |-> "Values", vals |-> w]
<1>1. w \in [S -> Value]
  OBVIOUS
<1>2. w \in UNION {[R -> Value] : R \in SUBSET Path}
  BY <1>1
<1>3. DOMAIN w = S /\ \A p \in S : w[p] = v[p]
  OBVIOUS
<1>4. e = Values(S, v)
  BY DEF Values
<1> HIDE DEF w
<1>5. e \in EventType /\ e.kind = "Values" /\ e.vals = w
  BY <1>2 DEF EventType
<1> HIDE DEF e
<1>6. \A p : e \in Reports(p) <=> p \in S
  BY <1>3, <1>5 DEF Reports
<1>7. \A p \in S : e \in Tells(p, v[p])
  BY <1>3, <1>5, <1>6 DEF Tells
<1>8. e \notin Restarts /\ e # Event("Retargeted")
  BY <1>5, EventFacts
<1> QED BY <1>4, <1>5, <1>6, <1>7, <1>8

\* What an event does to the session.
LEMMA PumpedOK ==
    ASSUME NEW t \in SessionType, NEW e \in EventType
    PROVE  LET u == Pumped(t, e) IN
           /\ u \in SessionType
           /\ u.tries = t.tries /\ u.subscribed = t.subscribed
           /\ u.pulses = t.pulses /\ u.edit = t.edit
           /\ e.kind = "Connected" =>
                 /\ ~u.requested
                 /\ u.node = t.node /\ u.labels = t.labels
                 /\ u.shown = t.shown /\ u.pending = t.pending
           /\ e.kind = "Retargeted" =>
                 ~u.requested /\ ~u.node /\ \A p \in Path : u.shown[p] = Unknown
           /\ e.kind \in {"Root", "Labels"} =>
                 /\ u.requested = t.requested
                 /\ u.shown = t.shown /\ u.pending = t.pending
           /\ e.kind = "Root" => u.node /\ u.labels = t.labels
           /\ e.kind = "Labels" => u.node = t.node /\ u.labels = (t.labels \/ t.node)
           /\ e.kind = "Values" =>
                 /\ u.requested = t.requested /\ u.node = t.node /\ u.labels = t.labels
                 /\ ~t.node => u = t
                 /\ t.node => /\ u.pending = t.pending \ DOMAIN e.vals
                             /\ \A p \in Path : u.shown[p] =
                                   IF p \in DOMAIN e.vals THEN e.vals[p] ELSE t.shown[p]
<1> DEFINE u == Pumped(t, e)
<1>1. CASE e.kind = "Connected"
  <2>1. u = [t EXCEPT !.requested = FALSE]
    BY <1>1 DEF Pumped, Connected
  <2> QED BY <1>1, <2>1 DEF SessionType
<1>2. CASE e.kind = "Retargeted"
  <2> DEFINE none == [p \in Path |-> Unknown]
  <2>1. u = [t EXCEPT !.node = FALSE, !.requested = FALSE, !.labels = FALSE,
                      !.shown = none, !.pending = {}]
    BY <1>2 DEF Pumped, Retargeted, NoTree
  <2>2. none \in [Path -> Value \cup {Unknown}] /\ \A p \in Path : none[p] = Unknown
    OBVIOUS
  <2> HIDE DEF none
  <2> QED BY <1>2, <2>1, <2>2 DEF SessionType
<1>3. CASE e.kind = "Root"
  <2>1. u = [t EXCEPT !.node = TRUE]
    BY <1>3 DEF Pumped
  <2> QED BY <1>3, <2>1 DEF SessionType
<1>4. CASE e.kind = "Labels"
  <2>1. u = IF t.node THEN [t EXCEPT !.labels = TRUE] ELSE t
    BY <1>4 DEF Pumped
  <2> QED BY <1>4, <2>1 DEF SessionType
<1>5. CASE e.kind = "Values"
  <2>1. CASE ~t.node
    <3>1. u = t
      BY <1>5, <2>1 DEF Pumped
    <3> HIDE DEF u
    <3>2. t.shown = [p \in Path |-> t.shown[p]]
      BY DEF SessionType
    <3> QED BY <1>5, <2>1, <3>1 DEF u
  <2>2. CASE t.node
    <3> DEFINE sh == [p \in Path |-> IF p \in DOMAIN e.vals THEN e.vals[p] ELSE t.shown[p]]
    <3>1. u = [t EXCEPT !.shown = sh, !.pending = @ \ DOMAIN e.vals]
      BY <1>5, <2>2 DEF Pumped, Known
    <3>2. sh \in [Path -> Value \cup {Unknown}]
      <4>1. \A p \in DOMAIN e.vals : e.vals[p] \in Value
        BY <1>5, EventFacts
      <4> QED BY <4>1 DEF SessionType
    <3>3. \A p \in Path : sh[p] = IF p \in DOMAIN e.vals THEN e.vals[p] ELSE t.shown[p]
      OBVIOUS
    <3> HIDE DEF sh
    <3>4. /\ u \in SessionType /\ u.shown = sh /\ u.pending = t.pending \ DOMAIN e.vals
          /\ u.requested = t.requested /\ u.node = t.node /\ u.labels = t.labels
          /\ u.tries = t.tries /\ u.subscribed = t.subscribed
          /\ u.pulses = t.pulses /\ u.edit = t.edit
      BY <3>1, <3>2 DEF SessionType
    <3> QED BY <1>5, <2>2, <3>3, <3>4
  <2>3. t.node \in BOOLEAN
    BY DEF SessionType
  <2> QED BY <2>1, <2>2, <2>3
<1> QED BY <1>1, <1>2, <1>3, <1>4, <1>5, EventFacts

\* A value that is told ahead of an event is told after it.
LEMMA LogicTold ==
    ASSUME TypeOK, Logic, s.node, NEW p \in Path, ToldAhead(p),
           Head(events) \notin Restarts
    PROVE  ToldAhead(p)'
<1> DEFINE e == Head(events)
<1>1. /\ events \in Seq(EventType) /\ events # <<>> /\ events' = Tail(events)
      /\ s' = Pumped(s, e) /\ cmds' = cmds /\ value' = value /\ s \in SessionType
  BY DEF TypeOK, Logic
<1>2. /\ e \in EventType
      /\ \A A : NoneIn(events, A) <=> e \notin A /\ NoneIn(events', A)
      /\ \A A, G : LastIn(events, A, G) <=>
            LastIn(events', A, G) \/ (e \in G /\ NoneIn(events', A))
  BY <1>1, TailLast
<1> HIDE DEF e
<1>3. CASE ~NoneIn(cmds, Asks(p))
  BY <1>1, <1>3 DEF ToldAhead
<1>4. CASE LastIn(events, Reports(p), Tells(p, value[p]))
  <2>1. CASE LastIn(events', Reports(p), Tells(p, value[p]))
    BY <1>1, <2>1 DEF ToldAhead
  <2>2. CASE e \in Tells(p, value[p]) /\ NoneIn(events', Reports(p))
    <3>1. e.kind = "Values" /\ p \in DOMAIN e.vals /\ e.vals[p] = value[p]
      BY <2>2 DEF Tells, Reports
    <3>2. s'.shown[p] = value[p]
      BY <1>1, <1>2, <3>1, PumpedOK
    <3> QED BY <1>1, <2>2, <3>2 DEF ToldAhead
  <2> QED BY <1>2, <1>4, <2>1, <2>2
<1>5. CASE /\ NoneIn(events, Reports(p))
           /\ s.shown[p] \in {Unknown, value[p]} \/ p \in s.pending
  <2>1. e \notin Reports(p) /\ NoneIn(events', Reports(p))
    BY <1>2, <1>5
  <2>2. e.kind \in {"Root", "Labels", "Values"}
    BY <1>2, EventFacts DEF e
  <2>3. s'.shown[p] = s.shown[p] /\ (p \in s.pending => p \in s'.pending)
    <3>1. CASE e.kind = "Values"
      <4>1. p \notin DOMAIN e.vals
        BY <1>2, <2>1, <3>1 DEF Reports
      <4> QED BY <1>1, <1>2, <3>1, <4>1, PumpedOK, SMTT(30)
    <3>2. CASE e.kind \in {"Root", "Labels"}
      BY <1>1, <1>2, <3>2, PumpedOK, SMTT(30)
    <3> QED BY <2>2, <3>1, <3>2
  <2> QED BY <1>1, <1>5, <2>1, <2>3 DEF ToldAhead
<1> QED BY <1>3, <1>4, <1>5 DEF ToldAhead

LEMMA LogicOK == SessionInv /\ Logic => SessionInv'
<1> SUFFICES ASSUME SessionInv, Logic PROVE SessionInv'
  OBVIOUS
<1> DEFINE e == Head(events)
<1>1. TypeOK /\ SubscriptionsAgree /\ NodeFirst /\ TruthAhead /\ Before /\ ResetAhead
      /\ TriesOfTree /\ GivesUpOnlyOnLoss
  BY DEF SessionInv, SubscriptionsAgree
<1>2. /\ events \in Seq(EventType) /\ events # <<>> /\ events' = Tail(events)
      /\ s' = Pumped(s, e) /\ s \in SessionType
      /\ UNCHANGED <<locked, cmds, hub, value, pulsed, lost, lapse, faults, acts>>
  BY <1>1 DEF TypeOK, Logic
<1>3. /\ e \in EventType /\ events' \in Seq(EventType) /\ Len(events') < Len(events)
      /\ \A A : NoneIn(events, A) <=> e \notin A /\ NoneIn(events', A)
  BY <1>2, TailLast
<1>4. /\ s' \in SessionType
      /\ s'.tries = s.tries /\ s'.subscribed = s.subscribed
      /\ s'.pulses = s.pulses /\ s'.edit = s.edit
  BY <1>2, <1>3, PumpedOK
<1>5. TypeOK'
  <2>1. Len(events') \in Nat /\ Len(events) \in Nat /\ MaxEvents \in Nat
    BY <1>2, <1>3, SessionAssumption
  <2>2. Len(events') <= MaxEvents + 1
    BY <1>1, <1>3, <2>1 DEF TypeOK
  <2> QED BY <1>1, <1>2, <1>3, <1>4, <2>2 DEF TypeOK
<1>6. SubscriptionsAgree'
  BY <1>1, <1>2, <1>4, <1>5 DEF SubscriptionsAgree, Counted
<1> HIDE DEF e
<1>7. e.kind \in {"Connected", "Retargeted", "Root", "Labels", "Values"}
  BY <1>3, EventFacts
<1>8. NodeFirst'
  <2>1. CASE e.kind \in {"Connected", "Labels"}
    BY <1>1, <1>2, <1>3, <2>1, PumpedOK DEF NodeFirst
  <2>2. CASE e.kind = "Retargeted"
    BY <1>2, <1>3, <2>2, PumpedOK DEF NodeFirst
  <2>3. CASE e.kind = "Root"
    BY <1>2, <1>3, <2>3, PumpedOK DEF NodeFirst
  <2>4. CASE e.kind = "Values"
    BY <1>1, <1>2, <1>3, <2>4, PumpedOK, SMTT(30) DEF NodeFirst
  <2> QED BY <1>7, <2>1, <2>2, <2>3, <2>4
<1>9. TruthAhead'
  <2> SUFFICES ASSUME hub.up, s'.requested, NoneIn(events', Restarts), NEW p \in Path
               PROVE  ToldAhead(p)'
    BY <1>2 DEF TruthAhead
  <2>1. e.kind \in {"Root", "Labels", "Values"} /\ s.requested
    BY <1>2, <1>3, <1>7, PumpedOK
  <2>2. e \notin Restarts
    BY <1>3, <2>1, EventFacts
  <2>3. NoneIn(events, Restarts) /\ s.node
    BY <1>1, <1>3, <2>1, <2>2 DEF NodeFirst
  <2>4. ToldAhead(p)
    BY <1>1, <2>1, <2>3 DEF TruthAhead
  <2> QED BY <1>1, <2>2, <2>3, <2>4, LogicTold DEF e
<1>10. Before'
  BY <1>1, <1>2 DEF Before
<1>11. ResetAhead'
  BY <1>1, <1>2, <1>4 DEF ResetAhead
<1>12. TriesOfTree'
  <2>1. ~NoneIn(events', {Event("Retargeted")}) => lost >= MaxAttempts
    BY <1>1, <1>3 DEF TriesOfTree
  <2>2. ~s'.node => s.tries = 0 \/ lost >= MaxAttempts
    <3>1. CASE e.kind = "Retargeted"
      <4>1. e \in {Event("Retargeted")}
        BY <1>3, <3>1, EventFacts
      <4> QED BY <1>1, <1>3, <4>1 DEF TriesOfTree
    <3>2. CASE e.kind # "Retargeted"
      <4>1. s.node => s'.node
        BY <1>2, <1>3, <1>7, <3>2, PumpedOK
      <4> QED BY <1>1, <4>1 DEF TriesOfTree
    <3> QED BY <3>1, <3>2
  <2> QED BY <1>2, <1>4, <2>1, <2>2 DEF TriesOfTree
<1>13. GivesUpOnlyOnLoss'
  <2> SUFFICES ASSUME ~s'.labels
               PROVE  s.tries <= lost + Count(cmds, "GetLabels") + Count(events', "Labels")
    BY <1>2, <1>4 DEF GivesUpOnlyOnLoss
  <2>1. /\ Count(cmds, "GetLabels") \in Nat /\ Count(events, "Labels") \in Nat
        /\ Count(events', "Labels") \in Nat /\ s.tries \in Nat /\ lost \in Nat
        /\ s.tries <= MaxAttempts /\ MaxAttempts \in Nat
    <3>1. s.tries \in 0..MaxAttempts /\ MaxAttempts \in Nat
      BY <1>2, SessionAssumption DEF SessionType
    <3>2. lost \in Nat /\ cmds \in Seq(Cmd)
      BY <1>1 DEF TypeOK
    <3>3. Count(cmds, "GetLabels") \in Nat
      BY <3>2, CountType
    <3>4. Count(events, "Labels") \in Nat /\ Count(events', "Labels") \in Nat
      BY <1>2, <1>3, CountType
    <3> QED BY <3>1, <3>2, <3>3, <3>4
  <2>2. Count(events, "Labels") <=
          IF e.kind = "Labels" THEN Count(events', "Labels") + 1 ELSE Count(events', "Labels")
    BY <1>2, TailCount DEF e
  <2>3. CASE lost >= MaxAttempts
    BY <2>1, <2>3
  <2>4. CASE e.kind = "Retargeted"
    <3>1. e \in {Event("Retargeted")}
      BY <1>3, <2>4, EventFacts
    <3> QED BY <1>1, <1>3, <2>3, <3>1 DEF TriesOfTree
  <2>5. CASE e.kind = "Labels"
    <3>1. ~s.node
      BY <1>2, <1>3, <2>5, PumpedOK
    <3> QED BY <1>1, <2>1, <2>3, <3>1 DEF TriesOfTree
  <2>6. CASE e.kind \in {"Connected", "Root", "Values"}
    <3>1. ~s.labels
      BY <1>2, <1>3, <2>6, PumpedOK
    <3>2. Count(events, "Labels") <= Count(events', "Labels")
      BY <2>2, <2>6
    <3>3. s.tries <= lost + Count(cmds, "GetLabels") + Count(events, "Labels")
      BY <1>1, <3>1 DEF GivesUpOnlyOnLoss
    <3> QED BY <2>1, <3>2, <3>3
  <2> QED BY <1>7, <2>4, <2>5, <2>6
<1> QED BY <1>5, <1>6, <1>8, <1>9, <1>10, <1>11, <1>12, <1>13 DEF SessionInv

-------------------------------------------------------------------------------
(* A pass of ui().                                                         *)

LEMMA Numbers ==
    ASSUME TypeOK
    PROVE  /\ s.tries \in Nat /\ s.tries <= MaxAttempts /\ MaxAttempts \in Nat /\ lost \in Nat
           /\ Count(cmds, "GetLabels") \in Nat /\ Count(events, "Labels") \in Nat
<1>1. s.tries \in 0..MaxAttempts /\ MaxAttempts \in Nat
  BY SessionAssumption DEF TypeOK, SessionType
<1>2. lost \in Nat /\ events \in Seq(EventType) /\ cmds \in Seq(Cmd)
  BY DEF TypeOK
<1>3. Count(cmds, "GetLabels") \in Nat
  BY <1>2, CountType
<1>4. Count(events, "Labels") \in Nat
  BY <1>2, CountType
<1> QED BY <1>1, <1>2, <1>3, <1>4

LEMMA NoneNotLast ==
    ASSUME NEW q, NEW A, NEW G, G \subseteq A, NoneIn(q, A)
    PROVE  ~LastIn(q, A, G)
  BY DEF NoneIn, LastIn

\* What is in the queue after a pass, in terms of what was and what it said.
LEMMA SaidFacts ==
    ASSUME TypeOK, NEW c, NEW due, NEW talk, NEW subs, UiEffect(c, due, talk, subs)
    PROVE  /\ cmds' \in Seq(Cmd)
           /\ \A A : NoneIn(cmds', A) <=> NoneIn(cmds, A) /\ NoneIn(talk, A) /\ NoneIn(subs, A)
           /\ \A A, G : LastIn(cmds', A, G) <=>
                 \/ LastIn(subs, A, G)
                 \/ LastIn(talk, A, G) /\ NoneIn(subs, A)
                 \/ LastIn(cmds, A, G) /\ NoneIn(talk, A) /\ NoneIn(subs, A)
           /\ Count(cmds, "GetLabels") \in Nat /\ Count(cmds', "GetLabels") \in Nat
           /\ Count(cmds', "GetLabels") >= Count(cmds, "GetLabels")
           /\ ~NoneIn(talk, {Send("GetLabels", NoPath, 0)}) =>
                 Count(cmds', "GetLabels") >= Count(cmds, "GetLabels") + 1
<1> DEFINE out == talk \o subs
<1>1. /\ cmds \in Seq(Cmd) /\ talk \in Seq(Talk) /\ subs \in Seq(Cmd)
      /\ cmds' = cmds \o out
  BY DEF TypeOK, UiEffect
<1>2. talk \in Seq(Cmd)
  <2>1. Talk \subseteq Cmd
    BY DEF Talk, Fetch, Cmd, Send
  <2> QED BY <1>1, <2>1
<1>3. out \in Seq(Cmd)
  BY <1>1, <1>2, ConcatFacts
<1>4. /\ \A A : NoneIn(out, A) <=> NoneIn(talk, A) /\ NoneIn(subs, A)
      /\ \A A, G : LastIn(out, A, G) <=>
            LastIn(subs, A, G) \/ (LastIn(talk, A, G) /\ NoneIn(subs, A))
  BY <1>1, <1>2, ConcatLast
<1>5. ASSUME ~NoneIn(talk, {Send("GetLabels", NoPath, 0)})
      PROVE  \E i \in 1..Len(out) : out[i].kind = "GetLabels"
  <2>1. ~NoneIn(out, {Send("GetLabels", NoPath, 0)})
    BY <1>4, <1>5
  <2> HIDE DEF out
  <2> QED BY <2>1 DEF NoneIn, Send
<1> HIDE DEF out
<1>6. /\ cmds' \in Seq(Cmd)
      /\ \A A : NoneIn(cmds', A) <=> NoneIn(cmds, A) /\ NoneIn(out, A)
      /\ \A A, G : LastIn(cmds', A, G) <=>
            LastIn(out, A, G) \/ (LastIn(cmds, A, G) /\ NoneIn(out, A))
  <2>1. cmds' \in Seq(Cmd)
    BY <1>1, <1>3, ConcatFacts
  <2> QED BY <1>1, <1>3, <2>1, ConcatLast
<1>7. /\ Count(cmds', "GetLabels") >= Count(cmds, "GetLabels")
      /\ (\E i \in 1..Len(out) : out[i].kind = "GetLabels") =>
            Count(cmds', "GetLabels") >= Count(cmds, "GetLabels") + 1
  BY <1>1, <1>3, ConcatCount
<1>8. Count(cmds, "GetLabels") \in Nat /\ Count(cmds', "GetLabels") \in Nat
  BY <1>1, <1>6, CountType
<1> QED BY <1>4, <1>5, <1>6, <1>7, <1>8

LEMMA UiStep ==
    ASSUME SessionInv, NEW c, NEW due, NEW talk, NEW subs, UiEffect(c, due, talk, subs),
           due \subseteq s.pulses, IsClick(c),
           UNCHANGED <<events, hub, value, lost, lapse>>, locked' \in BOOLEAN,
           pulsed' = IF c.what \in Other THEN pulsed
                     ELSE IF c.what = "Pulse" THEN pulsed \cup {c.path} ELSE pulsed \ {c.path},
           c.what = "Edit" => s.node,
           c.what \notin Other => s.edit # {} \/ \E p \in Path : s.shown[p] # Unknown
    PROVE  SessionInv'
<1>1. TypeOK /\ SubscriptionsAgree /\ NodeFirst /\ TruthAhead /\ Before /\ ResetAhead
      /\ TriesOfTree /\ GivesUpOnlyOnLoss
  BY DEF SessionInv, SubscriptionsAgree
<1>2. /\ cmds' \in Seq(Cmd)
      /\ \A A : NoneIn(cmds', A) <=> NoneIn(cmds, A) /\ NoneIn(talk, A) /\ NoneIn(subs, A)
      /\ \A A, G : LastIn(cmds', A, G) <=>
            \/ LastIn(subs, A, G)
            \/ LastIn(talk, A, G) /\ NoneIn(subs, A)
            \/ LastIn(cmds, A, G) /\ NoneIn(talk, A) /\ NoneIn(subs, A)
      /\ Count(cmds, "GetLabels") \in Nat /\ Count(cmds', "GetLabels") \in Nat
      /\ Count(cmds', "GetLabels") >= Count(cmds, "GetLabels")
      /\ ~NoneIn(talk, {Send("GetLabels", NoPath, 0)}) =>
            Count(cmds', "GetLabels") >= Count(cmds, "GetLabels") + 1
  BY <1>1, SaidFacts
<1>3. TypeOK'
  <2>1. s' \in SessionType
    BY DEF UiEffect
  <2>2. pulsed' \in SUBSET Switch
    BY <1>1 DEF TypeOK, IsClick
  <2> QED BY <1>1, <1>2, <2>1, <2>2 DEF TypeOK
<1>4. SubscriptionsAgree'
  <2> SUFFICES ASSUME NEW p \in Path PROVE p \in s'.subscribed <=> Counted(p)'
    BY <1>3 DEF SubscriptionsAgree
  <2>1. NoneIn(talk, About(p)) /\ ~LastIn(talk, About(p), Subscribing(p))
    <3>1. NoneIn(talk, About(p))
      BY TalkFacts DEF UiEffect
    <3>2. Subscribing(p) \subseteq About(p)
      BY DEF Subscribing, About
    <3> QED BY <3>1, <3>2, NoneNotLast
  <2>2. p \in s.subscribed <=> Counted(p)
    BY <1>1 DEF SubscriptionsAgree
  <2>3. CASE p \in s'.subscribed <=> p \in s.subscribed
    <3>1. NoneIn(subs, About(p))
      BY <2>3 DEF UiEffect
    <3>2. ~LastIn(subs, About(p), Subscribing(p))
      <4>1. Subscribing(p) \subseteq About(p)
        BY DEF Subscribing, About
      <4> QED BY <3>1, <4>1, NoneNotLast
    <3>3. Counted(p)' <=> Counted(p)
      BY <1>2, <2>1, <3>1, <3>2 DEF Counted
    <3> QED BY <2>2, <2>3, <3>3
  <2>4. CASE ~(p \in s'.subscribed <=> p \in s.subscribed)
    <3>1. /\ ~NoneIn(subs, About(p))
          /\ p \in s'.subscribed <=> LastIn(subs, About(p), Subscribing(p))
      BY <2>4 DEF UiEffect
    <3>2. Counted(p)' <=> LastIn(subs, About(p), Subscribing(p))
      BY <1>2, <2>1, <3>1 DEF Counted
    <3> QED BY <3>1, <3>2
  <2> QED BY <2>3, <2>4
<1>5. NodeFirst'
  BY <1>1 DEF NodeFirst, UiEffect
<1>6. TruthAhead'
  <2> SUFFICES ASSUME hub.up, s'.requested, NoneIn(events, Restarts), NEW p \in Path
               PROVE  ToldAhead(p)'
    BY DEF TruthAhead
  <2>1. CASE ~NoneIn(talk, Asks(p))
    BY <1>2, <2>1 DEF ToldAhead
  <2>2. CASE NoneIn(talk, Asks(p))
    <3>1. s.requested
      <4>1. NoneIn(talk, {Send("GetNode", NoPath, 0)})
        BY <2>2 DEF NoneIn, Asks
      <4> QED BY <4>1 DEF UiEffect
    <3>2. ToldAhead(p)
      BY <1>1, <3>1 DEF TruthAhead
    <3>3. s'.shown[p] = s.shown[p] /\ s.pending \subseteq s'.pending
      BY <2>2 DEF UiEffect
    <3> QED BY <1>2, <3>2, <3>3 DEF ToldAhead
  <2> QED BY <2>1, <2>2
<1>7. Before'
  <2> SUFFICES ASSUME ~lapse, ~hub.up
               PROVE  events = <<>> /\ ~s'.node /\ s'.edit = {} /\ pulsed' = {}
    BY DEF Before
  <2>1. events = <<>> /\ ~s.node /\ s.edit = {} /\ pulsed = {}
    BY <1>1 DEF Before
  <2>2. \A p \in Path : s.shown[p] = Unknown
    BY <1>1, <2>1 DEF NodeFirst
  <2>3. c.what \in Other /\ c.what # "Edit"
    BY <2>1, <2>2
  <2> QED BY <2>1, <2>3 DEF UiEffect
<1>8. ResetAhead'
  <2> SUFFICES ASSUME ~lapse, NEW p \in pulsed', p \notin s'.pulses
               PROVE  \/ LastIn(cmds', Sets(p), Resets(p))
                      \/ value[p] = 0 /\ NoneIn(cmds', Sets(p))
    BY DEF ResetAhead
  <2>1. ~(c.what = "Pulse" /\ c.path = p)
    BY DEF UiEffect
  <2>2. (c.what \in Other \/ c.path # p) /\ p \in pulsed
    BY <2>1
  <2>3. NoneIn(subs, Sets(p))
    BY DEF UiEffect
  <2>4. CASE p \in due
    <3>1. LastIn(talk, Sets(p), Resets(p))
      BY <2>2, <2>4 DEF UiEffect
    <3> QED BY <1>2, <2>3, <3>1
  <2>5. CASE p \notin due
    <3>1. NoneIn(talk, Sets(p)) /\ p \notin s.pulses
      BY <2>2, <2>5 DEF UiEffect
    <3>2. \/ LastIn(cmds, Sets(p), Resets(p))
          \/ value[p] = 0 /\ NoneIn(cmds, Sets(p))
      BY <1>1, <2>2, <3>1 DEF ResetAhead
    <3> QED BY <1>2, <2>3, <3>1, <3>2
  <2> QED BY <2>4, <2>5
<1>9. TriesOfTree'
  <2>1. ~s'.node => s'.tries = s.tries /\ ~s.node
    BY DEF UiEffect
  <2> QED BY <1>1, <2>1 DEF TriesOfTree
<1>10. GivesUpOnlyOnLoss'
  <2> SUFFICES ASSUME ~s'.labels
               PROVE  s'.tries <= lost + Count(cmds', "GetLabels") + Count(events, "Labels")
    BY DEF GivesUpOnlyOnLoss
  <2>1. s.tries <= lost + Count(cmds, "GetLabels") + Count(events, "Labels")
    BY <1>1 DEF GivesUpOnlyOnLoss, UiEffect
  <2>2. s.tries \in Nat /\ lost \in Nat /\ Count(events, "Labels") \in Nat
    BY <1>1, Numbers
  <2>3. CASE s'.tries = s.tries
    BY <1>2, <2>1, <2>2, <2>3
  <2>4. CASE s'.tries = s.tries + 1 /\ ~NoneIn(talk, {Send("GetLabels", NoPath, 0)})
    BY <1>2, <2>1, <2>2, <2>4
  <2> QED BY <2>3, <2>4 DEF UiEffect
<1> QED BY <1>3, <1>4, <1>5, <1>6, <1>7, <1>8, <1>9, <1>10 DEF SessionInv

LEMMA UiPassOK == SessionInv /\ UiPass => SessionInv'
<1> SUFFICES ASSUME SessionInv, UiPass PROVE SessionInv'
  OBVIOUS
<1>1. TypeOK /\ s \in SessionType
  BY DEF SessionInv, SubscriptionsAgree, TypeOK
<1>2. ASSUME NEW due \in SUBSET s.pulses, NEW when \in BOOLEAN, NEW c \in Gestures(s),
             Ui(c, due, when), UNCHANGED pulsed
      PROVE  SessionInv'
  <2>1. IsClick(c) /\ c.what \in Other /\ (c.what = "Edit" => s.node)
    BY <1>1, GestureOK
  <2>2. PICK talk, subs : UiEffect(c, due, talk, subs)
    BY <1>1, <1>2, <2>1, UiOK
  <2>3. UNCHANGED <<events, hub, value, lost, lapse>> /\ locked' \in BOOLEAN
    BY <1>1, <1>2 DEF Ui, TypeOK
  <2> QED BY <1>2, <2>1, <2>2, <2>3, UiStep
<1>3. ASSUME NEW due \in SUBSET s.pulses, NEW when \in BOOLEAN, NEW c \in Writes(s),
             Ui(c, due, when),
             pulsed' = IF c.what = "Pulse" THEN pulsed \cup {c.path} ELSE pulsed \ {c.path}
      PROVE  SessionInv'
  <2>1. /\ IsClick(c) /\ c.what \in Writing
        /\ s.edit # {} \/ \E p \in Path : s.shown[p] # Unknown
    BY <1>1, WriteOK
  <2>2. c.what \notin Other /\ c.what # "Edit"
    BY <2>1 DEF Writing, Other
  <2>3. PICK talk, subs : UiEffect(c, due, talk, subs)
    BY <1>1, <1>3, <2>1, UiOK
  <2>4. UNCHANGED <<events, hub, value, lost, lapse>> /\ locked' \in BOOLEAN
    BY <1>1, <1>3 DEF Ui, TypeOK
  <2> QED BY <1>3, <2>1, <2>2, <2>3, <2>4, UiStep
<1> QED BY <1>2, <1>3 DEF UiPass

-------------------------------------------------------------------------------
(* The hub and the device.                                                 *)

\* Commands are told apart by their kinds.
LEMMA CmdFacts ==
    ASSUME NEW c \in Cmd, NEW p
    PROVE  /\ c.kind \notin {"Subscribe", "Unsubscribe"} => c \notin About(p)
           /\ c.kind # "Set" => c \notin Sets(p)
           /\ c.kind \notin {"GetNode", "Refresh"} => c \notin Asks(p)
           /\ c.kind = "Refresh" => c.path \in Path /\ (c \in Asks(p) <=> c.path = p)
           /\ c.kind \in {"Subscribe", "Unsubscribe"} =>
                 /\ c.path \in Path
                 /\ c \in About(p) <=> c.path = p
                 /\ c \in Subscribing(p) <=> c.kind = "Subscribe" /\ c.path = p
           /\ c.kind = "Set" =>
                 /\ c.path \in Path /\ c.val \in Value
                 /\ c \in Sets(p) <=> c.path = p
                 /\ c \in Resets(p) <=> c.path = p /\ c.val = 0
  BY DEF Cmd, About, Subscribing, Sets, Resets, Asks, Send

\* What the steps of the hub and the device have in common: the session does not
\* move.
LEMMA StillSession ==
    ASSUME SessionInv, UNCHANGED s, TypeOK'
    PROVE  NodeFirst'
  BY DEF SessionInv, NodeFirst

\* Taking a command that says nothing of a subscription.
LEMMA StillCounted ==
    ASSUME SessionInv, NEW c, Taken(c), c.kind \notin {"Subscribe", "Unsubscribe"},
           UNCHANGED <<s, hub>>, TypeOK'
    PROVE  SubscriptionsAgree'
<1>1. TypeOK /\ SubscriptionsAgree
  BY DEF SessionInv, SubscriptionsAgree
<1>2. /\ c \in Cmd
      /\ \A A : NoneIn(cmds, A) <=> c \notin A /\ NoneIn(cmds', A)
      /\ \A A, G : LastIn(cmds, A, G) <=>
            LastIn(cmds', A, G) \/ (c \in G /\ NoneIn(cmds', A))
  BY <1>1, TakenFacts
<1>3. ASSUME NEW p \in Path PROVE Counted(p)' <=> Counted(p)
  <2>1. c \notin About(p)
    BY <1>2, CmdFacts
  <2>2. Subscribing(p) \subseteq About(p)
    BY DEF Subscribing, About
  <2> QED BY <1>2, <2>1, <2>2 DEF Counted
<1> QED BY <1>1, <1>3 DEF SubscriptionsAgree

LEMMA SubscriptionOK ==
    ASSUME SessionInv, NEW c, TakeSubscription(c)
    PROVE  SessionInv'
<1>1. TypeOK /\ SubscriptionsAgree /\ NodeFirst /\ TruthAhead /\ Before /\ ResetAhead
      /\ TriesOfTree /\ GivesUpOnlyOnLoss
  BY DEF SessionInv, SubscriptionsAgree
<1>2. /\ c \in Cmd /\ cmds' \in Seq(Cmd)
      /\ \A A : NoneIn(cmds, A) <=> c \notin A /\ NoneIn(cmds', A)
      /\ \A A, G : LastIn(cmds, A, G) <=>
            LastIn(cmds', A, G) \/ (c \in G /\ NoneIn(cmds', A))
      /\ Count(cmds, "GetLabels") \in Nat /\ Count(cmds', "GetLabels") \in Nat
      /\ c.kind # "GetLabels" => Count(cmds, "GetLabels") <= Count(cmds', "GetLabels")
  BY <1>1, TakenFacts DEF TakeSubscription
<1>3. /\ c.kind \in {"Subscribe", "Unsubscribe"} /\ c.path \in Path
      /\ UNCHANGED <<s, locked, events, value, pulsed, lost, lapse>>
  BY <1>2, CmdFacts DEF TakeSubscription
<1>4. /\ hub' \in [up : BOOLEAN, subs : SUBSET Path] /\ hub'.up = hub.up
      /\ hub'.subs = IF c.kind = "Subscribe" THEN hub.subs \cup {c.path} ELSE hub.subs \ {c.path}
  BY <1>1, <1>3 DEF TakeSubscription, TypeOK
<1>5. TypeOK'
  BY <1>1, <1>2, <1>3, <1>4 DEF TypeOK
<1>6. SubscriptionsAgree'
  <2> SUFFICES ASSUME NEW p \in Path PROVE Counted(p)' <=> Counted(p)
    BY <1>1, <1>3, <1>5 DEF SubscriptionsAgree
  <2>1. /\ c \in About(p) <=> c.path = p
        /\ c \in Subscribing(p) <=> c.kind = "Subscribe" /\ c.path = p
    BY <1>2, <1>3, CmdFacts
  <2> QED BY <1>2, <1>3, <1>4, <2>1 DEF Counted
<1>7. TruthAhead'
  <2>1. ASSUME NEW p \in Path, ToldAhead(p) PROVE ToldAhead(p)'
    <3>1. c \notin Asks(p)
      BY <1>2, <1>3, CmdFacts
    <3> QED BY <1>2, <1>3, <2>1, <3>1 DEF ToldAhead
  <2> QED BY <1>1, <1>3, <1>4, <2>1 DEF TruthAhead
<1>8. Before'
  BY <1>1, <1>3, <1>4 DEF Before
<1>9. ResetAhead'
  <2>1. \A p : c \notin Sets(p)
    BY <1>2, <1>3, CmdFacts
  <2>2. \A p : Resets(p) \subseteq Sets(p)
    BY DEF Resets, Sets, Value
  <2> QED BY <1>1, <1>2, <1>3, <2>1, <2>2 DEF ResetAhead
<1>10. TriesOfTree'
  BY <1>1, <1>3 DEF TriesOfTree
<1>11. GivesUpOnlyOnLoss'
  <2>1. Count(cmds, "GetLabels") <= Count(cmds', "GetLabels")
    BY <1>2, <1>3
  <2>2. s.tries \in Nat /\ lost \in Nat /\ Count(events, "Labels") \in Nat
    BY <1>1, Numbers
  <2> QED BY <1>1, <1>2, <1>3, <2>1, <2>2 DEF GivesUpOnlyOnLoss
<1> QED
  BY <1>3, <1>5, <1>6, <1>7, <1>8, <1>9, <1>10, <1>11, StillSession DEF SessionInv

\* A request that is answered: the answer tells what was asked for, and says
\* nothing else.
LEMMA AnswerOK ==
    ASSUME SessionInv, NEW c, Taken(c), NEW e \in EventType, Emit(<<e>>),
           c.kind \notin {"Subscribe", "Unsubscribe", "Set"}, e \notin Restarts, hub.up,
           \A p \in Path : c \in Asks(p) => e \in Tells(p, value[p]),
           \A p \in Path : e \in Reports(p) => e \in Tells(p, value[p]),
           c.kind = "GetLabels" => e.kind = "Labels",
           UNCHANGED <<s, locked, hub, value, pulsed, lost, lapse>>
    PROVE  SessionInv'
<1>1. TypeOK /\ SubscriptionsAgree /\ NodeFirst /\ TruthAhead /\ Before /\ ResetAhead
      /\ TriesOfTree /\ GivesUpOnlyOnLoss
  BY DEF SessionInv, SubscriptionsAgree
<1>2. /\ c \in Cmd /\ cmds' \in Seq(Cmd)
      /\ \A A : NoneIn(cmds, A) <=> c \notin A /\ NoneIn(cmds', A)
      /\ \A A, G : LastIn(cmds, A, G) <=>
            LastIn(cmds', A, G) \/ (c \in G /\ NoneIn(cmds', A))
      /\ Count(cmds, "GetLabels") \in Nat /\ Count(cmds', "GetLabels") \in Nat
      /\ Count(cmds, "GetLabels") <= Count(cmds', "GetLabels") + 1
      /\ c.kind # "GetLabels" => Count(cmds, "GetLabels") <= Count(cmds', "GetLabels")
  BY <1>1, TakenFacts
<1>3. /\ events' \in Seq(EventType) /\ Len(events') <= MaxEvents + 1
      /\ \A A : NoneIn(events', A) <=> NoneIn(events, A) /\ e \notin A
      /\ \A A, G : LastIn(events', A, G) <=>
            e \in G \/ (LastIn(events, A, G) /\ e \notin A)
      /\ Count(events, "Labels") \in Nat /\ Count(events', "Labels") \in Nat
      /\ Count(events', "Labels") >= Count(events, "Labels")
      /\ e.kind = "Labels" => Count(events', "Labels") >= Count(events, "Labels") + 1
  BY <1>1, EmittedFacts
<1>4. TypeOK'
  BY <1>1, <1>2, <1>3 DEF TypeOK
<1>5. SubscriptionsAgree'
  BY <1>4, StillCounted
<1>6. TruthAhead'
  <2>1. ASSUME NEW p \in Path, ToldAhead(p) PROVE ToldAhead(p)'
    <3>1. CASE e \in Tells(p, value[p])
      BY <1>3, <3>1 DEF ToldAhead
    <3>2. CASE e \notin Tells(p, value[p])
      <4>1. e \notin Reports(p) /\ c \notin Asks(p)
        BY <3>2
      <4> QED BY <1>2, <1>3, <2>1, <4>1 DEF ToldAhead
    <3> QED BY <3>1, <3>2
  <2> QED BY <1>1, <1>3, <2>1 DEF TruthAhead
<1>7. Before'
  BY DEF Before
<1>8. ResetAhead'
  <2>1. \A p : c \notin Sets(p)
    BY <1>2, CmdFacts
  <2>2. \A p : Resets(p) \subseteq Sets(p)
    BY DEF Resets, Sets, Value
  <2> QED BY <1>1, <1>2, <2>1, <2>2 DEF ResetAhead
<1>9. TriesOfTree'
  <2>1. e \notin {Event("Retargeted")}
    BY EventFacts
  <2> QED BY <1>1, <1>3, <2>1 DEF TriesOfTree
<1>10. GivesUpOnlyOnLoss'
  <2> SUFFICES ASSUME ~s.labels
               PROVE  s.tries <= lost + Count(cmds', "GetLabels") + Count(events', "Labels")
    BY DEF GivesUpOnlyOnLoss
  <2>1. s.tries <= lost + Count(cmds, "GetLabels") + Count(events, "Labels")
    BY <1>1 DEF GivesUpOnlyOnLoss
  <2>2. s.tries \in Nat /\ lost \in Nat
    BY <1>1, Numbers
  <2>3. CASE c.kind = "GetLabels"
    BY <1>2, <1>3, <2>1, <2>2, <2>3
  <2>4. CASE c.kind # "GetLabels"
    BY <1>2, <1>3, <2>1, <2>2, <2>4
  <2> QED BY <2>3, <2>4
<1> QED
  BY <1>4, <1>5, <1>6, <1>7, <1>8, <1>9, <1>10, StillSession DEF SessionInv

LEMMA RequestOK ==
    ASSUME SessionInv, NEW c, TakeRequest(c)
    PROVE  SessionInv'
<1>1. TypeOK /\ value \in [Path -> Value]
  BY DEF SessionInv, SubscriptionsAgree, TypeOK
<1>2. c \in Cmd
  BY <1>1, TakenFacts DEF TakeRequest
<1>3. /\ hub.up /\ Taken(c)
      /\ UNCHANGED <<s, locked, hub, value, pulsed, lost, lapse>>
  BY DEF TakeRequest
<1>4. CASE c.kind = "GetRoot" /\ Emit(<<Event("Root")>>)
  <2>1. /\ Event("Root") \in EventType /\ Event("Root") \notin Restarts
        /\ \A p \in Path : Event("Root") \notin Reports(p)
    BY EventFacts
  <2>2. \A p \in Path : c \notin Asks(p)
    BY <1>2, <1>4, CmdFacts
  <2> QED BY <1>3, <1>4, <2>1, <2>2, AnswerOK
<1>5. CASE c.kind = "GetLabels" /\ Emit(<<Event("Labels")>>)
  <2>1. /\ Event("Labels") \in EventType /\ Event("Labels") \notin Restarts
        /\ Event("Labels").kind = "Labels"
        /\ \A p \in Path : Event("Labels") \notin Reports(p)
    BY EventFacts
  <2>2. \A p \in Path : c \notin Asks(p)
    BY <1>2, <1>5, CmdFacts
  <2> QED BY <1>3, <1>5, <2>1, <2>2, AnswerOK
<1>6. CASE c.kind = "GetNode" /\ Emit(<<Values(Path, value)>>)
  <2> DEFINE e == Values(Path, value)
  <2>1. /\ e \in EventType /\ e \notin Restarts
        /\ \A p \in Path : e \in Tells(p, value[p])
    BY <1>1, ValuesFacts
  <2> HIDE DEF e
  <2>2. Emit(<<e>>)
    BY <1>6 DEF e
  <2> QED BY <1>3, <1>6, <2>1, <2>2, AnswerOK
<1>7. CASE c.kind = "Refresh" /\ Emit(<<Values({c.path}, value)>>)
  <2> DEFINE e == Values({c.path}, value)
  <2>1. c.path \in Path /\ \A p \in Path : c \in Asks(p) <=> c.path = p
    BY <1>2, <1>7, CmdFacts
  <2>2. /\ e \in EventType /\ e \notin Restarts
        /\ \A p : e \in Reports(p) <=> p \in {c.path}
        /\ \A p \in {c.path} : e \in Tells(p, value[p])
    <3>1. {c.path} \in SUBSET Path
      BY <2>1
    <3> QED BY <1>1, <3>1, ValuesFacts
  <2> HIDE DEF e
  <2>3. Emit(<<e>>)
    BY <1>7 DEF e
  <2>4. \A p \in Path : c \in Asks(p) => e \in Tells(p, value[p])
    BY <2>1, <2>2
  <2>5. \A p \in Path : e \in Reports(p) => e \in Tells(p, value[p])
    BY <2>2
  <2> QED BY <1>3, <1>7, <2>2, <2>3, <2>4, <2>5, AnswerOK
<1> QED BY <1>4, <1>5, <1>6, <1>7 DEF TakeRequest

\* A write that the device performs, or a text that it refuses.
LEMMA TakeWriteOK ==
    ASSUME SessionInv, NEW c, TakeWrite(c)
    PROVE  SessionInv'
<1>1. TypeOK /\ SubscriptionsAgree /\ NodeFirst /\ TruthAhead /\ Before /\ ResetAhead
      /\ TriesOfTree /\ GivesUpOnlyOnLoss
  BY DEF SessionInv, SubscriptionsAgree
<1>2. /\ c \in Cmd /\ cmds' \in Seq(Cmd)
      /\ \A A : NoneIn(cmds, A) <=> c \notin A /\ NoneIn(cmds', A)
      /\ \A A, G : LastIn(cmds, A, G) <=>
            LastIn(cmds', A, G) \/ (c \in G /\ NoneIn(cmds', A))
      /\ Count(cmds, "GetLabels") \in Nat /\ Count(cmds', "GetLabels") \in Nat
      /\ c.kind # "GetLabels" => Count(cmds, "GetLabels") <= Count(cmds', "GetLabels")
  BY <1>1, TakenFacts DEF TakeWrite
<1>3. /\ hub.up /\ Taken(c) /\ c.kind = "Set" /\ c.path \in Path /\ c.val \in Value
      /\ UNCHANGED <<s, locked, hub, pulsed, lost, lapse>>
  BY <1>2, CmdFacts DEF TakeWrite
<1>4. \A p : c \notin Asks(p) /\ (c \in Sets(p) <=> c.path = p)
            /\ (c \in Resets(p) <=> c.path = p /\ c.val = 0)
  BY <1>2, <1>3, CmdFacts
<1>5. Count(cmds, "GetLabels") <= Count(cmds', "GetLabels")
  BY <1>2, <1>3
<1>6. \A p \in pulsed \ s.pulses : ~lapse =>
        \/ LastIn(cmds, Sets(p), Resets(p))
        \/ value[p] = 0 /\ NoneIn(cmds, Sets(p))
  BY <1>1 DEF ResetAhead
<1>7. value \in [Path -> Value] /\ pulsed \subseteq Switch
  BY <1>1 DEF TypeOK
<1>8. s.tries \in Nat /\ lost \in Nat /\ Count(events, "Labels") \in Nat
  BY <1>1, Numbers
<1>9. CASE value' = [value EXCEPT ![c.path] = c.val] /\ Emit(<<Values({c.path}, value')>>)
  <2> DEFINE e == Values({c.path}, value')
  <2>1. /\ value' \in [Path -> Value] /\ value'[c.path] = c.val
        /\ \A p \in Path : p # c.path => value'[p] = value[p]
    BY <1>3, <1>7, <1>9
  <2>2. /\ e \in EventType /\ e \notin Restarts /\ e # Event("Retargeted")
        /\ \A p : e \in Reports(p) <=> p \in {c.path}
        /\ \A p \in {c.path} : e \in Tells(p, value'[p])
    <3>1. {c.path} \in SUBSET Path
      BY <1>3
    <3> QED BY <2>1, <3>1, ValuesFacts
  <2> HIDE DEF e
  <2>3. Emit(<<e>>)
    BY <1>9 DEF e
  <2>4. /\ events' \in Seq(EventType) /\ Len(events') <= MaxEvents + 1
        /\ \A A : NoneIn(events', A) <=> NoneIn(events, A) /\ e \notin A
        /\ \A A, G : LastIn(events', A, G) <=>
              e \in G \/ (LastIn(events, A, G) /\ e \notin A)
        /\ Count(events', "Labels") \in Nat
        /\ Count(events', "Labels") >= Count(events, "Labels")
    BY <1>1, <2>2, <2>3, EmittedFacts
  <2>5. TypeOK'
    BY <1>1, <1>2, <1>3, <2>1, <2>4 DEF TypeOK
  <2>6. SubscriptionsAgree'
    BY <1>3, <2>5, StillCounted
  <2>7. TruthAhead'
    <3>1. ASSUME NEW p \in Path, ToldAhead(p) PROVE ToldAhead(p)'
      <4>1. CASE p = c.path
        BY <2>2, <2>4, <4>1 DEF ToldAhead
      <4>2. CASE p # c.path
        BY <1>2, <1>3, <1>4, <2>1, <2>2, <2>4, <3>1, <4>2 DEF ToldAhead
      <4> QED BY <4>1, <4>2
    <3> QED BY <1>1, <1>3, <2>4, <3>1 DEF TruthAhead
  <2>8. ResetAhead'
    <3> SUFFICES ASSUME ~lapse, NEW p \in pulsed, p \notin s.pulses
                 PROVE  \/ LastIn(cmds', Sets(p), Resets(p))
                        \/ value'[p] = 0 /\ NoneIn(cmds', Sets(p))
      BY <1>3 DEF ResetAhead
    <3>1. p \in Path
      BY <1>7 DEF Path
    <3> QED BY <1>2, <1>4, <1>6, <2>1, <3>1
  <2>9. Before' /\ TriesOfTree'
    BY <1>1, <1>3, <2>2, <2>4 DEF Before, TriesOfTree
  <2>10. GivesUpOnlyOnLoss'
    BY <1>1, <1>2, <1>3, <1>5, <1>8, <2>4 DEF GivesUpOnlyOnLoss
  <2> QED BY <1>3, <2>5, <2>6, <2>7, <2>8, <2>9, <2>10, StillSession DEF SessionInv
<1>10. CASE c.path \in Text /\ UNCHANGED <<value, events>>
  <2>1. TypeOK'
    BY <1>1, <1>2, <1>3, <1>10 DEF TypeOK
  <2>2. SubscriptionsAgree'
    BY <1>3, <2>1, StillCounted
  <2>3. TruthAhead'
    <3>1. ASSUME NEW p \in Path, ToldAhead(p) PROVE ToldAhead(p)'
      BY <1>2, <1>3, <1>4, <1>10, <3>1 DEF ToldAhead
    <3> QED BY <1>1, <1>3, <1>10, <3>1 DEF TruthAhead
  <2>4. ResetAhead'
    <3> SUFFICES ASSUME ~lapse, NEW p \in pulsed, p \notin s.pulses
                 PROVE  \/ LastIn(cmds', Sets(p), Resets(p))
                        \/ value[p] = 0 /\ NoneIn(cmds', Sets(p))
      BY <1>3, <1>10 DEF ResetAhead
    <3>1. p # c.path
      BY <1>7, <1>10, SessionAssumption
    <3> QED BY <1>2, <1>4, <1>6, <3>1
  <2>5. Before' /\ TriesOfTree'
    BY <1>1, <1>3, <1>10 DEF Before, TriesOfTree
  <2>6. GivesUpOnlyOnLoss'
    BY <1>1, <1>2, <1>3, <1>5, <1>8, <1>10 DEF GivesUpOnlyOnLoss
  <2> QED BY <1>3, <2>1, <2>2, <2>3, <2>4, <2>5, <2>6, StillSession DEF SessionInv
<1> QED BY <1>9, <1>10 DEF TakeWrite

\* A label request that the device drops, on record as lost.
LEMMA DropOK ==
    ASSUME SessionInv, NEW c, DropRequest(c)
    PROVE  SessionInv'
<1>1. TypeOK /\ SubscriptionsAgree /\ NodeFirst /\ TruthAhead /\ Before /\ ResetAhead
      /\ TriesOfTree /\ GivesUpOnlyOnLoss
  BY DEF SessionInv, SubscriptionsAgree
<1>2. /\ c \in Cmd /\ cmds' \in Seq(Cmd)
      /\ \A A : NoneIn(cmds, A) <=> c \notin A /\ NoneIn(cmds', A)
      /\ \A A, G : LastIn(cmds, A, G) <=>
            LastIn(cmds', A, G) \/ (c \in G /\ NoneIn(cmds', A))
      /\ Count(cmds, "GetLabels") \in Nat /\ Count(cmds', "GetLabels") \in Nat
      /\ Count(cmds, "GetLabels") <= Count(cmds', "GetLabels") + 1
  BY <1>1, TakenFacts DEF DropRequest
<1>3. /\ hub.up /\ Taken(c) /\ c.kind = "GetLabels" /\ lost' = lost + 1
      /\ UNCHANGED <<s, locked, events, hub, value, pulsed, lapse>>
  BY DEF DropRequest
<1>4. /\ s.tries \in Nat /\ lost \in Nat /\ lost' \in Nat /\ lost' >= lost
      /\ Count(events, "Labels") \in Nat /\ MaxAttempts \in Nat
  <2>1. s.tries \in Nat /\ lost \in Nat /\ Count(events, "Labels") \in Nat /\ MaxAttempts \in Nat
    BY <1>1, Numbers
  <2> QED BY <1>3, <2>1
<1>5. \A p : c \notin Asks(p) /\ c \notin Sets(p)
  BY <1>2, <1>3, CmdFacts
<1>6. TypeOK'
  BY <1>1, <1>2, <1>3, <1>4 DEF TypeOK
<1>7. SubscriptionsAgree'
  BY <1>3, <1>6, StillCounted
<1>8. TruthAhead'
  <2>1. ASSUME NEW p \in Path, ToldAhead(p) PROVE ToldAhead(p)'
    BY <1>2, <1>3, <1>5, <2>1 DEF ToldAhead
  <2> QED BY <1>1, <1>3, <2>1 DEF TruthAhead
<1>9. ResetAhead'
  <2>1. \A p : Resets(p) \subseteq Sets(p)
    BY DEF Resets, Sets, Value
  <2> QED BY <1>1, <1>2, <1>3, <1>5, <2>1 DEF ResetAhead
<1>10. Before' /\ TriesOfTree'
  BY <1>1, <1>3, <1>4 DEF Before, TriesOfTree
<1>11. GivesUpOnlyOnLoss'
  BY <1>1, <1>2, <1>3, <1>4 DEF GivesUpOnlyOnLoss
<1> QED BY <1>3, <1>6, <1>7, <1>8, <1>9, <1>10, <1>11, StillSession DEF SessionInv

\* A command that is dropped because there is no connection: nothing of the session
\* rests on its answer, and a label request is lost.
LEMMA OfflineOK ==
    ASSUME SessionInv, NEW c, TakeOffline(c)
    PROVE  SessionInv'
<1>1. TypeOK /\ SubscriptionsAgree /\ NodeFirst /\ TruthAhead /\ Before /\ ResetAhead
      /\ TriesOfTree /\ GivesUpOnlyOnLoss
  BY DEF SessionInv, SubscriptionsAgree
<1>2. /\ c \in Cmd /\ cmds' \in Seq(Cmd)
      /\ Count(cmds, "GetLabels") \in Nat /\ Count(cmds', "GetLabels") \in Nat
      /\ Count(cmds, "GetLabels") <= Count(cmds', "GetLabels") + 1
      /\ c.kind # "GetLabels" => Count(cmds, "GetLabels") <= Count(cmds', "GetLabels")
  BY <1>1, TakenFacts DEF TakeOffline
<1>3. /\ ~hub.up /\ Taken(c) /\ c.kind \notin {"Subscribe", "Unsubscribe"}
      /\ lost' = IF c.kind = "GetLabels" /\ lost < MaxAttempts THEN lost + 1 ELSE lost
      /\ UNCHANGED <<s, locked, events, hub, value, pulsed, lapse>>
  BY DEF TakeOffline
<1>4. /\ s.tries \in Nat /\ s.tries <= MaxAttempts /\ MaxAttempts \in Nat
      /\ lost \in Nat /\ Count(events, "Labels") \in Nat
  BY <1>1, Numbers
<1>5. /\ lost' \in Nat /\ lost' >= lost
      /\ c.kind = "GetLabels" => lost' = lost + 1 \/ lost' >= MaxAttempts
  BY <1>3, <1>4
<1>6. TypeOK'
  BY <1>1, <1>2, <1>3, <1>5 DEF TypeOK
<1>7. SubscriptionsAgree'
  BY <1>3, <1>6, StillCounted
<1>8. TruthAhead'
  BY <1>3 DEF TruthAhead
<1>9. Before'
  BY <1>1, <1>3 DEF Before
<1>10. ResetAhead'
  <2> SUFFICES ASSUME ~lapse, NEW p \in pulsed PROVE FALSE
    BY <1>3 DEF ResetAhead
  <2> QED BY <1>1, <1>3 DEF Before
<1>11. TriesOfTree'
  BY <1>1, <1>3, <1>4, <1>5 DEF TriesOfTree
<1>12. GivesUpOnlyOnLoss'
  <2> SUFFICES ASSUME ~s.labels
               PROVE  s.tries <= lost' + Count(cmds', "GetLabels") + Count(events, "Labels")
    BY <1>3 DEF GivesUpOnlyOnLoss
  <2>1. s.tries <= lost + Count(cmds, "GetLabels") + Count(events, "Labels")
    BY <1>1 DEF GivesUpOnlyOnLoss
  <2>2. CASE c.kind = "GetLabels"
    BY <1>2, <1>4, <1>5, <2>1, <2>2
  <2>3. CASE c.kind # "GetLabels"
    BY <1>2, <1>4, <1>5, <2>1, <2>3
  <2> QED BY <2>2, <2>3
<1> QED BY <1>3, <1>6, <1>7, <1>8, <1>9, <1>10, <1>11, <1>12, StillSession DEF SessionInv

-------------------------------------------------------------------------------
(* Connections, and the device.                                            *)

\* What the events that nobody asked for have in common: the session and its
\* commands do not move, and what it subscribed is what it was.
LEMMA StillAgree ==
    ASSUME SessionInv, UNCHANGED <<s, cmds>>, hub'.subs = hub.subs, TypeOK'
    PROVE  SubscriptionsAgree' /\ NodeFirst'
<1>1. SubscriptionsAgree /\ NodeFirst
  BY DEF SessionInv
<1> QED BY <1>1 DEF SubscriptionsAgree, Counted, NodeFirst

LEMMA LoseOK == SessionInv /\ Lose => SessionInv'
<1> SUFFICES ASSUME SessionInv, Lose PROVE SessionInv'
  OBVIOUS
<1>1. TypeOK /\ TriesOfTree /\ GivesUpOnlyOnLoss
  BY DEF SessionInv, SubscriptionsAgree
<1>2. /\ hub' = [hub EXCEPT !.up = FALSE] /\ lapse'
      /\ UNCHANGED <<s, locked, events, cmds, value, pulsed, lost>>
  BY DEF Lose
<1>3. hub' \in [up : BOOLEAN, subs : SUBSET Path] /\ ~hub'.up /\ hub'.subs = hub.subs
  BY <1>1, <1>2 DEF TypeOK
<1>4. TypeOK'
  BY <1>1, <1>2, <1>3 DEF TypeOK
<1>5. SubscriptionsAgree' /\ NodeFirst'
  BY <1>2, <1>3, <1>4, StillAgree
<1>6. TruthAhead' /\ Before' /\ ResetAhead'
  BY <1>2, <1>3 DEF TruthAhead, Before, ResetAhead
<1>7. TriesOfTree' /\ GivesUpOnlyOnLoss'
  BY <1>1, <1>2 DEF TriesOfTree, GivesUpOnlyOnLoss
<1> QED BY <1>5, <1>6, <1>7 DEF SessionInv

\* The session is told of the new connection: what it asked for is to be asked
\* again.
LEMMA ConnectOK == SessionInv /\ Connect => SessionInv'
<1> SUFFICES ASSUME SessionInv, Connect PROVE SessionInv'
  OBVIOUS
<1> DEFINE two == <<Event("Connected"), Event("Root")>>
<1>1. TypeOK /\ Before /\ ResetAhead /\ TriesOfTree /\ GivesUpOnlyOnLoss
  BY DEF SessionInv, SubscriptionsAgree
<1>2. /\ ~hub.up /\ hub' = [hub EXCEPT !.up = TRUE] /\ Len(events) < MaxEvents
      /\ events' = events \o two
      /\ UNCHANGED <<s, locked, cmds, value, pulsed, lost, lapse>>
  BY DEF Connect, Emit
<1>3. hub' \in [up : BOOLEAN, subs : SUBSET Path] /\ hub'.up /\ hub'.subs = hub.subs
  BY <1>1, <1>2 DEF TypeOK
<1>4. two \in Seq(EventType) /\ Len(two) = 2 /\ two[1] = Event("Connected")
      /\ two[2] = Event("Root")
  <2>1. Event("Connected") \in EventType /\ Event("Root") \in EventType
    BY EventFacts
  <2> QED BY <2>1
<1>5. events \in Seq(EventType)
  BY <1>1 DEF TypeOK
<1> HIDE DEF two
<1>6. events' \in Seq(EventType) /\ Len(events') <= MaxEvents + 1
  <2>1. /\ events' \in Seq(EventType) /\ Len(events) \in Nat
        /\ Len(events') = Len(events) + Len(two)
    <3>1. two \in Seq(EventType)
      BY <1>4
    <3> QED BY <1>2, <1>5, <3>1, ConcatFacts
  <2> QED BY <1>2, <1>4, <2>1, SessionAssumption
<1>7. \A A : NoneIn(events', A) <=> NoneIn(events, A) /\ NoneIn(two, A)
  BY <1>2, <1>4, <1>5, ConcatLast
<1>8. /\ Count(events, "Labels") \in Nat /\ Count(events', "Labels") \in Nat
      /\ Count(events', "Labels") >= Count(events, "Labels")
  BY <1>2, <1>4, <1>5, <1>6, ConcatCount, CountType
<1>9. ~NoneIn(two, Restarts)
  <2>1. 1 \in 1..Len(two) /\ two[1] \in Restarts
    BY <1>4 DEF Restarts
  <2> QED BY <2>1 DEF NoneIn
<1>10. NoneIn(two, {Event("Retargeted")})
  <2>1. 1..2 = {1, 2}
    OBVIOUS
  <2> QED BY <1>4, <2>1 DEF NoneIn, Event
<1>11. TypeOK'
  BY <1>1, <1>2, <1>3, <1>6 DEF TypeOK
<1>12. SubscriptionsAgree' /\ NodeFirst'
  BY <1>2, <1>3, <1>11, StillAgree
<1>13. TruthAhead' /\ Before'
  BY <1>3, <1>7, <1>9 DEF TruthAhead, Before
<1>14. ResetAhead'
  BY <1>1, <1>2 DEF ResetAhead
<1>15. TriesOfTree'
  BY <1>1, <1>2, <1>7, <1>10 DEF TriesOfTree
<1>16. GivesUpOnlyOnLoss'
  <2>1. s.tries \in Nat /\ lost \in Nat /\ Count(cmds, "GetLabels") \in Nat
    BY <1>1, Numbers
  <2> QED BY <1>1, <1>2, <1>8, <2>1 DEF GivesUpOnlyOnLoss
<1> QED BY <1>12, <1>13, <1>14, <1>15, <1>16 DEF SessionInv

\* Another device: what was asked of the old one is lost, and so are its labels.
LEMMA RetargetOK == SessionInv /\ Retarget => SessionInv'
<1> SUFFICES ASSUME SessionInv, Retarget PROVE SessionInv'
  OBVIOUS
<1> DEFINE e == Event("Retargeted")
<1>1. TypeOK
  BY DEF SessionInv, SubscriptionsAgree
<1>2. /\ hub' = [hub EXCEPT !.up = FALSE] /\ value' = AtRest /\ Emit(<<e>>) /\ lapse'
      /\ lost' = MaxAttempts /\ UNCHANGED <<s, locked, cmds, pulsed>>
  BY DEF Retarget
<1>3. hub' \in [up : BOOLEAN, subs : SUBSET Path] /\ ~hub'.up /\ hub'.subs = hub.subs
  BY <1>1, <1>2 DEF TypeOK
<1>4. e \in EventType
  BY EventFacts
<1> HIDE DEF e
<1>5. /\ events' \in Seq(EventType) /\ Len(events') <= MaxEvents + 1
      /\ Count(events', "Labels") \in Nat
  BY <1>1, <1>2, <1>4, EmittedFacts
<1>6. /\ s.tries \in Nat /\ s.tries <= MaxAttempts /\ MaxAttempts \in Nat
      /\ Count(cmds, "GetLabels") \in Nat
  BY <1>1, Numbers
<1>7. value' \in [Path -> Value]
  BY <1>2 DEF AtRest, Value
<1>8. TypeOK'
  BY <1>1, <1>2, <1>3, <1>5, <1>6, <1>7 DEF TypeOK
<1>9. SubscriptionsAgree' /\ NodeFirst'
  BY <1>2, <1>3, <1>8, StillAgree
<1>10. TruthAhead' /\ Before' /\ ResetAhead'
  BY <1>2, <1>3 DEF TruthAhead, Before, ResetAhead
<1>11. TriesOfTree'
  BY <1>2, <1>6 DEF TriesOfTree
<1>12. GivesUpOnlyOnLoss'
  BY <1>2, <1>5, <1>6 DEF GivesUpOnlyOnLoss
<1> QED BY <1>9, <1>10, <1>11, <1>12 DEF SessionInv

\* A value changes by another hand: the session is told, if the hub is.
LEMMA DeviceChangeOK ==
    ASSUME SessionInv, NEW p \in Path, DeviceChange(p)
    PROVE  SessionInv'
<1>1. TypeOK /\ SubscriptionsAgree /\ NodeFirst /\ TruthAhead /\ Before /\ ResetAhead
      /\ TriesOfTree /\ GivesUpOnlyOnLoss
  BY DEF SessionInv, SubscriptionsAgree
<1>2. /\ value' = [value EXCEPT ![p] = 1 - @] /\ pulsed' = pulsed \ {p}
      /\ IF hub.up THEN Emit(<<Values({p}, value')>>) ELSE UNCHANGED events
      /\ UNCHANGED <<s, locked, cmds, hub, lost, lapse>>
  BY DEF DeviceChange
<1>3. value \in [Path -> Value] /\ pulsed \subseteq Switch
  BY <1>1 DEF TypeOK
<1>4. /\ value' \in [Path -> Value]
      /\ \A q \in Path : q # p => value'[q] = value[q]
  BY <1>2, <1>3 DEF Value
<1>5. ResetAhead'
  <2> SUFFICES ASSUME ~lapse, NEW q \in pulsed, q # p, q \notin s.pulses
               PROVE  \/ LastIn(cmds, Sets(q), Resets(q))
                      \/ value'[q] = 0 /\ NoneIn(cmds, Sets(q))
    BY <1>2 DEF ResetAhead
  <2>1. q \in Path
    BY <1>3 DEF Path
  <2> QED BY <1>1, <1>4, <2>1 DEF ResetAhead
<1>6. CASE hub.up
  <2> DEFINE e == Values({p}, value')
  <2>1. /\ e \in EventType /\ e \notin Restarts /\ e # Event("Retargeted")
        /\ \A q : e \in Reports(q) <=> q \in {p}
        /\ \A q \in {p} : e \in Tells(q, value'[q])
    <3>1. {p} \in SUBSET Path
      OBVIOUS
    <3> QED BY <1>4, <3>1, ValuesFacts
  <2>2. Emit(<<e>>)
    BY <1>2, <1>6
  <2> HIDE DEF e
  <2>3. /\ events' \in Seq(EventType) /\ Len(events') <= MaxEvents + 1
        /\ \A A : NoneIn(events', A) <=> NoneIn(events, A) /\ e \notin A
        /\ \A A, G : LastIn(events', A, G) <=>
              e \in G \/ (LastIn(events, A, G) /\ e \notin A)
        /\ Count(events, "Labels") \in Nat /\ Count(events', "Labels") \in Nat
        /\ Count(events', "Labels") >= Count(events, "Labels")
    BY <1>1, <2>1, <2>2, EmittedFacts
  <2>4. TypeOK'
    BY <1>1, <1>2, <1>4, <2>3 DEF TypeOK
  <2>5. SubscriptionsAgree' /\ NodeFirst'
    BY <1>2, <2>4, StillAgree
  <2>6. TruthAhead'
    <3>1. ASSUME NEW q \in Path, ToldAhead(q) PROVE ToldAhead(q)'
      <4>1. CASE q = p
        BY <2>1, <2>3, <4>1 DEF ToldAhead
      <4>2. CASE q # p
        BY <1>2, <1>4, <2>1, <2>3, <3>1, <4>2 DEF ToldAhead
      <4> QED BY <4>1, <4>2
    <3> QED BY <1>1, <1>2, <2>3, <3>1 DEF TruthAhead
  <2>7. Before' /\ TriesOfTree'
    BY <1>1, <1>2, <1>6, <2>1, <2>3 DEF Before, TriesOfTree
  <2>8. GivesUpOnlyOnLoss'
    <3>1. s.tries \in Nat /\ lost \in Nat /\ Count(cmds, "GetLabels") \in Nat
      BY <1>1, Numbers
    <3> QED BY <1>1, <1>2, <2>3, <3>1 DEF GivesUpOnlyOnLoss
  <2> QED BY <1>5, <2>5, <2>6, <2>7, <2>8 DEF SessionInv
<1>7. CASE ~hub.up
  <2>1. UNCHANGED events
    BY <1>2, <1>7
  <2>2. TypeOK'
    BY <1>1, <1>2, <1>4, <2>1 DEF TypeOK
  <2>3. SubscriptionsAgree' /\ NodeFirst'
    BY <1>2, <2>2, StillAgree
  <2>4. TruthAhead' /\ Before'
    BY <1>1, <1>2, <1>7, <2>1 DEF TruthAhead, Before
  <2>5. TriesOfTree' /\ GivesUpOnlyOnLoss'
    BY <1>1, <1>2, <2>1 DEF TriesOfTree, GivesUpOnlyOnLoss
  <2> QED BY <1>5, <2>3, <2>4, <2>5 DEF SessionInv
<1> QED BY <1>6, <1>7

-------------------------------------------------------------------------------
(* The theorems.                                                           *)

LEMMA InitOK == Init => SessionInv
<1> SUFFICES ASSUME Init PROVE SessionInv
  OBVIOUS
<1> DEFINE c == Send("GetRoot", NoPath, 0)
<1>1. /\ s = NewSession /\ events = <<>> /\ cmds = <<c>>
      /\ hub = [up |-> FALSE, subs |-> {}] /\ value = AtRest /\ pulsed = {}
      /\ lost = 0 /\ lapse = FALSE /\ locked \in BOOLEAN
  BY DEF Init
<1>2. c \in Cmd /\ \A p : c \notin About(p)
  BY DEF Send, Cmd, About
<1>3. Len(events) = 0 /\ events \in Seq(EventType) /\ 1..Len(events) = {}
  BY <1>1
<1>4. /\ s \in SessionType /\ ~s.node /\ ~s.requested /\ s.tries = 0 /\ s.edit = {}
      /\ s.subscribed = {} /\ \A p \in Path : s.shown[p] = Unknown
  <2>1. 0 \in 0..MaxAttempts
    BY SessionAssumption
  <2>2. [p \in Path |-> Unknown] \in [Path -> Value \cup {Unknown}]
    OBVIOUS
  <2> QED BY <1>1, <2>1, <2>2 DEF NewSession, SessionType
<1>5. TypeOK
  <2>1. cmds \in Seq(Cmd)
    BY <1>1, <1>2
  <2>2. value \in [Path -> Value]
    BY <1>1 DEF AtRest, Value
  <2>3. hub \in [up : BOOLEAN, subs : SUBSET Path] /\ pulsed \in SUBSET Switch
    BY <1>1
  <2>4. Len(events) <= MaxEvents + 1
    BY <1>3, SessionAssumption
  <2>5. lost \in Nat /\ lapse \in BOOLEAN
    BY <1>1
  <2> QED BY <1>1, <1>3, <1>4, <2>1, <2>2, <2>3, <2>4, <2>5 DEF TypeOK
<1> HIDE DEF c
<1>6. SubscriptionsAgree
  <2> SUFFICES ASSUME NEW p \in Path PROVE ~Counted(p)
    BY <1>4, <1>5 DEF SubscriptionsAgree
  <2>1. ~LastIn(cmds, About(p), Subscribing(p))
    <3>1. Subscribing(p) \subseteq About(p)
      BY DEF Subscribing, About
    <3> QED BY <1>1, <1>2, <3>1, SingleLast
  <2> QED BY <1>1, <2>1 DEF Counted
<1>7. NodeFirst /\ TruthAhead /\ Before /\ ResetAhead
  BY <1>1, <1>4 DEF NodeFirst, TruthAhead, Before, ResetAhead
<1>8. TriesOfTree
  BY <1>3, <1>4 DEF TriesOfTree, NoneIn
<1>9. GivesUpOnlyOnLoss
  <2>1. s.tries = 0 /\ lost \in Nat /\ Count(cmds, "GetLabels") \in Nat
        /\ Count(events, "Labels") \in Nat
    BY <1>4, <1>5, Numbers
  <2> QED BY <2>1 DEF GivesUpOnlyOnLoss
<1> QED BY <1>6, <1>7, <1>8, <1>9 DEF SessionInv

LEMMA StepOK == SessionInv /\ [Next]_vars => SessionInv'
<1> SUFFICES ASSUME SessionInv, [Next]_vars PROVE SessionInv'
  OBVIOUS
<1>1. CASE Logic
  BY <1>1, LogicOK
<1>2. CASE UiPass
  BY <1>2, UiPassOK
<1>3. CASE \E c \in ToSet(cmds) : \/ TakeSubscription(c) \/ TakeRequest(c) \/ TakeWrite(c)
                                  \/ DropRequest(c) \/ TakeOffline(c)
  BY <1>3, SubscriptionOK, RequestOK, TakeWriteOK, DropOK, OfflineOK
<1>4. CASE Lose
  BY <1>4, LoseOK
<1>5. CASE Connect
  BY <1>5, ConnectOK
<1>6. CASE Retarget
  BY <1>6, RetargetOK
<1>7. CASE \E p \in Path : DeviceChange(p)
  BY <1>7, DeviceChangeOK
<1>8. CASE UNCHANGED vars
  BY <1>8 DEF vars, SessionInv, SubscriptionsAgree, TypeOK, Counted, NodeFirst, TruthAhead,
     ToldAhead, Before, ResetAhead, TriesOfTree, GivesUpOnlyOnLoss
<1> QED BY <1>1, <1>2, <1>3, <1>4, <1>5, <1>6, <1>7, <1>8 DEF Next

LEMMA Invariance == Spec => []SessionInv
  BY InitOK, StepOK, PTL DEF Spec

\* The session and the hub agree on what is subscribed, up to the commands under way,
\* through lost connections, retargets and sessions out of sight (Reconcile in
\* tree_panel against the counts of the hub).
THEOREM SubscriptionsStayTrue == Spec => []SubscriptionsAgree
<1>1. SessionInv => SubscriptionsAgree
  BY DEF SessionInv
<1> QED BY <1>1, Invariance, PTL

\* What a row shows, once nothing is under way, is the device's value, or marked as
\* pending (pump_network's Documents, the read-back of Apply, and the requests that
\* are made again after a reconnection).
THEOREM RowsTellTheTruth == Spec => []ShownIsTrue
<1>1. SessionInv => ShownIsTrue
  <2> SUFFICES ASSUME SessionInv, Settled, s.requested, NEW p \in Rows(s)
               PROVE  s.shown[p] = value[p] \/ p \in s.pending
    BY DEF ShownIsTrue
  <2>1. hub.up /\ Len(events) = 0 /\ Len(cmds) = 0 /\ 1..0 = {}
    BY DEF Settled
  <2>2. \A A : NoneIn(events, A) /\ NoneIn(cmds, A)
    BY <2>1 DEF NoneIn
  <2>3. \A A, G : ~LastIn(events, A, G)
    BY <2>1 DEF LastIn
  <2>4. p \in Path /\ s.shown[p] # Unknown
    BY DEF Rows
  <2>5. ToldAhead(p)
    BY <2>1, <2>2, <2>4 DEF SessionInv, TruthAhead
  <2> QED BY <2>2, <2>3, <2>4, <2>5 DEF ToldAhead
<1> QED BY <1>1, Invariance, PTL

\* A pulse ends with false on the device if the connection held, whatever the user
\* and others did in the meantime (process_pulses).
THEOREM PulsesEnd == Spec => []PulseEnds
<1>1. SessionInv => PulseEnds
  <2> SUFFICES ASSUME SessionInv, Settled, ~lapse, NEW p \in pulsed \ s.pulses
               PROVE  value[p] = 0
    BY DEF PulseEnds
  <2>1. Len(cmds) = 0 /\ 1..0 = {}
    BY DEF Settled
  <2>2. ~LastIn(cmds, Sets(p), Resets(p))
    BY <2>1 DEF LastIn
  <2> QED BY <2>2 DEF SessionInv, ResetAhead
<1> QED BY <1>1, Invariance, PTL

\* The attempts at the labels are used up only by requests that were lost
\* (label_fetch_step).
THEOREM LabelsNotGivenUp == Spec => []GivesUpOnlyOnLoss
<1>1. SessionInv => GivesUpOnlyOnLoss
  BY DEF SessionInv
<1> QED BY <1>1, Invariance, PTL

-------------------------------------------------------------------------------
(* The registry that the sockets and the desktop open hubs in, for any     *)
(* number of viewers, hubs and messages.  The invariant is inductive as it *)
(* stands: a viewer can only come to hold another hub than the registered  *)
(* one through Open, and Open spawns one only when the registered hub is   *)
(* held by nobody or has ended.                                            *)

\* The invariants that the steps preserve together.
RegistryInv == RegistryTypeOK /\ Reachable /\ NobodyWaitsOnZombie

LEMMA RegistryInitInv == RegistryInit => RegistryInv
<1> SUFFICES ASSUME RegistryInit PROVE RegistryInv
  OBVIOUS
<1>1. <<>> \in Seq(Msg)
  OBVIOUS
<1>2. RegistryTypeOK
  BY <1>1, RegistryAssumption DEF RegistryInit, RegistryTypeOK, Hub, Viewer
<1>3. Reachable
  BY RegistryAssumption DEF RegistryInit, Reachable, Leased, Hub, Viewer
<1>4. NobodyWaitsOnZombie
  BY DEF RegistryInit, NobodyWaitsOnZombie
<1> QED BY <1>2, <1>3, <1>4 DEF RegistryInv

\* A message posted leaves well-typed inboxes.
LEMMA PostOK ==
    ASSUME RegistryTypeOK, NEW h \in Hub, NEW m \in Msg, Post(h, m)
    PROVE  inbox' \in [Hub -> Seq(Msg)]
<1>1. Append(inbox[h], m) \in Seq(Msg)
  BY DEF RegistryTypeOK
<1> QED BY <1>1 DEF Post, RegistryTypeOK

\* Opening keeps the types.
LEMMA OpenTypes ==
    ASSUME RegistryTypeOK, NEW v \in Viewer, NEW a \in Addr, Open(v, a)
    PROVE  /\ spawned' \in 0..MaxHubs
           /\ entry' \in 0..spawned'
           /\ lease' \in [Viewer -> 0..spawned']
           /\ ended' \subseteq Viewer
           /\ task' \in [Hub -> {"none", "connecting", "online", "waiting",
                                 "ending", "ended"}]
           /\ \A h \in Hub : task'[h] = "none" <=> h > spawned'
           /\ addr' \in [Hub -> Addr]
<1>1. CASE Reusable(entry) /\ UNCHANGED <<entry, spawned, task, addr>>
  BY <1>1, ZenonT(40) DEF Open, Reusable, RegistryTypeOK, Viewer
<1>2. CASE /\ ~Reusable(entry)
           /\ spawned < MaxHubs
           /\ spawned' = spawned + 1
  <2>1. spawned' \in Hub /\ spawned' \in 1..MaxHubs /\ spawned \in 0..MaxHubs
    BY <1>2, RegistryAssumption DEF RegistryTypeOK, Hub
  <2>2. 0..spawned \subseteq 0..spawned' /\ spawned' \in 0..spawned'
    BY <1>2, <2>1
  <2>3. /\ entry' = spawned'
        /\ lease' = [lease EXCEPT ![v] = spawned']
        /\ ended' = ended \ {v}
        /\ task' = [task EXCEPT ![spawned'] = "connecting"]
        /\ addr' = [addr EXCEPT ![spawned'] = a]
    BY <1>2 DEF Open
  <2>4. lease' \in [Viewer -> 0..spawned']
    BY <2>2, <2>3 DEF RegistryTypeOK
  <2>5. \A h \in Hub : task'[h] = "none" <=> h > spawned'
    <3> SUFFICES ASSUME NEW h \in Hub PROVE task'[h] = "none" <=> h > spawned'
      OBVIOUS
    <3>1. CASE h = spawned'
      BY <2>1, <2>3, <3>1 DEF RegistryTypeOK, Hub
    <3>2. CASE h # spawned'
      <4>1. task'[h] = task[h]
        BY <2>1, <2>3, <3>2 DEF RegistryTypeOK
      <4>2. h > spawned <=> h > spawned'
        BY <1>2, <2>1, <3>2 DEF Hub
      <4> QED BY <4>1, <4>2 DEF RegistryTypeOK
    <3> QED BY <3>1, <3>2
  <2> QED BY <2>1, <2>2, <2>3, <2>4, <2>5 DEF RegistryTypeOK
<1> QED BY <1>1, <1>2 DEF Open

LEMMA RegistryTypeStep == RegistryTypeOK /\ [RegistryNext]_registryVars => RegistryTypeOK'
<1> SUFFICES ASSUME RegistryTypeOK, [RegistryNext]_registryVars PROVE RegistryTypeOK'
  OBVIOUS
<1>1. CASE DeskOpens
  <2>1. Open(Desk, book) /\ Desk \in Viewer /\ book \in Addr
    BY <1>1 DEF DeskOpens, Viewer, RegistryTypeOK
  <2> QED BY <1>1, <2>1, OpenTypes DEF DeskOpens, RegistryTypeOK
<1>2. ASSUME NEW v \in Web, WebPicks(v) \/ WebOpens(v) PROVE RegistryTypeOK'
  <2>1. CASE WebPicks(v)
    BY <2>1 DEF WebPicks, RegistryTypeOK
  <2>2. CASE WebOpens(v)
    <3>1. Open(v, picked[v]) /\ v \in Viewer /\ picked[v] \in Addr
      BY <2>2 DEF WebOpens, Viewer, RegistryTypeOK
    <3> QED BY <2>2, <3>1, OpenTypes DEF WebOpens, RegistryTypeOK
  <2> QED BY <1>2, <2>1, <2>2
<1>3. ASSUME NEW v \in Viewer, Close(v) PROVE RegistryTypeOK'
  <2>1. 0 \in 0..spawned
    BY DEF RegistryTypeOK
  <2> QED BY <1>3, <2>1 DEF Close, RegistryTypeOK
<1>4. ASSUME NEW v \in Viewer, Disconnect(v) PROVE RegistryTypeOK'
  <2>1. lease[v] \in Hub
    BY <1>4, RegistryAssumption DEF Disconnect, RegistryTypeOK, Hub
  <2>2. inbox' \in [Hub -> Seq(Msg)]
    BY <1>4, <2>1, PostOK DEF Disconnect, Msg
  <2> QED BY <1>4, <2>2 DEF Disconnect, RegistryTypeOK
<1>5. ASSUME NEW a \in Addr, Edit(a) PROVE RegistryTypeOK'
  <2>1. CASE entry # 0 /\ Leased(entry)
    <3>1. entry \in Hub
      BY <2>1, RegistryAssumption DEF RegistryTypeOK, Hub
    <3>2. inbox' \in [Hub -> Seq(Msg)]
      BY <1>5, <2>1, <3>1, PostOK DEF Edit, Msg
    <3> QED BY <1>5, <3>2 DEF Edit, RegistryTypeOK
  <2>2. CASE ~(entry # 0 /\ Leased(entry))
    BY <1>5, <2>2 DEF Edit, RegistryTypeOK
  <2> QED BY <2>1, <2>2
<1>6. CASE Refresh
  BY <1>6 DEF Refresh, RegistryTypeOK
<1>7. ASSUME NEW h \in Hub, Task(h) PROVE RegistryTypeOK'
  <2>1. CASE Connects(h) \/ Fails(h) \/ Retries(h) \/ Flags(h)
    BY <2>1 DEF Connects, Fails, Retries, Flags, Moves, RegistryTypeOK
  <2>2. CASE Retargets(h)
    <3>1. inbox[h] \in Seq(Msg) /\ inbox[h] # <<>>
      BY <2>2 DEF Retargets, Reads, RegistryTypeOK
    <3>2. Tail(inbox[h]) \in Seq(Msg) /\ Head(inbox[h]) \in Msg
      BY <3>1
    <3>3. Head(inbox[h]).addr \in Addr
      BY <2>2, <3>2 DEF Retargets, Reads, Msg
    <3> QED BY <2>2, <3>2, <3>3 DEF Retargets, Moves, RegistryTypeOK
  <2>3. CASE Disconnects(h) \/ ShutsDown(h)
    <3>1. <<>> \in Seq(Msg)
      OBVIOUS
    <3> QED BY <2>3, <3>1, ZenonT(40) DEF Disconnects, ShutsDown, Ends, Moves, RegistryTypeOK
  <2> QED BY <1>7, <2>1, <2>2, <2>3 DEF Task
<1>8. CASE UNCHANGED registryVars
  BY <1>8 DEF registryVars, RegistryTypeOK
<1> QED BY <1>1, <1>2, <1>3, <1>4, <1>5, <1>6, <1>7, <1>8 DEF RegistryNext, Viewers

\* Opening shares the registered hub, or replaces one that is of no use.
LEMMA OpenReachable ==
    ASSUME RegistryTypeOK, Reachable, NEW v \in Viewer, NEW a, Open(v, a)
    PROVE  Reachable'
<1> SUFFICES ASSUME NEW h \in Hub, Leased(h)', task'[h] # "ended"
             PROVE  h = entry'
  BY DEF Reachable
<1>1. PICK w \in Viewer : lease'[w] = h
  BY DEF Leased
<1>2. CASE Reusable(entry) /\ UNCHANGED <<entry, task>>
  BY <1>1, <1>2 DEF Open, Reusable, Reachable, Leased, RegistryTypeOK
<1>3. CASE ~Reusable(entry) /\ entry' = spawned'
  <2>1. CASE w = v
    BY <1>1, <1>3, <2>1 DEF Open, RegistryTypeOK
  <2>2. CASE w # v /\ h # spawned'
    <3>1. lease[w] = h /\ task[h] = task'[h]
      BY <1>1, <1>3, <2>2 DEF Open, RegistryTypeOK
    <3>2. h = entry /\ Leased(entry) /\ task[entry] # "ended" /\ entry # 0
      BY <3>1 DEF Reachable, Leased, Hub
    <3> QED BY <1>3, <3>2 DEF Reusable
  <2> QED BY <1>3, <2>1, <2>2
<1> QED BY <1>2, <1>3 DEF Open

LEMMA ReachableStep == RegistryTypeOK /\ Reachable /\ [RegistryNext]_registryVars => Reachable'
<1> SUFFICES ASSUME RegistryTypeOK, Reachable, [RegistryNext]_registryVars PROVE Reachable'
  OBVIOUS
<1>1. CASE DeskOpens
  BY <1>1, OpenReachable DEF DeskOpens, Viewer
<1>2. ASSUME NEW v \in Web, WebPicks(v) \/ WebOpens(v) PROVE Reachable'
  BY <1>2, OpenReachable DEF WebPicks, WebOpens, Viewer, Reachable, Leased
<1>3. ASSUME NEW v \in Viewer, Close(v) \/ Disconnect(v) PROVE Reachable'
  <2>1. CASE Close(v)
    <3>1. \A h \in Hub : Leased(h)' => Leased(h)
      BY <2>1 DEF Close, Leased, RegistryTypeOK, Hub
    <3> QED BY <2>1, <3>1 DEF Close, Reachable
  <2>2. CASE Disconnect(v)
    BY <2>2 DEF Disconnect, Reachable, Leased
  <2> QED BY <1>3, <2>1, <2>2
<1>4. CASE (\E a \in Addr : Edit(a)) \/ Refresh \/ UNCHANGED registryVars
  BY <1>4 DEF Edit, Refresh, registryVars, Reachable, Leased
<1>5. ASSUME NEW h \in Hub, Task(h) PROVE Reachable'
  <2>1. UNCHANGED <<lease, entry>>
    BY <1>5 DEF Task, Connects, Fails, Retries, Retargets, Disconnects,
                ShutsDown, Flags, Ends
  <2>2. \A g \in Hub : task'[g] # "ended" => task[g] # "ended"
    BY <1>5 DEF Task, Connects, Fails, Retries, Retargets, Disconnects,
                ShutsDown, Flags, Moves, RegistryTypeOK
  <2> QED BY <2>1, <2>2 DEF Reachable, Leased
<1> QED BY <1>1, <1>2, <1>3, <1>4, <1>5 DEF RegistryNext, Viewers

\* The snapshot tells a new viewer of a hub that has already ended.
LEMMA OpenTold ==
    ASSUME RegistryTypeOK, NobodyWaitsOnZombie, NEW v \in Viewer, NEW a, Open(v, a)
    PROVE  NobodyWaitsOnZombie'
<1> SUFFICES ASSUME NEW w \in Viewer, lease'[w] # 0, ~Running(lease[w])'
             PROVE  w \in ended'
  BY DEF NobodyWaitsOnZombie
<1>1. CASE Reusable(entry) /\ UNCHANGED <<entry, task>>
  BY <1>1 DEF Open, NobodyWaitsOnZombie, Running, RegistryTypeOK
<1>2. CASE ~Reusable(entry) /\ spawned < MaxHubs /\ spawned' = spawned + 1
  <2>1. spawned' \in Hub
    BY <1>2, RegistryAssumption DEF RegistryTypeOK, Hub
  <2>2. w # v
    BY <1>2, <2>1 DEF Open, Running, RegistryTypeOK
  <2>3. lease'[w] = lease[w] /\ lease[w] # spawned'
    BY <1>2, <2>2 DEF Open, RegistryTypeOK
  <2>4. lease[w] \in Hub
    BY <2>3, RegistryAssumption DEF RegistryTypeOK, Hub
  <2>5. task'[lease[w]] = task[lease[w]]
    BY <1>2, <2>1, <2>3, <2>4 DEF Open, RegistryTypeOK
  <2>6. w \in ended
    BY <2>3, <2>5 DEF NobodyWaitsOnZombie, Running
  <2> QED BY <1>2, <2>2, <2>6 DEF Open
<1> QED BY <1>1, <1>2 DEF Open

LEMMA ToldStep ==
    RegistryTypeOK /\ NobodyWaitsOnZombie /\ [RegistryNext]_registryVars => NobodyWaitsOnZombie'
<1> SUFFICES ASSUME RegistryTypeOK, NobodyWaitsOnZombie, [RegistryNext]_registryVars
             PROVE  NobodyWaitsOnZombie'
  OBVIOUS
<1>1. CASE DeskOpens
  BY <1>1, OpenTold DEF DeskOpens, Viewer
<1>2. ASSUME NEW v \in Web, WebPicks(v) \/ WebOpens(v)
      PROVE  NobodyWaitsOnZombie'
  BY <1>2, OpenTold DEF WebPicks, WebOpens, Viewer, NobodyWaitsOnZombie, Running
<1>3. ASSUME NEW v \in Viewer, Close(v) \/ Disconnect(v)
      PROVE  NobodyWaitsOnZombie'
  <2>1. CASE Close(v)
    <3>1. UNCHANGED task
      BY <2>1 DEF Close
    <3>2. \A w \in Viewer : lease'[w] # 0 =>
              lease'[w] = lease[w] /\ (w \in ended => w \in ended')
      BY <2>1 DEF Close, RegistryTypeOK
    <3> QED BY <3>1, <3>2 DEF NobodyWaitsOnZombie, Running
  <2>2. CASE Disconnect(v)
    BY <2>2 DEF Disconnect, NobodyWaitsOnZombie, Running
  <2> QED BY <1>3, <2>1, <2>2
<1>4. CASE (\E a \in Addr : Edit(a)) \/ Refresh \/ UNCHANGED registryVars
  BY <1>4 DEF Edit, Refresh, registryVars, NobodyWaitsOnZombie, Running
<1>5. ASSUME NEW h \in Hub, Task(h) PROVE NobodyWaitsOnZombie'
  <2>1. CASE Disconnects(h) \/ ShutsDown(h)
    <3>1. /\ lease' = lease
          /\ ended' = ended \cup {v \in Viewer : lease[v] = h}
          /\ task' = [task EXCEPT ![h] = "ending"]
      BY <2>1 DEF Disconnects, ShutsDown, Ends, Moves
    <3>2. SUFFICES ASSUME NEW w \in Viewer, lease[w] # 0, lease[w] # h,
                          ~Running(lease[w])'
                   PROVE  w \in ended
      BY <3>1 DEF NobodyWaitsOnZombie
    <3>3. task'[lease[w]] = task[lease[w]]
      BY <3>1, <3>2, RegistryAssumption DEF RegistryTypeOK, Hub
    <3> QED BY <3>1, <3>2, <3>3 DEF NobodyWaitsOnZombie, Running
  <2>2. CASE Connects(h) \/ Fails(h) \/ Retries(h) \/ Retargets(h) \/ Flags(h)
    <3>1. \A g \in Hub : Running(g) => Running(g)'
      BY <2>2 DEF Connects, Fails, Retries, Retargets, Flags, Moves, Running,
                  RegistryTypeOK
    <3>2. \A v \in Viewer : lease[v] # 0 => lease[v] \in Hub
      BY RegistryAssumption DEF RegistryTypeOK, Hub
    <3>3. UNCHANGED <<lease, ended>>
      BY <2>2 DEF Connects, Fails, Retries, Retargets, Flags
    <3> QED BY <3>1, <3>2, <3>3 DEF NobodyWaitsOnZombie, Running
  <2> QED BY <1>5, <2>1, <2>2 DEF Task
<1> QED BY <1>1, <1>2, <1>3, <1>4, <1>5 DEF RegistryNext, Viewers

LEMMA RegistryInvHolds == RegistrySpec => []RegistryInv
<1>1. RegistryInv /\ [RegistryNext]_registryVars => RegistryInv'
  BY RegistryTypeStep, ReachableStep, ToldStep DEF RegistryInv
<1> QED BY RegistryInitInv, <1>1, PTL DEF RegistrySpec

\* Viewers of one provider share the one hub whose task runs, and an edit of
\* the address finds it: HubRegistry::open and retarget agree on the entry.
THEOREM AlwaysReachable == RegistrySpec => []Reachable
<1>1. RegistryInv => Reachable
  BY DEF RegistryInv
<1> QED BY <1>1, RegistryInvHolds, PTL

\* Whoever holds a hub that has ended has its Disconnected, delivered or in
\* its channel: the alive flag is cleared late, and last_status covers for it.
THEOREM NobodyEverWaitsOnZombie == RegistrySpec => []NobodyWaitsOnZombie
<1>1. RegistryInv => NobodyWaitsOnZombie
  BY DEF RegistryInv
<1> QED BY <1>1, RegistryInvHolds, PTL

===============================================================================
