------------------------------ MODULE FramingProofs ------------------------------
(***************************************************************************)
(* Proofs about Framing, for every payload, every size of packages, frames *)
(* and reads, and any number of messages and damages.                      *)
(***************************************************************************)
EXTENDS Framing, SequenceTheorems, NaturalsInduction, WellFoundedInduction, TLAPS

-------------------------------------------------------------------------------
(* Going through a sequence step by step.                                  *)

\* A set of numbers has a least one.
LEMMA FirstOf ==
    ASSUME NEW T, T \subseteq Nat, T # {}
    PROVE  \E x \in T : \A y \in T : x <= y
<1>1. \E x \in T : \A y \in T : <<y, x>> \notin OpToRel(<, Nat)
  BY NatLessThanWellFounded, WFMin
<1>2. PICK x \in T : \A y \in T : <<y, x>> \notin OpToRel(<, Nat)
  BY <1>1
<1>3. \A y \in T : ~(y < x)
  BY <1>2 DEF OpToRel
<1> QED BY <1>3

\* Induction up to a number.
LEMMA StepByStep ==
    ASSUME NEW N \in Nat, NEW S, 0 \in S, \A n \in 1..N : n - 1 \in S => n \in S
    PROVE  0..N \subseteq S
<1> SUFFICES ASSUME NEW m \in 0..N, m \notin S PROVE FALSE
  OBVIOUS
<1> DEFINE T == {n \in 0..N : n \notin S}
<1>1. T \subseteq Nat /\ m \in T
  OBVIOUS
<1>2. PICK x \in T : \A y \in T : x <= y
  <2> HIDE DEF T
  <2> QED BY <1>1, FirstOf
<1>3. x \in 1..N /\ x - 1 \in 0..N /\ x - 1 < x
  OBVIOUS
<1> QED BY <1>2, <1>3

\* What step makes of base with the elements of s, one after the other.
Fold(step, base, s) ==
    LET after[n \in 0..Len(s)] == IF n = 0 THEN base ELSE step[<<after[n - 1], s[n]>>]
    IN  after[Len(s)]

\* A step takes what has been made, and one more element, to what is made next.
Steps(step, S, B) == step \in [S \X B -> S]

\* The stages of a fold.
Stages(step, base, s, f) ==
    /\ f[0] = base
    /\ \A n \in 1..Len(s) : f[n] = step[<<f[n - 1], s[n]>>]

LEMMA StagesExist ==
    ASSUME NEW S, NEW B, NEW step, Steps(step, S, B), NEW base \in S, NEW s \in Seq(B)
    PROVE  \E f \in [0..Len(s) -> S] : Stages(step, base, s, f)
<1> DEFINE N == Len(s)
           Is(f, m) == f[0] = base /\ \A n \in 1..m : f[n] = step[<<f[n - 1], s[n]>>]
           T == {m \in 0..N : \E f \in [0..m -> S] : Is(f, m)}
<1>1. N \in Nat /\ \A n \in 1..N : s[n] \in B
  OBVIOUS
<1> HIDE DEF N
<1>2. 0 \in T
  <2> DEFINE f == [n \in 0..0 |-> base]
  <2>1. f \in [0..0 -> S] /\ f[0] = base /\ 0 \in 0..N
    BY <1>1
  <2>2. Is(f, 0)
    BY <2>1
  <2> QED BY <2>1, <2>2
<1>3. ASSUME NEW m \in 1..N, m - 1 \in T PROVE m \in T
  <2>1. PICK f \in [0..(m - 1) -> S] : Is(f, m - 1)
    BY <1>3
  <2> DEFINE last == step[<<f[m - 1], s[m]>>]
             g == [n \in 0..m |-> IF n = m THEN last ELSE f[n]]
  <2>2. m \in Nat /\ m - 1 \in 0..(m - 1) /\ \A n \in 1..m : n = m \/ n \in 1..(m - 1)
    BY <1>1
  <2>3. last \in S
    BY <1>1, <2>2 DEF Steps
  <2>4. g \in [0..m -> S]
    BY <2>2, <2>3
  <2>5. g[m] = last /\ \A n \in 0..(m - 1) : g[n] = f[n]
    BY <2>2
  <2>6. g[0] = base
    BY <2>1, <2>2, <2>5
  <2> HIDE DEF g
  <2>7. ASSUME NEW n \in 1..m PROVE g[n] = step[<<g[n - 1], s[n]>>]
    <3>1. CASE n = m
      BY <2>2, <2>5, <3>1
    <3>2. CASE n \in 1..(m - 1)
      <4>1. n \in 0..(m - 1) /\ n - 1 \in 0..(m - 1)
        BY <2>2, <3>2
      <4> QED BY <2>1, <2>5, <3>2, <4>1
    <3> QED BY <2>2, <3>1, <3>2
  <2>8. Is(g, m)
    BY <2>6, <2>7
  <2>9. m \in 0..N
    BY <1>1
  <2> QED BY <2>4, <2>8, <2>9, Zenon
<1>4. N \in T
  <2> HIDE DEF T
  <2>1. 0..N \subseteq T
    BY <1>1, <1>2, <1>3, StepByStep
  <2>2. N \in 0..N
    BY <1>1
  <2> QED BY <2>1, <2>2
<1> QED BY <1>4 DEF Stages, N

LEMMA StagesUnique ==
    ASSUME NEW step, NEW base, NEW B, NEW s \in Seq(B), NEW f, NEW g,
           Stages(step, base, s, f), Stages(step, base, s, g)
    PROVE  \A n \in 0..Len(s) : f[n] = g[n]
<1> DEFINE T == {n \in 0..Len(s) : f[n] = g[n]}
<1>1. Len(s) \in Nat /\ 0 \in T
  BY DEF Stages
<1>2. ASSUME NEW n \in 1..Len(s), n - 1 \in T PROVE n \in T
  <2>1. n \in 0..Len(s) /\ f[n - 1] = g[n - 1]
    BY <1>1, <1>2
  <2>2. f[n] = step[<<f[n - 1], s[n]>>] /\ g[n] = step[<<g[n - 1], s[n]>>]
    BY DEF Stages
  <2> QED BY <2>1, <2>2
<1> HIDE DEF T
<1>3. 0..Len(s) \subseteq T
  BY <1>1, <1>2, StepByStep
<1> QED BY <1>3 DEF T

LEMMA FoldStages ==
    ASSUME NEW step, NEW base, NEW B, NEW s \in Seq(B), NEW f, Stages(step, base, s, f)
    PROVE  Fold(step, base, s) = f[Len(s)]
<1> DEFINE Is(g) == g = [n \in 0..Len(s) |-> IF n = 0 THEN base ELSE step[<<g[n - 1], s[n]>>]]
<1>1. Len(s) \in Nat
  OBVIOUS
<1> DEFINE h == [n \in 0..Len(s) |-> f[n]]
<1>2. \A n \in 0..Len(s) : f[n] = IF n = 0 THEN base ELSE step[<<f[n - 1], s[n]>>]
  BY <1>1 DEF Stages
<1>3. \A n \in 0..Len(s) : h[n] = f[n] /\ (n # 0 => n - 1 \in 0..Len(s))
  BY <1>1
<1>4. Is(h)
  <2>1. h = [n \in 0..Len(s) |-> IF n = 0 THEN base ELSE step[<<f[n - 1], s[n]>>]]
    BY <1>2
  <2> HIDE DEF h
  <2>2. \A n \in 0..Len(s) : (IF n = 0 THEN base ELSE step[<<f[n - 1], s[n]>>])
                              = (IF n = 0 THEN base ELSE step[<<h[n - 1], s[n]>>])
    BY <1>3
  <2> QED BY <2>1, <2>2
<1> DEFINE g == CHOOSE x : Is(x)
<1>5. Is(g)
  <2> HIDE DEF Is
  <2> QED BY <1>4
<1>6. Fold(step, base, s) = g[Len(s)]
  BY DEF Fold
<1> HIDE DEF g
<1>7. Stages(step, base, s, g)
  BY <1>1, <1>5 DEF Stages
<1>8. g[Len(s)] = f[Len(s)]
  BY <1>1, <1>7, StagesUnique
<1> QED BY <1>6, <1>8

LEMMA FoldEmpty ==
    ASSUME NEW S, NEW B, NEW step, Steps(step, S, B), NEW base \in S
    PROVE  Fold(step, base, <<>>) = base
<1> DEFINE f == [n \in 0..0 |-> base]
<1>1. <<>> \in Seq(B) /\ Len(<<>>) = 0 /\ f[0] = base
  OBVIOUS
<1> HIDE DEF f
<1>2. Stages(step, base, <<>>, f)
  BY <1>1 DEF Stages
<1>3. Fold(step, base, <<>>) = f[Len(<<>>)]
  BY <1>1, <1>2, FoldStages
<1> QED BY <1>1, <1>3

LEMMA FoldIn ==
    ASSUME NEW S, NEW B, NEW step, Steps(step, S, B), NEW base \in S, NEW s \in Seq(B)
    PROVE  Fold(step, base, s) \in S
<1>1. PICK f \in [0..Len(s) -> S] : Stages(step, base, s, f)
  BY StagesExist
<1>2. Fold(step, base, s) = f[Len(s)]
  BY <1>1, FoldStages
<1> QED BY <1>2

LEMMA FoldConcat ==
    ASSUME NEW S, NEW B, NEW step, Steps(step, S, B), NEW base \in S,
           NEW s \in Seq(B), NEW t \in Seq(B)
    PROVE  Fold(step, base, s \o t) = Fold(step, Fold(step, base, s), t)
<1> DEFINE M == Len(s)
           N == Len(t)
           mid == Fold(step, base, s)
<1>1. /\ M \in Nat /\ N \in Nat /\ s \o t \in Seq(B) /\ Len(s \o t) = M + N
      /\ \A n \in 1..M : (s \o t)[n] = s[n]
      /\ \A n \in 1..N : (s \o t)[M + n] = t[n]
  OBVIOUS
<1>2. PICK f \in [0..M -> S] : Stages(step, base, s, f)
  BY StagesExist
<1>3. mid = f[M] /\ mid \in S
  <2>1. mid = f[M]
    BY <1>2, FoldStages
  <2>2. mid \in S
    BY FoldIn
  <2> QED BY <2>1, <2>2
<1> HIDE DEF mid
<1>4. PICK g \in [0..N -> S] : Stages(step, mid, t, g)
  BY <1>3, StagesExist
<1> HIDE DEF M, N
<1> DEFINE h == [n \in 0..(M + N) |-> IF n <= M THEN f[n] ELSE g[n - M]]
<1>5. /\ \A n \in 0..M : h[n] = f[n]
      /\ \A n \in 1..N : h[M + n] = g[n]
  BY <1>1
<1>6. h[M] = g[0]
  BY <1>1, <1>3, <1>4, <1>5 DEF Stages
<1> HIDE DEF h
<1>7. h[0] = base
  BY <1>1, <1>2, <1>5 DEF Stages
<1>8. ASSUME NEW n \in 1..(M + N) PROVE h[n] = step[<<h[n - 1], (s \o t)[n]>>]
  <2>1. CASE n \in 1..M
    <3>1. n \in 0..M /\ n - 1 \in 0..M
      BY <1>1, <2>1
    <3>2. f[n] = step[<<f[n - 1], s[n]>>]
      BY <1>2, <2>1 DEF Stages, M
    <3> QED BY <1>1, <1>5, <2>1, <3>1, <3>2
  <2>2. CASE n \notin 1..M
    <3> DEFINE k == n - M
    <3>1. k \in 1..N /\ n = M + k
      BY <1>1, <2>2
    <3>2. g[k] = step[<<g[k - 1], t[k]>>]
      BY <1>4, <3>1 DEF Stages, N
    <3>3. h[n - 1] = g[k - 1]
      <4>1. CASE k = 1
        <5>1. n - 1 = M /\ k - 1 = 0
          BY <1>1, <3>1, <4>1
        <5> QED BY <1>6, <5>1
      <4>2. CASE k # 1
        <5>1. k - 1 \in 1..N /\ n - 1 = M + (k - 1)
          BY <1>1, <3>1, <4>2
        <5> QED BY <1>5, <5>1
      <4> QED BY <4>1, <4>2
    <3> HIDE DEF k
    <3> QED BY <1>1, <1>5, <3>1, <3>2, <3>3
  <2> QED BY <2>1, <2>2
<1>9. Stages(step, base, s \o t, h)
  BY <1>1, <1>7, <1>8 DEF Stages
<1>10. Fold(step, base, s \o t) = h[M + N]
  <2>1. Fold(step, base, s \o t) = h[Len(s \o t)]
    BY <1>1, <1>9, FoldStages
  <2> QED BY <1>1, <2>1
<1>11. Fold(step, mid, t) = g[N]
  <2>1. Fold(step, mid, t) = g[Len(t)]
    BY <1>3, <1>4, FoldStages
  <2> QED BY <2>1 DEF N
<1>12. h[M + N] = g[N]
  <2>1. CASE N = 0
    BY <1>1, <1>6, <2>1
  <2>2. CASE N # 0
    <3>1. N \in 1..N
      BY <1>1, <2>2
    <3> QED BY <1>5, <3>1
  <2> QED BY <2>1, <2>2
<1> QED BY <1>10, <1>11, <1>12 DEF mid

LEMMA FoldOne ==
    ASSUME NEW S, NEW B, NEW step, Steps(step, S, B), NEW base \in S, NEW b \in B
    PROVE  Fold(step, base, <<b>>) = step[<<base, b>>]
<1> DEFINE f == [n \in 0..1 |-> IF n = 0 THEN base ELSE step[<<base, b>>]]
<1>1. <<b>> \in Seq(B) /\ Len(<<b>>) = 1 /\ <<b>>[1] = b
  OBVIOUS
<1>2. f[0] = base /\ f[1] = step[<<base, b>>] /\ \A n \in 1..1 : n = 1
  OBVIOUS
<1> HIDE DEF f
<1>3. Stages(step, base, <<b>>, f)
  BY <1>1, <1>2 DEF Stages
<1>4. Fold(step, base, <<b>>) = f[Len(<<b>>)]
  BY <1>1, <1>3, FoldStages
<1> QED BY <1>1, <1>2, <1>4

LEMMA FoldAppend ==
    ASSUME NEW S, NEW B, NEW step, Steps(step, S, B), NEW base \in S,
           NEW s \in Seq(B), NEW b \in B
    PROVE  Fold(step, base, Append(s, b)) = step[<<Fold(step, base, s), b>>]
<1> DEFINE mid == Fold(step, base, s)
<1>1. <<b>> \in Seq(B) /\ Append(s, b) = s \o <<b>>
  OBVIOUS
<1>2. mid \in S
  BY FoldIn
<1>3. Fold(step, base, s \o <<b>>) = Fold(step, mid, <<b>>)
  <2> DEFINE t == <<b>>
  <2>1. t \in Seq(B)
    BY <1>1
  <2> HIDE DEF t
  <2>2. Fold(step, base, s \o t) = Fold(step, Fold(step, base, s), t)
    BY <2>1, FoldConcat
  <2> QED BY <2>2 DEF t
<1> HIDE DEF mid
<1>4. Fold(step, mid, <<b>>) = step[<<mid, b>>]
  BY <1>2, FoldOne
<1> QED BY <1>1, <1>3, <1>4 DEF mid

\* What goes through the stages of a fold ends at the fold.
LEMMA GoesAsFold ==
    ASSUME NEW S, NEW B, NEW step, Steps(step, S, B), NEW base \in S, NEW s \in Seq(B),
           NEW g, g[0] = base,
           \A n \in 1..Len(s) : g[n - 1] \in S => g[n] = step[<<g[n - 1], s[n]>>]
    PROVE  g[Len(s)] = Fold(step, base, s)
<1>1. PICK f \in [0..Len(s) -> S] : Stages(step, base, s, f)
  BY StagesExist
<1>2. Fold(step, base, s) = f[Len(s)]
  BY <1>1, FoldStages
<1> DEFINE T == {n \in 0..Len(s) : f[n] = g[n]}
<1>3. Len(s) \in Nat /\ 0 \in T
  BY <1>1 DEF Stages
<1>4. ASSUME NEW n \in 1..Len(s), n - 1 \in T PROVE n \in T
  <2>1. n \in 0..Len(s) /\ n - 1 \in 0..Len(s) /\ f[n - 1] = g[n - 1] /\ f[n - 1] \in S
    BY <1>1, <1>3, <1>4
  <2>2. g[n] = step[<<g[n - 1], s[n]>>]
    BY <2>1
  <2>3. f[n] = step[<<f[n - 1], s[n]>>]
    BY <1>1 DEF Stages
  <2> QED BY <2>1, <2>2, <2>3
<1> HIDE DEF T
<1>5. 0..Len(s) \subseteq T
  BY <1>3, <1>4, StepByStep
<1> QED BY <1>2, <1>3, <1>5 DEF T

\* What holds of the empty sequence, and of one more element, holds of all.
LEMMA SeqGrows ==
    ASSUME NEW B, NEW T, <<>> \in T,
           \A s \in Seq(B), b \in B : s \in T => Append(s, b) \in T
    PROVE  Seq(B) \subseteq T
<1> SUFFICES ASSUME NEW s \in Seq(B) PROVE s \in T
  OBVIOUS
<1> DEFINE I == {n \in 0..Len(s) : SubSeq(s, 1, n) \in T}
<1>1. Len(s) \in Nat /\ SubSeq(s, 1, 0) = <<>> /\ SubSeq(s, 1, Len(s)) = s
  OBVIOUS
<1>2. 0 \in I
  <2>1. SubSeq(s, 1, 0) \in T
    BY <1>1, Zenon
  <2>2. 0 \in 0..Len(s)
    BY <1>1
  <2> QED BY <2>1, <2>2
<1>3. ASSUME NEW n \in 1..Len(s), n - 1 \in I PROVE n \in I
  <2>1. SubSeq(s, 1, n - 1) \in Seq(B) /\ s[n] \in B /\ n \in 0..Len(s)
    BY <1>1
  <2>2. SubSeq(s, 1, n) = Append(SubSeq(s, 1, n - 1), s[n])
    BY <1>1
  <2>3. SubSeq(s, 1, n - 1) \in T
    BY <1>3
  <2> QED BY <2>1, <2>2, <2>3
<1> HIDE DEF I
<1>4. 0..Len(s) \subseteq I
  BY <1>1, <1>2, <1>3, StepByStep
<1>5. Len(s) \in I
  BY <1>1, <1>4
<1> QED BY <1>1, <1>5 DEF I

-------------------------------------------------------------------------------
(* The operators of Framing as folds.                                      *)

CrcStep == [x \in Byte \X Byte |-> (x[1] + x[2]) % 256]

BodyStep == [x \in Seq(Byte) \X Byte |-> x[1] \o Escaped(x[2])]

Unescaped == [bytes : Seq(Byte), dangling : BOOLEAN]

UnescapeStep == [x \in Unescaped \X Byte |-> UnescapeByte(x[1], x[2])]

InFrame == Byte \ {BOF, EOF}

Plain == [type : {"Error", "KeepAliveRequest", "KeepAliveResponse", "ProviderState"}]

Items == Plain \cup [type : {"EmberPayload"}, bytes : Seq(Byte)]

\* The states of a decoder, its memory within its caps.
Decoders ==
    {d \in [inFrame : BOOLEAN, frame : Seq(InFrame), reassembly : Seq(Byte), out : Seq(Items)] :
        Len(d.frame) <= MaxFrame /\ Len(d.reassembly) <= MaxReassembly}

PushStep == [x \in Decoders \X Byte |-> PushByte(x[1], x[2])]

LEMMA FlippedByte ==
    \A b \in Byte : /\ Flipped(b) \in Byte
                    /\ Flipped(Flipped(b)) = b
                    /\ b >= INVALID => Flipped(b) \in InFrame
  BY DEF Flipped, Set, Byte, INVALID, InFrame, BOF, EOF

LEMMA EscapedBytes ==
    \A b \in Byte : /\ Escaped(b) \in Seq(InFrame)
                    /\ Escaped(b) \in Seq(Byte)
                    /\ Len(Escaped(b)) \in 1..2
<1> SUFFICES ASSUME NEW b \in Byte PROVE /\ Escaped(b) \in Seq(InFrame)
                                         /\ Escaped(b) \in Seq(Byte)
                                         /\ Len(Escaped(b)) \in 1..2
  OBVIOUS
<1>1. CE \in InFrame /\ InFrame \subseteq Byte
  BY DEF CE, InFrame, Byte, BOF, EOF
<1>2. CASE b >= INVALID
  <2>1. Escaped(b) = <<CE, Flipped(b)>> /\ Flipped(b) \in InFrame
    BY <1>2, FlippedByte DEF Escaped
  <2> QED BY <1>1, <2>1
<1>3. CASE ~(b >= INVALID)
  <2>1. Escaped(b) = <<b>> /\ b \in InFrame
    BY <1>3 DEF Escaped, InFrame, Byte, BOF, EOF, INVALID
  <2> QED BY <1>1, <2>1
<1> QED BY <1>2, <1>3

LEMMA CrcStepType == Steps(CrcStep, Byte, Byte)
<1>1. \A c, b \in Byte : (c + b) % 256 \in Byte
  BY DEF Byte
<1> QED BY <1>1 DEF CrcStep, Steps

LEMMA BodyStepType == Steps(BodyStep, Seq(Byte), Byte)
<1>1. \A s \in Seq(Byte), b \in Byte : s \o Escaped(b) \in Seq(Byte)
  BY EscapedBytes
<1> QED BY <1>1 DEF BodyStep, Steps

LEMMA UnescapeStepType == Steps(UnescapeStep, Unescaped, Byte)
<1>1. ASSUME NEW u \in Unescaped, NEW b \in Byte PROVE UnescapeByte(u, b) \in Unescaped
  <2>1. Flipped(b) \in Byte
    BY FlippedByte
  <2>2. u.bytes \in Seq(Byte) /\ u.dangling \in BOOLEAN
    BY DEF Unescaped
  <2>3. CASE u.dangling
    <3>1. UnescapeByte(u, b) = [bytes |-> Append(u.bytes, Flipped(b)), dangling |-> FALSE]
      BY <2>3 DEF UnescapeByte, Unescaped
    <3>2. Append(u.bytes, Flipped(b)) \in Seq(Byte)
      BY <2>1, <2>2
    <3> QED BY <3>1, <3>2 DEF Unescaped
  <2>4. CASE ~u.dangling /\ b = CE
    BY <2>2, <2>4 DEF UnescapeByte, Unescaped
  <2>5. CASE ~u.dangling /\ b # CE
    <3>1. Append(u.bytes, b) \in Seq(Byte)
      BY <2>2
    <3> QED BY <2>5, <3>1 DEF UnescapeByte, Unescaped
  <2> QED BY <2>3, <2>4, <2>5
<1> QED BY <1>1 DEF UnescapeStep, Steps

LEMMA CrcIsFold ==
    ASSUME NEW m \in Seq(Byte)
    PROVE  Crc(m) = Fold(CrcStep, 7, m)
<1> DEFINE Is(g) == g = [n \in 0..Len(m) |-> IF n = 0 THEN 7 ELSE (g[n - 1] + m[n]) % 256]
           g == CHOOSE x : Is(x)
<1>1. Len(m) \in Nat /\ 7 \in Byte /\ \A n \in 1..Len(m) : m[n] \in Byte
  <2>1. 7 \in Byte
    BY DEF Byte
  <2> QED BY <2>1
<1>2. PICK f \in [0..Len(m) -> Byte] : Stages(CrcStep, 7, m, f)
  BY <1>1, CrcStepType, StagesExist
<1>3. \A n \in 0..Len(m) : f[n] = IF n = 0 THEN 7 ELSE (f[n - 1] + m[n]) % 256
  <2>1. \A n \in 1..Len(m) : f[n - 1] \in Byte /\ f[n] = CrcStep[<<f[n - 1], m[n]>>]
    BY <1>1, <1>2 DEF Stages
  <2>2. f[0] = 7 /\ \A n \in 0..Len(m) : n = 0 \/ n \in 1..Len(m)
    BY <1>1, <1>2 DEF Stages
  <2>3. \A c, b \in Byte : CrcStep[<<c, b>>] = (c + b) % 256
    BY DEF CrcStep
  <2>4. \A n \in 1..Len(m) : f[n] = (f[n - 1] + m[n]) % 256
    <3> SUFFICES ASSUME NEW n \in 1..Len(m) PROVE f[n] = (f[n - 1] + m[n]) % 256
      OBVIOUS
    <3>1. f[n - 1] \in Byte /\ m[n] \in Byte /\ f[n] = CrcStep[<<f[n - 1], m[n]>>]
      BY <1>1, <2>1
    <3> QED BY <2>3, <3>1, Zenon
  <2>5. \A n \in 1..Len(m) : n # 0
    BY <1>1
  <2> QED BY <2>2, <2>4, <2>5, Zenon
<1>4. Is(f)
  BY <1>2, <1>3
<1>5. Is(g)
  <2> HIDE DEF Is
  <2> QED BY <1>4
<1>6. Crc(m) = g[Len(m)]
  BY DEF Crc
<1> HIDE DEF g
<1>7. g[0] = 7 /\ \A n \in 1..Len(m) : g[n] = (g[n - 1] + m[n]) % 256
  BY <1>1, <1>5
<1>8. \A n \in 1..Len(m) : g[n - 1] \in Byte => g[n] = CrcStep[<<g[n - 1], m[n]>>]
  BY <1>1, <1>7 DEF CrcStep
<1>9. g[Len(m)] = Fold(CrcStep, 7, m)
  BY <1>1, <1>7, <1>8, CrcStepType, GoesAsFold
<1> QED BY <1>6, <1>9

LEMMA BodyIsFold ==
    ASSUME NEW m \in Seq(Byte)
    PROVE  Body(m) = Fold(BodyStep, <<>>, m)
<1> DEFINE Is(g) == g = [n \in 0..Len(m) |->
                           IF n = 0 THEN <<>> ELSE g[n - 1] \o Escaped(m[n])]
           g == CHOOSE x : Is(x)
<1>1. Len(m) \in Nat /\ <<>> \in Seq(Byte) /\ \A n \in 1..Len(m) : m[n] \in Byte
  OBVIOUS
<1>2. PICK f \in [0..Len(m) -> Seq(Byte)] : Stages(BodyStep, <<>>, m, f)
  BY <1>1, BodyStepType, StagesExist
<1>3. \A n \in 0..Len(m) : f[n] = IF n = 0 THEN <<>> ELSE f[n - 1] \o Escaped(m[n])
  <2>1. \A n \in 1..Len(m) : f[n - 1] \in Seq(Byte)
    BY <1>1, <1>2
  <2>2. \A n \in 1..Len(m) : f[n] = BodyStep[<<f[n - 1], m[n]>>]
    BY <1>2 DEF Stages
  <2>3. f[0] = <<>>
    BY <1>2 DEF Stages
  <2>4. \A n \in 1..Len(m) : f[n] = f[n - 1] \o Escaped(m[n])
    BY <1>1, <2>1, <2>2 DEF BodyStep
  <2>5. \A n \in 0..Len(m) : n = 0 \/ (n # 0 /\ n \in 1..Len(m))
    BY <1>1
  <2> QED BY <2>3, <2>4, <2>5, Zenon
<1>4. Is(f)
  BY <1>2, <1>3
<1>5. Is(g)
  <2> HIDE DEF Is
  <2> QED BY <1>4
<1>6. Body(m) = g[Len(m)]
  BY DEF Body
<1> HIDE DEF g
<1>7. g[0] = <<>> /\ \A n \in 1..Len(m) : g[n] = g[n - 1] \o Escaped(m[n])
  <2>1. 0 \in 0..Len(m) /\ \A n \in 1..Len(m) : n \in 0..Len(m) /\ n # 0
    BY <1>1
  <2> QED BY <1>5, <2>1, Zenon
<1>8. \A n \in 1..Len(m) : g[n - 1] \in Seq(Byte) => g[n] = BodyStep[<<g[n - 1], m[n]>>]
  BY <1>1, <1>7 DEF BodyStep
<1>9. g[Len(m)] = Fold(BodyStep, <<>>, m)
  <2> DEFINE base == <<>>
  <2>1. base \in Seq(Byte) /\ g[0] = base
    BY <1>7
  <2> HIDE DEF base
  <2>2. g[Len(m)] = Fold(BodyStep, base, m)
    BY <1>8, <2>1, BodyStepType, GoesAsFold
  <2> QED BY <2>2 DEF base
<1> QED BY <1>6, <1>9

NoBytes == [bytes |-> <<>>, dangling |-> FALSE]

LEMMA UnescapeIsFold ==
    ASSUME NEW m \in Seq(Byte)
    PROVE  Unescape(m) = Fold(UnescapeStep, NoBytes, m)
<1> DEFINE Is(g) == g = [n \in 0..Len(m) |->
                           IF n = 0 THEN NoBytes ELSE UnescapeByte(g[n - 1], m[n])]
           g == CHOOSE x : Is(x)
<1>1. Len(m) \in Nat /\ NoBytes \in Unescaped /\ \A n \in 1..Len(m) : m[n] \in Byte
  BY DEF NoBytes, Unescaped
<1>2. PICK f \in [0..Len(m) -> Unescaped] : Stages(UnescapeStep, NoBytes, m, f)
  BY <1>1, UnescapeStepType, StagesExist
<1>3. \A n \in 0..Len(m) : f[n] = IF n = 0 THEN NoBytes ELSE UnescapeByte(f[n - 1], m[n])
  <2>1. \A n \in 1..Len(m) : f[n - 1] \in Unescaped /\ f[n] = UnescapeStep[<<f[n - 1], m[n]>>]
    BY <1>1, <1>2 DEF Stages
  <2> QED BY <1>1, <1>2, <2>1 DEF Stages, UnescapeStep
<1>4. Is(f)
  BY <1>2, <1>3
<1>5. Is(g)
  <2> HIDE DEF Is
  <2> QED BY <1>4
<1>6. Unescape(m) = g[Len(m)]
  BY DEF Unescape, NoBytes
<1> HIDE DEF g
<1>7. g[0] = NoBytes /\ \A n \in 1..Len(m) : g[n] = UnescapeByte(g[n - 1], m[n])
  BY <1>1, <1>5
<1>8. \A n \in 1..Len(m) : g[n - 1] \in Unescaped => g[n] = UnescapeStep[<<g[n - 1], m[n]>>]
  BY <1>1, <1>7 DEF UnescapeStep
<1>9. g[Len(m)] = Fold(UnescapeStep, NoBytes, m)
  BY <1>1, <1>7, <1>8, UnescapeStepType, GoesAsFold
<1> QED BY <1>6, <1>9

-------------------------------------------------------------------------------
(* The CRC, the body of a frame and what unescape makes of it.             *)

LEMMA CrcGrows ==
    /\ Crc(<<>>) = 7
    /\ \A m \in Seq(Byte) : Crc(m) \in Byte
    /\ \A m \in Seq(Byte), b \in Byte : Crc(Append(m, b)) = (Crc(m) + b) % 256
<1> DEFINE none == <<>>
<1>1. 7 \in Byte /\ none \in Seq(Byte)
  BY DEF Byte
<1> HIDE DEF none
<1>2. Crc(none) = Fold(CrcStep, 7, none)
  BY <1>1, CrcIsFold
<1>3. Fold(CrcStep, 7, <<>>) = 7
  BY <1>1, CrcStepType, FoldEmpty
<1>4. ASSUME NEW m \in Seq(Byte), NEW b \in Byte
      PROVE  Crc(m) \in Byte /\ Crc(Append(m, b)) = (Crc(m) + b) % 256
  <2>1. Append(m, b) \in Seq(Byte)
    OBVIOUS
  <2>2. Crc(m) = Fold(CrcStep, 7, m) /\ Crc(Append(m, b)) = Fold(CrcStep, 7, Append(m, b))
    BY <2>1, CrcIsFold
  <2>3. Fold(CrcStep, 7, m) \in Byte
    BY <1>1, CrcStepType, FoldIn
  <2>4. Fold(CrcStep, 7, Append(m, b)) = CrcStep[<<Fold(CrcStep, 7, m), b>>]
    BY <1>1, CrcStepType, FoldAppend
  <2>5. \A c \in Byte : CrcStep[<<c, b>>] = (c + b) % 256
    BY DEF CrcStep
  <2> QED BY <2>2, <2>3, <2>4, <2>5
<1>5. 7 \in Byte
  BY <1>1
<1> QED BY <1>2, <1>3, <1>4, <1>5 DEF none

LEMMA BodyGrows ==
    /\ Body(<<>>) = <<>>
    /\ \A m \in Seq(Byte) : Body(m) \in Seq(Byte)
    /\ \A m \in Seq(Byte), b \in Byte : Body(Append(m, b)) = Body(m) \o Escaped(b)
<1> DEFINE none == <<>>
<1>1. none \in Seq(Byte)
  OBVIOUS
<1>2. none = <<>>
  OBVIOUS
<1> HIDE DEF none
<1>3. Body(none) = Fold(BodyStep, <<>>, none)
  BY <1>1, BodyIsFold
<1>4. Fold(BodyStep, none, <<>>) = none
  BY <1>1, BodyStepType, FoldEmpty
<1>5. ASSUME NEW m \in Seq(Byte), NEW b \in Byte
      PROVE  Body(m) \in Seq(Byte) /\ Body(Append(m, b)) = Body(m) \o Escaped(b)
  <2>1. Append(m, b) \in Seq(Byte)
    OBVIOUS
  <2>2. Body(m) = Fold(BodyStep, none, m)
        /\ Body(Append(m, b)) = Fold(BodyStep, none, Append(m, b))
    BY <1>2, <2>1, BodyIsFold
  <2>3. Fold(BodyStep, none, m) \in Seq(Byte)
    BY <1>1, BodyStepType, FoldIn
  <2>4. Fold(BodyStep, none, Append(m, b)) = BodyStep[<<Fold(BodyStep, none, m), b>>]
    BY <1>1, BodyStepType, FoldAppend
  <2>5. \A c \in Seq(Byte) : BodyStep[<<c, b>>] = c \o Escaped(b)
    BY DEF BodyStep
  <2> QED BY <2>2, <2>3, <2>4, <2>5, Zenon
<1>6. 0 \in Byte
  BY DEF Byte
<1> QED BY <1>2, <1>3, <1>4, <1>5, <1>6, Zenon

LEMMA UnescapeGrows ==
    /\ Unescape(<<>>) = NoBytes
    /\ \A s \in Seq(Byte) : Unescape(s) \in Unescaped
    /\ \A s \in Seq(Byte), b \in Byte : Unescape(Append(s, b)) = UnescapeByte(Unescape(s), b)
<1> DEFINE none == <<>>
<1>1. none \in Seq(Byte) /\ NoBytes \in Unescaped
  BY DEF NoBytes, Unescaped
<1>2. none = <<>>
  OBVIOUS
<1> HIDE DEF none
<1>3. Unescape(none) = Fold(UnescapeStep, NoBytes, none)
  BY <1>1, UnescapeIsFold
<1>4. Fold(UnescapeStep, NoBytes, <<>>) = NoBytes
  BY <1>1, UnescapeStepType, FoldEmpty
<1>5. ASSUME NEW m \in Seq(Byte), NEW b \in Byte
      PROVE  /\ Unescape(m) \in Unescaped
             /\ Unescape(Append(m, b)) = UnescapeByte(Unescape(m), b)
  <2>1. Append(m, b) \in Seq(Byte)
    OBVIOUS
  <2>2. /\ Unescape(m) = Fold(UnescapeStep, NoBytes, m)
        /\ Unescape(Append(m, b)) = Fold(UnescapeStep, NoBytes, Append(m, b))
    BY <2>1, UnescapeIsFold
  <2>3. Fold(UnescapeStep, NoBytes, m) \in Unescaped
    BY <1>1, UnescapeStepType, FoldIn
  <2>4. Fold(UnescapeStep, NoBytes, Append(m, b))
          = UnescapeStep[<<Fold(UnescapeStep, NoBytes, m), b>>]
    BY <1>1, UnescapeStepType, FoldAppend
  <2>5. \A u \in Unescaped : UnescapeStep[<<u, b>>] = UnescapeByte(u, b)
    BY DEF UnescapeStep
  <2> QED BY <2>2, <2>3, <2>4, <2>5, Zenon
<1>6. 0 \in Byte
  BY DEF Byte
<1> QED BY <1>2, <1>3, <1>4, <1>5, <1>6, Zenon

\* No delimiter is inside a body, and escaping at most doubles a message.
LEMMA BodyFits ==
    \A m \in Seq(Byte) : Body(m) \in Seq(InFrame) /\ Len(Body(m)) <= 2 * Len(m)
<1> DEFINE T == {m \in Seq(Byte) : Body(m) \in Seq(InFrame) /\ Len(Body(m)) <= 2 * Len(m)}
<1>1. <<>> \in T
  <2>1. Body(<<>>) = <<>>
    BY BodyGrows
  <2>2. <<>> \in Seq(Byte) /\ <<>> \in Seq(InFrame) /\ Len(<<>>) <= 2 * Len(<<>>)
    OBVIOUS
  <2> QED BY <2>1, <2>2, Zenon
<1>2. ASSUME NEW m \in Seq(Byte), NEW b \in Byte, m \in T PROVE Append(m, b) \in T
  <2>1. Body(m) \in Seq(InFrame) /\ Len(Body(m)) <= 2 * Len(m)
    BY <1>2
  <2>2. Escaped(b) \in Seq(InFrame) /\ Len(Escaped(b)) \in 1..2
    BY EscapedBytes
  <2>3. Body(Append(m, b)) = Body(m) \o Escaped(b)
    BY BodyGrows
  <2>4. Append(m, b) \in Seq(Byte) /\ Len(Append(m, b)) = Len(m) + 1 /\ Len(m) \in Nat
    OBVIOUS
  <2>5. Body(m) \o Escaped(b) \in Seq(InFrame)
        /\ Len(Body(m) \o Escaped(b)) = Len(Body(m)) + Len(Escaped(b))
        /\ Len(Body(m)) \in Nat
    BY <2>1, <2>2
  <2>6. Len(Body(m)) + Len(Escaped(b)) <= 2 * (Len(m) + 1)
    <3>1. \A x, y, z \in Nat : x <= 2 * z /\ y \in 1..2 => x + y <= 2 * (z + 1)
      OBVIOUS
    <3>2. Len(Escaped(b)) \in Nat
      BY <2>2
    <3> QED BY <2>1, <2>2, <2>4, <2>5, <3>1, <3>2
  <2> QED BY <2>3, <2>4, <2>5, <2>6
<1> HIDE DEF T
<1>3. Seq(Byte) \subseteq T
  BY <1>1, <1>2, SeqGrows
<1> QED BY <1>3 DEF T

\* What unescape does with a byte.
LEMMA UnescapeByteIs ==
    ASSUME NEW m \in Seq(Byte), NEW b \in Byte
    PROVE  /\ UnescapeByte([bytes |-> m, dangling |-> TRUE], b)
                 = [bytes |-> Append(m, Flipped(b)), dangling |-> FALSE]
           /\ b = CE => UnescapeByte([bytes |-> m, dangling |-> FALSE], b)
                          = [bytes |-> m, dangling |-> TRUE]
           /\ b # CE => UnescapeByte([bytes |-> m, dangling |-> FALSE], b)
                          = [bytes |-> Append(m, b), dangling |-> FALSE]
<1>1. ASSUME NEW u \in Unescaped
      PROVE  /\ [u EXCEPT !.dangling = TRUE] = [bytes |-> u.bytes, dangling |-> TRUE]
             /\ [u EXCEPT !.bytes = Append(u.bytes, b)]
                   = [bytes |-> Append(u.bytes, b), dangling |-> u.dangling]
  <2> DEFINE S == Seq(Byte)
             more == Append(u.bytes, b)
  <2>1. u.bytes \in S
    BY DEF Unescaped
  <2>2. more \in S
    BY <2>1
  <2>3. u \in [bytes : S, dangling : BOOLEAN]
    BY DEF Unescaped
  <2> HIDE DEF S, more
  <2>4. [u EXCEPT !.dangling = TRUE] = [bytes |-> u.bytes, dangling |-> TRUE]
    <3>1. ASSUME NEW w \in BOOLEAN
          PROVE  [u EXCEPT !.dangling = w] = [bytes |-> u.bytes, dangling |-> w]
      BY <2>3, SMT
    <3> QED BY <3>1
  <2>5. [u EXCEPT !.bytes = more] = [bytes |-> more, dangling |-> u.dangling]
    BY <2>2, <2>3
  <2> QED BY <2>4, <2>5 DEF more
<1> DEFINE U == [bytes |-> m, dangling |-> TRUE]
           V == [bytes |-> m, dangling |-> FALSE]
<1>2. U \in Unescaped /\ U.bytes = m /\ U.dangling /\ U.dangling = TRUE
  BY DEF Unescaped
<1>3. V \in Unescaped /\ V.bytes = m /\ ~V.dangling /\ V.dangling = FALSE
  BY DEF Unescaped
<1> HIDE DEF U, V
<1>4. UnescapeByte(U, b) = [bytes |-> Append(m, Flipped(b)), dangling |-> FALSE]
  BY <1>2 DEF UnescapeByte
<1>5. b = CE => UnescapeByte(V, b) = [bytes |-> m, dangling |-> TRUE]
  BY <1>1, <1>3 DEF UnescapeByte
<1>6. b # CE => UnescapeByte(V, b) = [bytes |-> Append(m, b), dangling |-> FALSE]
  BY <1>1, <1>3 DEF UnescapeByte
<1> QED BY <1>4, <1>5, <1>6 DEF U, V

\* unescape undoes what push_escaped did.
LEMMA UnescapeUndoes ==
    \A m \in Seq(Byte) : Unescape(Body(m)) = [bytes |-> m, dangling |-> FALSE]
<1> DEFINE T == {m \in Seq(Byte) : Unescape(Body(m)) = [bytes |-> m, dangling |-> FALSE]}
<1>1. <<>> \in T
  <2>1. Body(<<>>) = <<>> /\ Unescape(<<>>) = NoBytes
    BY BodyGrows, UnescapeGrows
  <2> QED BY <2>1 DEF NoBytes
<1>2. ASSUME NEW m \in Seq(Byte), NEW b \in Byte, m \in T PROVE Append(m, b) \in T
  <2>1. Unescape(Body(m)) = [bytes |-> m, dangling |-> FALSE]
    BY <1>2
  <2>2. Body(m) \in Seq(Byte) /\ Body(Append(m, b)) = Body(m) \o Escaped(b)
    BY BodyGrows
  <2>3. Append(m, b) \in Seq(Byte)
    OBVIOUS
  <2> SUFFICES Unescape(Body(Append(m, b))) = [bytes |-> Append(m, b), dangling |-> FALSE]
    BY <2>3
  <2>4. CASE b >= INVALID
    <3>1. CE \in Byte /\ Flipped(b) \in Byte /\ Flipped(Flipped(b)) = b
      <4>1. CE \in Byte
        BY DEF CE, Byte
      <4> QED BY <4>1, FlippedByte
    <3> DEFINE half == Append(Body(m), CE)
    <3>2. half \in Seq(Byte) /\ Body(m) \o Escaped(b) = Append(half, Flipped(b))
      BY <2>2, <2>4, <3>1 DEF Escaped
    <3>3. Unescape(half) = [bytes |-> m, dangling |-> TRUE]
      <4>1. Unescape(half) = UnescapeByte(Unescape(Body(m)), CE)
        BY <2>2, <3>1, UnescapeGrows
      <4> QED BY <2>1, <3>1, <4>1, UnescapeByteIs
    <3> HIDE DEF half
    <3>4. Unescape(Append(half, Flipped(b))) = UnescapeByte(Unescape(half), Flipped(b))
      BY <3>1, <3>2, UnescapeGrows
    <3>5. UnescapeByte([bytes |-> m, dangling |-> TRUE], Flipped(b))
              = [bytes |-> Append(m, b), dangling |-> FALSE]
      BY <3>1, UnescapeByteIs
    <3> QED BY <2>2, <3>2, <3>3, <3>4, <3>5
  <2>5. CASE ~(b >= INVALID)
    <3>1. b # CE
      BY <2>5 DEF CE, INVALID
    <3>2. Body(m) \o Escaped(b) = Append(Body(m), b)
      BY <2>2, <2>5 DEF Escaped
    <3>3. Unescape(Append(Body(m), b)) = UnescapeByte(Unescape(Body(m)), b)
      BY <2>2, UnescapeGrows
    <3>4. UnescapeByte([bytes |-> m, dangling |-> FALSE], b)
              = [bytes |-> Append(m, b), dangling |-> FALSE]
      BY <3>1, UnescapeByteIs
    <3> QED BY <2>1, <2>2, <3>2, <3>3, <3>4
  <2> QED BY <2>4, <2>5
<1> HIDE DEF T
<1>3. Seq(Byte) \subseteq T
  BY <1>1, <1>2, SeqGrows
<1> QED BY <1>3 DEF T

-------------------------------------------------------------------------------
(* What a byte does to a decoder.                                          *)

Dec(i, f, r, o) == [inFrame |-> i, frame |-> f, reassembly |-> r, out |-> o]

\* The decoder d with o decoded before what it has out.
Led(o, d) == Dec(d.inFrame, d.frame, d.reassembly, o \o d.out)

\* A decoder whose fields are of these sets.
Of(d, F, R, O) == d \in [inFrame : BOOLEAN, frame : F, reassembly : R, out : O]

LEMMA RecordIs ==
    ASSUME NEW F, NEW R, NEW O, NEW d, Of(d, F, R, O)
    PROVE  d = Dec(d.inFrame, d.frame, d.reassembly, d.out)
  BY DEF Dec, Of

LEMMA SetFrame ==
    ASSUME NEW F, NEW R, NEW O, NEW d, Of(d, F, R, O), NEW f \in F
    PROVE  [d EXCEPT !.frame = f] = Dec(d.inFrame, f, d.reassembly, d.out)
  BY DEF Dec, Of

LEMMA SetReassembly ==
    ASSUME NEW F, NEW R, NEW O, NEW d, Of(d, F, R, O), NEW r \in R
    PROVE  [d EXCEPT !.reassembly = r] = Dec(d.inFrame, d.frame, r, d.out)
  BY DEF Dec, Of

LEMMA SetOut ==
    ASSUME NEW F, NEW R, NEW O, NEW d, Of(d, F, R, O), NEW o \in O
    PROVE  [d EXCEPT !.out = o] = Dec(d.inFrame, d.frame, d.reassembly, o)
  BY DEF Dec, Of

LEMMA DecoderFields ==
    \A d \in Decoders :
        /\ Of(d, Seq(InFrame), Seq(Byte), Seq(Items))
        /\ d.inFrame \in BOOLEAN /\ d.frame \in Seq(InFrame)
        /\ d.reassembly \in Seq(Byte) /\ d.out \in Seq(Items)
        /\ Len(d.frame) <= MaxFrame /\ Len(d.reassembly) <= MaxReassembly
        /\ d = Dec(d.inFrame, d.frame, d.reassembly, d.out)
<1> SUFFICES ASSUME NEW d \in Decoders
             PROVE  /\ Of(d, Seq(InFrame), Seq(Byte), Seq(Items))
                    /\ d.inFrame \in BOOLEAN /\ d.frame \in Seq(InFrame)
                    /\ d.reassembly \in Seq(Byte) /\ d.out \in Seq(Items)
                    /\ Len(d.frame) <= MaxFrame /\ Len(d.reassembly) <= MaxReassembly
                    /\ d = Dec(d.inFrame, d.frame, d.reassembly, d.out)
  OBVIOUS
<1>1. /\ Of(d, Seq(InFrame), Seq(Byte), Seq(Items))
      /\ Len(d.frame) <= MaxFrame /\ Len(d.reassembly) <= MaxReassembly
  BY DEF Decoders, Of
<1>2. /\ d.inFrame \in BOOLEAN /\ d.frame \in Seq(InFrame)
      /\ d.reassembly \in Seq(Byte) /\ d.out \in Seq(Items)
  BY <1>1 DEF Of
<1>3. d = Dec(d.inFrame, d.frame, d.reassembly, d.out)
  BY <1>1, RecordIs
<1> QED BY <1>1, <1>2, <1>3

LEMMA DecIsDecoder ==
    ASSUME NEW i \in BOOLEAN, NEW f \in Seq(InFrame), NEW r \in Seq(Byte), NEW o \in Seq(Items),
           Len(f) <= MaxFrame, Len(r) <= MaxReassembly
    PROVE  /\ Dec(i, f, r, o) \in Decoders
           /\ Dec(i, f, r, o).inFrame = i /\ Dec(i, f, r, o).frame = f
           /\ Dec(i, f, r, o).reassembly = r /\ Dec(i, f, r, o).out = o
<1> DEFINE d == Dec(i, f, r, o)
<1>1. d.inFrame = i /\ d.frame = f /\ d.reassembly = r /\ d.out = o
  BY DEF Dec
<1>2. d \in [inFrame : BOOLEAN, frame : Seq(InFrame), reassembly : Seq(Byte), out : Seq(Items)]
  BY DEF Dec
<1> HIDE DEF d
<1>3. d \in Decoders
  BY <1>1, <1>2 DEF Decoders
<1> QED BY <1>1, <1>3 DEF d

LEMMA YieldIs ==
    ASSUME NEW d \in Decoders, NEW x \in Items
    PROVE  /\ Yield(d, x) = Dec(d.inFrame, d.frame, d.reassembly, Append(d.out, x))
           /\ Yield(d, x) \in Decoders
<1> DEFINE more == Append(d.out, x)
<1>1. more \in Seq(Items)
  BY DecoderFields
<1>2. Yield(d, x) = [d EXCEPT !.out = more]
  BY DEF Yield
<1> HIDE DEF more
<1>3. [d EXCEPT !.out = more] = Dec(d.inFrame, d.frame, d.reassembly, more)
  <2>1. Of(d, Seq(InFrame), Seq(Byte), Seq(Items))
    BY DecoderFields
  <2> QED BY <1>1, <2>1, SetOut
<1>4. Dec(d.inFrame, d.frame, d.reassembly, more) \in Decoders
  BY <1>1, DecoderFields, DecIsDecoder
<1> QED BY <1>2, <1>3, <1>4 DEF more

LEMMA LedIsDecoder ==
    ASSUME NEW d \in Decoders, NEW o \in Seq(Items)
    PROVE  /\ Led(o, d) \in Decoders
           /\ Led(o, d).inFrame = d.inFrame /\ Led(o, d).frame = d.frame
           /\ Led(o, d).reassembly = d.reassembly /\ Led(o, d).out = o \o d.out
<1> DEFINE out == o \o d.out
<1>1. out \in Seq(Items)
  BY DecoderFields
<1>2. /\ d.inFrame \in BOOLEAN /\ d.frame \in Seq(InFrame) /\ d.reassembly \in Seq(Byte)
      /\ Len(d.frame) <= MaxFrame /\ Len(d.reassembly) <= MaxReassembly
  BY DecoderFields
<1> HIDE DEF out
<1>3. LET e == Dec(d.inFrame, d.frame, d.reassembly, out)
      IN  /\ e \in Decoders /\ e.inFrame = d.inFrame /\ e.frame = d.frame
          /\ e.reassembly = d.reassembly /\ e.out = out
  BY <1>1, <1>2, DecIsDecoder
<1> QED BY <1>3 DEF Led, out

LEMMA YieldLed ==
    ASSUME NEW d \in Decoders, NEW x \in Items, NEW o \in Seq(Items)
    PROVE  Yield(Led(o, d), x) = Led(o, Yield(d, x))
<1> DEFINE e == Led(o, d)
<1>1. /\ e \in Decoders /\ e.inFrame = d.inFrame /\ e.frame = d.frame
      /\ e.reassembly = d.reassembly /\ e.out = o \o d.out
  BY LedIsDecoder
<1> HIDE DEF e
<1>2. Yield(e, x) = Dec(d.inFrame, d.frame, d.reassembly, Append(o \o d.out, x))
  BY <1>1, YieldIs
<1>3. Yield(d, x) = Dec(d.inFrame, d.frame, d.reassembly, Append(d.out, x))
  BY YieldIs
<1>4. Led(o, Yield(d, x)) = Dec(d.inFrame, d.frame, d.reassembly, o \o Append(d.out, x))
  BY <1>3 DEF Led, Dec
<1>5. o \o Append(d.out, x) = Append(o \o d.out, x)
  BY DecoderFields
<1> QED BY <1>2, <1>4, <1>5 DEF e

\* What a package makes of the run before it.
Joined(r, flags, payload) ==
    (IF Set(flags, FIRST) THEN <<>> ELSE r) \o (IF Set(flags, EMPTY) THEN <<>> ELSE payload)

LEMMA ParseEmberIs ==
    ASSUME NEW d \in Decoders, NEW flags \in Byte, NEW payload \in Seq(Byte)
    PROVE  LET all == Joined(d.reassembly, flags, payload)
           IN  /\ all \in Seq(Byte)
               /\ Len(all) > MaxReassembly
                    => ParseEmber(d, flags, payload)
                         = Dec(d.inFrame, d.frame, <<>>, Append(d.out, Error))
               /\ Len(all) <= MaxReassembly /\ Set(flags, LAST)
                    => ParseEmber(d, flags, payload)
                         = Dec(d.inFrame, d.frame, <<>>, Append(d.out, Document(all)))
               /\ Len(all) <= MaxReassembly /\ ~Set(flags, LAST)
                    => ParseEmber(d, flags, payload) = Dec(d.inFrame, d.frame, all, d.out)
<1> DEFINE all == Joined(d.reassembly, flags, payload)
           none == [d EXCEPT !.reassembly = <<>>]
<1>1. all \in Seq(Byte)
  BY DecoderFields DEF Joined
<1>2. none = Dec(d.inFrame, d.frame, <<>>, d.out)
  <2> DEFINE r == <<>>
  <2>1. r \in Seq(Byte)
    OBVIOUS
  <2> HIDE DEF r
  <2>2. [d EXCEPT !.reassembly = r] = Dec(d.inFrame, d.frame, r, d.out)
    BY <2>1, DecoderFields, SetReassembly
  <2> QED BY <2>2 DEF r
<1>3. Len(all) \in Nat /\ MaxReassembly \in Nat
  BY <1>1, FramingAssumption
<1>4. /\ Len(all) > MaxReassembly => ParseEmber(d, flags, payload) = Yield(none, Error)
      /\ Len(all) <= MaxReassembly /\ Set(flags, LAST)
           => ParseEmber(d, flags, payload) = Yield(none, Document(all))
      /\ Len(all) <= MaxReassembly /\ ~Set(flags, LAST)
           => ParseEmber(d, flags, payload) = [d EXCEPT !.reassembly = all]
  <2>1. ParseEmber(d, flags, payload)
          = IF Len(all) > MaxReassembly THEN Yield(none, Error)
            ELSE IF Set(flags, LAST) THEN Yield(none, Document(all))
            ELSE [d EXCEPT !.reassembly = all]
    BY DEF ParseEmber, Joined
  <2> HIDE DEF all, none
  <2>2. ~(Len(all) > MaxReassembly) <=> Len(all) <= MaxReassembly
    BY <1>3
  <2> QED BY <2>1, <2>2, Zenon
<1> HIDE DEF all, none
<1>5. /\ none \in Decoders /\ none.inFrame = d.inFrame /\ none.frame = d.frame
      /\ none.reassembly = <<>> /\ none.out = d.out
  <2>1. /\ d.inFrame \in BOOLEAN /\ d.frame \in Seq(InFrame) /\ d.out \in Seq(Items)
        /\ Len(d.frame) <= MaxFrame
    BY DecoderFields
  <2> DEFINE r == <<>>
  <2>2. r \in Seq(Byte) /\ Len(r) <= MaxReassembly
    BY FramingAssumption
  <2> HIDE DEF r
  <2>3. LET e == Dec(d.inFrame, d.frame, r, d.out)
        IN  /\ e \in Decoders /\ e.inFrame = d.inFrame /\ e.frame = d.frame
            /\ e.reassembly = r /\ e.out = d.out
    BY <2>1, <2>2, DecIsDecoder
  <2> QED BY <1>2, <2>3 DEF r
<1>6. Error \in Items /\ Document(all) \in Items
  <2>1. Error \in Items
    BY DEF Items, Plain, Error
  <2>2. Document(all) \in Items
    BY <1>1 DEF Items, Document
  <2> QED BY <2>1, <2>2
<1>7. Yield(none, Error) = Dec(d.inFrame, d.frame, <<>>, Append(d.out, Error))
  BY <1>5, <1>6, YieldIs
<1>8. Yield(none, Document(all)) = Dec(d.inFrame, d.frame, <<>>, Append(d.out, Document(all)))
  BY <1>5, <1>6, YieldIs
<1>9. [d EXCEPT !.reassembly = all] = Dec(d.inFrame, d.frame, all, d.out)
  BY <1>1, DecoderFields, SetReassembly
<1> QED BY <1>1, <1>4, <1>7, <1>8, <1>9 DEF all

\* A message gives a decoder, with its frame as it was, and the same whatever
\* was decoded before it.
LEMMA ParseMessageOK ==
    ASSUME NEW d \in Decoders, NEW m \in Seq(Byte)
    PROVE  /\ ParseMessage(d, m) \in Decoders
           /\ ParseMessage(d, m).inFrame = d.inFrame
           /\ ParseMessage(d, m).frame = d.frame
           /\ \A o \in Seq(Items) : ParseMessage(Led(o, d), m) = Led(o, ParseMessage(d, m))
<1> DEFINE OK(e) == /\ e \in Decoders /\ e.inFrame = d.inFrame /\ e.frame = d.frame
<1>1. ASSUME NEW x \in Items
      PROVE  /\ OK(Yield(d, x))
             /\ \A o \in Seq(Items) : Yield(Led(o, d), x) = Led(o, Yield(d, x))
  <2>1. OK(Yield(d, x))
    BY YieldIs DEF Dec
  <2>2. \A o \in Seq(Items) : Yield(Led(o, d), x) = Led(o, Yield(d, x))
    BY YieldLed
  <2> QED BY <2>1, <2>2
<1>2. \A x \in Plain : x \in Items
  BY DEF Items
<1>3. /\ Error \in Items /\ Item("KeepAliveRequest") \in Items
      /\ Item("KeepAliveResponse") \in Items /\ Item("ProviderState") \in Items
  BY <1>2 DEF Plain, Error, Item
<1> HIDE DEF OK
<1>4. CASE m = <<>> \/ Head(m) \notin Command
  <2>1. ParseMessage(d, m) = Yield(d, Error)
        /\ \A o \in Seq(Items) : ParseMessage(Led(o, d), m) = Yield(Led(o, d), Error)
    BY <1>4 DEF ParseMessage
  <2> QED BY <1>1, <1>3, <2>1 DEF OK
<1>5. CASE m # <<>> /\ Head(m) \in Command \ {Ember}
  <2>1. PICK x \in Items : \A e : ParseMessage(e, m) = Yield(e, x)
    <3>1. CASE Head(m) = KeepAliveRequest
      <4>1. \A e : ParseMessage(e, m) = Yield(e, Item("KeepAliveRequest"))
        BY <1>5, <3>1 DEF ParseMessage, Command, Ember, KeepAliveRequest, KeepAliveResponse,
                          ProviderState
      <4> QED BY <1>3, <4>1
    <3>2. CASE Head(m) = KeepAliveResponse
      <4>1. \A e : ParseMessage(e, m) = Yield(e, Item("KeepAliveResponse"))
        BY <1>5, <3>2 DEF ParseMessage, Command, Ember, KeepAliveRequest, KeepAliveResponse,
                          ProviderState
      <4> QED BY <1>3, <4>1
    <3>3. CASE Head(m) = ProviderState
      <4>1. \A e : ParseMessage(e, m) = Yield(e, Item("ProviderState"))
        BY <1>5, <3>3 DEF ParseMessage, Command, Ember, KeepAliveRequest, KeepAliveResponse,
                          ProviderState
      <4> QED BY <1>3, <4>1
    <3> QED BY <1>5, <3>1, <3>2, <3>3 DEF Command
  <2> QED BY <1>1, <2>1 DEF OK
<1>6. CASE m # <<>> /\ Head(m) = Ember /\ Len(m) < 2
  <2>1. \A e : ParseMessage(e, m) = Yield(e, Error)
    BY <1>6 DEF ParseMessage, Command, Ember, KeepAliveRequest, KeepAliveResponse, ProviderState
  <2> QED BY <1>1, <1>3, <2>1 DEF OK
<1>7. CASE m # <<>> /\ Head(m) = Ember /\ ~(Len(m) < 2)
  <2> DEFINE flags == m[2]
             payload == SubSeq(m, 3, Len(m))
  <2>1. flags \in Byte /\ payload \in Seq(Byte)
    BY <1>7
  <2>2. \A e : ParseMessage(e, m) = ParseEmber(e, flags, payload)
    BY <1>7 DEF ParseMessage, Command, Ember, KeepAliveRequest, KeepAliveResponse, ProviderState
  <2> HIDE DEF flags, payload
  <2> DEFINE all == Joined(d.reassembly, flags, payload)
             e == ParseEmber(d, flags, payload)
  <2> SUFFICES /\ OK(e)
               /\ \A o \in Seq(Items) : ParseEmber(Led(o, d), flags, payload) = Led(o, e)
    BY <2>2 DEF OK
  <2>3. /\ all \in Seq(Byte)
        /\ d.inFrame \in BOOLEAN /\ d.frame \in Seq(InFrame) /\ d.out \in Seq(Items)
        /\ Len(d.frame) <= MaxFrame
    BY <2>1, ParseEmberIs, DecoderFields
  <2>4. Len(all) \in Nat /\ MaxReassembly \in Nat
    BY <2>3, FramingAssumption
  <2>5. PICK r \in Seq(Byte), x \in Seq(Items) :
            /\ Len(r) <= MaxReassembly
            /\ e = Dec(d.inFrame, d.frame, r, d.out \o x)
            /\ \A o \in Seq(Items) : ParseEmber(Led(o, d), flags, payload)
                                       = Dec(d.inFrame, d.frame, r, (o \o d.out) \o x)
    <3> DEFINE Fits(r, x) ==
            /\ Len(r) <= MaxReassembly
            /\ e = Dec(d.inFrame, d.frame, r, d.out \o x)
            /\ \A o \in Seq(Items) : ParseEmber(Led(o, d), flags, payload)
                                       = Dec(d.inFrame, d.frame, r, (o \o d.out) \o x)
    <3>1. ASSUME NEW o \in Seq(Items)
          PROVE  /\ Led(o, d) \in Decoders
                 /\ Led(o, d).inFrame = d.inFrame /\ Led(o, d).frame = d.frame
                 /\ Led(o, d).reassembly = d.reassembly /\ Led(o, d).out = o \o d.out
                 /\ o \o d.out \in Seq(Items)
      BY <2>3, LedIsDecoder
    <3>2. \A o \in Seq(Items) : \A x : Append(o, x) = o \o <<x>>
      OBVIOUS
    <3>9. ASSUME NEW o \in Seq(Items)
          PROVE  LET e1 == ParseEmber(Led(o, d), flags, payload)
                 IN  /\ Len(all) > MaxReassembly
                          => e1 = Dec(d.inFrame, d.frame, <<>>, Append(o \o d.out, Error))
                     /\ Len(all) <= MaxReassembly /\ Set(flags, LAST)
                          => e1 = Dec(d.inFrame, d.frame, <<>>,
                                      Append(o \o d.out, Document(all)))
                     /\ Len(all) <= MaxReassembly /\ ~Set(flags, LAST)
                          => e1 = Dec(d.inFrame, d.frame, all, o \o d.out)
      <4> DEFINE d1 == Led(o, d)
      <4>1. /\ d1 \in Decoders /\ d1.inFrame = d.inFrame /\ d1.frame = d.frame
            /\ d1.reassembly = d.reassembly /\ d1.out = o \o d.out
        BY <3>1
      <4> HIDE DEF d1
      <4>2. Joined(d1.reassembly, flags, payload) = all
        BY <4>1 DEF all
      <4> HIDE DEF all
      <4>3. /\ Len(all) > MaxReassembly
                 => ParseEmber(d1, flags, payload)
                      = Dec(d1.inFrame, d1.frame, <<>>, Append(d1.out, Error))
            /\ Len(all) <= MaxReassembly /\ Set(flags, LAST)
                 => ParseEmber(d1, flags, payload)
                      = Dec(d1.inFrame, d1.frame, <<>>, Append(d1.out, Document(all)))
            /\ Len(all) <= MaxReassembly /\ ~Set(flags, LAST)
                 => ParseEmber(d1, flags, payload) = Dec(d1.inFrame, d1.frame, all, d1.out)
        BY <2>1, <4>1, <4>2, ParseEmberIs
      <4> QED BY <4>1, <4>3 DEF d1
    <3>3. <<>> \in Seq(Byte) /\ Len(<<>>) <= MaxReassembly /\ <<>> \in Seq(Items)
      BY <2>4
    <3>4. Error \in Items /\ Document(all) \in Items
      <4>1. Document(all) \in Items
        BY <2>3 DEF Items, Document
      <4> QED BY <1>3, <4>1
    <3>5. CASE Len(all) > MaxReassembly
      <4>1. e = Dec(d.inFrame, d.frame, <<>>, Append(d.out, Error))
        BY <2>1, <3>5, ParseEmberIs
      <4>2. \A o \in Seq(Items) : ParseEmber(Led(o, d), flags, payload)
                = Dec(d.inFrame, d.frame, <<>>, Append(o \o d.out, Error))
        BY <3>5, <3>9
      <4>3. <<Error>> \in Seq(Items)
        BY <3>4
      <4>4. Fits(<<>>, <<Error>>)
        BY <2>3, <3>1, <3>2, <3>3, <4>1, <4>2
      <4> QED BY <3>3, <4>3, <4>4
    <3>6. CASE Len(all) <= MaxReassembly /\ Set(flags, LAST)
      <4>1. e = Dec(d.inFrame, d.frame, <<>>, Append(d.out, Document(all)))
        BY <2>1, <3>6, ParseEmberIs
      <4>2. \A o \in Seq(Items) : ParseEmber(Led(o, d), flags, payload)
                = Dec(d.inFrame, d.frame, <<>>, Append(o \o d.out, Document(all)))
        BY <3>6, <3>9
      <4>3. <<Document(all)>> \in Seq(Items)
        BY <3>4
      <4>4. Fits(<<>>, <<Document(all)>>)
        BY <2>3, <3>1, <3>2, <3>3, <4>1, <4>2
      <4> QED BY <3>3, <4>3, <4>4
    <3>7. CASE Len(all) <= MaxReassembly /\ ~Set(flags, LAST)
      <4>1. e = Dec(d.inFrame, d.frame, all, d.out)
        BY <2>1, <3>7, ParseEmberIs
      <4>2. \A o \in Seq(Items) : ParseEmber(Led(o, d), flags, payload)
                = Dec(d.inFrame, d.frame, all, o \o d.out)
        BY <3>7, <3>9
      <4>3. \A o \in Seq(Items) : o \o <<>> = o
        OBVIOUS
      <4>4. Fits(all, <<>>)
        BY <2>3, <3>1, <3>7, <4>1, <4>2, <4>3
      <4> QED BY <2>3, <3>3, <4>4
    <3>8. Len(all) > MaxReassembly \/ Len(all) <= MaxReassembly
      BY <2>4
    <3> QED BY <3>5, <3>6, <3>7, <3>8
  <2> HIDE DEF e, all
  <2>6. d.out \o x \in Seq(Items)
    BY <2>3
  <2>7. OK(e)
    <3> DEFINE out == d.out \o x
    <3>1. out \in Seq(Items)
      BY <2>6
    <3>2. e = Dec(d.inFrame, d.frame, r, out)
      BY <2>5
    <3> HIDE DEF out
    <3> QED BY <2>3, <2>5, <3>1, <3>2, DecIsDecoder DEF OK
  <2>8. ASSUME NEW o \in Seq(Items)
        PROVE  ParseEmber(Led(o, d), flags, payload) = Led(o, e)
    <3>1. (o \o d.out) \o x = o \o (d.out \o x)
      <4> DEFINE out == d.out
      <4>1. out \in Seq(Items) /\ o \in Seq(Items) /\ x \in Seq(Items)
        BY <2>3
      <4> HIDE DEF out
      <4>2. (o \o out) \o x = o \o (out \o x)
        BY ONLY <4>1, ConcatAssociative
      <4> QED BY <4>2 DEF out
    <3>2. Led(o, e) = Dec(d.inFrame, d.frame, r, o \o (d.out \o x))
      BY <2>5 DEF Led, Dec
    <3> QED BY <2>5, <3>1, <3>2
  <2> QED BY <2>7, <2>8
<1> QED BY <1>4, <1>5, <1>6, <1>7 DEF Command

LEMMA ProcessRawOK ==
    ASSUME NEW d \in Decoders, NEW raw \in Seq(InFrame)
    PROVE  /\ ProcessRaw(d, raw) \in Decoders
           /\ ProcessRaw(d, raw).inFrame = d.inFrame
           /\ ProcessRaw(d, raw).frame = d.frame
           /\ \A o \in Seq(Items) : ProcessRaw(Led(o, d), raw) = Led(o, ProcessRaw(d, raw))
<1> DEFINE u == Unescape(raw)
           bad == u.dangling \/ u.bytes = <<>> \/ Crc(Front(u.bytes)) # Last(u.bytes)
<1>1. raw \in Seq(Byte)
  BY DEF InFrame
<1>2. u \in Unescaped
  BY <1>1, UnescapeGrows
<1>3. Front(u.bytes) \in Seq(Byte)
  BY <1>2 DEF Unescaped, Front
<1>4. \A e : ProcessRaw(e, raw) = IF bad THEN Yield(e, Error)
                                  ELSE ParseMessage(e, Front(u.bytes))
  BY DEF ProcessRaw
<1> HIDE DEF u, bad
<1>5. CASE bad
  <2>1. Error \in Items
    BY DEF Items, Plain, Error
  <2>2. \A e : ProcessRaw(e, raw) = Yield(e, Error)
    BY <1>4, <1>5
  <2>3. Yield(d, Error) \in Decoders /\ Yield(d, Error).inFrame = d.inFrame
        /\ Yield(d, Error).frame = d.frame
    BY <2>1, YieldIs DEF Dec
  <2>4. \A o \in Seq(Items) : Yield(Led(o, d), Error) = Led(o, Yield(d, Error))
    BY <2>1, YieldLed
  <2> QED BY <2>2, <2>3, <2>4
<1>6. CASE ~bad
  <2> DEFINE m == Front(u.bytes)
  <2>1. m \in Seq(Byte)
    BY <1>3
  <2>2. \A e : ProcessRaw(e, raw) = ParseMessage(e, m)
    BY <1>4, <1>6
  <2> HIDE DEF m
  <2>3. /\ ParseMessage(d, m) \in Decoders
        /\ ParseMessage(d, m).inFrame = d.inFrame
        /\ ParseMessage(d, m).frame = d.frame
        /\ \A o \in Seq(Items) : ParseMessage(Led(o, d), m) = Led(o, ParseMessage(d, m))
    BY <2>1, ParseMessageOK
  <2> QED BY <2>2, <2>3
<1> QED BY <1>5, <1>6

\* A decoder out of its frame, and at the start of one.
Idle(d) == Dec(FALSE, <<>>, d.reassembly, d.out)
Opened(d) == Dec(TRUE, <<>>, d.reassembly, d.out)

LEMMA IdleOpened ==
    ASSUME NEW d \in Decoders
    PROVE  /\ Idle(d) \in Decoders /\ ~Idle(d).inFrame /\ Idle(d).frame = <<>>
           /\ Idle(d).reassembly = d.reassembly /\ Idle(d).out = d.out
           /\ Opened(d) \in Decoders /\ Opened(d).inFrame /\ Opened(d).frame = <<>>
           /\ Opened(d).reassembly = d.reassembly /\ Opened(d).out = d.out
           /\ [d EXCEPT !.inFrame = FALSE, !.frame = <<>>] = Idle(d)
           /\ [d EXCEPT !.inFrame = TRUE, !.frame = <<>>] = Opened(d)
           /\ \A o \in Seq(Items) : /\ Idle(Led(o, d)) = Led(o, Idle(d))
                                    /\ Opened(Led(o, d)) = Led(o, Opened(d))
<1> DEFINE f == <<>>
<1>1. f \in Seq(InFrame) /\ Len(f) <= MaxFrame
  BY FramingAssumption
<1>2. /\ d.reassembly \in Seq(Byte) /\ Len(d.reassembly) <= MaxReassembly /\ d.out \in Seq(Items)
      /\ Of(d, Seq(InFrame), Seq(Byte), Seq(Items))
  BY DecoderFields
<1> HIDE DEF f
<1>3. ASSUME NEW i \in BOOLEAN
      PROVE  LET e == Dec(i, f, d.reassembly, d.out)
             IN  /\ e \in Decoders /\ e.inFrame = i /\ e.frame = f
                 /\ e.reassembly = d.reassembly /\ e.out = d.out
  BY <1>1, <1>2, DecIsDecoder
<1>4. ASSUME NEW i \in BOOLEAN
      PROVE  [d EXCEPT !.inFrame = i, !.frame = f] = Dec(i, f, d.reassembly, d.out)
  <2> DEFINE e == [d EXCEPT !.inFrame = i, !.frame = f]
  <2>1. /\ e.inFrame = i /\ e.frame = f /\ e.reassembly = d.reassembly /\ e.out = d.out
        /\ Of(e, Seq(InFrame), Seq(Byte), Seq(Items))
    BY <1>1, <1>2 DEF Of
  <2> HIDE DEF e
  <2>2. e = Dec(e.inFrame, e.frame, e.reassembly, e.out)
    BY <2>1, RecordIs
  <2> QED BY <2>1, <2>2, Zenon DEF e
<1>5. \A o \in Seq(Items) : /\ Idle(Led(o, d)) = Led(o, Idle(d))
                            /\ Opened(Led(o, d)) = Led(o, Opened(d))
  BY DEF Idle, Opened, Led, Dec
<1> QED BY <1>3, <1>4, <1>5 DEF f, Idle, Opened

LEMMA PushByteIs ==
    ASSUME NEW d \in Decoders, NEW b \in Byte
    PROVE  /\ b = BOF => PushByte(d, b) = Opened(d)
           /\ b # BOF /\ ~d.inFrame => PushByte(d, b) = d
           /\ b = EOF /\ d.inFrame => PushByte(d, b) = ProcessRaw(Idle(d), d.frame)
           /\ b \in InFrame /\ d.inFrame /\ Len(d.frame) < MaxFrame
                => PushByte(d, b) = Dec(d.inFrame, Append(d.frame, b), d.reassembly, d.out)
           /\ b \in InFrame /\ d.inFrame /\ ~(Len(d.frame) < MaxFrame)
                => PushByte(d, b) = Yield(Idle(d), Error)
<1>1. /\ [d EXCEPT !.inFrame = FALSE, !.frame = <<>>] = Idle(d)
      /\ [d EXCEPT !.inFrame = TRUE, !.frame = <<>>] = Opened(d)
  BY IdleOpened
<1>2. PushByte(d, b) =
        IF b = BOF THEN Opened(d)
        ELSE IF ~d.inFrame THEN d
        ELSE IF b = EOF THEN ProcessRaw(Idle(d), d.frame)
        ELSE IF Len(d.frame) >= MaxFrame THEN Yield(Idle(d), Error)
        ELSE [d EXCEPT !.frame = Append(@, b)]
  BY <1>1 DEF PushByte
<1>3. b \in InFrame => b # BOF /\ b # EOF
  BY DEF InFrame
<1>4. BOF # EOF
  BY DEF BOF, EOF
<1>5. Len(d.frame) \in Nat /\ MaxFrame \in Nat
  BY DecoderFields, FramingAssumption
<1>6. Len(d.frame) >= MaxFrame <=> ~(Len(d.frame) < MaxFrame)
  BY <1>5
<1>7. ASSUME b \in InFrame
      PROVE  [d EXCEPT !.frame = Append(@, b)]
               = Dec(d.inFrame, Append(d.frame, b), d.reassembly, d.out)
  <2> DEFINE f == Append(d.frame, b)
  <2>1. f \in Seq(InFrame)
    BY <1>7, DecoderFields
  <2> HIDE DEF f
  <2>2. [d EXCEPT !.frame = f] = Dec(d.inFrame, f, d.reassembly, d.out)
    BY <2>1, DecoderFields, SetFrame
  <2> QED BY <2>2 DEF f
<1> QED BY <1>2, <1>3, <1>4, <1>6, <1>7, Zenon

LEMMA PushByteOK ==
    ASSUME NEW d \in Decoders, NEW b \in Byte
    PROVE  /\ PushByte(d, b) \in Decoders
           /\ \A o \in Seq(Items) : PushByte(Led(o, d), b) = Led(o, PushByte(d, b))
<1>1. ASSUME NEW o \in Seq(Items)
      PROVE  /\ Led(o, d) \in Decoders
             /\ Led(o, d).inFrame = d.inFrame /\ Led(o, d).frame = d.frame
             /\ Led(o, d).reassembly = d.reassembly /\ Led(o, d).out = o \o d.out
             /\ Idle(Led(o, d)) = Led(o, Idle(d)) /\ Opened(Led(o, d)) = Led(o, Opened(d))
  BY LedIsDecoder, IdleOpened
<1>2. Idle(d) \in Decoders /\ Opened(d) \in Decoders /\ d.frame \in Seq(InFrame)
  BY IdleOpened, DecoderFields
<1>3. CASE b = BOF
  <2>1. PushByte(d, b) = Opened(d)
    BY <1>3, PushByteIs
  <2>2. \A o \in Seq(Items) : PushByte(Led(o, d), b) = Opened(Led(o, d))
    BY <1>1, <1>3, PushByteIs
  <2> QED BY <1>1, <1>2, <2>1, <2>2
<1>4. CASE b # BOF /\ ~d.inFrame
  <2>1. PushByte(d, b) = d
    BY <1>4, PushByteIs
  <2>2. \A o \in Seq(Items) : PushByte(Led(o, d), b) = Led(o, d)
    BY <1>1, <1>4, PushByteIs
  <2> QED BY <2>1, <2>2
<1>5. CASE b = EOF /\ d.inFrame
  <2>1. PushByte(d, b) = ProcessRaw(Idle(d), d.frame)
    BY <1>5, PushByteIs
  <2>2. \A o \in Seq(Items) : PushByte(Led(o, d), b) = ProcessRaw(Led(o, Idle(d)), d.frame)
    BY <1>1, <1>5, PushByteIs
  <2>3. /\ ProcessRaw(Idle(d), d.frame) \in Decoders
        /\ \A o \in Seq(Items) : ProcessRaw(Led(o, Idle(d)), d.frame)
                                   = Led(o, ProcessRaw(Idle(d), d.frame))
    BY <1>2, ProcessRawOK
  <2> QED BY <2>1, <2>2, <2>3
<1>6. CASE b \in InFrame /\ d.inFrame /\ Len(d.frame) < MaxFrame
  <2> DEFINE f == Append(d.frame, b)
  <2>1. PushByte(d, b) = Dec(d.inFrame, f, d.reassembly, d.out)
    BY <1>6, PushByteIs
  <2>2. \A o \in Seq(Items) : PushByte(Led(o, d), b)
                               = Dec(d.inFrame, f, d.reassembly, o \o d.out)
    <3> SUFFICES ASSUME NEW o \in Seq(Items)
                 PROVE  PushByte(Led(o, d), b) = Dec(d.inFrame, f, d.reassembly, o \o d.out)
      OBVIOUS
    <3> DEFINE e == Led(o, d)
    <3>1. /\ e \in Decoders /\ e.inFrame = d.inFrame /\ e.frame = d.frame
          /\ e.reassembly = d.reassembly /\ e.out = o \o d.out
      BY <1>1
    <3> HIDE DEF e
    <3>2. PushByte(e, b) = Dec(e.inFrame, Append(e.frame, b), e.reassembly, e.out)
      BY <1>6, <3>1, PushByteIs
    <3> QED BY <3>1, <3>2 DEF e
  <2>3. f \in Seq(InFrame) /\ Len(f) <= MaxFrame
    BY <1>2, <1>6, FramingAssumption
  <2> HIDE DEF f
  <2>4. Dec(d.inFrame, f, d.reassembly, d.out) \in Decoders
    BY <2>3, DecoderFields, DecIsDecoder
  <2>5. \A o : Led(o, Dec(d.inFrame, f, d.reassembly, d.out))
                 = Dec(d.inFrame, f, d.reassembly, o \o d.out)
    BY DEF Led, Dec
  <2> QED BY <2>1, <2>2, <2>4, <2>5
<1>7. CASE b \in InFrame /\ d.inFrame /\ ~(Len(d.frame) < MaxFrame)
  <2>1. PushByte(d, b) = Yield(Idle(d), Error)
    BY <1>7, PushByteIs
  <2>2. \A o \in Seq(Items) : PushByte(Led(o, d), b) = Yield(Led(o, Idle(d)), Error)
    BY <1>1, <1>7, PushByteIs
  <2>3. Error \in Items
    BY DEF Items, Plain, Error
  <2>4. /\ Yield(Idle(d), Error) \in Decoders
        /\ \A o \in Seq(Items) : Yield(Led(o, Idle(d)), Error) = Led(o, Yield(Idle(d), Error))
    BY <1>2, <2>3, YieldIs, YieldLed
  <2> QED BY <2>1, <2>2, <2>4
<1>8. b = BOF \/ b = EOF \/ b \in InFrame
  BY DEF InFrame
<1>9. d.inFrame \in BOOLEAN /\ BOF # EOF
  BY DecoderFields DEF BOF, EOF
<1> QED BY <1>3, <1>4, <1>5, <1>6, <1>7, <1>8, <1>9, Zenon

-------------------------------------------------------------------------------
(* What several bytes do to a decoder.                                     *)

LEMMA PushStepType == Steps(PushStep, Decoders, Byte)
<1>1. \A d \in Decoders, b \in Byte : PushByte(d, b) \in Decoders
  BY PushByteOK
<1> QED BY <1>1 DEF PushStep, Steps

LEMMA PushIsFold ==
    ASSUME NEW d \in Decoders, NEW s \in Seq(Byte)
    PROVE  Push(d, s) = Fold(PushStep, d, s)
<1> DEFINE Is(g) == g = [n \in 0..Len(s) |-> IF n = 0 THEN d ELSE PushByte(g[n - 1], s[n])]
           g == CHOOSE x : Is(x)
<1>1. Len(s) \in Nat /\ \A n \in 1..Len(s) : s[n] \in Byte
  OBVIOUS
<1>2. PICK f \in [0..Len(s) -> Decoders] : Stages(PushStep, d, s, f)
  BY PushStepType, StagesExist
<1>3. \A n \in 0..Len(s) : f[n] = IF n = 0 THEN d ELSE PushByte(f[n - 1], s[n])
  <2>1. \A n \in 1..Len(s) : f[n - 1] \in Decoders
    BY <1>1, <1>2
  <2>2. \A n \in 1..Len(s) : f[n] = PushStep[<<f[n - 1], s[n]>>]
    BY <1>2 DEF Stages
  <2>3. f[0] = d
    BY <1>2 DEF Stages
  <2>4. \A n \in 1..Len(s) : f[n] = PushByte(f[n - 1], s[n])
    BY <1>1, <2>1, <2>2 DEF PushStep
  <2>5. \A n \in 0..Len(s) : n = 0 \/ (n # 0 /\ n \in 1..Len(s))
    BY <1>1
  <2> QED BY <2>3, <2>4, <2>5, Zenon
<1>4. Is(f)
  BY <1>2, <1>3
<1>5. Is(g)
  <2> HIDE DEF Is
  <2> QED BY <1>4
<1>6. Push(d, s) = g[Len(s)]
  BY DEF Push
<1> HIDE DEF g
<1>7. g[0] = d /\ \A n \in 1..Len(s) : g[n] = PushByte(g[n - 1], s[n])
  <2>1. 0 \in 0..Len(s) /\ \A n \in 1..Len(s) : n \in 0..Len(s) /\ n # 0
    BY <1>1
  <2> QED BY <1>5, <2>1, Zenon
<1>8. \A n \in 1..Len(s) : g[n - 1] \in Decoders => g[n] = PushStep[<<g[n - 1], s[n]>>]
  BY <1>1, <1>7 DEF PushStep
<1>9. g[Len(s)] = Fold(PushStep, d, s)
  BY <1>7, <1>8, PushStepType, GoesAsFold
<1> QED BY <1>6, <1>9

LEMMA PushGrows ==
    ASSUME NEW d \in Decoders
    PROVE  /\ Push(d, <<>>) = d
           /\ \A s \in Seq(Byte) : Push(d, s) \in Decoders
           /\ \A b \in Byte : Push(d, <<b>>) = PushByte(d, b)
           /\ \A s \in Seq(Byte), b \in Byte : Push(d, Append(s, b)) = PushByte(Push(d, s), b)
           /\ \A s, t \in Seq(Byte) : Push(d, s \o t) = Push(Push(d, s), t)
<1>1. Push(d, <<>>) = d
  <2> DEFINE none == <<>>
  <2>1. none \in Seq(Byte)
    OBVIOUS
  <2> HIDE DEF none
  <2>2. Push(d, none) = Fold(PushStep, d, none)
    BY <2>1, PushIsFold
  <2>3. Fold(PushStep, d, <<>>) = d
    BY PushStepType, FoldEmpty
  <2> QED BY <2>2, <2>3 DEF none
<1>2. ASSUME NEW s \in Seq(Byte) PROVE Push(d, s) \in Decoders
  <2>1. Fold(PushStep, d, s) \in Decoders
    BY PushStepType, FoldIn
  <2> QED BY <2>1, PushIsFold
<1>3. ASSUME NEW s \in Seq(Byte), NEW b \in Byte
      PROVE  Push(d, Append(s, b)) = PushByte(Push(d, s), b)
  <2>1. Append(s, b) \in Seq(Byte)
    OBVIOUS
  <2>2. Push(d, s) = Fold(PushStep, d, s)
        /\ Push(d, Append(s, b)) = Fold(PushStep, d, Append(s, b))
    BY <2>1, PushIsFold
  <2>3. Fold(PushStep, d, Append(s, b)) = PushStep[<<Fold(PushStep, d, s), b>>]
    BY PushStepType, FoldAppend
  <2>4. \A e \in Decoders : PushStep[<<e, b>>] = PushByte(e, b)
    BY DEF PushStep
  <2> QED BY <1>2, <2>2, <2>3, <2>4
<1>4. ASSUME NEW b \in Byte PROVE Push(d, <<b>>) = PushByte(d, b)
  <2> DEFINE none == <<>>
  <2>1. none \in Seq(Byte) /\ Append(none, b) = <<b>>
    OBVIOUS
  <2>2. Push(d, none) = d
    BY <1>1
  <2> HIDE DEF none
  <2> QED BY <1>3, <2>1, <2>2
<1>5. ASSUME NEW s \in Seq(Byte), NEW t \in Seq(Byte)
      PROVE  Push(d, s \o t) = Push(Push(d, s), t)
  <2> DEFINE e == Push(d, s)
             both == s \o t
  <2>1. both \in Seq(Byte) /\ e \in Decoders
    BY <1>2
  <2>2. Fold(PushStep, d, s \o t) = Fold(PushStep, Fold(PushStep, d, s), t)
    BY PushStepType, FoldConcat
  <2>3. e = Fold(PushStep, d, s)
    BY PushIsFold
  <2> HIDE DEF e, both
  <2>4. Push(d, both) = Fold(PushStep, d, both) /\ Push(e, t) = Fold(PushStep, e, t)
    BY <2>1, PushIsFold
  <2> QED BY <2>2, <2>3, <2>4 DEF e, both
<1> QED BY <1>1, <1>2, <1>3, <1>4, <1>5

\* What has been decoded before does not matter.
LEMMA PushLed ==
    ASSUME NEW d \in Decoders, NEW o \in Seq(Items)
    PROVE  \A s \in Seq(Byte) : Push(Led(o, d), s) = Led(o, Push(d, s))
<1> DEFINE T == {s \in Seq(Byte) : Push(Led(o, d), s) = Led(o, Push(d, s))}
<1>1. Led(o, d) \in Decoders
  BY LedIsDecoder
<1>2. <<>> \in T
  <2>1. Push(Led(o, d), <<>>) = Led(o, d) /\ Push(d, <<>>) = d
    BY <1>1, PushGrows
  <2>2. <<>> \in Seq(Byte)
    OBVIOUS
  <2> QED BY <2>1, <2>2, Zenon
<1>3. ASSUME NEW s \in Seq(Byte), NEW b \in Byte, s \in T PROVE Append(s, b) \in T
  <2>1. Push(Led(o, d), s) = Led(o, Push(d, s)) /\ Append(s, b) \in Seq(Byte)
    BY <1>3
  <2>2. /\ Push(Led(o, d), Append(s, b)) = PushByte(Push(Led(o, d), s), b)
        /\ Push(d, Append(s, b)) = PushByte(Push(d, s), b)
        /\ Push(d, s) \in Decoders
    BY <1>1, PushGrows
  <2>3. PushByte(Led(o, Push(d, s)), b) = Led(o, PushByte(Push(d, s), b))
    BY <2>2, PushByteOK
  <2> QED BY <2>1, <2>2, <2>3
<1> HIDE DEF T
<1>4. Seq(Byte) \subseteq T
  BY <1>2, <1>3, SeqGrows
<1> QED BY <1>4 DEF T

\* A frame fills up with what is between its delimiters.
LEMMA PushFills ==
    ASSUME NEW d \in Decoders, d.inFrame, d.frame = <<>>
    PROVE  \A s \in Seq(InFrame) :
               Len(s) <= MaxFrame => Push(d, s) = Dec(TRUE, s, d.reassembly, d.out)
<1> DEFINE Filled(s) == Dec(TRUE, s, d.reassembly, d.out)
           T == {s \in Seq(InFrame) : Len(s) <= MaxFrame => Push(d, s) = Filled(s)}
<1>1. InFrame \subseteq Byte /\ Seq(InFrame) \subseteq Seq(Byte) /\ MaxFrame \in Nat
  BY FramingAssumption DEF InFrame
<1>2. /\ d.reassembly \in Seq(Byte) /\ Len(d.reassembly) <= MaxReassembly /\ d.out \in Seq(Items)
      /\ d = Dec(d.inFrame, d.frame, d.reassembly, d.out) /\ d.inFrame = TRUE
  BY DecoderFields
<1>3. <<>> \in T
  <2>1. Push(d, <<>>) = d
    BY PushGrows
  <2>2. <<>> \in Seq(InFrame)
    OBVIOUS
  <2>3. d = Dec(TRUE, <<>>, d.reassembly, d.out)
    BY <1>2
  <2> QED BY <2>1, <2>2, <2>3, Zenon
<1>4. ASSUME NEW s \in Seq(InFrame), NEW b \in InFrame, s \in T PROVE Append(s, b) \in T
  <2>1. Append(s, b) \in Seq(InFrame) /\ Len(Append(s, b)) = Len(s) + 1 /\ Len(s) \in Nat
    OBVIOUS
  <2> SUFFICES ASSUME Len(Append(s, b)) <= MaxFrame
               PROVE  Push(d, Append(s, b)) = Filled(Append(s, b))
    BY <2>1
  <2>2. Len(s) < MaxFrame /\ Len(s) <= MaxFrame
    BY <1>1, <2>1
  <2>3. Push(d, s) = Filled(s)
    BY <1>4, <2>2
  <2>4. Push(d, Append(s, b)) = PushByte(Push(d, s), b)
    BY <1>1, PushGrows
  <2>5. LET e == Filled(s)
        IN  /\ e \in Decoders /\ e.inFrame = TRUE /\ e.frame = s
            /\ e.reassembly = d.reassembly /\ e.out = d.out
    <3>1. ASSUME NEW i \in BOOLEAN
          PROVE  LET e == Dec(i, s, d.reassembly, d.out)
                 IN  /\ e \in Decoders /\ e.inFrame = i /\ e.frame = s
                     /\ e.reassembly = d.reassembly /\ e.out = d.out
      BY <1>2, <2>2, DecIsDecoder
    <3> QED BY <3>1
  <2> HIDE DEF Filled
  <2>6. PushByte(Filled(s), b) = Dec(Filled(s).inFrame, Append(Filled(s).frame, b),
                                     Filled(s).reassembly, Filled(s).out)
    BY <1>1, <2>2, <2>5, PushByteIs
  <2>7. PushByte(Filled(s), b) = Dec(TRUE, Append(s, b), d.reassembly, d.out)
    BY <2>5, <2>6
  <2> QED BY <2>3, <2>4, <2>7 DEF Filled
<1> HIDE DEF T
<1>5. Seq(InFrame) \subseteq T
  BY <1>3, <1>4, SeqGrows
<1> QED BY <1>5 DEF T

-------------------------------------------------------------------------------
(* A frame arrives.                                                        *)

LEMMA BodyConcat ==
    ASSUME NEW m \in Seq(Byte)
    PROVE  \A n \in Seq(Byte) : Body(m \o n) = Body(m) \o Body(n)
<1> DEFINE T == {n \in Seq(Byte) : Body(m \o n) = Body(m) \o Body(n)}
<1>1. <<>> \in T
  <2>1. m \o <<>> = m /\ Body(m) \o <<>> = Body(m) /\ <<>> \in Seq(Byte)
    BY BodyGrows
  <2>2. Body(<<>>) = <<>>
    BY BodyGrows
  <2> QED BY <2>1, <2>2, Zenon
<1>2. ASSUME NEW n \in Seq(Byte), NEW b \in Byte, n \in T PROVE Append(n, b) \in T
  <2>1. m \o n \in Seq(Byte) /\ Append(n, b) \in Seq(Byte) /\ m \o Append(n, b) = Append(m \o n, b)
    OBVIOUS
  <2>2. Body(m \o n) = Body(m) \o Body(n)
    BY <1>2
  <2>3. /\ Body(Append(m \o n, b)) = Body(m \o n) \o Escaped(b)
        /\ Body(Append(n, b)) = Body(n) \o Escaped(b)
    BY <2>1, BodyGrows
  <2>4. Body(m) \in Seq(Byte) /\ Body(n) \in Seq(Byte) /\ Escaped(b) \in Seq(Byte)
    BY BodyGrows, EscapedBytes
  <2>5. (Body(m) \o Body(n)) \o Escaped(b) = Body(m) \o (Body(n) \o Escaped(b))
    BY ONLY <2>4, ConcatAssociative
  <2> QED BY <2>1, <2>2, <2>3, <2>5
<1> HIDE DEF T
<1>3. Seq(Byte) \subseteq T
  BY <1>1, <1>2, SeqGrows
<1> QED BY <1>3 DEF T

\* The start of a frame, up to its end.
LEMMA BodyArrives ==
    ASSUME NEW d \in Decoders, NEW body \in Seq(InFrame), Len(body) <= MaxFrame
    PROVE  LET e == Dec(TRUE, body, d.reassembly, d.out)
           IN  /\ e \in Decoders /\ e.inFrame /\ e.frame = body
               /\ e.reassembly = d.reassembly /\ e.out = d.out
               /\ Idle(e) = Idle(d)
               /\ <<BOF>> \o body \in Seq(Byte)
               /\ Push(d, <<BOF>> \o body) = e
<1> DEFINE e == Dec(TRUE, body, d.reassembly, d.out)
<1>1. d.reassembly \in Seq(Byte) /\ Len(d.reassembly) <= MaxReassembly /\ d.out \in Seq(Items)
  BY DecoderFields
<1>2. ASSUME NEW i \in BOOLEAN
      PROVE  LET h == Dec(i, body, d.reassembly, d.out)
             IN  /\ h \in Decoders /\ h.inFrame = i /\ h.frame = body
                 /\ h.reassembly = d.reassembly /\ h.out = d.out
  BY <1>1, DecIsDecoder
<1>3. /\ e \in Decoders /\ e.inFrame /\ e.frame = body
      /\ e.reassembly = d.reassembly /\ e.out = d.out
  BY <1>2
<1>4. body \in Seq(Byte) /\ BOF \in Byte
  BY DEF InFrame, Byte, BOF
<1> HIDE DEF e
<1>5. Idle(e) = Idle(d)
  BY <1>3 DEF Idle
<1>6. Push(d, <<BOF>> \o body) = e
  <2> DEFINE start == <<BOF>>
  <2>1. start \in Seq(Byte)
    BY <1>4
  <2>2. Push(d, start) = Opened(d)
    BY <1>4, PushGrows, PushByteIs
  <2>3. Push(d, start \o body) = Push(Push(d, start), body)
    BY <1>4, <2>1, PushGrows
  <2>4. /\ Opened(d) \in Decoders /\ Opened(d).inFrame /\ Opened(d).frame = <<>>
        /\ Opened(d).reassembly = d.reassembly /\ Opened(d).out = d.out
    BY IdleOpened
  <2>5. Push(Opened(d), body) = Dec(TRUE, body, Opened(d).reassembly, Opened(d).out)
    BY <2>4, PushFills
  <2> QED BY <2>2, <2>3, <2>4, <2>5 DEF e
<1>7. <<BOF>> \o body \in Seq(Byte)
  BY <1>4
<1> QED BY <1>3, <1>5, <1>6, <1>7 DEF e

\* A whole frame of a body that fits.
LEMMA RawArrives ==
    ASSUME NEW d \in Decoders, NEW full \in Seq(Byte), Len(Body(full)) <= MaxFrame
    PROVE  /\ <<BOF>> \o Body(full) \o <<EOF>> \in Seq(Byte)
           /\ Push(d, <<BOF>> \o Body(full) \o <<EOF>>) = ProcessRaw(Idle(d), Body(full))
<1> DEFINE body == Body(full)
           start == <<BOF>> \o body
           e == Dec(TRUE, body, d.reassembly, d.out)
<1>1. body \in Seq(InFrame)
  BY BodyFits
<1> HIDE DEF body
<1>2. /\ e \in Decoders /\ e.inFrame /\ e.frame = body /\ Idle(e) = Idle(d)
      /\ start \in Seq(Byte) /\ Push(d, start) = e
  BY <1>1, BodyArrives DEF body
<1> HIDE DEF e, start
<1>3. EOF \in Byte /\ start \o <<EOF>> = Append(start, EOF) /\ start \o <<EOF>> \in Seq(Byte)
  <2>1. EOF \in Byte
    BY DEF EOF, Byte
  <2> QED BY <1>2, <2>1
<1>4. Push(d, Append(start, EOF)) = PushByte(e, EOF)
  BY <1>2, <1>3, PushGrows
<1>5. PushByte(e, EOF) = ProcessRaw(Idle(e), e.frame)
  BY <1>2, <1>3, PushByteIs
<1> QED BY <1>2, <1>3, <1>4, <1>5 DEF start, body

\* A frame whose body fits is taken for the message it was made of.
LEMMA FrameArrives ==
    ASSUME NEW d \in Decoders, NEW m \in Seq(Byte),
           Len(Body(Append(m, Crc(m)))) <= MaxFrame
    PROVE  /\ FrameMessage(m) \in Seq(Byte)
           /\ Push(d, FrameMessage(m)) = ParseMessage(Idle(d), m)
<1> DEFINE full == Append(m, Crc(m))
<1>1. Crc(m) \in Byte
  BY CrcGrows
<1>2. full \in Seq(Byte) /\ full # <<>> /\ Front(full) = m /\ Last(full) = Crc(m)
  BY <1>1 DEF Front, Last
<1>3. FrameMessage(m) = <<BOF>> \o Body(full) \o <<EOF>>
  BY DEF FrameMessage
<1> HIDE DEF full
<1>4. /\ FrameMessage(m) \in Seq(Byte)
      /\ Push(d, FrameMessage(m)) = ProcessRaw(Idle(d), Body(full))
  BY <1>2, <1>3, RawArrives DEF full
<1>5. Unescape(Body(full)) = [bytes |-> full, dangling |-> FALSE]
  BY <1>2, UnescapeUndoes
<1>6. ProcessRaw(Idle(d), Body(full)) = ParseMessage(Idle(d), m)
  BY <1>2, <1>5 DEF ProcessRaw
<1> QED BY <1>4, <1>6

-------------------------------------------------------------------------------
(* Packages.                                                               *)

Flags == {0, LAST, FIRST, FIRST + LAST}

LEMMA FlagsAre ==
    \A f \in Flags : f \in Byte /\ f < INVALID /\ ~Set(f, EMPTY)
  BY DEF Flags, LAST, FIRST, EMPTY, Byte, INVALID, Set

Pieces(payload) ==
    IF payload = <<>> THEN 1 ELSE (Len(payload) + MaxPackage - 1) \div MaxPackage

\* How much of a payload its first i packages hold.
EndOf(payload, i) == IF i = Pieces(payload) THEN Len(payload) ELSE i * MaxPackage

LEMMA PiecesAre ==
    ASSUME NEW B, NEW payload \in Seq(B)
    PROVE  /\ Pieces(payload) \in Nat \ {0}
           /\ \A i \in 1..Pieces(payload) :
                /\ (i - 1) * MaxPackage \in 0..Len(payload)
                /\ EndOf(payload, i) \in Nat
                /\ (i - 1) * MaxPackage <= EndOf(payload, i)
                /\ EndOf(payload, i) <= Len(payload)
                /\ EndOf(payload, i) - (i - 1) * MaxPackage <= MaxPackage
<1> DEFINE L == Len(payload)
           M == MaxPackage
           n == Pieces(payload)
<1>1. L \in Nat /\ M \in Nat \ {0} /\ (payload = <<>> <=> L = 0)
  BY FramingAssumption
<1>2. n \in Nat \ {0} /\ (n - 1) * M <= L /\ L <= n * M
  <2>1. CASE payload = <<>>
    <3>1. n = 1
      BY <2>1 DEF Pieces
    <3> HIDE DEF n
    <3> QED BY <1>1, <2>1, <3>1
  <2>2. CASE payload # <<>>
    <3>1. n = (L + M - 1) \div M
      BY <2>2 DEF Pieces
    <3>2. L \in Nat \ {0}
      BY <1>1, <2>2
    <3> HIDE DEF n, L, M
    <3>3. n \in Nat /\ n >= 1 /\ (n - 1) * M < L /\ L <= n * M
      BY <1>1, <3>1, <3>2
    <3>4. (n - 1) * M \in Nat
      BY <1>1, <3>3
    <3> QED BY <1>1, <3>2, <3>3, <3>4
  <2> QED BY <2>1, <2>2
<1>3. ASSUME NEW i \in 1..n
      PROVE  /\ (i - 1) * M \in 0..L
             /\ EndOf(payload, i) \in Nat
             /\ (i - 1) * M <= EndOf(payload, i)
             /\ EndOf(payload, i) <= L
             /\ EndOf(payload, i) - (i - 1) * M <= M
  <2>1. EndOf(payload, i) = IF i = n THEN L ELSE i * M
    BY DEF EndOf
  <2> HIDE DEF n, L, M
  <2>2. i \in Nat /\ i - 1 \in Nat /\ i <= n /\ n - 1 \in Nat
    BY <1>2
  <2>3. (i - 1) * M \in Nat /\ i * M \in Nat /\ i * M = (i - 1) * M + M /\ n * M = (n - 1) * M + M
    BY <1>1, <1>2, <2>2
  <2>4. \A a, b, c \in Nat : a <= b => a * c <= b * c
    OBVIOUS
  <2>5. (i - 1) * M <= (n - 1) * M /\ (n - 1) * M \in Nat
    <3> DEFINE a == i - 1
               b == n - 1
    <3>1. a \in Nat /\ b \in Nat /\ a <= b /\ M \in Nat
      BY <1>1, <1>2, <2>2
    <3> HIDE DEF a, b
    <3>2. a * M <= b * M /\ b * M \in Nat
      BY <2>4, <3>1
    <3> QED BY <3>2 DEF a, b
  <2>6. CASE i = n
    BY <1>1, <1>2, <2>1, <2>3, <2>5, <2>6
  <2>7. CASE i # n
    <3>1. i <= n - 1
      BY <1>2, <2>2, <2>7
    <3>2. i * M <= (n - 1) * M
      BY <1>1, <2>2, <2>4, <3>1
    <3> QED BY <1>1, <1>2, <2>1, <2>3, <2>5, <2>7, <3>2
  <2> QED BY <2>6, <2>7
<1> QED BY <1>2, <1>3 DEF L, M, n

\* A package: its flags, and the next bytes of its payload.
LEMMA PackagesAre ==
    ASSUME NEW payload \in Seq(0..255)
    PROVE  LET P == Packages(payload)
               n == Pieces(payload)
           IN  /\ P \in Seq(Seq(Byte)) /\ Len(P) = n
               /\ \A i \in 1..n : \E f \in Flags, c \in Seq(Byte) :
                    /\ P[i] = <<Ember, f>> \o c
                    /\ Len(c) <= MaxPackage
                    /\ Set(f, FIRST) <=> i = 1
                    /\ Set(f, LAST) <=> i = n
                    /\ SubSeq(payload, 1, (i - 1) * MaxPackage) \o c
                         = SubSeq(payload, 1, EndOf(payload, i))
<1> DEFINE n == Pieces(payload)
           F(i) == (IF i = 1 THEN FIRST ELSE 0) + (IF i = n THEN LAST ELSE 0)
           C(i) == SubSeq(payload, (i - 1) * MaxPackage + 1, EndOf(payload, i))
<1>1. n \in Nat \ {0}
  BY PiecesAre
<1>2. Packages(payload) = [i \in 1..n |-> <<Ember, F(i)>> \o C(i)]
  BY DEF Packages, Pieces, EndOf
<1>3. ASSUME NEW i \in 1..n
      PROVE  /\ F(i) \in Flags /\ C(i) \in Seq(Byte)
             /\ Len(C(i)) <= MaxPackage
             /\ Set(F(i), FIRST) <=> i = 1
             /\ Set(F(i), LAST) <=> i = n
             /\ SubSeq(payload, 1, (i - 1) * MaxPackage) \o C(i)
                  = SubSeq(payload, 1, EndOf(payload, i))
             /\ <<Ember, F(i)>> \o C(i) \in Seq(Byte)
  <2>1. /\ F(i) \in Flags
        /\ Set(F(i), FIRST) <=> i = 1
        /\ Set(F(i), LAST) <=> i = n
    <3> HIDE DEF n
    <3> QED BY DEF Flags, Set, FIRST, LAST
  <2> DEFINE j == (i - 1) * MaxPackage
             k == EndOf(payload, i)
  <2>2. j \in 0..Len(payload) /\ k \in Nat /\ j <= k /\ k <= Len(payload) /\ k - j <= MaxPackage
    BY PiecesAre
  <2> HIDE DEF j, k, n, F
  <2>3. payload \in Seq(Byte)
    <3>1. 0..255 \subseteq Byte
      BY DEF Byte
    <3> QED BY <3>1, SeqMonotonic
  <2>4. j \in Nat /\ j + 1 \in 1..(Len(payload) + 1) /\ k \in j..Len(payload)
    BY <2>2
  <2>5. SubSeq(payload, j + 1, k) \in Seq(Byte) /\ Len(SubSeq(payload, j + 1, k)) = k - j
    BY ONLY <2>3, <2>4
  <2>6. SubSeq(payload, 1, j) \o SubSeq(payload, j + 1, k) = SubSeq(payload, 1, k)
    <3>1. 1 \in 1..(Len(payload) + 1) /\ j \in (1 - 1)..Len(payload) /\ k \in j..Len(payload)
      BY <2>2
    <3> QED BY <3>1, ConcatAdjacentSubSeq
  <2>7. F(i) \in Byte /\ Ember \in Byte
    <3>1. Ember \in Byte
      BY DEF Ember, Byte
    <3> QED BY <2>1, <3>1, FlagsAre
  <2>8. <<Ember, F(i)>> \o SubSeq(payload, j + 1, k) \in Seq(Byte)
    BY <2>5, <2>7
  <2> QED BY <2>1, <2>2, <2>5, <2>6, <2>8 DEF j, k
<1> HIDE DEF n, F, C
<1>4. Packages(payload) \in Seq(Seq(Byte)) /\ Len(Packages(payload)) = n
  <2>1. \A i \in 1..n : <<Ember, F(i)>> \o C(i) \in Seq(Byte)
    BY <1>3
  <2> QED BY <1>1, <1>2, <2>1
<1>5. \A i \in 1..n : \E f \in Flags, c \in Seq(Byte) :
          /\ Packages(payload)[i] = <<Ember, f>> \o c
          /\ Len(c) <= MaxPackage
          /\ Set(f, FIRST) <=> i = 1
          /\ Set(f, LAST) <=> i = n
          /\ SubSeq(payload, 1, (i - 1) * MaxPackage) \o c = SubSeq(payload, 1, EndOf(payload, i))
  <2>1. \A i \in 1..n : Packages(payload)[i] = <<Ember, F(i)>> \o C(i)
    BY <1>2
  <2> QED BY <1>3, <2>1
<1> QED BY <1>4, <1>5 DEF n

LEMMA OneAndTwo ==
    ASSUME NEW S, NEW x \in S, NEW y \in S
    PROVE  /\ <<>> \in Seq(S) /\ <<x>> \in Seq(S) /\ <<x, y>> \in Seq(S)
           /\ Append(<<>>, x) = <<x>>
           /\ Append(<<x>>, y) = <<x, y>>
<1>1. <<>> \in Seq(S) /\ <<x>> \in Seq(S) /\ <<x, y>> \in Seq(S) /\ Append(<<>>, x) = <<x>>
  OBVIOUS
<1> DEFINE s == Append(<<x>>, y)
           t == <<x, y>>
<1>2. s \in Seq(S) /\ t \in Seq(S) /\ Len(s) = 2 /\ Len(t) = 2
  OBVIOUS
<1>3. s[1] = t[1] /\ s[2] = t[2] /\ \A i \in 1..2 : i = 1 \/ i = 2
  OBVIOUS
<1> HIDE DEF s, t
<1>4. s = t
  BY <1>2, <1>3, SeqEqual
<1> QED BY <1>1, <1>4 DEF s, t

LEMMA BodyOfTwo ==
    ASSUME NEW a \in Byte, NEW b \in Byte, a < INVALID, b < INVALID
    PROVE  Body(<<a, b>>) = <<a, b>>
<1> DEFINE none == <<>>
<1>1. /\ none \in Seq(Byte) /\ Append(none, a) = <<a>> /\ <<a>> \in Seq(Byte)
      /\ Append(<<a>>, b) = <<a, b>>
  BY OneAndTwo
<1>2. Body(none) = <<>>
  BY BodyGrows
<1>3. Escaped(a) = <<a>> /\ Escaped(b) = <<b>>
  BY DEF Escaped, Byte, INVALID
<1> HIDE DEF none
<1>4. Body(Append(none, a)) = <<>> \o <<a>>
  BY <1>1, <1>2, <1>3, BodyGrows
<1>5. Body(Append(<<a>>, b)) = Body(<<a>>) \o <<b>>
  BY <1>1, <1>3, BodyGrows
<1>6. <<>> \o <<a>> = <<a>> /\ <<a>> \o <<b>> = Append(<<a>>, b)
  OBVIOUS
<1> QED BY <1>1, <1>4, <1>5, <1>6

-------------------------------------------------------------------------------
(* What arrives of what a device writes.                                   *)

\* The body of a package and its CRC.
LEMMA BodyOfPackage ==
    ASSUME NEW a \in {0, 1}, NEW f \in Flags, NEW c \in Seq(Byte), NEW x \in Byte,
           Len(c) <= MaxPackage
    PROVE  LET full == Append(<<a, f>> \o c, x)
               rest == Body(Append(c, x))
           IN  /\ <<a, f>> \in Seq(Byte) /\ <<a, f>> \o c \in Seq(Byte) /\ full \in Seq(Byte)
               /\ rest \in Seq(InFrame) /\ rest \in Seq(Byte)
               /\ Body(full) = <<a, f>> \o rest
               /\ Len(Body(full)) <= MaxFrame
<1> DEFINE full == Append(<<a, f>> \o c, x)
           more == Append(c, x)
           rest == Body(more)
           two == <<a, f>>
<1>1. a \in Byte /\ f \in Byte /\ a < INVALID /\ f < INVALID
  <2>1. a \in Byte /\ a < INVALID
    BY DEF Byte, INVALID
  <2> QED BY <2>1, FlagsAre
<1>2. two \in Seq(Byte) /\ Len(two) = 2
  BY <1>1
<1>3. Body(two) = two
  BY <1>1, BodyOfTwo
<1>4. more \in Seq(Byte) /\ Len(more) = Len(c) + 1 /\ Len(c) \in Nat
  OBVIOUS
<1>5. two \o c \in Seq(Byte) /\ full \in Seq(Byte)
  BY <1>2
<1>6. full = two \o more
  BY <1>2
<1> HIDE DEF two, full, more
<1>7. rest \in Seq(InFrame) /\ rest \in Seq(Byte) /\ Len(rest) <= 2 * (Len(c) + 1)
  BY <1>4, BodyFits, BodyGrows
<1>8. Body(two \o more) = two \o rest
  BY <1>2, <1>3, <1>4, BodyConcat
<1>9. Len(two \o rest) <= MaxFrame
  <2> HIDE DEF rest
  <2>1. Len(two \o rest) = 2 + Len(rest) /\ Len(rest) \in Nat
    <3>1. rest \in Seq(Byte)
      BY <1>7
    <3>2. Len(two \o rest) = Len(two) + Len(rest)
      BY <1>2, <3>1, ConcatProperties
    <3>3. Len(rest) \in Nat
      BY <3>1
    <3> QED BY <1>2, <3>2, <3>3
  <2>2. MaxPackage \in Nat /\ MaxFrame \in Nat /\ MaxFrame >= 2 * MaxPackage + 4
    BY FramingAssumption, FrameAssumption
  <2> QED BY <1>4, <1>7, <2>1, <2>2
<1> QED BY <1>2, <1>5, <1>6, <1>7, <1>8, <1>9 DEF two, full, more

\* A whole package joins the run.
LEMMA PackageArrives ==
    ASSUME NEW d \in Decoders, NEW f \in Flags, NEW c \in Seq(Byte), Len(c) <= MaxPackage
    PROVE  LET m == <<Ember, f>> \o c
           IN  /\ FrameMessage(m) \in Seq(Byte)
               /\ Push(d, FrameMessage(m)) = ParseEmber(Idle(d), f, c)
<1> DEFINE m == <<Ember, f>> \o c
           x == Crc(m)
<1>1. <<Ember, f>> \in Seq(Byte) /\ m \in Seq(Byte)
  <2>1. Ember \in Byte /\ f \in Byte
    <3>1. Ember \in Byte
      BY DEF Ember, Byte
    <3> QED BY <3>1, FlagsAre
  <2> QED BY <2>1
<1>2. Head(m) = Ember /\ m # <<>> /\ Len(m) = 2 + Len(c) /\ m[2] = f /\ SubSeq(m, 3, Len(m)) = c
  <2> DEFINE s == SubSeq(m, 3, Len(m))
  <2>1. Len(<<Ember, f>>) = 2 /\ <<Ember, f>>[1] = Ember /\ <<Ember, f>>[2] = f
    OBVIOUS
  <2>2. Len(m) = 2 + Len(c) /\ m[1] = Ember /\ m[2] = f /\ Len(c) \in Nat
    BY <1>1, <2>1
  <2>3. \A i \in 1..Len(c) : m[i + 2] = c[i]
    BY <1>1, <2>1, <2>2
  <2> HIDE DEF m
  <2>4. s \in Seq(Byte) /\ Len(s) = Len(c) /\ \A i \in 1..Len(c) : s[i] = m[i + 2]
    BY <1>1, <2>2
  <2>5. s = c
    <3> HIDE DEF s
    <3> QED BY <2>3, <2>4, SeqEqual
  <2>6. Head(m) = m[1] /\ m # <<>>
    BY <1>1, <2>2
  <2> QED BY <2>2, <2>5, <2>6
<1>3. x \in Byte
  BY <1>1, CrcGrows
<1>4. Len(Body(Append(m, x))) <= MaxFrame
  <2> HIDE DEF x
  <2>1. \A a \in {0, 1} : Len(Body(Append(<<a, f>> \o c, x))) <= MaxFrame
    BY <1>3, BodyOfPackage
  <2> QED BY <2>1 DEF Ember
<1> HIDE DEF m
<1>5. FrameMessage(m) \in Seq(Byte) /\ Push(d, FrameMessage(m)) = ParseMessage(Idle(d), m)
  BY <1>1, <1>4, FrameArrives
<1>6. ParseMessage(Idle(d), m) = ParseEmber(Idle(d), f, c)
  <2>1. Len(c) \in Nat
    OBVIOUS
  <2>2. ~(Len(m) < 2)
    BY <1>2, <2>1
  <2>3. /\ Ember # KeepAliveRequest /\ Ember # KeepAliveResponse /\ Ember # ProviderState
        /\ Ember \in Command
    BY DEF Command, Ember, KeepAliveRequest, KeepAliveResponse, ProviderState
  <2> QED BY <1>2, <2>2, <2>3 DEF ParseMessage
<1> QED BY <1>5, <1>6 DEF m

\* What is dropped for sure: all but keep-alives and payloads that mean something,
\* except that a payload nobody sent may be taken to mean something.
Silent(item) ==
    \/ item = Error
    \/ item = Item("ProviderState")
    \/ \E p \in Payload : item = Document(p) /\ ~Means(p)

\* The other messages.
LEMMA OtherArrives ==
    ASSUME NEW d \in Decoders, NEW m \in Others
    PROVE  /\ FrameMessage(m) \in Seq(Byte)
           /\ \E x \in Items :
                /\ Push(d, FrameMessage(m)) = Yield(Idle(d), x)
                /\ \/ /\ Expected(m) = <<x>>
                      /\ x \in {Item("KeepAliveRequest"), Item("KeepAliveResponse")}
                   \/ Expected(m) = <<>> /\ Silent(x)
<1>1. m = <<>> \/ \E b \in {0, 1, 2, 3, 9} : m = <<b>>
  BY DEF Others, KeepAliveRequest, KeepAliveResponse, ProviderState, Ember
<1>2. m \in Seq(Byte) /\ Len(m) <= 1
  <2>1. \A b \in {0, 1, 2, 3, 9} : b \in Byte
    BY DEF Byte
  <2>2. CASE m = <<>>
    <3>1. <<>> \in Seq(Byte) /\ Len(<<>>) <= 1
      OBVIOUS
    <3> QED BY <2>2, <3>1, Zenon
  <2>3. CASE m # <<>>
    <3>1. PICK b \in {0, 1, 2, 3, 9} : m = <<b>>
      BY <1>1, <2>3
    <3>2. b \in Byte
      BY <2>1
    <3> QED BY <3>1, <3>2
  <2> QED BY <2>2, <2>3
<1>3. Len(Body(Append(m, Crc(m)))) <= MaxFrame
  <2> DEFINE full == Append(m, Crc(m))
  <2>1. Crc(m) \in Byte
    BY <1>2, CrcGrows
  <2>2. full \in Seq(Byte) /\ Len(full) <= 2 /\ Len(full) \in Nat
    BY <1>2, <2>1
  <2> HIDE DEF full
  <2>3. Body(full) \in Seq(InFrame) /\ Len(Body(full)) <= 2 * Len(full)
    BY <2>2, BodyFits
  <2>4. Len(Body(full)) \in Nat
    BY <2>3
  <2>5. MaxFrame \in Nat /\ MaxFrame >= 4
    BY FramingAssumption, FrameAssumption
  <2> QED BY <2>2, <2>3, <2>4, <2>5 DEF full
<1>4. FrameMessage(m) \in Seq(Byte) /\ Push(d, FrameMessage(m)) = ParseMessage(Idle(d), m)
  BY <1>2, <1>3, FrameArrives
<1>5. /\ Error \in Items /\ Item("KeepAliveRequest") \in Items
      /\ Item("KeepAliveResponse") \in Items /\ Item("ProviderState") \in Items
  <2>1. \A x \in Plain : x \in Items
    BY DEF Items
  <2> QED BY <2>1 DEF Plain, Error, Item
<1>6. \E x \in Items :
          /\ ParseMessage(Idle(d), m) = Yield(Idle(d), x)
          /\ \/ /\ Expected(m) = <<x>>
                /\ x \in {Item("KeepAliveRequest"), Item("KeepAliveResponse")}
             \/ Expected(m) = <<>> /\ Silent(x)
  <2>1. \A b : <<b>> # <<>> /\ Head(<<b>>) = b /\ Len(<<b>>) = 1
    OBVIOUS
  <2>2. CASE m = <<KeepAliveRequest>>
    <3>1. Expected(m) = <<Item("KeepAliveRequest")>>
      BY <2>2 DEF Expected, KeepAliveRequest, KeepAliveResponse
    <3>2. ParseMessage(Idle(d), m) = Yield(Idle(d), Item("KeepAliveRequest"))
      <4>1. m # <<>> /\ Head(m) = KeepAliveRequest
        BY <2>1, <2>2
      <4> QED BY <4>1 DEF ParseMessage, Command, Ember, KeepAliveRequest, KeepAliveResponse,
                           ProviderState
    <3> QED BY <1>5, <3>1, <3>2
  <2>3. CASE m = <<KeepAliveResponse>>
    <3>1. Expected(m) = <<Item("KeepAliveResponse")>>
      BY <2>3 DEF Expected, KeepAliveRequest, KeepAliveResponse
    <3>2. ParseMessage(Idle(d), m) = Yield(Idle(d), Item("KeepAliveResponse"))
      <4>1. m # <<>> /\ Head(m) = KeepAliveResponse
        BY <2>1, <2>3
      <4> QED BY <4>1 DEF ParseMessage, Command, Ember, KeepAliveRequest, KeepAliveResponse,
                           ProviderState
    <3> QED BY <1>5, <3>1, <3>2
  <2>4. CASE m = <<ProviderState>>
    <3>1. Expected(m) = <<>>
      BY <2>4 DEF Expected, KeepAliveRequest, KeepAliveResponse, ProviderState
    <3>2. ParseMessage(Idle(d), m) = Yield(Idle(d), Item("ProviderState"))
      <4>1. m # <<>> /\ Head(m) = ProviderState
        BY <2>1, <2>4
      <4> QED BY <4>1 DEF ParseMessage, Command, Ember, KeepAliveRequest, KeepAliveResponse,
                           ProviderState
    <3> QED BY <1>5, <3>1, <3>2 DEF Silent
  <2>5. CASE m = <<>> \/ m = <<9>> \/ m = <<Ember>>
    <3>1. Expected(m) = <<>>
      <4>1. m # <<KeepAliveRequest>> /\ m # <<KeepAliveResponse>>
        BY <2>5 DEF KeepAliveRequest, KeepAliveResponse, Ember
      <4> QED BY <4>1 DEF Expected
    <3>2. ParseMessage(Idle(d), m) = Yield(Idle(d), Error)
      <4>1. CASE m = <<>>
        BY <4>1 DEF ParseMessage
      <4>2. CASE m = <<9>>
        <5>1. Head(m) \notin Command
          BY <2>1, <4>2 DEF Command, Ember, KeepAliveRequest, KeepAliveResponse, ProviderState
        <5> QED BY <5>1 DEF ParseMessage
      <4>3. CASE m = <<Ember>>
        <5>1. m # <<>> /\ Head(m) = Ember /\ Len(m) < 2
          BY <2>1, <4>3
        <5>2. /\ Ember # KeepAliveRequest /\ Ember # KeepAliveResponse /\ Ember # ProviderState
              /\ Ember \in Command
          BY DEF Command, Ember, KeepAliveRequest, KeepAliveResponse, ProviderState
        <5> QED BY <5>1, <5>2 DEF ParseMessage
      <4> QED BY <2>5, <4>1, <4>2, <4>3
    <3> QED BY <1>5, <3>1, <3>2 DEF Silent
  <2> QED BY <2>2, <2>3, <2>4, <2>5 DEF Others
<1> QED BY <1>4, <1>6

\* Adding a byte keeps two sums apart.
LEMMA SumsDiffer ==
    \A x, y, z \in Byte : x # y => (x + z) % 256 # (y + z) % 256
<1>1. \A x, y \in Byte : (x + y) % 256 = IF x + y < 256 THEN x + y ELSE x + y - 256
  <2>1. \A i \in 0..511 : i % 256 = IF i < 256 THEN i ELSE i - 256
    OBVIOUS
  <2> SUFFICES ASSUME NEW x \in Byte, NEW y \in Byte
               PROVE  (x + y) % 256 = IF x + y < 256 THEN x + y ELSE x + y - 256
    OBVIOUS
  <2>2. \A s : s = x + y => s % 256 = IF s < 256 THEN s ELSE s - 256
    <3> SUFFICES ASSUME NEW s, s = x + y
                 PROVE  s % 256 = IF s < 256 THEN s ELSE s - 256
      OBVIOUS
    <3>1. s \in 0..511
      BY DEF Byte
    <3> QED BY <2>1, <3>1
  <2>3. x \in Nat /\ y \in Nat
    BY DEF Byte
  <2> QED BY ONLY <2>2, <2>3
<1>2. \A x, y, z \in Byte : x # y => (x + z) % 256 # (y + z) % 256
  <2> SUFFICES ASSUME NEW x \in Byte, NEW y \in Byte, NEW z \in Byte, x # y
               PROVE  (x + z) % 256 # (y + z) % 256
    OBVIOUS
  <2> DEFINE p == (x + z) % 256
             q == (y + z) % 256
             i == IF x + z < 256 THEN x + z ELSE x + z - 256
             j == IF y + z < 256 THEN y + z ELSE y + z - 256
  <2>1. p = i /\ q = j
    BY <1>1
  <2>2. i # j
    <3>1. x \in 0..255 /\ y \in 0..255 /\ z \in 0..255
      BY DEF Byte
    <3>2. CASE x + z < 256 /\ y + z < 256
      BY <3>1, <3>2
    <3>3. CASE ~(x + z < 256) /\ ~(y + z < 256)
      BY <3>1, <3>3
    <3>4. CASE x + z < 256 /\ ~(y + z < 256)
      BY <3>1, <3>4
    <3>5. CASE ~(x + z < 256) /\ y + z < 256
      BY <3>1, <3>5
    <3> QED BY <3>2, <3>3, <3>4, <3>5
  <2> HIDE DEF p, q, i, j
  <2>3. p # q
    BY <2>1, <2>2
  <2> QED BY <2>3 DEF p, q
<1> QED BY <1>2

\* A sum that has come out wrong stays wrong.
LEMMA CrcDiffers ==
    ASSUME NEW m \in Seq(Byte), NEW n \in Seq(Byte), Crc(m) # Crc(n)
    PROVE  \A c \in Seq(Byte) : Crc(m \o c) # Crc(n \o c)
<1> DEFINE T == {c \in Seq(Byte) : Crc(m \o c) # Crc(n \o c)}
<1>1. <<>> \in T
  <2>1. m \o <<>> = m /\ n \o <<>> = n /\ <<>> \in Seq(Byte)
    OBVIOUS
  <2> QED BY <2>1, Zenon
<1>2. ASSUME NEW c \in Seq(Byte), NEW b \in Byte, c \in T PROVE Append(c, b) \in T
  <2>1. /\ m \o c \in Seq(Byte) /\ n \o c \in Seq(Byte) /\ Append(c, b) \in Seq(Byte)
        /\ m \o Append(c, b) = Append(m \o c, b) /\ n \o Append(c, b) = Append(n \o c, b)
    <3>1. m \o c \in Seq(Byte) /\ m \o Append(c, b) = Append(m \o c, b)
      OBVIOUS
    <3>2. n \o c \in Seq(Byte) /\ n \o Append(c, b) = Append(n \o c, b)
      OBVIOUS
    <3> QED BY <3>1, <3>2
  <2>2. Crc(m \o c) \in Byte /\ Crc(n \o c) \in Byte /\ Crc(m \o c) # Crc(n \o c)
    BY <1>2, <2>1, CrcGrows
  <2>3. /\ Crc(Append(m \o c, b)) = (Crc(m \o c) + b) % 256
        /\ Crc(Append(n \o c, b)) = (Crc(n \o c) + b) % 256
    <3>1. ASSUME NEW s \in Seq(Byte) PROVE Crc(Append(s, b)) = (Crc(s) + b) % 256
      BY CrcGrows
    <3> QED BY <2>1, <3>1, Zenon
  <2>4. (Crc(m \o c) + b) % 256 # (Crc(n \o c) + b) % 256
    BY <2>2, SumsDiffer
  <2> QED BY <2>1, <2>3, <2>4
<1> HIDE DEF T
<1>3. Seq(Byte) \subseteq T
  BY <1>1, <1>2, SeqGrows
<1> QED BY <1>3 DEF T

LEMMA CrcOfTwo ==
    ASSUME NEW f \in Flags
    PROVE  Crc(<<0, f>>) # Crc(<<1, f>>)
<1>1. 0 \in Byte /\ 1 \in Byte /\ f \in Byte
  <2>1. 0 \in Byte /\ 1 \in Byte
    BY DEF Byte
  <2> QED BY <2>1, FlagsAre
<1>2. Crc(<<>>) = 7
  BY CrcGrows
<1>3. ASSUME NEW a \in Byte PROVE Crc(<<a, f>>) = (((7 + a) % 256) + f) % 256
  <2>1. /\ <<>> \in Seq(Byte) /\ <<a>> \in Seq(Byte)
        /\ Append(<<>>, a) = <<a>> /\ Append(<<a>>, f) = <<a, f>>
    BY <1>1, OneAndTwo
  <2> DEFINE none == <<>>
             one == <<a>>
  <2>2. none \in Seq(Byte) /\ one \in Seq(Byte)
    BY <2>1
  <2> HIDE DEF none, one
  <2>3. Crc(Append(none, a)) = (Crc(none) + a) % 256
    BY <2>2, CrcGrows
  <2>4. Crc(Append(one, f)) = (Crc(one) + f) % 256
    BY <1>1, <2>2, CrcGrows
  <2>5. Crc(none) = 7 /\ Append(none, a) = one /\ Append(one, f) = <<a, f>>
    BY <1>2, <2>1 DEF none, one
  <2> QED BY <2>3, <2>4, <2>5
<1>4. (((7 + 0) % 256) + f) % 256 # (((7 + 1) % 256) + f) % 256
  BY DEF Flags, FIRST, LAST
<1> QED BY <1>1, <1>3, <1>4

LEMMA Joins ==
    ASSUME NEW s \in Seq(Byte), NEW t \in Seq(Byte)
    PROVE  /\ s \o t \in Seq(Byte) /\ Len(s \o t) = Len(s) + Len(t)
           /\ \A i \in 1..Len(s) : (s \o t)[i] = s[i]
           /\ \A i \in 1..Len(t) : (s \o t)[Len(s) + i] = t[i]
  OBVIOUS

LEMMA SecondChanged ==
    ASSUME NEW p \in Seq(Byte), NEW q \in Seq(Byte), NEW u \in Seq(Byte), NEW v \in Seq(Byte),
           Len(p) = 1, Len(q) = 1, Len(u) >= 1, Len(v) = Len(u),
           v[1] = u[1] + 1, \A i \in 2..Len(u) : v[i] = u[i]
    PROVE  [(p \o u \o q) EXCEPT ![2] = @ + 1] = p \o v \o q
<1> DEFINE n == Len(u)
           s == p \o u \o q
           t == p \o v \o q
<1>1. n \in Nat
  OBVIOUS
<1>2. ASSUME NEW w \in Seq(Byte), Len(w) = n
      PROVE  /\ p \o w \o q \in Seq(Byte) /\ Len(p \o w \o q) = n + 2
             /\ (p \o w \o q)[1] = p[1]
             /\ \A i \in 1..n : (p \o w \o q)[i + 1] = w[i]
             /\ (p \o w \o q)[n + 2] = q[1]
  <2> DEFINE pw == p \o w
  <2>1. /\ pw \in Seq(Byte) /\ Len(pw) = n + 1 /\ pw[1] = p[1]
        /\ \A i \in 1..n : pw[i + 1] = w[i]
    <3>1. /\ p \o w \in Seq(Byte) /\ Len(p \o w) = Len(p) + Len(w)
          /\ \A i \in 1..Len(p) : (p \o w)[i] = p[i]
          /\ \A i \in 1..Len(w) : (p \o w)[Len(p) + i] = w[i]
      BY Joins
    <3>2. 1 \in 1..1 /\ \A i \in 1..n : 1 + i = i + 1
      BY <1>1
    <3> HIDE DEF n
    <3> QED BY <1>1, <1>2, <3>1, <3>2
  <2> HIDE DEF pw, n
  <2>2. /\ pw \o q \in Seq(Byte) /\ Len(pw \o q) = n + 2
        /\ \A i \in 1..(n + 1) : (pw \o q)[i] = pw[i]
        /\ (pw \o q)[n + 2] = q[1]
    <3>1. /\ pw \o q \in Seq(Byte) /\ Len(pw \o q) = Len(pw) + Len(q)
          /\ \A i \in 1..Len(pw) : (pw \o q)[i] = pw[i]
          /\ \A i \in 1..Len(q) : (pw \o q)[Len(pw) + i] = q[i]
      BY <2>1, Joins
    <3>2. 1 \in 1..Len(q) /\ n + 1 + 1 = n + 2
      BY <1>1
    <3> QED BY <1>1, <2>1, <3>1, <3>2
  <2>3. 1 \in 1..(n + 1) /\ \A i \in 1..n : i + 1 \in 1..(n + 1)
    BY <1>1
  <2> QED BY <2>1, <2>2, <2>3 DEF pw
<1>3. /\ s \in Seq(Byte) /\ Len(s) = n + 2 /\ s[1] = p[1] /\ s[n + 2] = q[1]
      /\ \A i \in 1..n : s[i + 1] = u[i]
  BY <1>2
<1>4. /\ t \in Seq(Byte) /\ Len(t) = n + 2 /\ t[1] = p[1] /\ t[n + 2] = q[1]
      /\ \A i \in 1..n : t[i + 1] = v[i]
  BY <1>2
<1> DEFINE a == [s EXCEPT ![2] = @ + 1]
<1> HIDE DEF s, t, n
<1>5. n >= 1 /\ 1 \in 1..n
  BY <1>1 DEF n
<1>6. t[2] = s[2] + 1
  <2>1. s[1 + 1] = u[1] /\ t[1 + 1] = v[1]
    BY <1>3, <1>4, <1>5
  <2> QED BY <2>1
<1>7. ASSUME NEW i \in 1..(n + 2), i # 2 PROVE t[i] = s[i]
  <2>1. CASE i = 1 \/ i = n + 2
    BY <1>3, <1>4, <2>1
  <2>2. CASE i # 1 /\ i # n + 2
    <3> DEFINE k == i - 1
    <3>1. k \in 1..n /\ k \in 2..n /\ k + 1 = i
      BY <1>1, <1>7, <2>2
    <3> HIDE DEF k
    <3>2. s[k + 1] = u[k] /\ t[k + 1] = v[k] /\ v[k] = u[k]
      BY <1>3, <1>4, <3>1 DEF n
    <3> QED BY <3>1, <3>2
  <2> QED BY <2>1, <2>2
<1>8. /\ s = [i \in 1..(n + 2) |-> s[i]] /\ t = [i \in 1..(n + 2) |-> t[i]]
      /\ 2 \in 1..(n + 2)
  BY <1>1, <1>3, <1>4, <1>5
<1>9. a = [i \in 1..(n + 2) |-> IF i = 2 THEN s[2] + 1 ELSE s[i]]
  BY <1>8
<1>10. \A i \in 1..(n + 2) : (IF i = 2 THEN s[2] + 1 ELSE s[i]) = t[i]
  BY <1>6, <1>7
<1> HIDE DEF a
<1>11. a = [i \in 1..(n + 2) |-> t[i]]
  BY <1>9, <1>10
<1>12. a = t
  BY <1>8, <1>11
<1> QED BY <1>12 DEF a, s, t

\* A damaged package yields nothing but an error, and leaves the run alone.
LEMMA DamagedArrives ==
    ASSUME NEW d \in Decoders, NEW f \in Flags, NEW c \in Seq(Byte), Len(c) <= MaxPackage,
           NEW bytes \in Damaged(FrameMessage(<<Ember, f>> \o c))
    PROVE  /\ bytes \in Seq(Byte)
           /\ Push(d, bytes).reassembly = d.reassembly
           /\ Push(d, bytes).out \in {d.out, Append(d.out, Error)}
<1> DEFINE m == <<Ember, f>> \o c
           x == Crc(m)
           rest == Body(Append(c, x))
           body == Body(Append(m, x))
           frame == FrameMessage(m)
           Harmless(s) == /\ s \in Seq(Byte)
                          /\ Push(d, s).reassembly = d.reassembly
                          /\ Push(d, s).out \in {d.out, Append(d.out, Error)}
<1>1. x \in Byte
  <2>1. 0 \in {0, 1} /\ 0 \in Byte
    BY DEF Byte
  <2>2. m \in Seq(Byte)
    BY <2>1, BodyOfPackage DEF Ember
  <2> QED BY <2>2, CrcGrows
<1> HIDE DEF x
<1>2. /\ m \in Seq(Byte) /\ Append(m, x) \in Seq(Byte)
      /\ body = <<0, f>> \o rest /\ Len(body) <= MaxFrame
  BY <1>1, BodyOfPackage DEF Ember
<1>3. /\ <<0, f>> \in Seq(Byte) /\ <<1, f>> \in Seq(Byte) /\ <<1, f>> \o c \in Seq(Byte)
      /\ Append(<<1, f>> \o c, x) \in Seq(Byte)
      /\ Body(Append(<<1, f>> \o c, x)) = <<1, f>> \o rest
      /\ Len(Body(Append(<<1, f>> \o c, x))) <= MaxFrame
      /\ rest \in Seq(Byte)
  BY <1>1, BodyOfPackage
<1>4. frame = <<BOF>> \o body \o <<EOF>>
  BY DEF FrameMessage, x
<1>5. body \in Seq(InFrame) /\ body \in Seq(Byte)
  BY <1>2, BodyFits, BodyGrows
<1>6. CE \in Byte /\ EOF \in Byte /\ BOF \in Byte /\ EOF # BOF /\ CE \in InFrame
  BY DEF CE, EOF, BOF, Byte, InFrame
<1>7. \A e \in Decoders : /\ Yield(Idle(e), Error).reassembly = e.reassembly
                          /\ Yield(Idle(e), Error).out = Append(e.out, Error)
                          /\ Yield(Idle(e), Error) \in Decoders
                          /\ ~Yield(Idle(e), Error).inFrame
  <2>1. Error \in Items
    BY DEF Items, Plain, Error
  <2> SUFFICES ASSUME NEW e \in Decoders
               PROVE  /\ Yield(Idle(e), Error).reassembly = e.reassembly
                      /\ Yield(Idle(e), Error).out = Append(e.out, Error)
                      /\ Yield(Idle(e), Error) \in Decoders
                      /\ ~Yield(Idle(e), Error).inFrame
    OBVIOUS
  <2>2. /\ Idle(e) \in Decoders /\ ~Idle(e).inFrame
        /\ Idle(e).reassembly = e.reassembly /\ Idle(e).out = e.out
    BY IdleOpened
  <2>3. /\ Yield(Idle(e), Error) = Dec(Idle(e).inFrame, Idle(e).frame, Idle(e).reassembly,
                                       Append(Idle(e).out, Error))
        /\ Yield(Idle(e), Error) \in Decoders
    BY <2>1, <2>2, YieldIs
  <2> QED BY <2>2, <2>3 DEF Dec
\* A byte changed: the CRC does not match.
<1>8. Harmless([frame EXCEPT ![2] = @ + 1])
  <2> DEFINE full == Append(<<1, f>> \o c, x)
             s == <<BOF>> \o Body(full) \o <<EOF>>
  <2>1. [frame EXCEPT ![2] = @ + 1] = s
    <3> DEFINE p == <<BOF>>
               q == <<EOF>>
               z == <<0, f>>
               o == <<1, f>>
               u == z \o rest
               v == o \o rest
    <3>1. /\ p \in Seq(Byte) /\ Len(p) = 1 /\ q \in Seq(Byte) /\ Len(q) = 1
      BY <1>6
    <3>2. /\ z \in Seq(Byte) /\ Len(z) = 2 /\ z[1] = 0 /\ z[2] = f
          /\ o \in Seq(Byte) /\ Len(o) = 2 /\ o[1] = 1 /\ o[2] = f
      BY <1>3
    <3>3. frame = p \o u \o q /\ s = p \o v \o q
      BY <1>2, <1>3, <1>4
    <3>4. rest \in Seq(Byte)
      BY <1>3
    <3> HIDE DEF p, q, z, o, rest, frame, s
    <3>5. /\ u \in Seq(Byte) /\ v \in Seq(Byte) /\ Len(u) >= 1 /\ Len(v) = Len(u)
          /\ v[1] = u[1] + 1 /\ \A i \in 2..Len(u) : v[i] = u[i]
      <4>1. /\ u \in Seq(Byte) /\ Len(u) = Len(z) + Len(rest)
            /\ \A i \in 1..Len(z) : u[i] = z[i]
            /\ \A i \in 1..Len(rest) : u[Len(z) + i] = rest[i]
        BY <3>2, <3>4, Joins
      <4>2. /\ v \in Seq(Byte) /\ Len(v) = Len(o) + Len(rest)
            /\ \A i \in 1..Len(o) : v[i] = o[i]
            /\ \A i \in 1..Len(rest) : v[Len(o) + i] = rest[i]
        BY <3>2, <3>4, Joins
      <4>3. Len(rest) \in Nat
        BY <3>4
      <4> HIDE DEF u, v
      <4>4. Len(u) = 2 + Len(rest) /\ Len(v) = 2 + Len(rest)
        BY <3>2, <4>1, <4>2
      <4>5. v[1] = u[1] + 1 /\ v[2] = u[2]
        BY <3>2, <4>1, <4>2
      <4>6. ASSUME NEW i \in 2..Len(u) PROVE v[i] = u[i]
        <5>1. CASE i = 2
          BY <4>5, <5>1
        <5>2. CASE i # 2
          <6> DEFINE k == i - 2
          <6>1. k \in 1..Len(rest) /\ 2 + k = i
            BY <4>3, <4>4, <4>6, <5>2
          <6> HIDE DEF k
          <6>2. u[2 + k] = rest[k] /\ v[2 + k] = rest[k]
            BY <3>2, <4>1, <4>2, <6>1
          <6> QED BY <6>1, <6>2
        <5> QED BY <5>1, <5>2
      <4>7. Len(u) >= 1 /\ Len(v) = Len(u)
        BY <4>3, <4>4
      <4> QED BY <4>1, <4>2, <4>5, <4>6, <4>7
    <3> HIDE DEF u, v
    <3>6. [(p \o u \o q) EXCEPT ![2] = @ + 1] = p \o v \o q
      BY <3>1, <3>5, SecondChanged, SMTT(30)
    <3> QED BY <3>3, <3>6
  <2>2. s \in Seq(Byte) /\ Push(d, s) = ProcessRaw(Idle(d), Body(full))
    BY <1>3, RawArrives
  <2>3. Unescape(Body(full)) = [bytes |-> full, dangling |-> FALSE]
    BY <1>3, UnescapeUndoes
  <2>4. full # <<>> /\ Front(full) = <<1, f>> \o c /\ Last(full) = x
    <3> DEFINE w == <<1, f>> \o c
    <3>1. w \in Seq(Byte)
      BY <1>3
    <3> HIDE DEF w
    <3>2. \A y \in Byte : /\ Append(w, y) # <<>>
                           /\ Front(Append(w, y)) = w
                           /\ Last(Append(w, y)) = y
      BY <3>1 DEF Front, Last
    <3>3. full = Append(w, x)
      BY DEF w
    <3> HIDE DEF full
    <3> QED BY <1>1, <3>2, <3>3 DEF w
  <2>5. Crc(<<1, f>> \o c) # x
    <3>1. Crc(<<0, f>> \o c) # Crc(<<1, f>> \o c)
      BY <1>3, CrcOfTwo, CrcDiffers
    <3> QED BY <3>1 DEF x, Ember
  <2> HIDE DEF full, s
  <2>6. ProcessRaw(Idle(d), Body(full)) = Yield(Idle(d), Error)
    <3> DEFINE r == [bytes |-> full, dangling |-> FALSE]
    <3>1. r.bytes = full /\ ~r.dangling
      OBVIOUS
    <3>2. Unescape(Body(full)) = r
      BY <2>3
    <3> HIDE DEF r
    <3>3. Crc(Front(r.bytes)) # Last(r.bytes)
      BY <2>4, <2>5, <3>1
    <3> QED BY <3>2, <3>3 DEF ProcessRaw
  <2> QED BY <1>7, <2>1, <2>2, <2>6
<1> DEFINE start == <<BOF>> \o body
           e == Dec(TRUE, body, d.reassembly, d.out)
<1>9. /\ e \in Decoders /\ e.inFrame /\ e.frame = body
      /\ e.reassembly = d.reassembly /\ e.out = d.out /\ Idle(e) = Idle(d)
      /\ start \in Seq(Byte) /\ Push(d, start) = e
  BY <1>2, <1>5, BodyArrives
<1>10. Front(frame) = start
  <2>1. frame = start \o <<EOF>>
    BY <1>4
  <2> HIDE DEF frame, start
  <2>2. start \o <<EOF>> = Append(start, EOF)
    BY <1>6, <1>9
  <2> QED BY <1>6, <1>9, <2>1, <2>2 DEF Front
<1> HIDE DEF body, frame, start, e
\* Its end missing: the next frame starts over.
<1>11. Harmless(Front(frame))
  BY <1>9, <1>10
\* Its end after an escape.
<1>12. Harmless(Front(frame) \o <<CE, EOF>>)
  <2> DEFINE one == Append(start, CE)
             two == Append(one, EOF)
             g == PushByte(e, CE)
  <2>1. start \o <<CE, EOF>> = two /\ one \in Seq(Byte) /\ two \in Seq(Byte)
    <3>1. one \in Seq(Byte) /\ two \in Seq(Byte)
      BY <1>6, <1>9
    <3>2. <<CE, EOF>> = <<CE>> \o <<EOF>> /\ <<CE>> \in Seq(Byte) /\ <<EOF>> \in Seq(Byte)
      <4>1. /\ Append(<<CE>>, EOF) = <<CE, EOF>>
            /\ <<CE>> \in Seq(Byte) /\ <<EOF>> \in Seq(Byte)
        BY <1>6, OneAndTwo
      <4> QED BY <1>6, <4>1
    <3>3. start \o (<<CE>> \o <<EOF>>) = (start \o <<CE>>) \o <<EOF>>
      BY <1>9, <3>2, ConcatAssociative
    <3>4. start \o <<CE>> = one /\ one \o <<EOF>> = two
      <4>1. start \o <<CE>> = one
        BY <1>6, <1>9
      <4> HIDE DEF one
      <4>2. one \o <<EOF>> = Append(one, EOF)
        BY <1>6, <3>1
      <4> QED BY <4>1, <4>2
    <3> QED BY <3>1, <3>2, <3>3, <3>4
  <2>2. Push(d, one) = g /\ g \in Decoders
    <3>1. Push(d, Append(start, CE)) = PushByte(Push(d, start), CE)
      BY <1>6, <1>9, PushGrows
    <3>2. PushByte(e, CE) \in Decoders
      BY <1>6, <1>9, PushByteOK
    <3> QED BY <1>9, <3>1, <3>2
  <2> HIDE DEF one, g
  <2>3. Push(d, two) = PushByte(g, EOF)
    <3>1. Push(d, Append(one, EOF)) = PushByte(Push(d, one), EOF)
      BY <1>6, <2>1, PushGrows
    <3> QED BY <2>2, <3>1
  <2> HIDE DEF two
  <2>4. CASE Len(body) < MaxFrame
    <3> DEFINE raw == Append(body, CE)
    <3>1. g = Dec(e.inFrame, raw, d.reassembly, d.out)
      BY <1>6, <1>9, <2>4, PushByteIs DEF g
    <3>2. /\ g.inFrame = e.inFrame /\ g.frame = raw
          /\ g.reassembly = d.reassembly /\ g.out = d.out
      BY <3>1 DEF Dec
    <3>6. g.inFrame /\ Idle(g) = Idle(d)
      BY <1>9, <3>2 DEF Idle
    <3>3. PushByte(g, EOF) = ProcessRaw(Idle(d), raw)
      BY <1>6, <2>2, <3>2, <3>6, PushByteIs
    <3>4. Unescape(raw) = [bytes |-> Append(m, x), dangling |-> TRUE]
      <4>1. Unescape(raw) = UnescapeByte(Unescape(body), CE)
        BY <1>5, <1>6, UnescapeGrows
      <4>2. Unescape(body) = [bytes |-> Append(m, x), dangling |-> FALSE]
        BY <1>2, UnescapeUndoes DEF body
      <4> QED BY <1>2, <1>6, <4>1, <4>2, UnescapeByteIs
    <3> HIDE DEF raw
    <3>5. ProcessRaw(Idle(d), raw) = Yield(Idle(d), Error)
      BY <3>4 DEF ProcessRaw
    <3> QED BY <1>7, <1>10, <2>1, <2>3, <3>3, <3>5
  <2>5. CASE ~(Len(body) < MaxFrame)
    <3>1. g = Yield(Idle(d), Error)
      <4>1. PushByte(e, CE) = Yield(Idle(e), Error)
        BY <1>6, <1>9, <2>5, PushByteIs
      <4> QED BY <1>9, <4>1 DEF g
    <3>2. PushByte(g, EOF) = g
      BY <1>6, <1>7, <2>2, <3>1, PushByteIs
    <3> QED BY <1>7, <1>10, <2>1, <2>3, <3>1, <3>2
  <2> QED BY <2>4, <2>5
\* A frame that never ends.
<1>13. Harmless(<<BOF>> \o [i \in 1..(MaxFrame + 1) |-> 1])
  <2> DEFINE fill == [i \in 1..MaxFrame |-> 1]
             over == [i \in 1..(MaxFrame + 1) |-> 1]
             s == <<BOF>> \o fill
             h == Dec(TRUE, fill, d.reassembly, d.out)
  <2>1. 1 \in InFrame /\ 1 \in Byte /\ MaxFrame \in Nat
    BY FramingAssumption DEF InFrame, Byte, BOF, EOF
  <2>2. fill \in Seq(InFrame) /\ Len(fill) = MaxFrame
    BY <2>1
  <2>3. over = Append(fill, 1)
    BY <2>1
  <2> HIDE DEF fill, over
  <2>4. /\ h \in Decoders /\ h.inFrame /\ h.frame = fill /\ Idle(h) = Idle(d)
        /\ s \in Seq(Byte) /\ Push(d, s) = h
    <3>1. Len(fill) <= MaxFrame
      BY <2>1, <2>2
    <3> QED BY <2>2, <3>1, BodyArrives
  <2>5. fill \in Seq(Byte)
    BY <2>2, SeqMonotonic DEF InFrame
  <2>6. <<BOF>> \o over = Append(s, 1) /\ Append(s, 1) \in Seq(Byte)
    <3>1. <<BOF>> \o Append(fill, 1) = Append(<<BOF>> \o fill, 1)
      BY <1>6, <2>1, <2>5
    <3>2. Append(s, 1) \in Seq(Byte)
      <4> HIDE DEF s
      <4> QED BY <2>1, <2>4
    <3> QED BY <2>3, <3>1, <3>2
  <2> HIDE DEF s, h
  <2>7. Push(d, Append(s, 1)) = PushByte(h, 1)
    BY <2>1, <2>4, PushGrows
  <2>8. ~(Len(h.frame) < MaxFrame)
    BY <2>1, <2>2, <2>4
  <2>9. PushByte(h, 1) = Yield(Idle(h), Error)
    BY <2>1, <2>4, <2>8, PushByteIs
  <2>10. Harmless(<<BOF>> \o over)
    <3>1. <<BOF>> \o over \in Seq(Byte)
      BY <2>6
    <3>2. Push(d, <<BOF>> \o over) = Yield(Idle(d), Error)
      BY <2>4, <2>6, <2>7, <2>9
    <3> QED BY <1>7, <3>1, <3>2
  <2> HIDE DEF Harmless
  <2> QED BY <2>10 DEF over
<1> HIDE DEF Harmless
<1>14. Harmless(bytes)
  BY <1>8, <1>11, <1>12, <1>13 DEF Damaged, frame
<1> QED BY <1>14 DEF Harmless

-------------------------------------------------------------------------------
(* What the device has written and the reader holds.                       *)

\* Packages of the payload under way that are on the wire.
Written == Pieces(doing) - Len(todo)

\* todo is what is left of the payload; it can still arrive or broken says so.
DeviceOK ==
    /\ Len(todo) <= Pieces(doing)
    /\ todo = SubSeq(Packages(doing), Written + 1, Pieces(doing))
    /\ todo # <<>> => doing \in Payload
    /\ todo # <<>> /\ ~broken => whole

ReaderOK ==
    /\ decoder \in Decoders
    /\ decoder.out = <<>>
    /\ pending \in Seq(Items)
    /\ got \in Seq(Items)
    /\ sent \in Seq(Items)

TypesInv == TypeOK /\ DeviceOK /\ ReaderOK

\* The packages left, whatever was written.
Left(payload, rest) ==
    rest = SubSeq(Packages(payload), Pieces(payload) - Len(rest) + 1, Pieces(payload))

\* The next package, and what it adds to what is written.
LEMMA NextPackage ==
    ASSUME NEW payload \in Seq(0..255), NEW rest \in Seq(Seq(Byte)), rest # <<>>,
           Len(rest) <= Pieces(payload), Left(payload, rest)
    PROVE  LET n == Pieces(payload)
               w == n - Len(rest)
           IN  /\ w \in 0..(n - 1) /\ n \in Nat
               /\ Tail(rest) \in Seq(Seq(Byte)) /\ Len(Tail(rest)) = Len(rest) - 1
               /\ Left(payload, Tail(rest))
               /\ Tail(rest) = <<>> <=> Len(rest) = 1
               /\ \E f \in Flags, c \in Seq(Byte) :
                    /\ Head(rest) = <<Ember, f>> \o c
                    /\ Len(c) <= MaxPackage
                    /\ Set(f, FIRST) <=> w = 0
                    /\ Set(f, LAST) <=> Len(rest) = 1
                    /\ SubSeq(payload, 1, w * MaxPackage) \o c
                         = SubSeq(payload, 1, EndOf(payload, w + 1))
<1> DEFINE n == Pieces(payload)
           P == Packages(payload)
           w == n - Len(rest)
           Is(i, f, c) == /\ P[i] = <<Ember, f>> \o c
                          /\ Len(c) <= MaxPackage
                          /\ Set(f, FIRST) <=> i = 1
                          /\ Set(f, LAST) <=> i = n
                          /\ SubSeq(payload, 1, (i - 1) * MaxPackage) \o c
                               = SubSeq(payload, 1, EndOf(payload, i))
<1>1. n \in Nat \ {0} /\ Len(rest) \in Nat \ {0} /\ Len(rest) <= n
  <2>1. Len(rest) \in Nat \ {0}
    OBVIOUS
  <2> QED BY <2>1, PiecesAre
<1>2. /\ P \in Seq(Seq(Byte)) /\ Len(P) = n
      /\ \A i \in 1..n : \E f \in Flags, c \in Seq(Byte) : Is(i, f, c)
  BY PackagesAre
<1>3. rest = SubSeq(P, w + 1, n)
  BY DEF Left
<1> HIDE DEF n, P, Is
<1>4. w \in 0..(n - 1) /\ w + 1 \in 1..n
  BY <1>1
<1>5. Head(rest) = P[w + 1] /\ Tail(rest) = SubSeq(P, w + 2, n)
  <2>1. /\ Head(SubSeq(P, w + 1, n)) = P[w + 1]
        /\ Tail(SubSeq(P, w + 1, n)) = SubSeq(P, (w + 1) + 1, n)
    <3>1. w + 1 \in 1..Len(P) /\ n \in (w + 1)..Len(P)
      BY <1>1, <1>2, <1>4
    <3> QED BY <1>2, <3>1, HeadTailOfSubSeq
  <2>2. (w + 1) + 1 = w + 2
    BY <1>1
  <2> QED BY <1>3, <2>1, <2>2, Zenon
<1>6. Tail(rest) \in Seq(Seq(Byte)) /\ Len(Tail(rest)) = Len(rest) - 1
  BY HeadTailProperties
<1>7. Left(payload, Tail(rest))
  <2>1. n - Len(Tail(rest)) + 1 = w + 2
    BY <1>1, <1>6
  <2> QED BY <1>5, <2>1 DEF Left, n, P
<1>8. Tail(rest) = <<>> <=> Len(rest) = 1
  <2>1. Tail(rest) = <<>> <=> Len(Tail(rest)) = 0
    BY <1>6, EmptySeq
  <2>2. Len(Tail(rest)) = 0 <=> Len(rest) = 1
    BY <1>1, <1>6
  <2> QED BY <2>1, <2>2
<1>9. PICK f \in Flags, c \in Seq(Byte) : Is(w + 1, f, c)
  BY <1>2, <1>4
<1>10. (w + 1 = 1 <=> w = 0) /\ (w + 1 = n <=> Len(rest) = 1) /\ (w + 1) - 1 = w
  <2> DEFINE left == Len(rest)
  <2>1. n \in Nat /\ left \in Nat /\ w = n - left
    BY <1>1
  <2> HIDE DEF left, w
  <2>2. (w + 1 = 1 <=> w = 0) /\ (w + 1 = n <=> left = 1) /\ (w + 1) - 1 = w
    BY <2>1
  <2> QED BY <2>2 DEF left
<1>11. /\ Head(rest) = <<Ember, f>> \o c
       /\ Len(c) <= MaxPackage
       /\ Set(f, FIRST) <=> w = 0
       /\ Set(f, LAST) <=> Len(rest) = 1
       /\ SubSeq(payload, 1, w * MaxPackage) \o c = SubSeq(payload, 1, EndOf(payload, w + 1))
  BY <1>5, <1>9, <1>10 DEF Is
<1> QED BY <1>1, <1>4, <1>6, <1>7, <1>8, <1>11 DEF n

\* The next package of the payload under way.
LEMMA ToWrite ==
    ASSUME TypesInv, todo # <<>>
    PROVE  /\ doing \in Payload /\ doing \in Seq(0..255)
           /\ Written \in 0..(Pieces(doing) - 1) /\ Pieces(doing) \in Nat
           /\ Tail(todo) \in Seq(Seq(Byte)) /\ Len(Tail(todo)) = Len(todo) - 1
           /\ Left(doing, Tail(todo))
           /\ Tail(todo) = <<>> <=> Len(todo) = 1
           /\ \E f \in Flags, c \in Seq(Byte) :
                /\ Head(todo) = <<Ember, f>> \o c
                /\ Len(c) <= MaxPackage
                /\ Set(f, FIRST) <=> Written = 0
                /\ Set(f, LAST) <=> Len(todo) = 1
                /\ SubSeq(doing, 1, Written * MaxPackage) \o c
                     = SubSeq(doing, 1, EndOf(doing, Written + 1))
<1>1. /\ doing \in Payload /\ todo \in Seq(Seq(Byte))
      /\ Len(todo) <= Pieces(doing) /\ Left(doing, todo)
  BY DEF TypesInv, TypeOK, DeviceOK, Left, Written
<1>2. doing \in Seq(0..255)
  BY <1>1, FramingAssumption
<1> QED BY <1>1, <1>2, NextPackage DEF Written

LEMMA NothingWritten == NewDecoder \in Decoders
<1> DEFINE none == <<>>
<1>1. none \in Seq(InFrame) /\ none \in Seq(Byte) /\ none \in Seq(Items)
  OBVIOUS
<1>2. Len(none) <= MaxFrame /\ Len(none) <= MaxReassembly
  BY FramingAssumption
<1>3. NewDecoder = Dec(FALSE, none, none, none)
  BY DEF NewDecoder, Dec
<1> HIDE DEF none
<1>4. Dec(FALSE, none, none, none) \in Decoders
  BY <1>1, <1>2, DecIsDecoder
<1> QED BY <1>3, <1>4

\* The decoder's part of the types.
LEMMA DecoderTypes ==
    ASSUME NEW d \in Decoders
    PROVE  /\ d.inFrame \in BOOLEAN
           /\ d.frame \in Seq(Byte \ {BOF, EOF}) /\ Len(d.frame) <= MaxFrame
           /\ d.reassembly \in Seq(Byte) /\ Len(d.reassembly) <= MaxReassembly
  BY DecoderFields DEF InFrame

LEMMA TypesInit == Init => TypesInv
<1> SUFFICES ASSUME Init PROVE TypesInv
  OBVIOUS
<1> DEFINE none == <<>>
<1>1. none \in Seq(Seq(Byte)) /\ none \in Seq(Byte) /\ none \in Seq(Items) /\ none \in Seq(0..255)
  OBVIOUS
<1>2. TypeOK
  <2>1. 0 \in 0..MaxSends /\ 0 \in 0..MaxDamage
    BY FramingAssumption
  <2> QED BY <1>1, <2>1, NothingWritten, DecoderTypes DEF Init, TypeOK
<1>3. DeviceOK
  <2>1. Pieces(none) \in Nat \ {0} /\ Len(none) = 0
    BY <1>1, PiecesAre
  <2>2. todo = none /\ doing = none
    BY DEF Init
  <2> HIDE DEF none
  <2>3. Written = Pieces(none) /\ Pieces(none) < Written + 1
    BY <2>1, <2>2 DEF Written
  <2>4. SubSeq(Packages(doing), Written + 1, Pieces(doing)) = <<>>
    <3>1. Written + 1 \in Int /\ Pieces(doing) \in Int /\ Pieces(doing) < Written + 1
      BY <2>1, <2>2, <2>3
    <3> QED BY <3>1, SubSeqEmpty
  <2>5. todo = <<>> /\ Len(todo) <= Pieces(doing)
    BY <2>1, <2>2 DEF none
  <2> QED BY <2>4, <2>5 DEF DeviceOK
<1>4. ReaderOK
  <2>1. NewDecoder.out = <<>>
    BY DEF NewDecoder
  <2> QED BY <1>1, <2>1, NothingWritten DEF Init, ReaderOK
<1> QED BY <1>2, <1>3, <1>4 DEF TypesInv

LEMMA TypesBegin ==
    ASSUME TypesInv, NEW payload \in Payload, Begin(payload)
    PROVE  TypesInv'
<1>1. payload \in Seq(0..255)
  BY FramingAssumption
<1>2. /\ Packages(payload) \in Seq(Seq(Byte)) /\ Len(Packages(payload)) = Pieces(payload)
      /\ Pieces(payload) \in Nat \ {0}
  BY <1>1, PackagesAre, PiecesAre
<1>3. TypeOK'
  <2>1. sends' \in 0..MaxSends
    BY FramingAssumption DEF Begin, TypesInv, TypeOK
  <2>2. whole' \in BOOLEAN /\ broken' \in BOOLEAN
    BY DEF Begin, TypesInv, TypeOK
  <2> QED BY <1>2, <2>1, <2>2 DEF Begin, TypesInv, TypeOK
<1>4. DeviceOK'
  <2>1. todo' = Packages(payload) /\ doing' = payload
    BY DEF Begin
  <2>2. Written' = 0
    BY <1>2, <2>1 DEF Written
  <2>3. SubSeq(Packages(payload), 0 + 1, Pieces(payload)) = Packages(payload)
    <3>1. 0 + 1 = 1 /\ SubSeq(Packages(payload), 1, Len(Packages(payload))) = Packages(payload)
      BY <1>2, SubSeqFull
    <3> QED BY <1>2, <3>1
  <2>4. ~broken' => whole'
    <3>1. Len(payload) \in Nat /\ MaxReassembly \in Nat
      BY <1>1, FramingAssumption
    <3>2. ~(Len(payload) > MaxReassembly) => Len(payload) <= MaxReassembly
      BY <3>1
    <3> QED BY <3>2, Zenon DEF Begin
  <2> QED BY <1>2, <2>1, <2>2, <2>3, <2>4 DEF DeviceOK
<1>5. ReaderOK'
  BY DEF Begin, TypesInv, ReaderOK
<1> QED BY <1>3, <1>4, <1>5 DEF TypesInv

\* After a package is written or lost.
LEMMA DeviceMoves ==
    ASSUME TypesInv, todo # <<>>, todo' = Tail(todo), doing' = doing,
           Tail(todo) # <<>> /\ ~broken' => whole'
    PROVE  DeviceOK' /\ todo' \in Seq(Seq(Byte)) /\ doing' \in Payload
<1>1. /\ doing \in Payload /\ Tail(todo) \in Seq(Seq(Byte)) /\ Left(doing, Tail(todo))
      /\ Len(Tail(todo)) = Len(todo) - 1
  BY ToWrite
<1>2. Len(todo') <= Pieces(doing')
  <2>1. Len(todo) \in Nat /\ Pieces(doing) \in Nat /\ Len(todo) <= Pieces(doing)
    <3>1. Pieces(doing) \in Nat
      BY ToWrite
    <3>2. todo \in Seq(Seq(Byte)) /\ Len(todo) <= Pieces(doing)
      BY DEF TypesInv, TypeOK, DeviceOK
    <3> QED BY <3>1, <3>2
  <2>2. Len(todo') = Len(todo) - 1 /\ Pieces(doing') = Pieces(doing)
    BY <1>1
  <2> QED BY <2>1, <2>2
<1>3. todo' = SubSeq(Packages(doing'), Written' + 1, Pieces(doing'))
  BY <1>1 DEF Left, Written
<1> QED BY <1>1, <1>2, <1>3 DEF DeviceOK

LEMMA DocumentIsItem ==
    ASSUME NEW bytes \in Seq(Byte)
    PROVE  Document(bytes) \in Items
  BY DEF Items, Document

LEMMA PayloadIsBytes == Payload \subseteq Seq(Byte)
<1>1. 0..255 \subseteq Byte
  BY DEF Byte
<1>2. \A s \in Seq(0..255) : s \in Seq(Byte)
  <2> QED BY <1>1, SeqMonotonic
<1> QED BY <1>2, FramingAssumption

LEMMA TypesWritePackage ==
    ASSUME TypesInv, WritePackage
    PROVE  TypesInv'
<1>1. todo # <<>> /\ todo' = Tail(todo) /\ wire' = wire \o FrameMessage(Head(todo))
  BY DEF WritePackage
<1>2. DeviceOK' /\ todo' \in Seq(Seq(Byte)) /\ doing' \in Payload
  <2>1. doing' = doing /\ (Tail(todo) # <<>> /\ ~broken' => whole')
    BY <1>1 DEF WritePackage, TypesInv, DeviceOK
  <2> QED BY <1>1, <2>1, DeviceMoves
<1>3. wire' \in Seq(Byte)
  <2>1. PICK f \in Flags, c \in Seq(Byte) : Head(todo) = <<Ember, f>> \o c /\ Len(c) <= MaxPackage
    BY <1>1, ToWrite
  <2>2. FrameMessage(Head(todo)) \in Seq(Byte)
    <3>1. decoder \in Decoders
      BY DEF TypesInv, ReaderOK
    <3> QED BY <2>1, <3>1, PackageArrives
  <2>3. wire \in Seq(Byte)
    BY DEF TypesInv, TypeOK
  <2> QED BY <1>1, <2>2, <2>3
<1>4. TypeOK'
  BY <1>2, <1>3 DEF WritePackage, TypesInv, TypeOK
<1>5. ReaderOK'
  <2>1. Document(doing) \in Items
    BY <1>1, ToWrite, PayloadIsBytes, DocumentIsItem
  <2>2. sent' \in Seq(Items)
    BY <2>1 DEF WritePackage, TypesInv, ReaderOK
  <2> QED BY <2>2 DEF WritePackage, TypesInv, ReaderOK
<1> QED BY <1>2, <1>4, <1>5 DEF TypesInv

LEMMA TypesWriteOther ==
    ASSUME TypesInv, NEW message \in Others, WriteOther(message)
    PROVE  TypesInv'
<1>1. FrameMessage(message) \in Seq(Byte) /\ Expected(message) \in Seq(Items)
  <2>1. decoder \in Decoders
    BY DEF TypesInv, ReaderOK
  <2>2. /\ FrameMessage(message) \in Seq(Byte)
        /\ \E x \in Items : Expected(message) = <<x>> \/ Expected(message) = <<>>
    BY <2>1, OtherArrives
  <2>3. <<>> \in Seq(Items) /\ \A x \in Items : <<x>> \in Seq(Items)
    OBVIOUS
  <2> QED BY <2>2, <2>3
<1>2. TypeOK'
  <2>1. wire' \in Seq(Byte)
    BY <1>1 DEF WriteOther, TypesInv, TypeOK
  <2>2. sends' \in 0..MaxSends
    BY FramingAssumption DEF WriteOther, TypesInv, TypeOK
  <2> QED BY <2>1, <2>2 DEF WriteOther, TypesInv, TypeOK
<1>3. DeviceOK'
  BY DEF WriteOther, TypesInv, DeviceOK, Written
<1>4. ReaderOK'
  <2>1. sent' \in Seq(Items)
    BY <1>1 DEF WriteOther, TypesInv, ReaderOK
  <2> QED BY <2>1 DEF WriteOther, TypesInv, ReaderOK
<1> QED BY <1>2, <1>3, <1>4 DEF TypesInv

\* A payload of which a package is damaged before its last is one of several.
LEMMA BrokenTells ==
    ASSUME TypesInv, WriteDamaged
    PROVE  Tail(todo) # <<>> => broken'
<1>1. /\ todo # <<>> /\ Len(Tail(todo)) = Len(todo) - 1 /\ doing \in Seq(0..255)
      /\ Tail(todo) \in Seq(Seq(Byte))
  BY ToWrite DEF WriteDamaged
<1>2. Len(Packages(doing)) = Pieces(doing) /\ Pieces(doing) \in Nat
  BY <1>1, PackagesAre, PiecesAre
<1>3. Len(todo) \in Nat /\ Len(todo) <= Pieces(doing)
  BY DEF TypesInv, TypeOK, DeviceOK
<1>4. Tail(todo) # <<>> => Len(Packages(doing)) > 1
  <2>1. Tail(todo) # <<>> => Len(Tail(todo)) # 0 /\ Len(Tail(todo)) \in Nat
    BY <1>1, EmptySeq
  <2> QED BY <1>1, <1>2, <1>3, <2>1
<1> QED BY <1>4 DEF WriteDamaged

LEMMA TypesWriteDamaged ==
    ASSUME TypesInv, WriteDamaged
    PROVE  TypesInv'
<1>1. todo # <<>> /\ todo' = Tail(todo) /\ doing' = doing
  BY DEF WriteDamaged
<1>2. DeviceOK' /\ todo' \in Seq(Seq(Byte)) /\ doing' \in Payload
  BY <1>1, BrokenTells, DeviceMoves
<1>3. wire' \in Seq(Byte)
  <2>1. PICK f \in Flags, c \in Seq(Byte) : Head(todo) = <<Ember, f>> \o c /\ Len(c) <= MaxPackage
    BY <1>1, ToWrite
  <2>2. decoder \in Decoders /\ wire \in Seq(Byte)
    BY DEF TypesInv, ReaderOK, TypeOK
  <2>3. PICK bytes \in Damaged(FrameMessage(Head(todo))) : wire' = wire \o bytes
    BY DEF WriteDamaged
  <2>4. bytes \in Seq(Byte)
    BY <2>1, <2>2, <2>3, DamagedArrives
  <2> QED BY <2>2, <2>3, <2>4
<1>4. TypeOK'
  <2>1. damage' \in 0..MaxDamage
    BY FramingAssumption DEF WriteDamaged, TypesInv, TypeOK
  <2>2. whole' \in BOOLEAN /\ broken' \in BOOLEAN
    BY DEF WriteDamaged, TypesInv, TypeOK
  <2> QED BY <1>2, <1>3, <2>1, <2>2 DEF WriteDamaged, TypesInv, TypeOK
<1>5. ReaderOK'
  BY DEF WriteDamaged, TypesInv, ReaderOK
<1> QED BY <1>2, <1>4, <1>5 DEF TypesInv

\* What a read takes and leaves.
LEMMA ReadIs ==
    ASSUME TypesInv, Read
    PROVE  \E s, t \in Seq(Byte) :
               /\ wire = s \o t /\ wire' = t
               /\ Push(decoder, s) \in Decoders
               /\ decoder' \in Decoders /\ decoder'.out = <<>>
               /\ pending' = Push(decoder, s).out
               /\ Push(decoder, s) = Led(pending', decoder')
<1>1. wire \in Seq(Byte) /\ decoder \in Decoders
  BY DEF TypesInv, TypeOK, ReaderOK
<1>2. PICK n \in 1..ReadBuf : /\ n <= Len(wire)
                              /\ decoder' = [Push(decoder, SubSeq(wire, 1, n)) EXCEPT !.out = <<>>]
                              /\ pending' = Push(decoder, SubSeq(wire, 1, n)).out
                              /\ wire' = SubSeq(wire, n + 1, Len(wire))
  BY DEF Read
<1> DEFINE s == SubSeq(wire, 1, n)
           t == SubSeq(wire, n + 1, Len(wire))
           d == Push(decoder, s)
<1>3. n \in Nat /\ Len(wire) \in Nat /\ n \in 0..Len(wire)
  BY <1>1, <1>2, FramingAssumption
<1>4. s \in Seq(Byte) /\ t \in Seq(Byte)
  <2>1. \A i \in 1..Len(wire) : wire[i] \in Byte
    BY <1>1
  <2>2. \A i \in 1..n : wire[i] \in Byte
    BY <1>3, <2>1
  <2>3. \A i \in (n + 1)..Len(wire) : wire[i] \in Byte
    BY <1>3, <2>1
  <2> QED BY <1>3, <2>2, <2>3, SubSeqProperties
<1>5. wire = s \o t
  <2>1. SubSeq(wire, 1, n) \o SubSeq(wire, n + 1, Len(wire)) = SubSeq(wire, 1, Len(wire))
    <3>1. 1 \in 1..(Len(wire) + 1) /\ n \in (1 - 1)..Len(wire) /\ Len(wire) \in n..Len(wire)
      BY <1>3
    <3> QED BY <1>1, <3>1, ConcatAdjacentSubSeq
  <2> QED BY <1>1, <2>1, SubSeqFull
<1> HIDE DEF s, t
<1>6. d \in Decoders
  BY <1>1, <1>4, PushGrows
<1>7. decoder' = [d EXCEPT !.out = <<>>] /\ pending' = d.out /\ wire' = t
  BY <1>2 DEF s, t
<1> HIDE DEF d
<1>8. /\ decoder' = Dec(d.inFrame, d.frame, d.reassembly, <<>>)
      /\ decoder' \in Decoders /\ decoder'.out = <<>> /\ decoder'.inFrame = d.inFrame
      /\ decoder'.frame = d.frame /\ decoder'.reassembly = d.reassembly
  <2> DEFINE none == <<>>
  <2>1. none \in Seq(Items)
    OBVIOUS
  <2> HIDE DEF none
  <2>2. decoder' = Dec(d.inFrame, d.frame, d.reassembly, none)
    <3>1. decoder' = [d EXCEPT !.out = none]
      BY <1>7 DEF none
    <3>2. [d EXCEPT !.out = none] = Dec(d.inFrame, d.frame, d.reassembly, none)
      BY <1>6, <2>1, DecoderFields, SetOut
    <3> QED BY <3>1, <3>2
  <2>3. LET e == Dec(d.inFrame, d.frame, d.reassembly, none)
        IN  /\ e \in Decoders /\ e.inFrame = d.inFrame /\ e.frame = d.frame
            /\ e.reassembly = d.reassembly /\ e.out = none
    BY <1>6, <2>1, DecoderFields, DecIsDecoder
  <2> QED BY <2>2, <2>3 DEF none
<1>9. d = Led(pending', decoder')
  <2>1. d.out \o <<>> = d.out
    BY <1>6, DecoderFields, ConcatEmptySeq
  <2>2. d = Dec(d.inFrame, d.frame, d.reassembly, d.out)
    BY <1>6, DecoderFields
  <2> QED BY <1>7, <1>8, <2>1, <2>2 DEF Led
<1> QED BY <1>4, <1>5, <1>6, <1>7, <1>8, <1>9 DEF d

LEMMA TypesRead ==
    ASSUME TypesInv, Read
    PROVE  TypesInv'
<1>1. PICK s, t \in Seq(Byte) :
          /\ wire' = t /\ Push(decoder, s) \in Decoders
          /\ decoder' \in Decoders /\ decoder'.out = <<>>
          /\ pending' = Push(decoder, s).out
  BY ReadIs
<1>2. UNCHANGED <<doing, todo, whole, sent, broken, sends, damage, got>>
  BY DEF Read, deviceVars
<1>3. TypeOK'
  BY <1>1, <1>2, DecoderTypes DEF TypesInv, TypeOK
<1>4. DeviceOK'
  BY <1>2 DEF TypesInv, DeviceOK, Written
<1>5. ReaderOK'
  <2>1. pending' \in Seq(Items)
    BY <1>1, DecoderFields
  <2> QED BY <1>1, <1>2, <2>1 DEF TypesInv, ReaderOK
<1> QED BY <1>3, <1>4, <1>5 DEF TypesInv

LEMMA TypesDeliver ==
    ASSUME TypesInv, Deliver
    PROVE  TypesInv'
<1>1. pending \in Seq(Items) /\ pending # <<>> /\ Head(pending) \in Items /\ got \in Seq(Items)
  BY DEF TypesInv, ReaderOK, Deliver
<1>2. got' \in {got, Append(got, Head(pending))}
  BY DEF Deliver
<1>3. UNCHANGED <<doing, todo, whole, sent, broken, sends, damage, wire, decoder>>
  BY DEF Deliver, deviceVars
<1>4. ReaderOK'
  <2>1. pending' \in Seq(Items)
    BY <1>1 DEF Deliver
  <2>2. got' \in Seq(Items)
    BY <1>1, <1>2
  <2> QED BY <1>3, <2>1, <2>2 DEF TypesInv, ReaderOK
<1>5. TypeOK' /\ DeviceOK'
  BY <1>3 DEF TypesInv, TypeOK, DeviceOK, Written
<1> QED BY <1>4, <1>5 DEF TypesInv

LEMMA TypesNext ==
    ASSUME TypesInv, [Next]_vars
    PROVE  TypesInv'
<1>1. CASE UNCHANGED vars
  BY <1>1 DEF vars, deviceVars, TypesInv, TypeOK, DeviceOK, ReaderOK, Written
<1>2. CASE Device
  BY <1>2, TypesBegin, TypesWritePackage, TypesWriteOther, TypesWriteDamaged DEF Device
<1>3. CASE Read
  BY <1>3, TypesRead
<1>4. CASE Deliver
  BY <1>4, TypesDeliver
<1> QED BY <1>1, <1>2, <1>3, <1>4 DEF Next

-------------------------------------------------------------------------------
(* Whatever is delivered was sent.                                         *)

\* Items that are certain to be delivered.
Sure(item) ==
    \/ item \in {Item("KeepAliveRequest"), Item("KeepAliveResponse")}
    \/ \E p \in Payload : item = Document(p) /\ Means(p)

\* f picks s from h, in order.
Chosen(f, s, h) ==
    /\ \A i \in 1..Len(s) : h[f[i]] = s[i]
    /\ \A i, j \in 1..Len(s) : i < j => f[i] < f[j]

\* The first k of h are the first k of s, and f leaves out nothing that counts.
Only(f, s, h, k) ==
    /\ k <= Len(s)
    /\ \A j \in 1..k : f[j] = j
    /\ \A j \in (k + 1)..Len(h) : Silent(h[j]) \/ \E i \in 1..Len(s) : f[i] = j

\* s is in h, which holds nothing else if all.
Matches(s, h, k, all) ==
    \E f \in [1..Len(s) -> 1..Len(h)] : Chosen(f, s, h) /\ (all => Only(f, s, h, k))

LEMMA MatchesNone ==
    ASSUME NEW s, NEW h, NEW all, s = <<>>, h = <<>>
    PROVE  Matches(s, h, 0, all)
<1>1. Len(s) = 0 /\ Len(h) = 0
  OBVIOUS
<1> DEFINE f == [i \in {} |-> 0]
<1>2. 1..Len(s) = {} /\ 1..Len(h) = {} /\ (0 + 1)..Len(h) = {}
  BY <1>1
<1>3. f \in [1..Len(s) -> 1..Len(h)]
  BY <1>2
<1>4. Chosen(f, s, h)
  BY <1>2 DEF Chosen
<1>5. Only(f, s, h, 0)
  BY <1>1, <1>2 DEF Only
<1> QED BY <1>3, <1>4, <1>5 DEF Matches

\* Less is asked for.
LEMMA MatchesLess ==
    ASSUME NEW s, NEW h, NEW k, NEW j, NEW all, NEW less,
           Matches(s, h, k, all), less => all /\ j = k
    PROVE  Matches(s, h, j, less)
<1>1. PICK f \in [1..Len(s) -> 1..Len(h)] : Chosen(f, s, h) /\ (all => Only(f, s, h, k))
  BY DEF Matches
<1>2. less => Only(f, s, h, j)
  BY <1>1
<1> QED BY <1>1, <1>2 DEF Matches

\* More is heard: nothing that counts, or not all counts.
LEMMA MatchesHeard ==
    ASSUME NEW s \in Seq(Items), NEW h \in Seq(Items), NEW k \in Nat, NEW all, NEW x \in Items,
           Matches(s, h, k, all), all => Silent(x)
    PROVE  Matches(s, Append(h, x), k, all)
<1> DEFINE hx == Append(h, x)
           n == Len(h)
           m == Len(s)
<1>1. /\ n \in Nat /\ m \in Nat /\ hx \in Seq(Items) /\ Len(hx) = n + 1
      /\ hx[n + 1] = x /\ \A i \in 1..n : hx[i] = h[i]
  BY AppendProperties
<1>2. PICK f \in [1..m -> 1..n] : Chosen(f, s, h) /\ (all => Only(f, s, h, k))
  BY DEF Matches
<1> HIDE DEF hx, n, m
<1>3. f \in [1..m -> 1..Len(hx)]
  <2>1. 1..n \subseteq 1..Len(hx)
    BY <1>1
  <2> QED BY <2>1
<1>4. Chosen(f, s, hx)
  BY <1>1, <1>2 DEF Chosen, m
<1>5. ASSUME all PROVE Only(f, s, hx, k)
  <2>1. \A j \in (k + 1)..Len(hx) : j = n + 1 \/ j \in (k + 1)..n
    BY <1>1
  <2>2. \A j \in (k + 1)..n : hx[j] = h[j]
    BY <1>1
  <2>3. Only(f, s, h, k) /\ Silent(x)
    BY <1>2, <1>5
  <2> QED BY <1>1, <2>1, <2>2, <2>3, Zenon DEF Only, n, m
<1> QED BY <1>3, <1>4, <1>5, Zenon DEF Matches, hx, m

\* What is sent is heard.
LEMMA MatchesBoth ==
    ASSUME NEW s \in Seq(Items), NEW h \in Seq(Items), NEW k \in Nat, NEW all, NEW x \in Items,
           Matches(s, h, k, all)
    PROVE  Matches(Append(s, x), Append(h, x), k, all)
<1> DEFINE hx == Append(h, x)
           sx == Append(s, x)
           n == Len(h)
           m == Len(s)
<1>1. /\ n \in Nat /\ hx \in Seq(Items) /\ Len(hx) = n + 1
      /\ hx[n + 1] = x /\ \A i \in 1..n : hx[i] = h[i]
  BY AppendProperties
<1>2. /\ m \in Nat /\ sx \in Seq(Items) /\ Len(sx) = m + 1
      /\ sx[m + 1] = x /\ \A i \in 1..m : sx[i] = s[i]
  BY AppendProperties
<1>3. PICK f \in [1..m -> 1..n] : Chosen(f, s, h) /\ (all => Only(f, s, h, k))
  BY DEF Matches
<1> DEFINE g == [i \in 1..Len(sx) |-> IF i = m + 1 THEN n + 1 ELSE f[i]]
<1> HIDE DEF hx, sx, n, m
<1>4. /\ \A i \in 1..Len(sx) : i = m + 1 \/ i \in 1..m
      /\ m + 1 \in 1..Len(sx) /\ \A i \in 1..m : i \in 1..Len(sx) /\ i # m + 1 /\ i < m + 1
  BY <1>2
<1>5. g[m + 1] = n + 1 /\ \A i \in 1..m : g[i] = f[i] /\ f[i] \in 1..n
  BY <1>4
<1>6. g \in [1..Len(sx) -> 1..Len(hx)]
  <2>1. n + 1 \in 1..Len(hx) /\ \A i \in 1..n : i \in 1..Len(hx)
    BY <1>1
  <2> QED BY <1>4, <1>5, <2>1
<1> HIDE DEF g
<1>7. Chosen(g, sx, hx)
  <2>1. \A i \in 1..Len(sx) : hx[g[i]] = sx[i]
    <3>1. \A i \in 1..m : h[f[i]] = s[i]
      BY <1>3 DEF Chosen, m
    <3> QED BY <1>1, <1>2, <1>4, <1>5, <3>1
  <2>2. ASSUME NEW i \in 1..Len(sx), NEW j \in 1..Len(sx), i < j PROVE g[i] < g[j]
    <3>1. i \in 1..m
      BY <1>2, <2>2
    <3>2. CASE j = m + 1
      BY <1>1, <1>5, <3>1, <3>2
    <3>3. CASE j \in 1..m
      <4>1. f[i] < f[j]
        BY <1>3, <2>2, <3>1, <3>3 DEF Chosen, m
      <4> QED BY <1>5, <3>1, <3>3, <4>1
    <3> QED BY <1>4, <3>2, <3>3
  <2> QED BY <2>1, <2>2 DEF Chosen
<1>8. ASSUME all PROVE Only(g, sx, hx, k)
  <2>1. Only(f, s, h, k)
    BY <1>3, <1>8
  <2>2. k <= m /\ k <= Len(sx) /\ \A j \in 1..k : g[j] = j
    <3>1. k <= m /\ \A j \in 1..k : f[j] = j
      BY <2>1 DEF Only, m
    <3>2. k <= Len(sx) /\ \A j \in 1..k : j \in 1..m
      BY <1>2, <3>1
    <3> QED BY <1>5, <3>1, <3>2
  <2>3. ASSUME NEW j \in (k + 1)..Len(hx)
        PROVE  Silent(hx[j]) \/ \E i \in 1..Len(sx) : g[i] = j
    <3>1. CASE j = n + 1
      BY <1>4, <1>5, <3>1
    <3>2. CASE j \in (k + 1)..n
      <4>1. Silent(h[j]) \/ \E i \in 1..m : f[i] = j
        BY <2>1, <3>2 DEF Only, n, m
      <4>2. hx[j] = h[j]
        BY <1>1, <3>2
      <4> QED BY <1>4, <1>5, <4>1, <4>2
    <3> QED BY <1>1, <2>3, <3>1, <3>2
  <2> QED BY <2>2, <2>3 DEF Only
<1> QED BY <1>6, <1>7, <1>8, Zenon DEF Matches, hx, sx

\* The next thing heard is delivered.
LEMMA MatchesKept ==
    ASSUME NEW s \in Seq(Items), NEW h \in Seq(Items), NEW k \in Nat, NEW all,
           Matches(s, h, k, all), k + 1 <= Len(h), ~Silent(h[k + 1])
    PROVE  Matches(s, h, k + 1, all)
<1> DEFINE n == Len(h)
           m == Len(s)
<1>1. n \in Nat /\ m \in Nat /\ k + 1 \in (k + 1)..n
  OBVIOUS
<1>2. PICK f \in [1..m -> 1..n] : Chosen(f, s, h) /\ (all => Only(f, s, h, k))
  BY DEF Matches
<1>3. \A i, j \in 1..m : i < j => f[i] < f[j]
  BY <1>2 DEF Chosen
<1> HIDE DEF n, m
<1>4. ASSUME all PROVE Only(f, s, h, k + 1)
  <2>1. Only(f, s, h, k)
    BY <1>2, <1>4
  <2>2. k <= m /\ \A j \in 1..k : f[j] = j
    BY <2>1 DEF Only, m
  <2>3. PICK i \in 1..m : f[i] = k + 1
    BY <1>1, <2>1 DEF Only, n, m
  <2>4. i > k
    <3>1. i \in 1..k => f[i] = i
      BY <2>2
    <3> QED BY <1>1, <2>3, <3>1
  <2>5. ~(i > k + 1)
    <3> SUFFICES ASSUME i > k + 1 PROVE FALSE
      OBVIOUS
    <3>1. k + 1 \in 1..m /\ k + 1 < i
      BY <1>1, <2>3
    <3>2. f[k + 1] < k + 1 /\ f[k + 1] \in 1..n
      BY <1>3, <2>3, <3>1
    <3>3. CASE k = 0
      BY <1>1, <3>2, <3>3
    <3>4. CASE k # 0
      <4>1. k \in 1..m /\ k < k + 1 /\ k \in 1..k
        BY <1>1, <3>1, <3>4
      <4>2. f[k] < f[k + 1] /\ f[k] = k
        BY <1>3, <2>2, <3>1, <4>1
      <4> QED BY <3>2, <4>2
    <3> QED BY <3>3, <3>4
  <2>6. i = k + 1 /\ k + 1 <= m /\ f[k + 1] = k + 1
    BY <1>1, <2>3, <2>4, <2>5
  <2>7. \A j \in 1..(k + 1) : f[j] = j
    <3>1. \A j \in 1..(k + 1) : j = k + 1 \/ j \in 1..k
      OBVIOUS
    <3> QED BY <2>2, <2>6, <3>1
  <2>8. \A j \in ((k + 1) + 1)..n : j \in (k + 1)..n
    BY <1>1
  <2> QED BY <2>1, <2>6, <2>7, <2>8 DEF Only, n, m
<1> QED BY <1>2, <1>4, Zenon DEF Matches, n, m

\* The next thing heard is dropped: h was longer by it.
LEMMA MatchesDropped ==
    ASSUME NEW s \in Seq(Items), NEW h \in Seq(Items), NEW k \in Nat, NEW all, NEW x \in Items,
           NEW r \in Seq(Items), Len(r) + 1 = Len(h), k + 1 <= Len(h), h[k + 1] = x,
           \A i \in 1..k : r[i] = h[i],
           \A i \in (k + 1)..Len(r) : r[i] = h[i + 1],
           ~Sure(x), \A i \in 1..Len(s) : Sure(s[i]),
           Matches(s, h, k, all)
    PROVE  Matches(s, r, k, all)
<1> DEFINE n == Len(h)
           m == Len(s)
           l == Len(r)
<1>1. n \in Nat /\ m \in Nat /\ l \in Nat /\ n = l + 1 /\ k <= l
  OBVIOUS
<1>2. PICK f \in [1..m -> 1..n] : Chosen(f, s, h) /\ (all => Only(f, s, h, k))
  BY DEF Matches
<1>3. /\ \A i \in 1..m : h[f[i]] = s[i]
      /\ \A i, j \in 1..m : i < j => f[i] < f[j]
  BY <1>2 DEF Chosen
<1> DEFINE g == [i \in 1..m |-> IF f[i] > k THEN f[i] - 1 ELSE f[i]]
<1> HIDE DEF n, m, l
<1>4. \A i \in 1..m : f[i] \in 1..n /\ f[i] # k + 1
  <2>1. \A i \in 1..m : Sure(s[i])
    BY DEF m
  <2> QED BY <1>3, <2>1
<1>5. ASSUME NEW i \in 1..m
      PROVE  /\ f[i] > k => g[i] = f[i] - 1 /\ g[i] \in (k + 1)..l
             /\ ~(f[i] > k) => g[i] = f[i] /\ g[i] \in 1..k
             /\ g[i] \in 1..l
             /\ r[g[i]] = s[i]
  <2>1. f[i] \in 1..n /\ f[i] # k + 1 /\ h[f[i]] = s[i]
    BY <1>3, <1>4
  <2>2. CASE f[i] > k
    <3>1. g[i] = f[i] - 1
      BY <2>2
    <3> DEFINE y == g[i]
               z == f[i]
    <3> HIDE DEF g
    <3>2. y \in (k + 1)..l /\ y \in 1..l /\ y + 1 = z
      <4>1. z \in 1..n /\ z # k + 1 /\ z > k /\ y = z - 1
        BY <2>1, <2>2, <3>1
      <4> HIDE DEF y, z
      <4> QED BY <1>1, <4>1
    <3>3. r[g[i]] = h[g[i] + 1]
      BY <3>2 DEF l
    <3> QED BY <2>1, <2>2, <3>1, <3>2, <3>3
  <2>3. CASE ~(f[i] > k)
    <3>1. g[i] = f[i]
      BY <2>3
    <3>2. g[i] \in 1..k /\ g[i] \in 1..l
      BY <1>1, <2>1, <2>3, <3>1
    <3> HIDE DEF g
    <3> QED BY <2>1, <2>3, <3>1, <3>2
  <2> QED BY <2>2, <2>3
<1>6. g \in [1..m -> 1..l]
  BY <1>5
<1> HIDE DEF g
<1>7. Chosen(g, s, r)
  <2>1. ASSUME NEW i \in 1..m, NEW j \in 1..m, i < j PROVE g[i] < g[j]
    <3>1. f[i] < f[j] /\ f[i] \in 1..n /\ f[j] \in 1..n
      BY <1>3, <1>4, <2>1
    <3>2. /\ f[i] > k => g[i] = f[i] - 1
          /\ ~(f[i] > k) => g[i] = f[i] /\ g[i] \in 1..k
          /\ f[j] > k => g[j] = f[j] - 1 /\ g[j] \in (k + 1)..l
          /\ ~(f[j] > k) => g[j] = f[j]
      BY <1>5
    <3> QED BY <1>1, <3>1, <3>2
  <2> QED BY <1>5, <2>1 DEF Chosen, m
<1>8. ASSUME all PROVE Only(g, s, r, k)
  <2>1. Only(f, s, h, k)
    BY <1>2, <1>8
  <2>2. k <= m /\ \A j \in 1..k : f[j] = j
    BY <2>1 DEF Only, m
  <2>3. \A j \in 1..k : g[j] = j
    <3>1. \A j \in 1..k : j \in 1..m /\ ~(j > k)
      BY <1>1, <2>2
    <3> QED BY <1>5, <2>2, <3>1
  <2>4. ASSUME NEW j \in (k + 1)..l
        PROVE  Silent(r[j]) \/ \E i \in 1..m : g[i] = j
    <3>1. j + 1 \in (k + 1)..n /\ j + 1 > k /\ (j + 1) - 1 = j
      BY <1>1, <2>4
    <3>2. Silent(h[j + 1]) \/ \E i \in 1..m : f[i] = j + 1
      BY <2>1, <3>1 DEF Only, n, m
    <3>3. r[j] = h[j + 1]
      BY <2>4 DEF l
    <3>4. \A i \in 1..m : f[i] = j + 1 => g[i] = j
      BY <1>5, <3>1
    <3> QED BY <3>2, <3>3, <3>4
  <2> QED BY <2>2, <2>3, <2>4 DEF Only, m, l
<1> QED BY <1>6, <1>7, <1>8, Zenon DEF Matches, m, l

\* The decoder when all that is on the wire has arrived, with all it has out.
Ahead == Push(Led(pending, decoder), wire)

\* What is delivered if nothing more is sent.
Heard == got \o Ahead.out

\* The packages before the next one are in the run.
RunOK ==
    todo # <<>> /\ whole =>
        /\ Len(doing) <= MaxReassembly
        /\ Written > 0 => Ahead.reassembly = SubSeq(doing, 1, Written * MaxPackage)

SentOK == \A i \in 1..Len(sent) : Sure(sent[i])

KeptOK == Matches(sent, Heard, Len(got), ~broken)

\* The inductive invariant.
FramingInv == TypesInv /\ RunOK /\ SentOK /\ KeptOK

LEMMA AheadIsDecoder ==
    ASSUME TypesInv
    PROVE  /\ Led(pending, decoder) \in Decoders
           /\ Ahead \in Decoders
           /\ Ahead.out \in Seq(Items) /\ Ahead.reassembly \in Seq(Byte)
           /\ got \in Seq(Items) /\ sent \in Seq(Items) /\ Heard \in Seq(Items)
           /\ Len(got) \in Nat /\ wire \in Seq(Byte)
<1>1. decoder \in Decoders /\ pending \in Seq(Items) /\ got \in Seq(Items) /\ sent \in Seq(Items)
      /\ wire \in Seq(Byte)
  BY DEF TypesInv, ReaderOK, TypeOK
<1>2. Led(pending, decoder) \in Decoders
  BY <1>1, LedIsDecoder
<1>3. Ahead \in Decoders
  BY <1>1, <1>2, PushGrows DEF Ahead
<1>4. Ahead.out \in Seq(Items) /\ Ahead.reassembly \in Seq(Byte)
  BY <1>3, DecoderFields
<1>5. Heard \in Seq(Items)
  BY <1>1, <1>4 DEF Heard
<1> QED BY <1>1, <1>2, <1>3, <1>4, <1>5

\* What is written goes through the decoder after all that was.
LEMMA WriteGoesOn ==
    ASSUME TypesInv, NEW bytes \in Seq(Byte), wire' = wire \o bytes,
           decoder' = decoder, pending' = pending
    PROVE  Ahead' = Push(Ahead, bytes)
<1>1. Led(pending, decoder) \in Decoders /\ wire \in Seq(Byte)
  BY AheadIsDecoder
<1>2. Push(Led(pending, decoder), wire \o bytes) = Push(Push(Led(pending, decoder), wire), bytes)
  BY <1>1, PushGrows
<1> QED BY <1>2 DEF Ahead

\* A read takes nothing away, wherever it cuts.
LEMMA ReadGoesOn ==
    ASSUME TypesInv, Read
    PROVE  Ahead' = Ahead
<1>1. PICK s, t \in Seq(Byte) :
          /\ wire = s \o t /\ wire' = t
          /\ Push(decoder, s) = Led(pending', decoder')
  BY ReadIs
<1>2. decoder \in Decoders /\ pending = <<>>
  BY DEF Read, TypesInv, ReaderOK
<1>3. Led(pending, decoder) = decoder
  <2>1. <<>> \o decoder.out = decoder.out
    BY <1>2, DecoderFields, ConcatEmptySeq
  <2>2. decoder = Dec(decoder.inFrame, decoder.frame, decoder.reassembly, decoder.out)
    BY <1>2, DecoderFields
  <2> QED BY <1>2, <2>1, <2>2 DEF Led
<1>4. Push(decoder, s \o t) = Push(Push(decoder, s), t)
  BY <1>2, PushGrows
<1> QED BY <1>1, <1>3, <1>4 DEF Ahead

\* What is delivered or dropped was the first of what is ahead.
LEMMA DeliverGoesOn ==
    ASSUME TypesInv, Deliver
    PROVE  /\ Ahead'.reassembly = Ahead.reassembly
           /\ Ahead.out = <<Head(pending)>> \o Ahead'.out
           /\ Ahead'.out \in Seq(Items) /\ Head(pending) \in Items
<1> DEFINE x == <<Head(pending)>>
           p == Push(decoder, wire)
<1>1. /\ decoder \in Decoders /\ pending \in Seq(Items) /\ pending # <<>> /\ wire \in Seq(Byte)
      /\ pending' = Tail(pending) /\ wire' = wire /\ decoder' = decoder
  BY DEF TypesInv, TypeOK, ReaderOK, Deliver
<1>2. Head(pending) \in Items /\ x \in Seq(Items) /\ Tail(pending) \in Seq(Items)
      /\ pending = x \o Tail(pending)
  BY <1>1
<1>3. p \in Decoders
  BY <1>1, PushGrows
<1>4. Ahead = Led(pending, p) /\ Ahead' = Led(pending', p)
  <2>1. pending' \in Seq(Items)
    BY <1>1, <1>2
  <2>2. \A o \in Seq(Items) : Push(Led(o, decoder), wire) = Led(o, p)
    BY <1>1, PushLed
  <2> QED BY <1>1, <2>1, <2>2 DEF Ahead
<1> HIDE DEF p, x
<1>5. /\ Led(pending, p).out = pending \o p.out /\ Led(pending, p).reassembly = p.reassembly
      /\ Led(pending', p).out = pending' \o p.out /\ Led(pending', p).reassembly = p.reassembly
  <2>1. pending' \in Seq(Items)
    BY <1>1, <1>2
  <2> QED BY <1>1, <1>3, <2>1, LedIsDecoder
<1>6. p.out \in Seq(Items)
  BY <1>3, DecoderFields
<1>7. (x \o Tail(pending)) \o p.out = x \o (Tail(pending) \o p.out)
  <2>1. x \in Seq(Items) /\ Tail(pending) \in Seq(Items) /\ p.out \in Seq(Items)
    BY <1>2, <1>6
  <2>2. \A s, t, u \in Seq(Items) : (s \o t) \o u = s \o (t \o u)
    BY ConcatAssociative
  <2> QED BY <2>1, <2>2, Zenon
<1>8. Tail(pending) \o p.out \in Seq(Items)
  BY <1>2, <1>6
<1> QED BY <1>1, <1>2, <1>4, <1>5, <1>7, <1>8 DEF x

\* The kinds of items.
LEMMA ItemKinds ==
    \A x \in Items :
        /\ x.type = "EmberPayload" <=> \E b \in Seq(Byte) : x = Document(b)
        /\ x.type = "EmberPayload" => x.bytes \in Seq(Byte) /\ x = Document(x.bytes)
        /\ x.type # "EmberPayload" => x = Item(x.type)
        /\ Sure(x) =>
             \/ x.type \in {"KeepAliveRequest", "KeepAliveResponse"}
             \/ x.type = "EmberPayload" /\ x.bytes \in Payload /\ Means(x.bytes)
        /\ Silent(x) =>
             \/ x.type \in {"Error", "ProviderState"}
             \/ x.type = "EmberPayload" /\ x.bytes \in Payload /\ ~Means(x.bytes)
<1> SUFFICES ASSUME NEW x \in Items
             PROVE  /\ x.type = "EmberPayload" <=> \E b \in Seq(Byte) : x = Document(b)
                    /\ x.type = "EmberPayload" => x.bytes \in Seq(Byte) /\ x = Document(x.bytes)
                    /\ x.type # "EmberPayload" => x = Item(x.type)
                    /\ Sure(x) =>
                         \/ x.type \in {"KeepAliveRequest", "KeepAliveResponse"}
                         \/ x.type = "EmberPayload" /\ x.bytes \in Payload /\ Means(x.bytes)
                    /\ Silent(x) =>
                         \/ x.type \in {"Error", "ProviderState"}
                         \/ x.type = "EmberPayload" /\ x.bytes \in Payload /\ ~Means(x.bytes)
  OBVIOUS
<1>1. \A b : Document(b).type = "EmberPayload" /\ Document(b).bytes = b
  BY DEF Document
<1>2. \A y : Item(y).type = y
  BY DEF Item
<1>3. x.type = "EmberPayload" => x.bytes \in Seq(Byte) /\ x = Document(x.bytes)
  BY DEF Items, Plain, Document
<1>4. x.type # "EmberPayload" => x = Item(x.type)
  BY DEF Items, Plain, Item
<1>5. Error = Item("Error")
  BY DEF Error, Item
<1>6. Sure(x) => \/ x.type \in {"KeepAliveRequest", "KeepAliveResponse"}
                 \/ x.type = "EmberPayload" /\ x.bytes \in Payload /\ Means(x.bytes)
  BY <1>1, <1>2 DEF Sure
<1>7. Silent(x) => \/ x.type \in {"Error", "ProviderState"}
                   \/ x.type = "EmberPayload" /\ x.bytes \in Payload /\ ~Means(x.bytes)
  BY <1>1, <1>2, <1>5 DEF Silent
<1> QED BY <1>1, <1>3, <1>4, <1>6, <1>7

\* What is dropped need not be delivered; what is delivered is not nothing.
LEMMA DeliverIs ==
    ASSUME TypesInv, Deliver
    PROVE  LET x == Head(pending)
           IN  \/ got' = got /\ ~Sure(x)
               \/ got' = Append(got, x) /\ ~Silent(x)
<1> DEFINE x == Head(pending)
<1>1. x \in Items
  BY DeliverGoesOn
<1>2. CASE x.type \in {"Error", "ProviderState"}
  <2>1. got' = got
    BY <1>2 DEF Deliver
  <2>2. ~Sure(x)
    BY <1>1, <1>2, ItemKinds
  <2> QED BY <2>1, <2>2
<1>3. CASE x.type = "EmberPayload"
  <2>1. IF x.bytes \in Payload
        THEN got' = IF Means(x.bytes) THEN Append(got, x) ELSE got
        ELSE got' \in {got, Append(got, x)}
    BY <1>3 DEF Deliver
  <2>2. CASE x.bytes \in Payload /\ Means(x.bytes)
    <3>1. ~Silent(x)
      BY <1>1, <1>3, <2>2, ItemKinds
    <3> QED BY <2>1, <2>2, <3>1
  <2>3. CASE x.bytes \in Payload /\ ~Means(x.bytes)
    <3>1. ~Sure(x)
      BY <1>1, <1>3, <2>3, ItemKinds
    <3> QED BY <2>1, <2>3, <3>1
  <2>4. CASE x.bytes \notin Payload
    <3>1. ~Sure(x) /\ ~Silent(x)
      BY <1>1, <1>3, <2>4, ItemKinds
    <3> QED BY <2>1, <2>4, <3>1
  <2> QED BY <2>2, <2>3, <2>4
<1>4. CASE x.type \notin {"Error", "ProviderState", "EmberPayload"}
  <2>1. got' = Append(got, x)
    BY <1>4 DEF Deliver
  <2>2. ~Silent(x)
    BY <1>1, <1>4, ItemKinds
  <2> QED BY <2>1, <2>2
<1> QED BY <1>2, <1>3, <1>4

LEMMA FramingInvInit == Init => FramingInv
<1> SUFFICES ASSUME Init PROVE FramingInv
  OBVIOUS
<1>1. TypesInv
  BY TypesInit
<1>2. RunOK
  BY DEF Init, RunOK
<1>3. sent = <<>> /\ got = <<>> /\ Len(got) = 0 /\ Len(sent) = 0
  BY DEF Init
<1>4. SentOK
  BY <1>3 DEF SentOK
<1>5. Heard = <<>>
  <2>1. NewDecoder = Led(<<>>, NewDecoder) /\ NewDecoder.out = <<>>
    BY DEF NewDecoder, Led, Dec
  <2>2. Push(NewDecoder, <<>>) = NewDecoder
    BY NothingWritten, PushGrows
  <2>3. Ahead = NewDecoder
    BY <2>1, <2>2 DEF Ahead, Init
  <2> QED BY <1>3, <2>1, <2>3 DEF Heard
<1>6. KeptOK
  BY <1>3, <1>5, MatchesNone DEF KeptOK
<1> QED BY <1>1, <1>2, <1>4, <1>6 DEF FramingInv

\* The three ways in which what is heard may follow what is sent.
LEMMA NothingHeard ==
    ASSUME FramingInv, sent' = sent, got' = got, Ahead'.out = Ahead.out, ~broken' => ~broken
    PROVE  SentOK' /\ KeptOK'
<1>1. SentOK'
  BY DEF FramingInv, SentOK
<1>2. Heard' = Heard
  BY DEF Heard
<1>3. Matches(sent, Heard, Len(got), ~broken')
  BY MatchesLess DEF FramingInv, KeptOK
<1> QED BY <1>1, <1>2, <1>3 DEF KeptOK

LEMMA AppendedAfter ==
    ASSUME NEW s \in Seq(Items), NEW t \in Seq(Items), NEW x \in Items
    PROVE  s \o Append(t, x) = Append(s \o t, x)
  OBVIOUS

LEMMA MoreHeard ==
    ASSUME FramingInv, NEW x \in Items, sent' = sent, got' = got,
           Ahead'.out = Append(Ahead.out, x), ~broken' => ~broken /\ Silent(x)
    PROVE  SentOK' /\ KeptOK'
<1>1. SentOK'
  BY DEF FramingInv, SentOK
<1>2. /\ got \in Seq(Items) /\ Ahead.out \in Seq(Items) /\ Heard \in Seq(Items)
      /\ sent \in Seq(Items) /\ Len(got) \in Nat
  BY AheadIsDecoder DEF FramingInv
<1>3. Heard' = Append(Heard, x)
  <2>1. Heard' = got \o Append(Ahead.out, x)
    BY Zenon DEF Heard
  <2>2. got \o Append(Ahead.out, x) = Append(got \o Ahead.out, x)
    BY <1>2, AppendedAfter
  <2> QED BY <2>1, <2>2, Zenon DEF Heard
<1>4. Matches(sent, Heard, Len(got), ~broken')
  BY MatchesLess DEF FramingInv, KeptOK
<1>5. Matches(sent, Append(Heard, x), Len(got), ~broken')
  BY <1>2, <1>4, MatchesHeard
<1> QED BY <1>1, <1>3, <1>5 DEF KeptOK

LEMMA SentAndHeard ==
    ASSUME FramingInv, NEW x \in Items, Sure(x), sent' = Append(sent, x), got' = got,
           Ahead'.out = Append(Ahead.out, x), broken' = broken
    PROVE  SentOK' /\ KeptOK'
<1>1. /\ got \in Seq(Items) /\ Ahead.out \in Seq(Items) /\ Heard \in Seq(Items)
      /\ sent \in Seq(Items) /\ Len(got) \in Nat
  BY AheadIsDecoder DEF FramingInv
<1>2. SentOK'
  <2>1. \A i \in 1..Len(sent') : sent'[i] = x \/ (i \in 1..Len(sent) /\ sent'[i] = sent[i])
    <3>1. /\ Len(Append(sent, x)) = Len(sent) + 1 /\ Append(sent, x)[Len(sent) + 1] = x
          /\ \A i \in 1..Len(sent) : Append(sent, x)[i] = sent[i]
      BY <1>1, AppendProperties
    <3>2. Len(sent) \in Nat
      BY <1>1
    <3> QED BY <3>1, <3>2
  <2> QED BY <2>1 DEF FramingInv, SentOK
<1>3. Heard' = Append(Heard, x)
  <2>1. Heard' = got \o Append(Ahead.out, x)
    BY Zenon DEF Heard
  <2>2. got \o Append(Ahead.out, x) = Append(got \o Ahead.out, x)
    BY <1>1, AppendedAfter
  <2> QED BY <2>1, <2>2, Zenon DEF Heard
<1>4. Matches(Append(sent, x), Append(Heard, x), Len(got), ~broken)
  BY <1>1, MatchesBoth DEF FramingInv, KeptOK
<1> QED BY <1>2, <1>3, <1>4 DEF KeptOK

\* Nothing on the device's side has changed.
LEMMA InvReader ==
    ASSUME FramingInv, Read \/ Deliver
    PROVE  FramingInv'
<1>1. TypesInv /\ TypesInv'
  BY TypesRead, TypesDeliver DEF FramingInv
<1>2. UNCHANGED <<doing, todo, whole, sent, broken>>
  BY DEF Read, Deliver, deviceVars
<1>3. Ahead'.reassembly = Ahead.reassembly
  BY <1>1, ReadGoesOn, DeliverGoesOn
<1>4. RunOK'
  BY <1>2, <1>3 DEF FramingInv, RunOK, Written
<1>5. CASE Read
  <2>1. Ahead'.out = Ahead.out /\ got' = got
    BY <1>1, <1>5, ReadGoesOn DEF Read
  <2>2. SentOK' /\ KeptOK'
    BY <1>2, <2>1, NothingHeard
  <2> QED BY <1>1, <1>4, <2>2 DEF FramingInv
<1>6. CASE Deliver
  <2> DEFINE x == Head(pending)
             k == Len(got)
             rest == Ahead'.out
  <2>1. SentOK'
    BY <1>2 DEF FramingInv, SentOK
  <2>2. /\ x \in Items /\ got \in Seq(Items) /\ sent \in Seq(Items) /\ Heard \in Seq(Items)
        /\ k \in Nat /\ Ahead.out = <<x>> \o rest /\ rest \in Seq(Items)
    BY <1>1, <1>6, DeliverGoesOn, AheadIsDecoder
  <2>3. Heard = got \o (<<x>> \o rest) /\ Heard' = got' \o rest
    BY <2>2 DEF Heard
  <2> HIDE DEF rest
  <2>4. k + 1 <= Len(Heard) /\ Heard[k + 1] = x
    BY <2>2, <2>3
  <2>5. Matches(sent, Heard, k, ~broken)
    BY DEF FramingInv, KeptOK
  <2>6. CASE got' = Append(got, x) /\ ~Silent(x)
    <3>1. Heard' = Heard
      BY <2>2, <2>3, <2>6
    <3>2. Len(got') = k + 1
      BY <2>2, <2>6
    <3>3. Matches(sent, Heard, k + 1, ~broken)
      <4> HIDE DEF x, k
      <4> QED BY <2>2, <2>4, <2>5, <2>6, MatchesKept
    <3>4. KeptOK'
      BY <1>2, <3>1, <3>2, <3>3 DEF KeptOK
    <3> QED BY <1>1, <1>4, <2>1, <3>4 DEF FramingInv
  <2>7. CASE got' = got /\ ~Sure(x)
    <3> DEFINE r == got \o rest
    <3>1. /\ r \in Seq(Items) /\ Len(r) + 1 = Len(Heard)
          /\ \A i \in 1..k : r[i] = Heard[i]
          /\ \A i \in (k + 1)..Len(r) : r[i] = Heard[i + 1]
      BY <2>2, <2>3
    <3>2. Heard' = r
      BY <2>3, <2>7
    <3>3. \A i \in 1..Len(sent) : Sure(sent[i])
      BY DEF FramingInv, SentOK
    <3>4. Matches(sent, r, k, ~broken)
      <4> HIDE DEF x, k, r
      <4> QED BY <2>2, <2>4, <2>5, <2>7, <3>1, <3>3, MatchesDropped
    <3>5. KeptOK'
      BY <1>2, <2>7, <3>2, <3>4 DEF KeptOK
    <3> QED BY <1>1, <1>4, <2>1, <3>5 DEF FramingInv
  <2> QED BY <1>1, <1>6, <2>6, <2>7, DeliverIs
<1> QED BY <1>5, <1>6

LEMMA InvBegin ==
    ASSUME FramingInv, NEW payload \in Payload, Begin(payload)
    PROVE  FramingInv'
<1>1. TypesInv'
  BY TypesBegin DEF FramingInv
<1>2. Ahead' = Ahead
  BY DEF Begin, Ahead
<1>3. RunOK'
  <2>1. payload \in Seq(0..255)
    BY FramingAssumption
  <2>2. Len(Packages(payload)) = Pieces(payload) /\ Pieces(payload) \in Nat
    BY <2>1, PackagesAre, PiecesAre
  <2>3. Written' = 0
    BY <2>2 DEF Begin, Written
  <2>4. whole' => Len(doing') <= MaxReassembly
    BY DEF Begin
  <2> QED BY <2>3, <2>4 DEF RunOK
<1>4. SentOK' /\ KeptOK'
  <2>1. sent' = sent /\ got' = got /\ (~broken' => ~broken)
    BY DEF Begin
  <2> QED BY <1>2, <2>1, NothingHeard
<1> QED BY <1>1, <1>3, <1>4 DEF FramingInv

LEMMA ErrorSilent == Error \in Items /\ Silent(Error)
  BY DEF Items, Plain, Error, Silent

LEMMA InvWriteOther ==
    ASSUME FramingInv, NEW message \in Others, WriteOther(message)
    PROVE  FramingInv'
<1>1. TypesInv'
  BY TypesWriteOther DEF FramingInv
<1>2. Ahead \in Decoders
  BY AheadIsDecoder DEF FramingInv
<1>3. PICK x \in Items :
          /\ FrameMessage(message) \in Seq(Byte)
          /\ Push(Ahead, FrameMessage(message)) = Yield(Idle(Ahead), x)
          /\ \/ /\ Expected(message) = <<x>>
                /\ x \in {Item("KeepAliveRequest"), Item("KeepAliveResponse")}
             \/ Expected(message) = <<>> /\ Silent(x)
  BY <1>2, OtherArrives
<1>4. Ahead' = Yield(Idle(Ahead), x)
  <2>1. wire' = wire \o FrameMessage(message) /\ decoder' = decoder /\ pending' = pending
    BY DEF WriteOther
  <2>2. Ahead' = Push(Ahead, FrameMessage(message))
    BY <1>3, <2>1, WriteGoesOn DEF FramingInv
  <2> QED BY <1>3, <2>2
<1>5. Ahead'.reassembly = Ahead.reassembly /\ Ahead'.out = Append(Ahead.out, x)
  <2>1. /\ Idle(Ahead) \in Decoders
        /\ Idle(Ahead).reassembly = Ahead.reassembly /\ Idle(Ahead).out = Ahead.out
    BY <1>2, IdleOpened
  <2>2. Yield(Idle(Ahead), x) = Dec(Idle(Ahead).inFrame, Idle(Ahead).frame,
                                    Idle(Ahead).reassembly, Append(Idle(Ahead).out, x))
    BY <2>1, YieldIs
  <2> QED BY <1>4, <2>1, <2>2 DEF Dec
<1>6. RunOK'
  BY <1>5 DEF WriteOther, FramingInv, RunOK, Written
<1>7. got' = got /\ broken' = broken /\ sent' = sent \o Expected(message) /\ sent \in Seq(Items)
  BY AheadIsDecoder DEF WriteOther, FramingInv
<1>8. CASE Expected(message) = <<x>> /\ x \in {Item("KeepAliveRequest"), Item("KeepAliveResponse")}
  <2>1. sent' = Append(sent, x) /\ Sure(x)
    BY <1>7, <1>8 DEF Sure
  <2>2. SentOK' /\ KeptOK'
    BY <1>5, <1>7, <2>1, SentAndHeard
  <2> QED BY <1>1, <1>6, <2>2 DEF FramingInv
<1>9. CASE Expected(message) = <<>> /\ Silent(x)
  <2>1. sent' = sent
    BY <1>7, <1>9
  <2>2. SentOK' /\ KeptOK'
    BY <1>5, <1>7, <1>9, <2>1, MoreHeard
  <2> QED BY <1>1, <1>6, <2>2 DEF FramingInv
<1> QED BY <1>3, <1>8, <1>9

LEMMA InvWriteDamaged ==
    ASSUME FramingInv, WriteDamaged
    PROVE  FramingInv'
<1>1. TypesInv /\ TypesInv'
  BY TypesWriteDamaged DEF FramingInv
<1>2. RunOK'
  BY DEF WriteDamaged, RunOK
<1>3. Ahead \in Decoders
  BY <1>1, AheadIsDecoder
<1>4. Ahead'.out \in {Ahead.out, Append(Ahead.out, Error)}
  <2>1. PICK f \in Flags, c \in Seq(Byte) : Head(todo) = <<Ember, f>> \o c /\ Len(c) <= MaxPackage
    BY <1>1, ToWrite DEF WriteDamaged
  <2>2. PICK bytes \in Damaged(FrameMessage(Head(todo))) : wire' = wire \o bytes
    BY DEF WriteDamaged
  <2>3. /\ bytes \in Seq(Byte)
        /\ Push(Ahead, bytes).out \in {Ahead.out, Append(Ahead.out, Error)}
    BY <1>3, <2>1, <2>2, DamagedArrives
  <2>4. decoder' = decoder /\ pending' = pending
    BY DEF WriteDamaged
  <2>5. Ahead' = Push(Ahead, bytes)
    BY <1>1, <2>2, <2>3, <2>4, WriteGoesOn
  <2> QED BY <2>3, <2>5
<1>5. got' = got /\ sent' = sent /\ (~broken' => ~broken)
  BY DEF WriteDamaged
<1>6. SentOK' /\ KeptOK'
  <2>1. CASE Ahead'.out = Ahead.out
    BY <1>5, <2>1, NothingHeard
  <2>2. CASE Ahead'.out = Append(Ahead.out, Error)
    BY <1>5, <2>2, ErrorSilent, MoreHeard
  <2> QED BY <1>4, <2>1, <2>2
<1> QED BY <1>1, <1>2, <1>6 DEF FramingInv

\* A package of a payload that can still arrive: the run holds what came before.
LEMMA InvWritePackage ==
    ASSUME FramingInv, WritePackage
    PROVE  FramingInv'
<1>1. TypesInv /\ TypesInv'
  BY TypesWritePackage DEF FramingInv
<1>2. todo # <<>>
  BY DEF WritePackage
<1>3. PICK f \in Flags, c \in Seq(Byte) :
          /\ Head(todo) = <<Ember, f>> \o c
          /\ Len(c) <= MaxPackage
          /\ Set(f, FIRST) <=> Written = 0
          /\ Set(f, LAST) <=> Len(todo) = 1
          /\ SubSeq(doing, 1, Written * MaxPackage) \o c
               = SubSeq(doing, 1, EndOf(doing, Written + 1))
  BY <1>1, <1>2, ToWrite
<1> DEFINE d == Idle(Ahead)
           all == Joined(Ahead.reassembly, f, c)
<1>4. /\ d \in Decoders /\ d.reassembly = Ahead.reassembly /\ d.out = Ahead.out
      /\ Ahead \in Decoders
  BY <1>1, AheadIsDecoder, IdleOpened
<1>5. Ahead' = ParseEmber(d, f, c)
  <2>1. /\ FrameMessage(Head(todo)) \in Seq(Byte)
        /\ Push(Ahead, FrameMessage(Head(todo))) = ParseEmber(d, f, c)
    BY <1>3, <1>4, PackageArrives
  <2>2. wire' = wire \o FrameMessage(Head(todo)) /\ decoder' = decoder /\ pending' = pending
    BY DEF WritePackage
  <2> QED BY <1>1, <2>1, <2>2, WriteGoesOn
<1>6. f \in Byte /\ ~Set(f, EMPTY)
  BY FlagsAre
<1> HIDE DEF d
<1>7. /\ all \in Seq(Byte)
      /\ Len(all) > MaxReassembly
           => Ahead' = Dec(d.inFrame, d.frame, <<>>, Append(d.out, Error))
      /\ Len(all) <= MaxReassembly /\ Set(f, LAST)
           => Ahead' = Dec(d.inFrame, d.frame, <<>>, Append(d.out, Document(all)))
      /\ Len(all) <= MaxReassembly /\ ~Set(f, LAST)
           => Ahead' = Dec(d.inFrame, d.frame, all, d.out)
  BY <1>4, <1>5, <1>6, ParseEmberIs
<1> HIDE DEF all
<1>8. /\ Len(all) > MaxReassembly => Ahead'.out = Append(Ahead.out, Error)
      /\ Len(all) <= MaxReassembly /\ Set(f, LAST) => Ahead'.out = Append(Ahead.out, Document(all))
      /\ Len(all) <= MaxReassembly /\ ~Set(f, LAST)
           => Ahead'.out = Ahead.out /\ Ahead'.reassembly = all
  BY <1>4, <1>7 DEF Dec
<1>9. Len(all) > MaxReassembly \/ Len(all) <= MaxReassembly
  <2>1. Len(all) \in Nat /\ MaxReassembly \in Nat
    BY <1>7, FramingAssumption
  <2> QED BY <2>1
<1>10. got' = got /\ broken' = broken /\ whole' = whole /\ doing' = doing /\ todo' = Tail(todo)
  BY DEF WritePackage
<1>11. CASE ~whole
  <2>1. broken
    BY <1>1, <1>2, <1>11 DEF TypesInv, DeviceOK
  <2>2. sent' = sent
    BY <1>11 DEF WritePackage
  <2>3. RunOK'
    BY <1>10, <1>11 DEF RunOK
  <2>4. SentOK' /\ KeptOK'
    <3>1. CASE Ahead'.out = Ahead.out
      BY <1>10, <2>2, <3>1, NothingHeard
    <3>2. ASSUME NEW x \in Items, Ahead'.out = Append(Ahead.out, x) PROVE SentOK' /\ KeptOK'
      BY <1>10, <2>1, <2>2, <3>2, MoreHeard
    <3>3. Document(all) \in Items
      BY <1>7, DocumentIsItem
    <3> QED BY <1>8, <1>9, <3>1, <3>2, <3>3, ErrorSilent
  <2> QED BY <1>1, <2>3, <2>4 DEF FramingInv
<1>12. CASE whole
  <2>1. /\ doing \in Payload /\ doing \in Seq(0..255) /\ doing \in Seq(Byte)
        /\ Written \in 0..(Pieces(doing) - 1) /\ Pieces(doing) \in Nat
        /\ Tail(todo) = <<>> <=> Len(todo) = 1
        /\ Len(todo) \in Nat /\ Len(Tail(todo)) = Len(todo) - 1
    <3>1. doing \in Payload /\ todo \in Seq(Seq(Byte))
      BY <1>1, <1>2, ToWrite DEF TypesInv, TypeOK
    <3>2. doing \in Seq(Byte) /\ Len(todo) \in Nat
      BY <3>1, PayloadIsBytes
    <3> QED BY <1>1, <1>2, <3>1, <3>2, ToWrite
  <2>2. /\ Len(doing) <= MaxReassembly
        /\ Written > 0 => Ahead.reassembly = SubSeq(doing, 1, Written * MaxPackage)
    BY <1>2, <1>12 DEF FramingInv, RunOK
  <2>3. all = SubSeq(doing, 1, EndOf(doing, Written + 1))
    <3>1. all = (IF Written = 0 THEN <<>> ELSE Ahead.reassembly) \o c
      BY <1>3, <1>6 DEF all, Joined
    <3>2. CASE Written = 0
      <4>1. SubSeq(doing, 1, Written * MaxPackage) = <<>>
        BY <3>2, FramingAssumption, SubSeqEmpty
      <4> QED BY <1>3, <3>1, <3>2, <4>1
    <3>3. CASE Written # 0
      <4>1. Written > 0
        BY <2>1, <3>3
      <4>2. Ahead.reassembly = SubSeq(doing, 1, Written * MaxPackage)
        BY <2>2, <4>1
      <4>3. all = Ahead.reassembly \o c
        BY <3>1, <3>3
      <4> QED BY <1>3, <4>2, <4>3
    <3> QED BY <3>2, <3>3
  <2>4. /\ EndOf(doing, Written + 1) \in Nat /\ EndOf(doing, Written + 1) <= Len(doing)
        /\ Len(doing) \in Nat /\ MaxReassembly \in Nat
    <3>1. Written + 1 \in 1..Pieces(doing)
      BY <2>1
    <3>2. /\ EndOf(doing, Written + 1) \in Nat /\ EndOf(doing, Written + 1) <= Len(doing)
      BY <2>1, <3>1, PiecesAre
    <3> QED BY <2>1, <3>2, FramingAssumption
  <2>5. Len(all) <= MaxReassembly
    <3>1. Len(all) <= Len(doing)
      BY <2>1, <2>3, <2>4
    <3>2. Len(all) \in Nat
      BY <1>7
    <3> QED BY <2>2, <2>4, <3>1, <3>2
  <2>6. CASE Len(todo) = 1
    <3>1. Written + 1 = Pieces(doing)
      BY <2>1, <2>6 DEF Written
    <3>2. all = doing
      <4>1. EndOf(doing, Written + 1) = Len(doing)
        BY <3>1 DEF EndOf
      <4> QED BY <2>1, <2>3, <4>1, SubSeqFull
    <3>3. Ahead'.out = Append(Ahead.out, Document(doing)) /\ Document(doing) \in Items
      BY <1>3, <1>8, <2>1, <2>5, <2>6, <3>2, DocumentIsItem
    <3>4. RunOK'
      BY <1>10, <2>1, <2>6 DEF RunOK
    <3>5. CASE Means(doing)
      <4>1. sent' = Append(sent, Document(doing)) /\ Sure(Document(doing))
        BY <1>12, <2>1, <2>6, <3>5 DEF WritePackage, Sure
      <4>2. SentOK' /\ KeptOK'
        BY <1>10, <3>3, <4>1, SentAndHeard
      <4> QED BY <1>1, <3>4, <4>2 DEF FramingInv
    <3>6. CASE ~Means(doing)
      <4>1. sent' = sent /\ Silent(Document(doing))
        BY <2>1, <3>6 DEF WritePackage, Silent
      <4>2. SentOK' /\ KeptOK'
        BY <1>10, <3>3, <4>1, MoreHeard
      <4> QED BY <1>1, <3>4, <4>2 DEF FramingInv
    <3> QED BY <3>5, <3>6
  <2>7. CASE Len(todo) # 1
    <3>1. Written + 1 # Pieces(doing) /\ Written' = Written + 1
      BY <1>10, <2>1, <2>7 DEF Written
    <3>2. Ahead'.out = Ahead.out /\ Ahead'.reassembly = all
      BY <1>3, <1>8, <2>5, <2>7
    <3>3. all = SubSeq(doing, 1, Written' * MaxPackage)
      BY <2>3, <3>1 DEF EndOf
    <3>4. RunOK'
      BY <1>10, <2>2, <3>2, <3>3 DEF RunOK
    <3>5. sent' = sent
      BY <2>7 DEF WritePackage
    <3>6. SentOK' /\ KeptOK'
      BY <1>10, <3>2, <3>5, NothingHeard
    <3> QED BY <1>1, <3>4, <3>6 DEF FramingInv
  <2> QED BY <2>6, <2>7
<1> QED BY <1>11, <1>12

LEMMA FramingInvNext ==
    ASSUME FramingInv, [Next]_vars
    PROVE  FramingInv'
<1>1. CASE UNCHANGED vars
  <2>1. TypesInv'
    BY <1>1, TypesNext DEF FramingInv
  <2>2. Ahead' = Ahead
    BY <1>1 DEF vars, Ahead
  <2>3. UNCHANGED <<doing, todo, whole, sent, broken, got>>
    BY <1>1 DEF vars, deviceVars
  <2> QED BY <2>1, <2>2, <2>3 DEF FramingInv, RunOK, SentOK, KeptOK, Heard, Written
<1>2. CASE Device
  BY <1>2, InvBegin, InvWritePackage, InvWriteOther, InvWriteDamaged DEF Device
<1>3. CASE Read \/ Deliver
  BY <1>3, InvReader
<1> QED BY <1>1, <1>2, <1>3 DEF Next

LEMMA FramingInvAlways == Spec => []FramingInv
  BY FramingInvInit, FramingInvNext, PTL DEF Spec

\* When all is read, all that will be heard is delivered.
LEMMA AllReadIsHeard ==
    ASSUME FramingInv, AllRead
    PROVE  Heard = got
<1>1. decoder \in Decoders /\ decoder.out = <<>> /\ got \in Seq(Items)
  BY DEF FramingInv, TypesInv, ReaderOK
<1>2. Led(<<>>, decoder) \in Decoders /\ Led(<<>>, decoder).out = <<>> \o decoder.out
  <2> DEFINE none == <<>>
  <2>1. none \in Seq(Items)
    OBVIOUS
  <2> HIDE DEF none
  <2>2. Led(none, decoder) \in Decoders /\ Led(none, decoder).out = none \o decoder.out
    BY <1>1, <2>1, LedIsDecoder
  <2> QED BY <2>2 DEF none
<1>3. Ahead = Led(<<>>, decoder)
  BY <1>2, PushGrows DEF Ahead, AllRead
<1>4. Ahead.out = <<>>
  BY <1>1, <1>2, <1>3
<1> QED BY <1>1, <1>4 DEF Heard

\* Types, and the caps on what a decoder holds.
THEOREM FramingTypes == Spec => []TypeOK
<1>1. FramingInv => TypeOK
  BY DEF FramingInv, TypesInv
<1> QED BY <1>1, FramingInvAlways, PTL

\* Every message sent whole is delivered, in order, whatever was damaged around it, wherever
\* the stream is cut into reads and whatever comes between the packages of a payload.
THEOREM FramingStillDecodes == Spec => []StillDecodes
<1>1. FramingInv => StillDecodes
  <2> SUFFICES ASSUME FramingInv, AllRead PROVE Subsequence(sent, got)
    BY DEF StillDecodes
  <2>1. Matches(sent, got, Len(got), ~broken)
    BY AllReadIsHeard DEF FramingInv, KeptOK
  <2> QED BY <2>1 DEF Matches, Chosen, Subsequence
<1> QED BY <1>1, FramingInvAlways, PTL

\* As long as no payload of several packages was damaged, what is delivered is what was sent,
\* from the first on, before all is read too.
THEOREM FramingNothingInvented == Spec => []NothingInvented
<1>1. FramingInv => NothingInvented
  <2> SUFFICES ASSUME FramingInv, ~broken PROVE IsPrefix(got, sent)
    BY DEF NothingInvented
  <2> DEFINE k == Len(got)
  <2>1. PICK f \in [1..Len(sent) -> 1..Len(Heard)] :
            Chosen(f, sent, Heard) /\ Only(f, sent, Heard, k)
    BY DEF FramingInv, KeptOK, Matches
  <2>2. /\ got \in Seq(Items) /\ sent \in Seq(Items) /\ k \in Nat /\ Len(sent) \in Nat
        /\ Ahead.out \in Seq(Items)
    BY AheadIsDecoder DEF FramingInv
  <2>3. k <= Len(sent) /\ \A j \in 1..k : f[j] = j
    BY <2>1 DEF Only
  <2>4. \A j \in 1..k : got[j] = sent[j]
    <3>1. \A j \in 1..k : Heard[j] = got[j]
      BY <2>2 DEF Heard
    <3>2. \A j \in 1..k : j \in 1..Len(sent)
      BY <2>2, <2>3
    <3> QED BY <2>1, <2>3, <3>1, <3>2 DEF Chosen
  <2>5. SubSeq(got, 1, k) = SubSeq(sent, 1, k)
    <3> DEFINE a == SubSeq(got, 1, k)
               b == SubSeq(sent, 1, k)
    <3>1. a \in Seq(Items) /\ Len(a) = k /\ \A i \in 1..k : a[i] = got[i]
      BY <2>2
    <3>2. b \in Seq(Items) /\ Len(b) = k /\ \A i \in 1..k : b[i] = sent[i]
      BY <2>2, <2>3
    <3> HIDE DEF a, b
    <3>3. a = b
      BY <2>4, <3>1, <3>2, SeqEqual
    <3> QED BY <3>3 DEF a, b
  <2> QED BY <2>3, <2>5 DEF IsPrefix
<1> QED BY <1>1, FramingInvAlways, PTL

===============================================================================
