------------------------------- MODULE TreeProofs -------------------------------
(***************************************************************************)
(* Proofs about Tree, for every device.                                    *)
(***************************************************************************)
EXTENDS Tree, SequenceTheorems, NaturalsInduction, WellFoundedInduction, TLAPS

-------------------------------------------------------------------------------
(* Numbers.                                                                *)

\* A set of numbers has a least one.
LEMMA LeastOf ==
    ASSUME NEW T, T \subseteq Nat, T # {}
    PROVE  \E x \in T : \A y \in T : x <= y
<1>1. \E x \in T : \A y \in T : <<y, x>> \notin OpToRel(<, Nat)
  BY NatLessThanWellFounded, WFMin
<1>2. PICK x \in T : \A y \in T : <<y, x>> \notin OpToRel(<, Nat)
  BY <1>1
<1>3. \A y \in T : ~(y < x)
  BY <1>2 DEF OpToRel
<1> QED BY <1>3

LEMMA MinOK ==
    ASSUME NEW T, T \subseteq Nat, T # {}
    PROVE  Min(T) \in T
BY LeastOf DEF Min

LEMMA MaxOK ==
    ASSUME NEW T, NEW n \in Nat, T \subseteq 1..n, T # {}
    PROVE  Max(T) \in T /\ \A y \in T : y <= Max(T)
<1> DEFINE U == {n - x : x \in T}
<1>1. \A x \in T : n - x \in Nat /\ n - x \in U
  OBVIOUS
<1>2. U \subseteq Nat
  BY <1>1
<1>3. U # {}
  BY <1>1
<1>4. PICK u \in U : \A y \in U : u <= y
  BY <1>2, <1>3, LeastOf
<1>5. PICK x \in T : u = n - x
  OBVIOUS
<1>6. \A y \in T : n - x <= n - y
  BY <1>1, <1>4, <1>5
<1>7. ASSUME NEW y \in T PROVE x >= y
  <2>1. x \in Nat /\ y \in Nat /\ n - x <= n - y
    BY <1>6
  <2> QED BY ONLY <2>1, n \in Nat
<1>8. Max(T) \in T /\ \A y \in T : Max(T) >= y
  BY <1>7 DEF Max
<1> QED BY <1>8

\* Induction over the natural numbers.
LEMMA Induction ==
    ASSUME NEW S, 0 \in S, \A n \in Nat : n \in S => n + 1 \in S
    PROVE  Nat \subseteq S
<1> SUFFICES ASSUME Nat \ S # {} PROVE FALSE
  OBVIOUS
<1>1. PICK x \in Nat \ S : \A y \in Nat \ S : x <= y
  BY LeastOf
<1>2. x # 0 /\ x - 1 \in Nat /\ x - 1 \in S /\ (x - 1) + 1 = x
  BY <1>1
<1> QED BY <1>1, <1>2

LEMMA InductionUpTo ==
    ASSUME NEW N \in Nat, NEW S, 0 \in S, \A n \in 1..N : n - 1 \in S => n \in S
    PROVE  0..N \subseteq S
<1> DEFINE T == {n \in Nat : n <= N => n \in S}
<1>1. 0 \in T
  OBVIOUS
<1>2. ASSUME NEW n \in Nat, n \in T PROVE n + 1 \in T
  <2> SUFFICES ASSUME n + 1 <= N PROVE n + 1 \in S
    OBVIOUS
  <2>1. n \in S /\ n + 1 \in 1..N /\ (n + 1) - 1 = n
    BY <1>2
  <2> QED BY <2>1
<1>3. Nat \subseteq T
  <2> HIDE DEF T
  <2> QED BY <1>1, <1>2, Induction
<1> QED BY <1>3

-------------------------------------------------------------------------------
(* A document is ingested element by element.                              *)

LEMMA IngestedStep ==
    ASSUME NEW t, NEW doc, Len(doc) \in Nat
    PROVE  /\ Ingested(t, doc)[0] = t
           /\ \A n \in 1..Len(doc) :
                  Ingested(t, doc)[n] = ingest_element(Ingested(t, doc)[n - 1], doc[n])
<1> DEFINE Is(f, m) ==
        f = [n \in 0..m |-> IF n = 0 THEN t ELSE ingest_element(f[n - 1], doc[n])]
           S == {m \in Nat : \E f : Is(f, m)}
<1>1. 0 \in S
  <2>1. Is([n \in 0..0 |-> t], 0)
    OBVIOUS
  <2> QED BY <2>1
<1>2. ASSUME NEW m \in Nat, m \in S PROVE m + 1 \in S
  <2>1. PICK f : Is(f, m)
    BY <1>2
  <2> DEFINE g == [n \in 0..(m + 1) |->
                      IF n = m + 1 THEN ingest_element(f[m], doc[m + 1]) ELSE f[n]]
  <2>2. \A n \in 0..m : g[n] = f[n]
    OBVIOUS
  <2>3. \A n \in 0..m : f[n] = IF n = 0 THEN t ELSE ingest_element(f[n - 1], doc[n])
    BY <2>1
  <2>4. \A n \in 0..m : g[n] = IF n = 0 THEN t ELSE ingest_element(g[n - 1], doc[n])
    BY <2>2, <2>3
  <2>5. g[m + 1] = ingest_element(g[m], doc[m + 1])
    BY <2>2
  <2>6. \A n \in 0..(m + 1) : g[n] = IF n = 0 THEN t ELSE ingest_element(g[n - 1], doc[n])
    BY <2>4, <2>5
  <2> HIDE DEF g
  <2>7. g = [n \in 0..(m + 1) |-> g[n]]
    BY DEF g
  <2>8. Is(g, m + 1)
    BY <2>6, <2>7
  <2> QED BY <2>8
<1> HIDE DEF S
<1>3. Len(doc) \in S
  BY <1>1, <1>2, Induction
<1>4. \E f : Is(f, Len(doc))
  BY <1>3 DEF S
<1>5. Is(Ingested(t, doc), Len(doc))
  BY <1>4 DEF Ingested
<1> QED BY <1>5

-------------------------------------------------------------------------------
(* Trees and their entries.                                                *)

EntryFields ==
    {"kind", "identifier", "value", "stream", "online", "requested", "children", "count",
     "signals", "names", "labels", "params", "axis_params"}

\* A record with these fields and no others.
IsEntry(e) == e = [f \in EntryFields |-> e[f]]

TreeFields ==
    {"entries", "roots", "stream_index", "value_updates", "matrix_watch", "matrix_dirty"}

IsTree(t) ==
    /\ t = [f \in TreeFields |-> t[f]]
    /\ t.entries = [p \in DOMAIN t.entries |-> t.entries[p]]
    /\ \A p \in DOMAIN t.entries : IsEntry(t.entries[p])

Good(t) == IsTree(t) /\ TreeOK(t) /\ Linked(t)

\* All but the children.
Alike(e, f) ==
    /\ e.kind = f.kind /\ e.identifier = f.identifier /\ e.value = f.value
    /\ e.stream = f.stream /\ e.online = f.online /\ e.requested = f.requested
    /\ e.count = f.count /\ e.signals = f.signals /\ e.names = f.names
    /\ e.labels = f.labels /\ e.params = f.params /\ e.axis_params = f.axis_params

LEMMA AlikeAlike ==
    \A e, f, g : Alike(e, f) /\ Alike(f, g) => Alike(e, g)
BY DEF Alike

LEMMA ElementFacts ==
    ASSUME NEW el \in Elements
    PROVE  /\ ElementOK(el)
           /\ el.path \in Paths /\ el.path \in Seq(Nat) /\ el.path # NoPath
           /\ el.kind \in Kind
           /\ Says(el, "value") \/ Says(el, "stream") => el.path \in Valued
<1>1. PICK doc \in Documents : el \in ToSet(doc)
  BY DEF Elements
<1>2. PICK i \in DOMAIN doc : el = doc[i]
  BY <1>1 DEF ToSet
<1>3. DOMAIN doc = 1..Len(doc) /\ ElementOK(doc[i])
  BY <1>2, TreeAssumption
<1> QED BY <1>2, <1>3 DEF ElementOK, Paths, Valued

LEMMA PathsAreSeqs == Paths \subseteq Seq(Nat) \ {NoPath}
BY ElementFacts DEF Paths

LEMMA AppendToList ==
    ASSUME NEW S, NEW s \in Seq(S), IsInjective(s), NEW x \in S, x \notin ToSet(s)
    PROVE  /\ Append(s, x) \in Seq(S)
           /\ IsInjective(Append(s, x))
           /\ ToSet(Append(s, x)) = ToSet(s) \cup {x}
<1>1. /\ Append(s, x) \in Seq(S)
      /\ Len(Append(s, x)) = Len(s) + 1
      /\ \A i \in 1..Len(s) : Append(s, x)[i] = s[i]
      /\ Append(s, x)[Len(s) + 1] = x
      /\ DOMAIN Append(s, x) = 1..(Len(s) + 1) /\ DOMAIN s = 1..Len(s) /\ Len(s) \in Nat
  OBVIOUS
<1>2. \A i \in 1..Len(s) : s[i] # x
  BY <1>1 DEF ToSet
<1>3. IsInjective(Append(s, x))
  BY <1>1, <1>2 DEF IsInjective
<1>4. ToSet(Append(s, x)) = ToSet(s) \cup {x}
  BY <1>1 DEF ToSet
<1> QED BY <1>1, <1>3, <1>4

LEMMA NewEntryOK ==
    ASSUME NEW kind \in Kind
    PROVE  EntryOK(NewEntry(kind)) /\ IsEntry(NewEntry(kind))
<1>1. IsEntry(NewEntry(kind))
  BY DEF IsEntry, NewEntry, EntryFields
<1>2. <<>> \in Seq(Paths) /\ <<>> \in Seq(Seq(Nat)) /\ <<>> \in Seq(Nat)
  OBVIOUS
<1>3. DOMAIN <<>> \subseteq Nat
  OBVIOUS
<1> QED BY <1>1, <1>2, <1>3 DEF EntryOK, NewEntry, Identifier, NoPath

\* u is t with an entry for the element, if it had none.
Grown(t, u, el) ==
    /\ DOMAIN u.entries = DOMAIN t.entries \cup {el.path}
    /\ \A q \in DOMAIN t.entries :
           /\ Alike(u.entries[q], t.entries[q])
           /\ q # Front(el.path) => u.entries[q].children = t.entries[q].children
    /\ el.path \notin DOMAIN t.entries => Alike(u.entries[el.path], NewEntry(el.kind))
    /\ u.stream_index = t.stream_index /\ u.value_updates = t.value_updates
    /\ u.matrix_watch = t.matrix_watch /\ u.matrix_dirty = t.matrix_dirty

LEMMA FrontOfOne == ASSUME NEW p \in Seq(Nat), Len(p) = 1 PROVE Front(p) = NoPath
BY DEF Front, NoPath

LEMMA FrontOfLonger ==
    ASSUME NEW p \in Seq(Nat), p # NoPath, Len(p) # 1
    PROVE  Front(p) \in Seq(Nat) /\ Len(Front(p)) = Len(p) - 1 /\ Front(p) # NoPath /\ Front(p) # p
<1>1. Len(p) \in Nat /\ Len(p) # 0
  BY EmptySeq DEF NoPath
<1>2. Front(p) \in Seq(Nat) /\ Len(Front(p)) = Len(p) - 1
  <2> DEFINE k == Len(p) - 1
  <2>1. k \in Nat /\ k >= 1
    <3>1. \A n \in Nat : n # 0 /\ n # 1 => n - 1 \in Nat /\ n - 1 >= 1
      OBVIOUS
    <3> QED BY <1>1, <3>1
  <2>2. \A i \in 1..Len(p) : p[i] \in Nat
    OBVIOUS
  <2>3. \A i \in 1..k : p[i] \in Nat
    BY <1>1, <2>2
  <2> HIDE DEF k
  <2>4. SubSeq(p, 1, k) \in Seq(Nat) /\ Len(SubSeq(p, 1, k)) = k
    BY <2>1, <2>3, SubSeqProperties
  <2> QED BY <2>1, <2>4 DEF Front, k
<1> QED BY <1>1, <1>2 DEF NoPath

LEMMA UpsertOK ==
    ASSUME NEW t, Good(t), NEW el \in Elements
    PROVE  Good(upsert(t, el)) /\ Grown(t, upsert(t, el), el)
<1> DEFINE p == el.path
           u == [t EXCEPT !.entries = [q \in DOMAIN @ \cup {p} |->
                                          IF q = p THEN NewEntry(el.kind) ELSE @[q]]]
<1>1. CASE p \in DOMAIN t.entries
  BY <1>1 DEF upsert, Grown, Alike
<1>2. CASE p \notin DOMAIN t.entries
  <2>1. /\ p \in Paths /\ p \in Seq(Nat) /\ p # NoPath /\ el.kind \in Kind
        /\ EntryOK(NewEntry(el.kind)) /\ IsEntry(NewEntry(el.kind))
    BY ElementFacts, NewEntryOK
  <2>2. /\ u.entries = [q \in DOMAIN t.entries \cup {p} |->
                           IF q = p THEN NewEntry(el.kind) ELSE t.entries[q]]
        /\ u.roots = t.roots /\ u.stream_index = t.stream_index
        /\ u.value_updates = t.value_updates
        /\ u.matrix_watch = t.matrix_watch /\ u.matrix_dirty = t.matrix_dirty
        /\ u = [f \in TreeFields |-> u[f]]
    BY DEF Good, IsTree, TreeFields
  <2> HIDE DEF u
  <2>3. IsTree(u) /\ TreeOK(u)
    BY <2>1, <2>2 DEF Good, IsTree, TreeOK
  <2>4. Grown(t, u, el)
    BY <1>2, <2>2 DEF Grown, Alike
  <2>5. NewEntry(el.kind).children = <<>>
    BY DEF NewEntry
  <2>6. Linked(u)
    <3>1. /\ Below(u, p) = <<>>
          /\ \A q \in DOMAIN t.entries \cup {NoPath} : Below(u, q) = Below(t, q)
      BY <1>2, <2>1, <2>2, <2>5 DEF Below, Children
    <3>2. IsInjective(<<>>) /\ ToSet(<<>>) = {}
      BY DEF IsInjective, ToSet
    <3>3. DOMAIN t.entries \subseteq DOMAIN u.entries
      BY <2>2
    <3> QED BY <2>2, <3>1, <3>2, <3>3 DEF Good, Linked
  <2>7. CASE Len(p) = 1
    <3>1. p \notin ToSet(t.roots)
      BY <1>2 DEF Good, Linked, Below
    <3>2. ~Contains(u.roots, p)
      BY <2>2, <3>1 DEF Contains, ToSet, Good, TreeOK
    <3>3. upsert(t, el) = [u EXCEPT !.roots = Append(@, p)]
      BY <1>2, <2>7, <3>2 DEF upsert, link_to_parent, u
    <3>4. /\ Append(t.roots, p) \in Seq(Paths) /\ IsInjective(Append(t.roots, p))
          /\ ToSet(Append(t.roots, p)) = ToSet(t.roots) \cup {p}
      <4>1. t.roots \in Seq(Paths) /\ IsInjective(t.roots)
        BY DEF Good, TreeOK, Linked, Below
      <4> QED BY <2>1, <3>1, <4>1, AppendToList
    <3> DEFINE w == [u EXCEPT !.roots = Append(@, p)]
    <3>5. /\ w.roots = Append(t.roots, p) /\ w.entries = u.entries
          /\ w.stream_index = u.stream_index /\ w.value_updates = u.value_updates
          /\ w.matrix_watch = u.matrix_watch /\ w.matrix_dirty = u.matrix_dirty
          /\ w = [f \in TreeFields |-> w[f]]
      BY <2>2 DEF TreeFields
    <3> HIDE DEF w
    <3>6. IsTree(w) /\ TreeOK(w)
      BY <2>3, <3>4, <3>5 DEF IsTree, TreeOK
    <3>7. Grown(t, w, el)
      BY <2>4, <3>5 DEF Grown
    <3>8. Linked(w)
      <4>1. \A q \in DOMAIN u.entries : q # NoPath
        BY <2>3, PathsAreSeqs DEF TreeOK
      <4>2. \A q \in DOMAIN u.entries : Below(w, q) = Below(u, q)
        BY <3>5, <4>1 DEF Below, Children
      <4>3. Below(w, NoPath) = Append(t.roots, p) /\ Below(u, NoPath) = t.roots
        BY <2>2, <3>5 DEF Below
      <4>4. \A c \in ToSet(t.roots) \cup {p} : c \in DOMAIN u.entries /\ Front(c) = NoPath
        BY <2>1, <2>2, <2>6, <2>7, <4>3, FrontOfOne DEF Linked
      <4> QED BY <2>6, <3>4, <3>5, <4>2, <4>3, <4>4 DEF Linked
    <3> QED BY <3>3, <3>6, <3>7, <3>8 DEF Good, w
  <2>8. CASE Len(p) # 1 /\ Front(p) \in DOMAIN u.entries
    <3> DEFINE f == Front(p)
               w == [u EXCEPT !.entries[f].children = Append(@, p)]
    <3>1. f \in DOMAIN t.entries /\ f # p /\ f # NoPath /\ u.entries[f] = t.entries[f]
      BY <2>1, <2>2, <2>8, FrontOfLonger
    <3>2. p \notin ToSet(Children(t, f))
      BY <1>2, <3>1 DEF Good, Linked, Below
    <3>3. Children(u, f) = Children(t, f) /\ Children(t, f) \in Seq(Paths)
      BY <3>1 DEF Children, Good, TreeOK, EntryOK
    <3>4. ~Contains(u.entries[f].children, p)
      BY <3>2, <3>3 DEF Contains, ToSet, Children
    <3>5. upsert(t, el) = w
      BY <1>2, <2>8, <3>4 DEF upsert, link_to_parent, u
    <3> DEFINE new == [u.entries[f] EXCEPT !.children = Append(@, p)]
    <3>6. /\ w.entries = [u.entries EXCEPT ![f] = new] /\ w.roots = u.roots
          /\ w.stream_index = u.stream_index /\ w.value_updates = u.value_updates
          /\ w.matrix_watch = u.matrix_watch /\ w.matrix_dirty = u.matrix_dirty
          /\ w = [g \in TreeFields |-> w[g]]
      BY <2>2 DEF TreeFields
    <3>7. /\ Append(Children(t, f), p) \in Seq(Paths)
          /\ IsInjective(Append(Children(t, f), p))
          /\ ToSet(Append(Children(t, f), p)) = ToSet(Children(t, f)) \cup {p}
      <4>1. IsInjective(Children(t, f))
        BY <3>1 DEF Good, Linked, Below
      <4> QED BY <2>1, <3>2, <3>3, <4>1, AppendToList
    <3>8. /\ new.children = Append(Children(t, f), p) /\ Alike(new, u.entries[f])
          /\ IsEntry(new) /\ EntryOK(new)
      <4>1. IsEntry(u.entries[f]) /\ EntryOK(u.entries[f])
        BY <2>3, <2>8 DEF IsTree, TreeOK
      <4>2. new.children = Append(Children(t, f), p) /\ Alike(new, u.entries[f]) /\ IsEntry(new)
        BY <3>3, <4>1 DEF IsEntry, EntryFields, Alike, Children
      <4> QED BY <3>7, <4>1, <4>2 DEF EntryOK, Alike
    <3> HIDE DEF w, new
    <3>9. IsTree(w) /\ TreeOK(w)
      BY <2>3, <2>8, <3>6, <3>8 DEF IsTree, TreeOK
    <3>10. Grown(t, w, el)
      <4>1. \A q \in DOMAIN u.entries :
                /\ Alike(w.entries[q], u.entries[q])
                /\ q # f => w.entries[q].children = u.entries[q].children
        BY <2>8, <3>6, <3>8 DEF Alike
      <4>2. DOMAIN w.entries = DOMAIN u.entries
        BY <3>6
      <4>3. \A q \in DOMAIN t.entries :
                /\ q \in DOMAIN u.entries /\ Alike(u.entries[q], t.entries[q])
                /\ u.entries[q].children = t.entries[q].children
        BY <2>2, <1>2 DEF Alike
      <4>4. \A q \in DOMAIN t.entries :
                /\ Alike(w.entries[q], t.entries[q])
                /\ q # f => w.entries[q].children = t.entries[q].children
        BY <4>1, <4>3, AlikeAlike
      <4>5. Alike(u.entries[p], NewEntry(el.kind)) /\ p \in DOMAIN u.entries
        BY <2>2 DEF Alike
      <4>6. Alike(w.entries[p], NewEntry(el.kind))
        BY <4>1, <4>5, AlikeAlike
      <4>7. /\ w.stream_index = t.stream_index /\ w.value_updates = t.value_updates
            /\ w.matrix_watch = t.matrix_watch /\ w.matrix_dirty = t.matrix_dirty
        BY <2>4, <3>6 DEF Grown
      <4>8. DOMAIN w.entries = DOMAIN t.entries \cup {p}
        BY <2>4, <4>2 DEF Grown
      <4> QED BY <4>4, <4>6, <4>7, <4>8 DEF Grown
    <3>11. Linked(w)
      <4>1. /\ Below(w, f) = Append(Children(t, f), p)
            /\ \A q \in (DOMAIN u.entries \cup {NoPath}) \ {f} : Below(w, q) = Below(u, q)
        BY <2>8, <3>1, <3>6, <3>8 DEF Below, Children
      <4>2. \A c \in ToSet(Children(t, f)) \cup {p} : c \in DOMAIN u.entries /\ Front(c) = f
        BY <2>2, <2>6, <2>8, <3>1, <3>3 DEF Linked, Below
      <4>3. DOMAIN w.entries = DOMAIN u.entries
        BY <3>6
      <4> QED BY <2>6, <3>7, <4>1, <4>2, <4>3 DEF Linked
    <3> QED BY <3>5, <3>9, <3>10, <3>11 DEF Good
  <2>9. CASE Len(p) # 1 /\ Front(p) \notin DOMAIN u.entries
    <3>1. upsert(t, el) = u
      BY <1>2, <2>9 DEF upsert, link_to_parent, u
    <3> QED BY <2>3, <2>4, <2>6, <3>1 DEF Good
  <2> QED BY <2>7, <2>8, <2>9
<1> QED BY <1>1, <1>2

\* An entry replaced by one with the same children leaves a good tree.
LEMMA SetEntry ==
    ASSUME NEW o, Good(o), NEW p \in DOMAIN o.entries,
           NEW e, IsEntry(e), EntryOK(e), e.children = o.entries[p].children,
           NEW u, u = [f \in TreeFields |-> u[f]],
           u.entries = [o.entries EXCEPT ![p] = e], u.roots = o.roots,
           u.stream_index \in [StreamId -> SUBSET Paths], u.value_updates \subseteq Valued,
           u.matrix_watch \subseteq Seq(Nat), u.matrix_dirty \in BOOLEAN
    PROVE  Good(u)
<1>1. DOMAIN u.entries = DOMAIN o.entries
  OBVIOUS
<1>2. \A q \in DOMAIN o.entries : u.entries[q] = IF q = p THEN e ELSE o.entries[q]
  OBVIOUS
<1>3. IsTree(u)
  BY <1>1, <1>2 DEF Good, IsTree
<1>4. TreeOK(u)
  BY <1>1, <1>2 DEF Good, TreeOK
<1>5. \A q \in DOMAIN o.entries \cup {NoPath} : Below(u, q) = Below(o, q)
  BY <1>2 DEF Below, Children
<1> QED BY <1>1, <1>3, <1>4, <1>5 DEF Good, Linked

\* The entry the element is about, before it is ingested.
Was(t, el) ==
    IF el.path \in DOMAIN t.entries THEN t.entries[el.path] ELSE NewEntry(el.kind)

\* What the element makes of an entry: is is was, with what the element says.
Updated(is, was, el) ==
    /\ is.kind = was.kind
    /\ is.labels = Given(el, "labels", was.labels)
    /\ is.params = Given(el, "params", was.params)
    /\ is.names = was.names /\ is.axis_params = was.axis_params
    /\ el.kind # "matrix" => is.count = was.count /\ is.signals = was.signals
    /\ is.value = Given(el, "value", was.value)
    /\ is.stream = Given(el, "stream", was.stream)
    /\ is.online = Given(el, "online", was.online)
    /\ is.requested => was.requested
    /\ el.kind = "node" /\ Given(el, "online", FALSE) /\ is.requested => was.online

\* The element is one that makes the names due.
MakesDue(t, el) ==
    \/ el.kind = "matrix"
    \/ el.kind \in {"node", "parameter"} /\ note_matrix_watch(t, el.path)

\* What u has noted is what t had, and what the element gives.
Noted(t, u, el) ==
    /\ u.matrix_dirty = (t.matrix_dirty \/ MakesDue(t, el))
    /\ u.matrix_watch = IF el.kind = "matrix"
                        THEN t.matrix_watch \cup watched_by(el.path, u.entries[el.path])
                        ELSE t.matrix_watch
    /\ u.value_updates = IF Says(el, "value") THEN t.value_updates \cup {el.path}
                                             ELSE t.value_updates
    /\ u.stream_index = IF el.kind = "parameter"
                        THEN routed_by(t.stream_index, u.entries[el.path].stream, el.path)
                        ELSE t.stream_index

\* u is t after the element.
Became(t, u, el) ==
    /\ DOMAIN u.entries = DOMAIN t.entries \cup {el.path}
    /\ \A q \in DOMAIN t.entries \ {el.path} : Alike(u.entries[q], t.entries[q])
    /\ \A q \in DOMAIN t.entries :
           q # Front(el.path) => u.entries[q].children = t.entries[q].children
    /\ Updated(u.entries[el.path], Was(t, el), el)
    /\ Noted(t, u, el)

LEMMA GivenOK ==
    ASSUME NEW el \in Elements
    PROVE  /\ \A was \in Identifier : Given(el, "identifier", was) \in Identifier
           /\ \A was \in BOOLEAN : Given(el, "online", was) \in BOOLEAN
           /\ \A was \in Names \cup Levels \cup {NoValue} :
                  Given(el, "value", was) \in Names \cup Levels \cup {NoValue}
           /\ \A was \in StreamId \cup {NoStream} :
                  Given(el, "stream", was) \in StreamId \cup {NoStream}
           /\ \A was \in Seq(Seq(Nat)) : Given(el, "labels", was) \in Seq(Seq(Nat))
           /\ \A was \in Seq(Nat) : Given(el, "params", was) \in Seq(Nat)
           /\ \A was \in [Axis -> Nat] : GivenByAxis(el, "count", was) \in [Axis -> Nat]
           /\ \A was \in [Axis -> SUBSET Nat] :
                  GivenByAxis(el, "signals", was) \in [Axis -> SUBSET Nat]
<1>1. \A field \in DOMAIN el.contents : FieldOK(el, field)
  BY ElementFacts DEF ElementOK
<1>2. /\ Says(el, "identifier") => el.contents["identifier"] \in Identifier
      /\ Says(el, "online") => el.contents["online"] \in BOOLEAN
      /\ Says(el, "value") => el.contents["value"] \in Names \cup Levels
      /\ Says(el, "stream") => el.contents["stream"] \in StreamId
      /\ Says(el, "labels") => el.contents["labels"] \in Seq(Seq(Nat))
      /\ Says(el, "params") => el.contents["params"] \in Seq(Nat)
  BY <1>1 DEF Says, FieldOK
<1>3. /\ Says(el, "count") =>
             \A a \in DOMAIN el.contents["count"] : el.contents["count"][a] \in Nat
      /\ Says(el, "signals") =>
             \A a \in DOMAIN el.contents["signals"] : el.contents["signals"][a] \in SUBSET Nat
  BY <1>1 DEF Says, FieldOK
<1> QED BY <1>2, <1>3 DEF Given, GivenByAxis

\* Ingesting an element is an upsert and a change of the element's entry.
LEMMA EntryIngested ==
    ASSUME NEW t, Good(t), NEW el \in Elements,
           NEW o, o = upsert(t, el),
           NEW e, IsEntry(e), EntryOK(e), e.children = o.entries[el.path].children,
           Updated(e, o.entries[el.path], el),
           NEW u, u = [f \in TreeFields |-> u[f]],
           u.entries = [o.entries EXCEPT ![el.path] = e], u.roots = o.roots, Noted(o, u, el),
           u.matrix_watch \subseteq Seq(Nat), u.matrix_dirty \in BOOLEAN
    PROVE  Good(u) /\ Became(t, u, el)
<1>1. Good(o) /\ Grown(t, o, el)
  BY UpsertOK
<1>2. el.path \in DOMAIN o.entries /\ Alike(o.entries[el.path], Was(t, el))
  BY <1>1 DEF Grown, Was
<1>3. u.entries[el.path] = e
  BY <1>2
<1>4. u.stream_index \in [StreamId -> SUBSET Paths]
  <2>1. o.stream_index \in [StreamId -> SUBSET Paths] /\ el.path \in Paths
    BY <1>1, ElementFacts DEF Good, TreeOK
  <2>2. \A id : routed_by(o.stream_index, id, el.path) \in [StreamId -> SUBSET Paths]
    BY <2>1 DEF routed_by
  <2> QED BY <2>1, <2>2 DEF Noted
<1>5. u.value_updates \subseteq Valued
  BY <1>1, ElementFacts DEF Good, TreeOK, Noted
<1>6. Good(u)
  BY <1>1, <1>2, <1>4, <1>5, SetEntry
<1>7. /\ DOMAIN u.entries = DOMAIN t.entries \cup {el.path}
      /\ \A q \in DOMAIN t.entries \ {el.path} : Alike(u.entries[q], t.entries[q])
      /\ \A q \in DOMAIN t.entries :
             q # Front(el.path) => u.entries[q].children = t.entries[q].children
  <2>1. DOMAIN u.entries = DOMAIN o.entries
    OBVIOUS
  <2>2. \A q \in DOMAIN o.entries : q # el.path => u.entries[q] = o.entries[q]
    OBVIOUS
  <2>3. u.entries[el.path].children = o.entries[el.path].children
    BY <1>3
  <2>4. DOMAIN o.entries = DOMAIN t.entries \cup {el.path}
    BY <1>1 DEF Grown
  <2>5. \A q \in DOMAIN t.entries :
            /\ Alike(o.entries[q], t.entries[q])
            /\ q # Front(el.path) => o.entries[q].children = t.entries[q].children
    BY <1>1 DEF Grown
  <2> QED BY <2>1, <2>2, <2>3, <2>4, <2>5
<1>8. Updated(u.entries[el.path], Was(t, el), el)
  BY <1>2, <1>3 DEF Updated, Alike
<1>9. Noted(t, u, el)
  <2>1. /\ o.value_updates = t.value_updates /\ o.stream_index = t.stream_index
        /\ o.matrix_watch = t.matrix_watch /\ o.matrix_dirty = t.matrix_dirty
    BY <1>1 DEF Grown
  <2>2. MakesDue(o, el) <=> MakesDue(t, el)
    BY <2>1 DEF MakesDue, note_matrix_watch
  <2> QED BY <2>1, <2>2 DEF Noted
<1> QED BY <1>6, <1>7, <1>8, <1>9 DEF Became

LEMMA IngestParameterOK ==
    ASSUME NEW t, Good(t), NEW el \in Elements, el.kind = "parameter"
    PROVE  Good(ingest_parameter(t, el)) /\ Became(t, ingest_parameter(t, el), el)
<1> DEFINE o == upsert(t, el)
           was == o.entries[el.path]
           e == parameter_entry(was, el)
           u == ingest_parameter(t, el)
<1>1. Good(o) /\ el.path \in DOMAIN o.entries
  BY UpsertOK DEF Grown
<1>2. IsEntry(was) /\ EntryOK(was) /\ o = [f \in TreeFields |-> o[f]]
  BY <1>1 DEF Good, IsTree, TreeOK
<1>3. /\ e.kind = was.kind /\ e.children = was.children /\ e.requested = was.requested
      /\ e.identifier = Given(el, "identifier", was.identifier)
      /\ e.value = Given(el, "value", was.value)
      /\ e.stream = Given(el, "stream", was.stream)
      /\ e.online = Given(el, "online", was.online)
      /\ e.count = was.count /\ e.signals = was.signals /\ e.names = was.names
      /\ e.labels = was.labels /\ e.params = was.params /\ e.axis_params = was.axis_params
      /\ IsEntry(e)
  BY <1>2 DEF IsEntry, EntryFields, parameter_entry
<1> HIDE DEF e, o, was
<1>4. u = [o EXCEPT !.entries[el.path] = e,
                    !.value_updates = IF Says(el, "value") THEN @ \cup {el.path} ELSE @,
                    !.stream_index = routed_by(@, e.stream, el.path),
                    !.matrix_dirty = @ \/ note_matrix_watch(o, el.path)]
  BY DEF ingest_parameter, e, was, o
<1> HIDE DEF u
<1>5. /\ u = [f \in TreeFields |-> u[f]]
      /\ u.entries = [o.entries EXCEPT ![el.path] = e]
      /\ u.roots = o.roots /\ u.matrix_watch = o.matrix_watch
      /\ u.value_updates = IF Says(el, "value") THEN o.value_updates \cup {el.path}
                                               ELSE o.value_updates
      /\ u.stream_index = routed_by(o.stream_index, e.stream, el.path)
      /\ u.matrix_dirty = (o.matrix_dirty \/ note_matrix_watch(o, el.path))
  BY <1>2, <1>4 DEF TreeFields
<1>6. EntryOK(e)
  BY <1>2, <1>3, GivenOK DEF EntryOK
<1>7. Updated(e, o.entries[el.path], el) /\ e.children = o.entries[el.path].children
  <2>1. ~Says(el, "labels") /\ ~Says(el, "params")
    BY ElementFacts DEF ElementOK, FieldsOf, Says
  <2> QED BY <1>3, <2>1 DEF Updated, Given, was
<1>8. u.entries[el.path] = e
  BY <1>1, <1>5
<1>9. Noted(o, u, el)
  <2>1. MakesDue(o, el) <=> note_matrix_watch(o, el.path)
    BY DEF MakesDue
  <2> QED BY <1>5, <1>8, <2>1 DEF Noted
<1>10. u.matrix_watch \subseteq Seq(Nat) /\ u.matrix_dirty \in BOOLEAN
  BY <1>1, <1>5 DEF Good, TreeOK, note_matrix_watch
<1> QED BY <1>3, <1>5, <1>6, <1>7, <1>9, <1>10, EntryIngested DEF o, u

LEMMA IngestNodeOK ==
    ASSUME NEW t, Good(t), NEW el \in Elements, el.kind = "node"
    PROVE  Good(ingest_node(t, el)) /\ Became(t, ingest_node(t, el), el)
<1> DEFINE o == upsert(t, el)
           was == o.entries[el.path]
           back == Given(el, "online", FALSE) /\ ~o.entries[el.path].online
           e == [was EXCEPT !.identifier = Given(el, "identifier", @),
                            !.online = Given(el, "online", @),
                            !.requested = @ /\ ~back]
           u == ingest_node(t, el)
<1>1. Good(o) /\ el.path \in DOMAIN o.entries
  BY UpsertOK DEF Grown
<1>2. IsEntry(was) /\ EntryOK(was) /\ o = [f \in TreeFields |-> o[f]]
  BY <1>1 DEF Good, IsTree, TreeOK
<1>3. /\ e.kind = was.kind /\ e.children = was.children
      /\ e.requested = (was.requested /\ ~back)
      /\ e.identifier = Given(el, "identifier", was.identifier)
      /\ e.value = was.value /\ e.stream = was.stream
      /\ e.online = Given(el, "online", was.online)
      /\ e.count = was.count /\ e.signals = was.signals /\ e.names = was.names
      /\ e.labels = was.labels /\ e.params = was.params /\ e.axis_params = was.axis_params
      /\ IsEntry(e)
  BY <1>2 DEF IsEntry, EntryFields
<1>4. ~Says(el, "value") /\ ~Says(el, "stream") /\ ~Says(el, "labels") /\ ~Says(el, "params")
  BY ElementFacts DEF ElementOK, FieldsOf, Says
<1> HIDE DEF e, o, was
<1>5. u = [o EXCEPT !.entries[el.path] = e,
                    !.matrix_dirty = @ \/ note_matrix_watch(o, el.path)]
  BY DEF ingest_node, e, was, o
<1> HIDE DEF u
<1>6. /\ u = [f \in TreeFields |-> u[f]]
      /\ u.entries = [o.entries EXCEPT ![el.path] = e]
      /\ u.roots = o.roots /\ u.matrix_watch = o.matrix_watch
      /\ u.value_updates = o.value_updates /\ u.stream_index = o.stream_index
      /\ u.matrix_dirty = (o.matrix_dirty \/ note_matrix_watch(o, el.path))
  BY <1>2, <1>5 DEF TreeFields
<1>7. EntryOK(e)
  BY <1>2, <1>3, GivenOK DEF EntryOK
<1>8. Updated(e, o.entries[el.path], el) /\ e.children = o.entries[el.path].children
  BY <1>3, <1>4 DEF Updated, Given, was
<1>9. Noted(o, u, el)
  <2>1. MakesDue(o, el) <=> note_matrix_watch(o, el.path)
    BY DEF MakesDue
  <2> QED BY <1>4, <1>6, <2>1 DEF Noted
<1>10. u.matrix_watch \subseteq Seq(Nat) /\ u.matrix_dirty \in BOOLEAN
  BY <1>1, <1>6 DEF Good, TreeOK, note_matrix_watch
<1> QED BY <1>3, <1>6, <1>7, <1>8, <1>9, <1>10, EntryIngested DEF o, u

LEMMA IngestFunctionOK ==
    ASSUME NEW t, Good(t), NEW el \in Elements, el.kind = "function"
    PROVE  Good(ingest_function(t, el)) /\ Became(t, ingest_function(t, el), el)
<1> DEFINE o == upsert(t, el)
           was == o.entries[el.path]
           e == [was EXCEPT !.identifier = Given(el, "identifier", @)]
           u == ingest_function(t, el)
<1>1. Good(o) /\ el.path \in DOMAIN o.entries
  BY UpsertOK DEF Grown
<1>2. IsEntry(was) /\ EntryOK(was) /\ o = [f \in TreeFields |-> o[f]]
  BY <1>1 DEF Good, IsTree, TreeOK
<1>3. /\ e.kind = was.kind /\ e.children = was.children /\ e.requested = was.requested
      /\ e.identifier = Given(el, "identifier", was.identifier)
      /\ e.value = was.value /\ e.stream = was.stream /\ e.online = was.online
      /\ e.count = was.count /\ e.signals = was.signals /\ e.names = was.names
      /\ e.labels = was.labels /\ e.params = was.params /\ e.axis_params = was.axis_params
      /\ IsEntry(e)
  BY <1>2 DEF IsEntry, EntryFields
<1>4. /\ ~Says(el, "value") /\ ~Says(el, "stream") /\ ~Says(el, "online")
      /\ ~Says(el, "labels") /\ ~Says(el, "params")
  BY ElementFacts DEF ElementOK, FieldsOf, Says
<1> HIDE DEF e, o, was
<1>5. u = [o EXCEPT !.entries[el.path] = e]
  BY DEF ingest_function, e, was, o
<1> HIDE DEF u
<1>6. /\ u = [f \in TreeFields |-> u[f]]
      /\ u.entries = [o.entries EXCEPT ![el.path] = e]
      /\ u.roots = o.roots /\ u.matrix_watch = o.matrix_watch
      /\ u.value_updates = o.value_updates /\ u.stream_index = o.stream_index
      /\ u.matrix_dirty = o.matrix_dirty
  BY <1>2, <1>5 DEF TreeFields
<1>7. EntryOK(e)
  BY <1>2, <1>3, GivenOK DEF EntryOK
<1>8. Updated(e, o.entries[el.path], el) /\ e.children = o.entries[el.path].children
  BY <1>3, <1>4 DEF Updated, Given, was
<1>9. Noted(o, u, el)
  <2>1. ~MakesDue(o, el) /\ o.matrix_dirty \in BOOLEAN
    BY <1>1 DEF MakesDue, Good, TreeOK
  <2> QED BY <1>4, <1>6, <2>1 DEF Noted
<1>10. u.matrix_watch \subseteq Seq(Nat) /\ u.matrix_dirty \in BOOLEAN
  BY <1>1, <1>6 DEF Good, TreeOK
<1> QED BY <1>3, <1>6, <1>7, <1>8, <1>9, <1>10, EntryIngested DEF o, u

\* What a matrix watches are paths.
LEMMA WatchedOK ==
    ASSUME NEW p \in Seq(Nat) \ {NoPath}, NEW e, EntryOK(e)
    PROVE  watched_by(p, e) \subseteq Seq(Nat)
<1>1. Front(p) \in Seq(Nat)
  <2>1. <<>> \in Seq(Nat)
    OBVIOUS
  <2>2. CASE Len(p) = 1
    BY <2>1, <2>2, FrontOfOne DEF NoPath
  <2>3. CASE Len(p) # 1
    BY <2>3, FrontOfLonger
  <2> QED BY <2>2, <2>3
<1>2. \A base \in ToSet(e.labels) : base \in Seq(Nat)
  BY DEF EntryOK, ToSet
<1>3. ASSUME NEW base \in Seq(Nat)
      PROVE  ToSet(label_base_candidates(p, base)) \subseteq Seq(Nat)
  <2>1. Front(p) \o base \in Seq(Nat)
    BY <1>1
  <2>2. \A x : ToSet(<<base>>) \subseteq {base} /\ ToSet(<<base, x>>) \subseteq {base, x}
    BY DEF ToSet
  <2> QED BY <2>1, <2>2 DEF label_base_candidates
<1>4. e.params \in Seq(Nat)
  BY DEF EntryOK
<1> SUFFICES ASSUME NEW x \in watched_by(p, e) PROVE x \in Seq(Nat)
  OBVIOUS
<1>5. \/ x = e.params
      \/ \E base \in ToSet(e.labels) : x \in ToSet(label_base_candidates(p, base))
  BY DEF watched_by, named_by
<1> QED BY <1>2, <1>3, <1>4, <1>5

LEMMA IngestMatrixOK ==
    ASSUME NEW t, Good(t), NEW el \in Elements, el.kind = "matrix"
    PROVE  Good(ingest_matrix(t, el)) /\ Became(t, ingest_matrix(t, el), el)
<1> DEFINE o == upsert(t, el)
           was == o.entries[el.path]
           e == matrix_entry(was, el)
           u == ingest_matrix(t, el)
           count == GivenByAxis(el, "count", was.count)
           listed == GivenByAxis(el, "signals", was.signals)
           signals == [a \in Axis |-> IF listed[a] = {} THEN Dense(count[a]) ELSE listed[a]]
<1>1. Good(o) /\ el.path \in DOMAIN o.entries
  BY UpsertOK DEF Grown
<1>2. IsEntry(was) /\ EntryOK(was) /\ o = [f \in TreeFields |-> o[f]]
  BY <1>1 DEF Good, IsTree, TreeOK
<1>3. e = [was EXCEPT !.identifier = Given(el, "identifier", @), !.count = count,
                      !.signals = signals, !.labels = Given(el, "labels", @),
                      !.params = Given(el, "params", @)]
  BY DEF matrix_entry
<1>4. /\ count \in [Axis -> Nat]
      /\ signals \in [Axis -> SUBSET Nat]
  <2>1. count \in [Axis -> Nat] /\ listed \in [Axis -> SUBSET Nat]
    BY <1>2, GivenOK DEF EntryOK
  <2> HIDE DEF count, listed
  <2>2. \A a \in Axis : Dense(count[a]) \subseteq Nat
    BY <2>1 DEF Dense
  <2> QED BY <2>1, <2>2
<1> HIDE DEF e, o, was, count, signals
<1>5. /\ e.kind = was.kind /\ e.children = was.children /\ e.requested = was.requested
      /\ e.identifier = Given(el, "identifier", was.identifier)
      /\ e.value = was.value /\ e.stream = was.stream /\ e.online = was.online
      /\ e.count = count /\ e.signals = signals /\ e.names = was.names
      /\ e.labels = Given(el, "labels", was.labels)
      /\ e.params = Given(el, "params", was.params) /\ e.axis_params = was.axis_params
      /\ IsEntry(e)
  BY <1>2, <1>3 DEF IsEntry, EntryFields
<1>6. ~Says(el, "value") /\ ~Says(el, "stream") /\ ~Says(el, "online")
  BY ElementFacts DEF ElementOK, FieldsOf, Says
<1>7. u = [o EXCEPT !.entries[el.path] = e, !.matrix_dirty = TRUE,
                    !.matrix_watch = @ \cup watched_by(el.path, e)]
  BY DEF ingest_matrix, e, was, o
<1> HIDE DEF u
<1>8. /\ u = [f \in TreeFields |-> u[f]]
      /\ u.entries = [o.entries EXCEPT ![el.path] = e]
      /\ u.roots = o.roots /\ u.matrix_watch = o.matrix_watch \cup watched_by(el.path, e)
      /\ u.value_updates = o.value_updates /\ u.stream_index = o.stream_index
      /\ u.matrix_dirty = TRUE
  BY <1>2, <1>7 DEF TreeFields
<1>9. EntryOK(e)
  BY <1>2, <1>4, <1>5, GivenOK DEF EntryOK
<1>10. Updated(e, o.entries[el.path], el) /\ e.children = o.entries[el.path].children
  BY <1>5, <1>6 DEF Updated, Given, was
<1>11. Noted(o, u, el)
  <2>1. MakesDue(o, el) /\ u.entries[el.path] = e
    BY <1>1, <1>8 DEF MakesDue
  <2> QED BY <1>6, <1>8, <2>1 DEF Noted
<1>12. u.matrix_watch \subseteq Seq(Nat) /\ u.matrix_dirty \in BOOLEAN
  BY <1>1, <1>8, <1>9, ElementFacts, WatchedOK DEF Good, TreeOK
<1> QED BY <1>5, <1>8, <1>9, <1>10, <1>11, <1>12, EntryIngested DEF o, u

LEMMA IngestOK ==
    ASSUME NEW t, Good(t), NEW el \in Elements
    PROVE  Good(ingest_element(t, el)) /\ Became(t, ingest_element(t, el), el)
<1>1. el.kind \in Kind
  BY ElementFacts
<1> QED BY <1>1, IngestNodeOK, IngestParameterOK, IngestMatrixOK, IngestFunctionOK
        DEF Kind, ingest_element

\* Every element of a document keeps the tree good.
LEMMA Steps ==
    ASSUME NEW t, Good(t), NEW doc \in Documents
    PROVE  /\ Len(doc) \in Nat /\ DOMAIN doc = 1..Len(doc)
           /\ \A n \in 1..Len(doc) : doc[n] \in Elements
           /\ Ingested(t, doc)[0] = t
           /\ \A n \in 0..Len(doc) : Good(Ingested(t, doc)[n])
           /\ \A n \in 1..Len(doc) : Became(Ingested(t, doc)[n - 1], Ingested(t, doc)[n], doc[n])
<1> DEFINE I == Ingested(t, doc)
           N == Len(doc)
           S == {n \in 0..N : Good(I[n])}
<1>1. N \in Nat /\ DOMAIN doc = 1..N
  BY TreeAssumption
<1>2. \A n \in 1..N : doc[n] \in Elements
  BY <1>1 DEF Elements, ToSet
<1>3. I[0] = t /\ \A n \in 1..N : I[n] = ingest_element(I[n - 1], doc[n])
  BY <1>1, IngestedStep
<1> HIDE DEF I, N
<1>4. 0 \in S
  BY <1>1, <1>3
<1>5. ASSUME NEW n \in 1..N, n - 1 \in S PROVE n \in S
  BY <1>1, <1>2, <1>3, <1>5, IngestOK
<1>6. 0..N \subseteq S
  <2> HIDE DEF S
  <2> QED BY <1>1, <1>4, <1>5, InductionUpTo
<1>7. \A n \in 0..N : Good(I[n])
  BY <1>6
<1>8. ASSUME NEW n \in 1..N PROVE Became(I[n - 1], I[n], doc[n])
  <2>1. n - 1 \in 0..N
    BY <1>1
  <2> QED BY <1>2, <1>3, <1>7, <2>1, IngestOK
<1> QED BY <1>1, <1>2, <1>3, <1>7, <1>8 DEF I, N

-------------------------------------------------------------------------------
(* Resolving the matrices' names and parameter nodes.                      *)

\* What resolving leaves of an entry.
Kept(e, f) ==
    /\ e.kind = f.kind /\ e.identifier = f.identifier /\ e.value = f.value
    /\ e.stream = f.stream /\ e.online = f.online /\ e.requested = f.requested
    /\ e.children = f.children /\ e.count = f.count
    /\ e.labels = f.labels /\ e.params = f.params

LEMMA OverridingNumbers ==
    ASSUME NEW maps, \A i \in DOMAIN maps : DOMAIN maps[i] \subseteq Nat
    PROVE  DOMAIN Overriding(maps) \subseteq Nat
BY DEF Overriding

LEMMA LastIsNat == ASSUME NEW p \in Seq(Nat) \ {NoPath} PROVE Last(p) \in Nat
BY EmptySeq DEF Last, NoPath

LEMMA ChildrenArePaths ==
    ASSUME NEW t, Good(t), NEW p \in DOMAIN t.entries
    PROVE  /\ Children(t, p) \in Seq(Paths)
           /\ \A c \in ToSet(Children(t, p)) :
                  c \in DOMAIN t.entries /\ c \in Seq(Nat) \ {NoPath} /\ Last(c) \in Nat
<1>1. Children(t, p) \in Seq(Paths)
  BY DEF Good, TreeOK, EntryOK, Children
<1>2. \A c \in ToSet(Children(t, p)) : c \in Paths /\ c \in DOMAIN t.entries
  BY PathsAreSeqs DEF Good, TreeOK, Linked, Below
<1> QED BY <1>1, <1>2, PathsAreSeqs, LastIsNat

LEMMA ExtractedNumbers ==
    ASSUME NEW t, Good(t), NEW base, NEW a
    PROVE  DOMAIN extract_labels(t, base, a) \subseteq Nat
<1>1. DOMAIN <<>> \subseteq Nat
  OBVIOUS
<1>2. CASE base \notin DOMAIN t.entries
  BY <1>1, <1>2 DEF extract_labels
<1>3. CASE base \in DOMAIN t.entries
  <2>1. \A p \in DOMAIN t.entries : DOMAIN StringsBelow(t, p) \subseteq Nat
    BY ChildrenArePaths DEF StringsBelow
  <2>2. \A p \in DOMAIN t.entries : DOMAIN NamesBelow(t, p) \subseteq Nat
    BY ChildrenArePaths DEF NamesBelow
  <2>3. \A i \in DOMAIN Children(t, base) : Children(t, base)[i] \in DOMAIN t.entries
    BY <1>3, ChildrenArePaths DEF ToSet
  <2> DEFINE maps == [i \in DOMAIN Children(t, base) |->
                          IF AxisOfChild(t, base, i) = a
                          THEN StringsBelow(t, Children(t, base)[i]) ELSE <<>>]
  <2>4. \A i \in DOMAIN maps : DOMAIN maps[i] \subseteq Nat
    BY <1>1, <2>1, <2>3
  <2>5. DOMAIN Overriding(maps) \subseteq Nat
    <3> HIDE DEF maps
    <3> QED BY <2>4, OverridingNumbers
  <2> QED BY <1>1, <1>3, <2>2, <2>5 DEF extract_labels
<1> QED BY <1>2, <1>3

LEMMA FoundNumbers ==
    ASSUME NEW t, Good(t), NEW m \in DOMAIN t.entries, NEW a \in Axis
    PROVE  DOMAIN NamesOf(t, m, a) \subseteq Nat
<1>1. ASSUME NEW base PROVE DOMAIN NamesAt(t, m, base, a) \subseteq Nat
  <2> DEFINE places == label_base_candidates(m, base)
             found == [j \in DOMAIN places |->
                          [b \in Axis |-> extract_labels(t, places[j], b)]]
             yielding == {j \in DOMAIN places : \E b \in Axis : found[j][b] # <<>>}
  <2>1. DOMAIN places \subseteq Nat
    BY DEF label_base_candidates
  <2>2. CASE yielding = {}
    <3>1. NamesAt(t, m, base, a) = <<>>
      BY <2>2 DEF NamesAt
    <3> QED BY <3>1
  <2>3. CASE yielding # {}
    <3>1. Min(yielding) \in DOMAIN places
      <4>1. Min(yielding) \in yielding
        BY <2>1, <2>3, MinOK
      <4> QED BY <4>1
    <3>2. NamesAt(t, m, base, a) = extract_labels(t, places[Min(yielding)], a)
      BY <2>3, <3>1 DEF NamesAt
    <3> HIDE DEF yielding, places
    <3> QED BY <3>2, ExtractedNumbers
  <2> QED BY <2>2, <2>3
<1> DEFINE labels == t.entries[m].labels
           maps == [i \in DOMAIN labels |-> NamesAt(t, m, labels[i], a)]
<1>2. \A i \in DOMAIN maps : DOMAIN maps[i] \subseteq Nat
  BY <1>1
<1>3. DOMAIN Overriding(maps) \subseteq Nat
  <2> HIDE DEF maps
  <2> QED BY <1>2, OverridingNumbers
<1> QED BY <1>3 DEF NamesOf

LEMMA ResolvedEntryOK ==
    ASSUME NEW t, Good(t), NEW m \in DOMAIN t.entries,
           NEW e, e = resolve_matrix_param_paths(t, resolve_names(t, m))
    PROVE  IsEntry(e) /\ EntryOK(e) /\ Kept(e, t.entries[m])
<1> DEFINE was == t.entries[m]
           found == [a \in Axis |-> NamesOf(t, m, a)]
           names == [a \in Axis |-> IF found[a] = <<>> THEN was.names[a] ELSE found[a]]
           signals == [a \in Axis |-> IF found[a] # <<>> /\ was.signals[a] = Dense(was.count[a])
                                      THEN DOMAIN found[a] ELSE was.signals[a]]
           named == resolve_names(t, m)
           below == IF named.params \in DOMAIN t.entries THEN Children(t, named.params) ELSE <<>>
           Of(a) == {i \in DOMAIN below : axis_of(t.entries[below[i]].identifier) = a}
           nodes == [a \in Axis |-> IF Of(a) = {} THEN named.axis_params[a] ELSE below[Max(Of(a))]]
<1>1. IsEntry(was) /\ EntryOK(was)
  BY DEF Good, IsTree, TreeOK
<1>2. \A a \in Axis : DOMAIN found[a] \subseteq Nat
  BY FoundNumbers
<1>3. DOMAIN names = Axis /\ (\A a \in Axis : DOMAIN names[a] \subseteq Nat)
  <2> HIDE DEF found, was
  <2> QED BY <1>1, <1>2 DEF EntryOK
<1>4. signals \in [Axis -> SUBSET Nat]
  <2> HIDE DEF found, was
  <2> QED BY <1>1, <1>2 DEF EntryOK
<1>5. named = [was EXCEPT !.names = names, !.signals = signals]
  BY <1>1 DEF resolve_names, IsEntry, EntryFields
<1> HIDE DEF was, names, signals, named, found
<1>6. /\ IsEntry(named) /\ Kept(named, was) /\ named.names = names
      /\ named.signals = signals /\ named.axis_params = was.axis_params
  BY <1>1, <1>5 DEF IsEntry, EntryFields, Kept
<1>7. below \in Seq(Paths)
  BY ChildrenArePaths
<1>8. \A a \in Axis : nodes[a] \in Paths \cup {NoPath}
  <2> SUFFICES ASSUME NEW a \in Axis PROVE nodes[a] \in Paths \cup {NoPath}
    OBVIOUS
  <2>1. was.axis_params[a] \in Paths \cup {NoPath}
    BY <1>1 DEF EntryOK
  <2>2. CASE Of(a) = {}
    BY <1>6, <2>1, <2>2
  <2>3. CASE Of(a) # {}
    <3>1. Of(a) \subseteq 1..Len(below) /\ Len(below) \in Nat
      BY <1>7
    <3>2. Max(Of(a)) \in Of(a)
      BY <2>3, <3>1, MaxOK
    <3>3. Max(Of(a)) \in 1..Len(below)
      BY <3>1, <3>2
    <3>4. below[Max(Of(a))] \in Paths
      <4> HIDE DEF below, Of
      <4> QED BY <1>7, <3>3
    <3> QED BY <2>3, <3>4
  <2> QED BY <2>2, <2>3
<1>9. e = [named EXCEPT !.axis_params = nodes]
  BY DEF resolve_matrix_param_paths, named
<1> HIDE DEF nodes
<1>10. /\ IsEntry(e) /\ Kept(e, was) /\ e.names = names
       /\ e.signals = signals /\ e.axis_params = nodes
  BY <1>6, <1>9 DEF IsEntry, EntryFields, Kept
<1>11. nodes \in [Axis -> Paths \cup {NoPath}]
  BY <1>8 DEF nodes
<1>12. EntryOK(e)
  BY <1>1, <1>3, <1>4, <1>10, <1>11 DEF EntryOK, Kept
<1> QED BY <1>10, <1>12 DEF was

LEMMA ResolveOK ==
    ASSUME NEW t, Good(t)
    PROVE  LET u == resolve_matrix_labels(t)
           IN  /\ Good(u)
               /\ DOMAIN u.entries = DOMAIN t.entries
               /\ \A p \in DOMAIN t.entries : Kept(u.entries[p], t.entries[p])
               /\ u.stream_index = t.stream_index /\ u.value_updates = t.value_updates
               /\ u.matrix_watch = t.matrix_watch /\ u.matrix_dirty = t.matrix_dirty
<1> DEFINE u == resolve_matrix_labels(t)
<1>1. t = [f \in TreeFields |-> t[f]]
  BY DEF Good, IsTree
<1>2. /\ u = [f \in TreeFields |-> u[f]]
      /\ u.entries = [p \in DOMAIN t.entries |->
                          resolve_matrix_param_paths(t, resolve_names(t, p))]
      /\ u.roots = t.roots /\ u.stream_index = t.stream_index
      /\ u.value_updates = t.value_updates
      /\ u.matrix_watch = t.matrix_watch /\ u.matrix_dirty = t.matrix_dirty
  BY <1>1 DEF resolve_matrix_labels, TreeFields
<1> HIDE DEF u
<1>3. DOMAIN u.entries = DOMAIN t.entries
  BY <1>2
<1>4. \A p \in DOMAIN t.entries :
          IsEntry(u.entries[p]) /\ EntryOK(u.entries[p]) /\ Kept(u.entries[p], t.entries[p])
  BY <1>2, ResolvedEntryOK
<1>5. IsTree(u)
  BY <1>2, <1>4 DEF IsTree
<1>6. TreeOK(u)
  BY <1>2, <1>4 DEF TreeOK, Good
<1>7. \A p \in DOMAIN t.entries \cup {NoPath} : Below(u, p) = Below(t, p)
  BY <1>2, <1>4 DEF Below, Children, Kept
<1>8. Linked(u)
  BY <1>3, <1>7 DEF Linked, Good
<1> QED BY <1>2, <1>3, <1>4, <1>5, <1>6, <1>8 DEF Good, u

\* What a document makes of a tree, but for names and parameter nodes.
LEMMA MergeOK ==
    ASSUME NEW t, Good(t), NEW doc \in Documents
    PROVE  LET u == merge(t, doc)
               o == Ingested(t, doc)[Len(doc)]
           IN  /\ Good(u) /\ u.matrix_dirty = FALSE
               /\ DOMAIN u.entries = DOMAIN o.entries
               /\ \A p \in DOMAIN o.entries : Kept(u.entries[p], o.entries[p])
               /\ u.stream_index = o.stream_index /\ u.value_updates = o.value_updates
<1> DEFINE u == merge(t, doc)
           o == Ingested(t, doc)[Len(doc)]
           w == resolve_matrix_labels(o)
<1>1. Good(o)
  BY Steps
<1> HIDE DEF o
<1>2. CASE ~o.matrix_dirty
  <2>1. u = o
    BY <1>2 DEF merge, o
  <2>2. o.matrix_dirty = FALSE
    BY <1>1, <1>2 DEF Good, TreeOK
  <2> QED BY <1>1, <2>1, <2>2 DEF Kept, o
<1>3. CASE o.matrix_dirty
  <2>1. /\ Good(w) /\ DOMAIN w.entries = DOMAIN o.entries
        /\ \A p \in DOMAIN o.entries : Kept(w.entries[p], o.entries[p])
        /\ w.stream_index = o.stream_index /\ w.value_updates = o.value_updates
    BY <1>1, ResolveOK
  <2>2. u = [w EXCEPT !.matrix_dirty = FALSE]
    BY <1>3 DEF merge, o
  <2> HIDE DEF w, u
  <2>3. w = [f \in TreeFields |-> w[f]]
    BY <2>1 DEF Good, IsTree
  <2>4. /\ u = [f \in TreeFields |-> u[f]]
        /\ u.entries = w.entries /\ u.roots = w.roots /\ u.stream_index = w.stream_index
        /\ u.value_updates = w.value_updates /\ u.matrix_watch = w.matrix_watch
        /\ u.matrix_dirty = FALSE
    BY <2>2, <2>3 DEF TreeFields
  <2>5. Good(u)
    <3>1. IsTree(u)
      BY <2>1, <2>4 DEF Good, IsTree
    <3>2. TreeOK(u)
      BY <2>1, <2>4 DEF Good, TreeOK
    <3>3. \A p \in DOMAIN w.entries \cup {NoPath} : Below(u, p) = Below(w, p)
      BY <2>4 DEF Below, Children
    <3>4. Linked(u)
      BY <2>1, <2>4, <3>3 DEF Good, Linked
    <3> QED BY <3>1, <3>2, <3>4 DEF Good
  <2> QED BY <2>1, <2>4, <2>5 DEF u, o
<1> QED BY <1>2, <1>3

-------------------------------------------------------------------------------
(* The steps of a session.                                                 *)

\* Entries changed in what is not their children leave a good tree.
LEMMA SameShape ==
    ASSUME NEW t, Good(t),
           NEW u, u = [f \in TreeFields |-> u[f]],
           u.entries = [p \in DOMAIN t.entries |-> u.entries[p]],
           \A p \in DOMAIN t.entries :
               /\ IsEntry(u.entries[p]) /\ EntryOK(u.entries[p])
               /\ u.entries[p].children = t.entries[p].children,
           u.roots = t.roots, u.stream_index = t.stream_index,
           u.matrix_watch = t.matrix_watch, u.matrix_dirty = t.matrix_dirty,
           u.value_updates \subseteq Valued
    PROVE  Good(u)
<1>1. DOMAIN u.entries = DOMAIN t.entries
  OBVIOUS
<1>2. IsTree(u)
  BY <1>1 DEF IsTree
<1>3. TreeOK(u)
  BY <1>1 DEF Good, TreeOK
<1>4. \A p \in DOMAIN t.entries \cup {NoPath} : Below(u, p) = Below(t, p)
  BY DEF Below, Children
<1>5. Linked(u)
  BY <1>1, <1>4 DEF Good, Linked
<1> QED BY <1>2, <1>3, <1>5 DEF Good

\* Taking the updates leaves the rest of the tree.
LEMMA TakenOK ==
    ASSUME NEW t, Good(t), NEW u, u = [t EXCEPT !.value_updates = {}]
    PROVE  /\ Good(u) /\ u.value_updates = {}
           /\ u.entries = t.entries /\ u.stream_index = t.stream_index
           /\ u.matrix_watch = t.matrix_watch /\ u.matrix_dirty = t.matrix_dirty
<1>1. /\ u = [f \in TreeFields |-> u[f]]
      /\ u.entries = t.entries /\ u.roots = t.roots /\ u.stream_index = t.stream_index
      /\ u.value_updates = {} /\ u.matrix_watch = t.matrix_watch
      /\ u.matrix_dirty = t.matrix_dirty
  BY DEF Good, IsTree, TreeFields
<1>2. /\ u.entries = [p \in DOMAIN t.entries |-> u.entries[p]]
      /\ \A p \in DOMAIN t.entries :
             /\ IsEntry(u.entries[p]) /\ EntryOK(u.entries[p])
             /\ u.entries[p].children = t.entries[p].children
  BY <1>1 DEF Good, IsTree, TreeOK
<1>3. u.value_updates \subseteq Valued
  BY <1>1
<1>4. Good(u)
  <2>1. Good(t)
    OBVIOUS
  <2> QED BY ONLY <1>1, <1>2, <1>3, <2>1, SameShape
<1> QED BY <1>1, <1>4

-------------------------------------------------------------------------------
(* The streams.                                                            *)

\* The streams a device says a parameter is in.
StreamsOf(p) ==
    {el.contents.stream : el \in {e \in Elements : e.path = p /\ Says(e, "stream")}}

\* A parameter is listed under the stream its entry names; and wherever it is
\* listed, the device said so.
Routes(t) ==
    /\ \A p \in DOMAIN t.entries :
           /\ t.entries[p].stream \in StreamsOf(p) \cup {NoStream}
           /\ t.entries[p].stream \in StreamId => p \in t.stream_index[t.entries[p].stream]
    /\ \A id \in StreamId : \A p \in t.stream_index[id] :
           p \in DOMAIN t.entries /\ id \in StreamsOf(p) /\ t.entries[p].stream # NoStream

LEMMA StreamsAreSaid ==
    ASSUME NEW p
    PROVE  StreamsOf(p) \subseteq StreamId /\ (StreamsOf(p) # {} => p \in Valued)
<1> SUFFICES ASSUME NEW el \in Elements, el.path = p, Says(el, "stream")
             PROVE  el.contents.stream \in StreamId /\ p \in Valued
  BY DEF StreamsOf
<1>1. FieldOK(el, "stream")
  BY ElementFacts DEF ElementOK, Says
<1> QED BY <1>1, ElementFacts DEF FieldOK

LEMMA IngestRoutes ==
    ASSUME NEW t, Good(t), Routes(t), NEW el \in Elements, NEW u, Good(u), Became(t, u, el)
    PROVE  Routes(u)
<1> DEFINE q == el.path
           now == u.entries[q]
<1>1. /\ DOMAIN u.entries = DOMAIN t.entries \cup {q}
      /\ \A p \in DOMAIN t.entries \ {q} : u.entries[p].stream = t.entries[p].stream
  BY DEF Became, Alike
<1>2. now.stream = Given(el, "stream", Was(t, el).stream)
  BY DEF Became, Updated
<1>3. /\ Was(t, el).stream \in StreamsOf(q) \cup {NoStream}
      /\ Was(t, el).stream # NoStream =>
             q \in DOMAIN t.entries /\ Was(t, el).stream = t.entries[q].stream
  BY DEF Was, Routes, NewEntry
<1>4. Says(el, "stream") => el.contents.stream \in StreamsOf(q)
  BY DEF StreamsOf
<1>5. now.stream \in StreamsOf(q) \cup {NoStream}
  BY <1>2, <1>3, <1>4 DEF Given
<1>6. el.kind # "parameter" => ~Says(el, "stream")
  BY ElementFacts DEF ElementOK, FieldsOf, Says, Kind
<1>7. q \in DOMAIN t.entries /\ t.entries[q].stream # NoStream => now.stream # NoStream
  <2>1. Says(el, "stream") => el.contents.stream # NoStream
    BY <1>4, StreamsAreSaid, TreeAssumption
  <2> QED BY <1>2, <2>1 DEF Given, Was
<1>8. /\ t.stream_index \in [StreamId -> SUBSET Paths]
      /\ u.stream_index = IF el.kind = "parameter"
                          THEN routed_by(t.stream_index, now.stream, q) ELSE t.stream_index
  BY DEF Became, Noted, Good, TreeOK
<1>9. \A id \in StreamId :
          u.stream_index[id] = IF el.kind = "parameter" /\ id = now.stream
                               THEN t.stream_index[id] \cup {q} ELSE t.stream_index[id]
  BY <1>8 DEF routed_by
<1>10. ASSUME NEW p \in DOMAIN u.entries
       PROVE  /\ u.entries[p].stream \in StreamsOf(p) \cup {NoStream}
              /\ u.entries[p].stream \in StreamId => p \in u.stream_index[u.entries[p].stream]
  <2>1. CASE p # q
    BY <1>1, <1>9, <2>1 DEF Routes
  <2>2. CASE p = q /\ el.kind = "parameter"
    BY <1>5, <1>9, <2>2
  <2>3. CASE p = q /\ el.kind # "parameter"
    <3>1. now.stream = Was(t, el).stream
      BY <1>2, <1>6, <2>3 DEF Given
    <3>2. now.stream \in StreamId => q \in t.stream_index[now.stream]
      BY <1>3, <3>1, TreeAssumption DEF Routes
    <3> QED BY <1>5, <1>9, <2>3, <3>2
  <2> QED BY <2>1, <2>2, <2>3
<1>11. ASSUME NEW id \in StreamId, NEW p \in u.stream_index[id]
       PROVE  p \in DOMAIN u.entries /\ id \in StreamsOf(p) /\ u.entries[p].stream # NoStream
  <2>1. CASE p \in t.stream_index[id]
    <3>1. p \in DOMAIN t.entries /\ id \in StreamsOf(p) /\ t.entries[p].stream # NoStream
      BY <2>1 DEF Routes
    <3> QED BY <1>1, <1>7, <3>1
  <2>2. CASE p \notin t.stream_index[id]
    <3>1. p = q /\ id = now.stream
      BY <1>9, <2>2
    <3> QED BY <1>1, <1>5, <3>1, TreeAssumption
  <2> QED BY <2>1, <2>2
<1> QED BY <1>10, <1>11 DEF Routes

-------------------------------------------------------------------------------
(* What a document has changed after its first n elements.                 *)

LEMMA DocRoutes ==
    ASSUME NEW t, Good(t), Routes(t), NEW doc \in Documents
    PROVE  \A n \in 0..Len(doc) : Routes(Ingested(t, doc)[n])
<1> DEFINE I == Ingested(t, doc)
           N == Len(doc)
           S == {n \in 0..N : Routes(I[n])}
<1>1. /\ N \in Nat /\ I[0] = t
      /\ \A n \in 1..N : doc[n] \in Elements /\ Became(I[n - 1], I[n], doc[n])
      /\ \A n \in 0..N : Good(I[n])
  BY Steps
<1> HIDE DEF I, N
<1>2. 0 \in S
  BY <1>1
<1>3. ASSUME NEW n \in 1..N, n - 1 \in S PROVE n \in S
  <2>1. n \in 0..N /\ Routes(I[n - 1]) /\ Good(I[n - 1])
    BY <1>1, <1>3
  <2> QED BY <1>1, <2>1, IngestRoutes
<1>4. 0..N \subseteq S
  <2> HIDE DEF S
  <2> QED BY <1>1, <1>2, <1>3, InductionUpTo
<1> QED BY <1>4 DEF I, N

\* The kinds a device gives the element of a path.
KindsOf(p) == {el.kind : el \in {e \in Elements : e.path = p}}

\* Only what has a directory is fetched, and entries are of the kind they were sent as.
Fetchable(t) ==
    \A p \in DOMAIN t.entries :
        /\ t.entries[p].kind \in KindsOf(p)
        /\ t.entries[p].requested => t.entries[p].kind # "parameter"

LEMMA IngestFetchable ==
    ASSUME NEW t, Fetchable(t), NEW el \in Elements, NEW u, Became(t, u, el)
    PROVE  Fetchable(u)
<1>1. el.kind \in KindsOf(el.path)
  BY DEF KindsOf
<1>2. /\ Was(t, el).kind \in KindsOf(el.path)
      /\ Was(t, el).requested => Was(t, el).kind # "parameter"
  BY <1>1 DEF Was, NewEntry, Fetchable
<1>3. /\ u.entries[el.path].kind = Was(t, el).kind
      /\ u.entries[el.path].requested => Was(t, el).requested
  BY DEF Became, Updated
<1>4. /\ DOMAIN u.entries = DOMAIN t.entries \cup {el.path}
      /\ \A q \in DOMAIN t.entries \ {el.path} :
             /\ u.entries[q].kind = t.entries[q].kind
             /\ u.entries[q].requested = t.entries[q].requested
  BY DEF Became, Alike
<1> QED BY <1>2, <1>3, <1>4 DEF Fetchable

\* What is online and fetched after an element was so before it, and is not what
\* the element calls offline.
LEMMA IngestOnline ==
    ASSUME NEW t, Fetchable(t), NEW el \in Elements, NEW u, Became(t, u, el),
           NEW p \in DOMAIN u.entries, u.entries[p].online, u.entries[p].requested
    PROVE  /\ p \in DOMAIN t.entries /\ t.entries[p].online /\ t.entries[p].requested
           /\ ~(el.path = p /\ Says(el, "online") /\ ~el.contents.online)
<1>1. CASE p # el.path
  <2>1. p \in DOMAIN t.entries /\ Alike(u.entries[p], t.entries[p])
    BY <1>1 DEF Became
  <2> QED BY <1>1, <2>1 DEF Alike
<1>2. CASE p = el.path
  <2>1. /\ u.entries[p].online = Given(el, "online", Was(t, el).online)
        /\ Was(t, el).requested
        /\ el.kind = "node" /\ Given(el, "online", FALSE) => Was(t, el).online
    BY <1>2 DEF Became, Updated
  <2>2. p \in DOMAIN t.entries /\ Was(t, el) = t.entries[p]
    BY <1>2, <2>1 DEF Was, NewEntry
  <2>3. el.kind # "parameter"
    <3>1. PICK e \in Elements : e.path = p /\ e.kind = t.entries[p].kind
      BY <2>2 DEF Fetchable, KindsOf
    <3>2. e.kind # "parameter"
      BY <2>1, <2>2, <3>1 DEF Fetchable
    <3> QED BY <1>2, <3>1, <3>2, KindAssumption
  <2>4. Says(el, "online") => el.kind = "node"
    BY <2>3, ElementFacts DEF ElementOK, FieldsOf, Says, Kind
  <2> QED BY <1>2, <2>1, <2>2, <2>4 DEF Given
<1> QED BY <1>1, <1>2

LEMMA DocOnline ==
    ASSUME NEW t, Good(t), Fetchable(t), NEW doc \in Documents
    PROVE  LET u == Ingested(t, doc)[Len(doc)]
           IN  /\ Fetchable(u)
               /\ \A p \in DOMAIN u.entries :
                      u.entries[p].online /\ u.entries[p].requested =>
                          /\ p \in DOMAIN t.entries
                          /\ t.entries[p].online /\ t.entries[p].requested
                          /\ p \notin SaidOffline(doc)
<1> DEFINE I == Ingested(t, doc)
           N == Len(doc)
           Offline(i, p) == doc[i].path = p /\ Says(doc[i], "online") /\ ~doc[i].contents.online
           Live(n, p) == I[n].entries[p].online /\ I[n].entries[p].requested
           S == {n \in 0..N : /\ Fetchable(I[n])
                              /\ \A p \in DOMAIN I[n].entries : Live(n, p) =>
                                     /\ p \in DOMAIN t.entries /\ Live(0, p)
                                     /\ \A i \in 1..n : ~Offline(i, p)}
<1>1. /\ N \in Nat /\ DOMAIN doc = 1..N /\ I[0] = t
      /\ \A n \in 1..N : doc[n] \in Elements /\ Became(I[n - 1], I[n], doc[n])
  BY Steps
<1> HIDE DEF I, N
<1>2. 0 \in S
  BY <1>1
<1>3. ASSUME NEW n \in 1..N, n - 1 \in S PROVE n \in S
  <2>1. Fetchable(I[n - 1]) /\ Fetchable(I[n])
    BY <1>1, <1>3, IngestFetchable
  <2>2. ASSUME NEW p \in DOMAIN I[n].entries, Live(n, p)
        PROVE  p \in DOMAIN t.entries /\ Live(0, p) /\ \A i \in 1..n : ~Offline(i, p)
    <3>1. p \in DOMAIN I[n - 1].entries /\ Live(n - 1, p) /\ ~Offline(n, p)
      BY <1>1, <2>1, <2>2, IngestOnline
    <3>2. p \in DOMAIN t.entries /\ Live(0, p) /\ \A i \in 1..(n - 1) : ~Offline(i, p)
      BY <1>3, <3>1
    <3>3. \A i \in 1..n : i = n \/ i \in 1..(n - 1)
      BY <1>1
    <3> QED BY <3>1, <3>2, <3>3
  <2> QED BY <1>1, <2>1, <2>2
<1>4. N \in S
  <2>1. 0..N \subseteq S
    <3> HIDE DEF S
    <3> QED BY <1>1, <1>2, <1>3, InductionUpTo
  <2> QED BY <1>1, <2>1
<1>5. \A p : p \in SaidOffline(doc) => \E i \in 1..N : Offline(i, p)
  BY <1>1 DEF SaidOffline, ToSet
<1> QED BY <1>1, <1>4, <1>5 DEF I, N

\* The value an entry has before a document.
ValueBefore(t, p) == IF p \in DOMAIN t.entries THEN t.entries[p].value ELSE NoValue

LEMMA DocValues ==
    ASSUME NEW t, Good(t), NEW doc \in Documents
    PROVE  LET u == Ingested(t, doc)[Len(doc)]
           IN  /\ \A p \in DOMAIN u.entries :
                      u.entries[p].value = IF p \in Speaks(doc) THEN SaidIn(doc, p)
                                                               ELSE ValueBefore(t, p)
               /\ DOMAIN t.entries \subseteq DOMAIN u.entries
               /\ u.value_updates = t.value_updates \cup Speaks(doc)
<1> DEFINE I == Ingested(t, doc)
           N == Len(doc)
           About(i, p) == doc[i].path = p
           Speaking(i, p) == doc[i].path = p /\ Says(doc[i], "value")
           Valid(n, p) ==
               /\ \A k \in 1..n :
                      Speaking(k, p) /\ (\A i \in 1..n : i > k => ~Speaking(i, p)) =>
                          I[n].entries[p].value = doc[k].contents.value
               /\ (\A i \in 1..n : ~Speaking(i, p)) => I[n].entries[p].value = ValueBefore(t, p)
           Known(n, p) ==
               p \in DOMAIN I[n].entries <=> p \in DOMAIN t.entries \/ \E i \in 1..n : About(i, p)
           Updates(n, p) ==
               p \in I[n].value_updates <=> p \in t.value_updates \/ \E i \in 1..n : Speaking(i, p)
           S == {n \in 0..N : /\ \A p \in DOMAIN I[n].entries : Valid(n, p)
                              /\ \A p : Known(n, p)
                              /\ \A p : Updates(n, p)}
<1>1. /\ N \in Nat /\ DOMAIN doc = 1..N /\ I[0] = t
      /\ \A n \in 1..N : doc[n] \in Elements /\ Became(I[n - 1], I[n], doc[n])
  BY Steps
<1> HIDE DEF I, N
<1>2. 0 \in S
  BY <1>1 DEF ValueBefore
<1>3. ASSUME NEW n \in 1..N, n - 1 \in S PROVE n \in S
  <2> DEFINE el == doc[n]
  <2>1. el \in Elements /\ Became(I[n - 1], I[n], el)
    BY <1>1
  <2>2. \A i \in 1..n : i = n \/ i \in 1..(n - 1)
    BY <1>1
  <2>3. n \in 1..n /\ \A i \in 1..(n - 1) : i \in 1..n /\ n > i
    BY <1>1
  <2>4. ASSUME NEW p PROVE Known(n, p)
    <3>1. p \in DOMAIN I[n].entries <=> p \in DOMAIN I[n - 1].entries \/ About(n, p)
      BY <2>1 DEF Became
    <3>2. Known(n - 1, p)
      BY <1>3
    <3> QED BY <2>2, <2>3, <3>1, <3>2
  <2>5. ASSUME NEW p PROVE Updates(n, p)
    <3>1. p \in I[n].value_updates <=> p \in I[n - 1].value_updates \/ Speaking(n, p)
      BY <2>1 DEF Became, Noted
    <3>2. Updates(n - 1, p)
      BY <1>3
    <3> QED BY <2>2, <2>3, <3>1, <3>2
  <2>6. ASSUME NEW p \in DOMAIN I[n].entries PROVE Valid(n, p)
    <3>1. CASE Speaking(n, p)
      <4>1. I[n].entries[p].value = el.contents.value
        BY <2>1, <3>1 DEF Became, Updated, Given
      <4>2. \A k \in 1..n : (\A i \in 1..n : i > k => ~Speaking(i, p)) => k = n
        BY <1>1, <2>2, <2>3, <3>1
      <4> QED BY <2>3, <3>1, <4>1, <4>2
    <3>2. CASE ~Speaking(n, p)
      <4>1. CASE p \in DOMAIN I[n - 1].entries
        <5>1. I[n].entries[p].value = I[n - 1].entries[p].value
          BY <2>1, <3>2, <4>1 DEF Became, Updated, Given, Alike, Was
        <5>2. Valid(n - 1, p)
          BY <1>3, <4>1
        <5> QED BY <2>2, <2>3, <3>2, <5>1, <5>2
      <4>2. CASE p \notin DOMAIN I[n - 1].entries
        <5>1. p = el.path /\ I[n].entries[p].value = NoValue
          BY <2>1, <3>2, <4>2 DEF Became, Updated, Given, Was, NewEntry
        <5>2. Known(n - 1, p)
          BY <1>3
        <5>3. ValueBefore(t, p) = NoValue /\ \A i \in 1..n : ~Speaking(i, p)
          BY <2>2, <3>2, <4>2, <5>2 DEF ValueBefore
        <5> QED BY <5>1, <5>3
      <4> QED BY <4>1, <4>2
    <3> QED BY <3>1, <3>2
  <2> HIDE DEF Valid, Known, Updates
  <2> QED BY <1>1, <2>4, <2>5, <2>6
<1>4. N \in S
  <2>1. 0..N \subseteq S
    <3> HIDE DEF S
    <3> QED BY <1>1, <1>2, <1>3, InductionUpTo
  <2> QED BY <1>1, <2>1
<1>5. \A p : p \in Speaks(doc) <=> \E i \in 1..N : Speaking(i, p)
  BY <1>1 DEF Speaks, ToSet
<1>6. ASSUME NEW p \in DOMAIN I[N].entries
      PROVE  I[N].entries[p].value = IF p \in Speaks(doc) THEN SaidIn(doc, p)
                                                         ELSE ValueBefore(t, p)
  <2>1. Valid(N, p)
    BY <1>4
  <2>2. CASE p \in Speaks(doc)
    <3> DEFINE T == {i \in DOMAIN doc : doc[i].path = p /\ Says(doc[i], "value")}
               k == Max(T)
    <3>1. T # {} /\ T \subseteq 1..N
      BY <1>1, <1>5, <2>2
    <3>2. k \in T /\ \A i \in T : i <= k
      <4> HIDE DEF T
      <4> QED BY <1>1, <3>1, MaxOK
    <3>3. \A i \in 1..N : Speaking(i, p) <=> i \in T
      BY <1>1
    <3>4. SaidIn(doc, p) = doc[k].contents.value
      BY DEF SaidIn
    <3> HIDE DEF T, k
    <3>5. \A i \in 1..N : i > k => ~Speaking(i, p)
      BY <1>1, <3>1, <3>2, <3>3
    <3> QED BY <2>1, <2>2, <3>1, <3>2, <3>3, <3>4, <3>5
  <2>3. CASE p \notin Speaks(doc)
    BY <1>5, <2>1, <2>3
  <2> QED BY <2>2, <2>3
<1>7. DOMAIN t.entries \subseteq DOMAIN I[N].entries
  BY <1>4
<1>8. I[N].value_updates = t.value_updates \cup Speaks(doc)
  BY <1>4, <1>5
<1> QED BY <1>6, <1>7, <1>8 DEF I, N

-------------------------------------------------------------------------------
(* The steps of a session keep the tree sound.                             *)

Sound(t) == Good(t) /\ Routes(t) /\ Fetchable(t)

\* The same entries, in another state of the session.
SameSession(e, f) ==
    /\ e.kind = f.kind /\ e.stream = f.stream
    /\ e.requested => f.requested \/ f.kind # "parameter"

\* The same matrix, in another state of the session.
SameMatrix(e, f) ==
    /\ e.kind = f.kind /\ e.identifier = f.identifier /\ e.children = f.children
    /\ e.count = f.count /\ e.signals = f.signals /\ e.names = f.names
    /\ e.labels = f.labels /\ e.params = f.params /\ e.axis_params = f.axis_params

LEMMA SoundKept ==
    ASSUME NEW t, Sound(t), NEW u, Good(u), DOMAIN u.entries = DOMAIN t.entries,
           \A p \in DOMAIN t.entries : SameSession(u.entries[p], t.entries[p]),
           u.stream_index = t.stream_index
    PROVE  Sound(u)
<1>1. Routes(u)
  BY DEF Sound, Routes, SameSession
<1>2. Fetchable(u)
  BY DEF Sound, Fetchable, SameSession
<1> QED BY <1>1, <1>2 DEF Sound

LEMMA NewTreeSound == Sound(NewTree) /\ NewTree.value_updates = {} /\ NewTree.matrix_dirty = FALSE
<1>1. /\ NewTree = [f \in TreeFields |-> NewTree[f]]
      /\ NewTree.entries = <<>> /\ NewTree.roots = <<>> /\ NewTree.value_updates = {}
      /\ NewTree.stream_index = [id \in StreamId |-> {}]
      /\ NewTree.matrix_watch = {} /\ NewTree.matrix_dirty = FALSE
  BY DEF NewTree, TreeFields
<1>2. /\ DOMAIN <<>> = {} /\ <<>> = [p \in {} |-> NewTree.entries[p]] /\ <<>> \in Seq(Paths)
      /\ IsInjective(<<>>) /\ ToSet(<<>>) = {}
  BY DEF IsInjective, ToSet
<1>3. IsTree(NewTree) /\ TreeOK(NewTree)
  BY <1>1, <1>2 DEF IsTree, TreeOK
<1>4. Linked(NewTree)
  BY <1>1, <1>2 DEF Linked, Below
<1>5. Routes(NewTree) /\ Fetchable(NewTree)
  BY <1>1, <1>2 DEF Routes, Fetchable
<1> QED BY <1>1, <1>3, <1>4, <1>5 DEF Sound, Good

LEMMA MergeSound ==
    ASSUME NEW t, Sound(t), NEW doc \in Documents
    PROVE  Sound(merge(t, doc))
<1> DEFINE u == merge(t, doc)
           o == Ingested(t, doc)[Len(doc)]
<1>1. Sound(o)
  BY Steps, DocRoutes, DocOnline DEF Sound
<1>2. /\ Good(u) /\ DOMAIN u.entries = DOMAIN o.entries
      /\ \A p \in DOMAIN o.entries : Kept(u.entries[p], o.entries[p])
      /\ u.stream_index = o.stream_index
  BY MergeOK DEF Sound
<1>3. \A p \in DOMAIN o.entries : SameSession(u.entries[p], o.entries[p])
  BY <1>2 DEF Kept, SameSession
<1> HIDE DEF u, o
<1> QED BY <1>1, <1>2, <1>3, SoundKept DEF u

LEMMA TakenSound ==
    ASSUME NEW t, Sound(t), NEW u, u = [t EXCEPT !.value_updates = {}]
    PROVE  Sound(u)
<1>1. Good(u) /\ u.entries = t.entries /\ u.stream_index = t.stream_index
  BY TakenOK DEF Sound
<1> QED BY <1>1, SoundKept DEF SameSession

\* A stream entry changes the values of the entries it is routed to.
LEMMA StreamsSound ==
    ASSUME NEW t, Sound(t), NEW id \in StreamId, NEW v \in Levels,
           NEW u, u = apply_streams(t, id, v)
    PROVE  /\ Sound(u) /\ DOMAIN u.entries = DOMAIN t.entries
           /\ \A p \in DOMAIN t.entries :
                  /\ u.entries[p].online = t.entries[p].online
                  /\ u.entries[p].requested = t.entries[p].requested
                  /\ p \in t.stream_index[id] => u.entries[p].value = v
                  /\ p \notin t.stream_index[id] => u.entries[p].value = t.entries[p].value
                  /\ SameMatrix(u.entries[p], t.entries[p])
           /\ t.value_updates = {} => u.value_updates = t.stream_index[id]
           /\ u.matrix_dirty = t.matrix_dirty /\ u.matrix_watch = t.matrix_watch
<1> DEFINE routed == t.stream_index[id] \cap DOMAIN t.entries
<1>1. routed = t.stream_index[id] /\ routed \subseteq Valued
  <2>1. \A p \in t.stream_index[id] : p \in DOMAIN t.entries /\ p \in Valued
    BY StreamsAreSaid DEF Sound, Routes
  <2> QED BY <2>1
<1>2. t = [f \in TreeFields |-> t[f]]
  BY DEF Sound, Good, IsTree
<1> HIDE DEF routed
<1>3. /\ u = [f \in TreeFields |-> u[f]]
      /\ u.entries = [p \in DOMAIN t.entries |->
                          IF p \in routed THEN [t.entries[p] EXCEPT !.value = v] ELSE t.entries[p]]
      /\ u.roots = t.roots /\ u.stream_index = t.stream_index
      /\ u.matrix_watch = t.matrix_watch /\ u.matrix_dirty = t.matrix_dirty
      /\ u.value_updates = t.value_updates \cup routed
  BY <1>2 DEF apply_streams, TreeFields, routed
<1>4. ASSUME NEW e, IsEntry(e), EntryOK(e)
      PROVE  LET f == [e EXCEPT !.value = v]
             IN  /\ IsEntry(f) /\ EntryOK(f) /\ f.children = e.children /\ SameSession(f, e)
                 /\ f.online = e.online /\ f.requested = e.requested /\ f.value = v
                 /\ SameMatrix(f, e)
  <2> DEFINE f == [e EXCEPT !.value = v]
  <2>1. /\ IsEntry(f) /\ f.value = v /\ f.children = e.children
        /\ f.kind = e.kind /\ f.identifier = e.identifier /\ f.stream = e.stream
        /\ f.online = e.online /\ f.requested = e.requested
        /\ f.count = e.count /\ f.signals = e.signals /\ f.names = e.names
        /\ f.labels = e.labels /\ f.params = e.params /\ f.axis_params = e.axis_params
    BY <1>4 DEF IsEntry, EntryFields
  <2> HIDE DEF f
  <2>2. EntryOK(f)
    BY <1>4, <2>1 DEF EntryOK
  <2> QED BY <2>1, <2>2 DEF SameSession, SameMatrix, f
<1>5. ASSUME NEW p \in DOMAIN t.entries
      PROVE  /\ IsEntry(u.entries[p]) /\ EntryOK(u.entries[p])
             /\ u.entries[p].children = t.entries[p].children
             /\ SameSession(u.entries[p], t.entries[p])
             /\ u.entries[p].online = t.entries[p].online
             /\ u.entries[p].requested = t.entries[p].requested
             /\ u.entries[p].value = IF p \in routed THEN v ELSE t.entries[p].value
             /\ SameMatrix(u.entries[p], t.entries[p])
  <2>1. IsEntry(t.entries[p]) /\ EntryOK(t.entries[p])
    BY DEF Sound, Good, IsTree, TreeOK
  <2>2. CASE p \in routed
    <3>1. u.entries[p] = [t.entries[p] EXCEPT !.value = v]
      BY <1>3, <2>2
    <3> QED BY <1>4, <2>1, <2>2, <3>1
  <2>3. CASE p \notin routed
    <3>1. u.entries[p] = t.entries[p]
      BY <1>3, <2>3
    <3> QED BY <2>1, <2>3, <3>1 DEF SameSession, SameMatrix
  <2> QED BY <2>2, <2>3
<1>6. u.entries = [p \in DOMAIN t.entries |-> u.entries[p]] /\ DOMAIN u.entries = DOMAIN t.entries
  BY <1>3
<1>7. u.value_updates \subseteq Valued
  BY <1>1, <1>3 DEF Sound, Good, TreeOK
<1>8. Good(u)
  <2>1. Good(t)
    BY DEF Sound
  <2>2. u = [f \in TreeFields |-> u[f]]
    BY <1>3
  <2>3. /\ u.roots = t.roots /\ u.stream_index = t.stream_index
        /\ u.matrix_watch = t.matrix_watch /\ u.matrix_dirty = t.matrix_dirty
    BY <1>3
  <2> QED BY ONLY <1>5, <1>6, <1>7, <2>1, <2>2, <2>3, SameShape
<1>9. Sound(u)
  BY <1>3, <1>5, <1>6, <1>8, SoundKept
<1> QED BY <1>1, <1>3, <1>5, <1>6, <1>9

\* So do changes of entries that are the session's own.
LEMMA EntriesSound ==
    ASSUME NEW t, Sound(t), NEW E, E = [p \in DOMAIN t.entries |-> E[p]],
           \A p \in DOMAIN t.entries :
               /\ IsEntry(E[p]) /\ EntryOK(E[p])
               /\ E[p].children = t.entries[p].children
               /\ SameSession(E[p], t.entries[p]),
           NEW u, u = [t EXCEPT !.entries = E]
    PROVE  /\ Sound(u) /\ u.entries = E
           /\ u.value_updates = t.value_updates /\ u.matrix_dirty = t.matrix_dirty
           /\ u.stream_index = t.stream_index /\ u.matrix_watch = t.matrix_watch
<1>1. /\ u = [f \in TreeFields |-> u[f]]
      /\ u.entries = E /\ u.roots = t.roots /\ u.stream_index = t.stream_index
      /\ u.matrix_watch = t.matrix_watch /\ u.matrix_dirty = t.matrix_dirty
      /\ u.value_updates = t.value_updates
  BY DEF Sound, Good, IsTree, TreeFields
<1>2. Good(u)
  <2>1. Good(t) /\ u.value_updates \subseteq Valued
    BY <1>1 DEF Sound, Good, TreeOK
  <2>2. /\ u.entries = [p \in DOMAIN t.entries |-> u.entries[p]]
        /\ \A p \in DOMAIN t.entries :
               /\ IsEntry(u.entries[p]) /\ EntryOK(u.entries[p])
               /\ u.entries[p].children = t.entries[p].children
    BY <1>1
  <2> QED BY ONLY <1>1, <2>1, <2>2, SameShape
<1>3. DOMAIN u.entries = DOMAIN t.entries
  BY <1>1
<1>4. Routes(u)
  BY <1>1, <1>3, SMTT(30) DEF Sound, Routes, SameSession
<1>5. Fetchable(u)
  BY <1>1, <1>3 DEF Sound, Fetchable, SameSession
<1> QED BY <1>1, <1>2, <1>4, <1>5 DEF Sound

LEMMA AppliedSound ==
    ASSUME NEW t, Sound(t), NEW p \in DOMAIN t.entries, NEW v \in Names,
           NEW u, u = [t EXCEPT !.entries[p].value = v]
    PROVE  /\ Sound(u) /\ DOMAIN u.entries = DOMAIN t.entries
           /\ \A q \in DOMAIN t.entries :
                  /\ u.entries[q].online = t.entries[q].online
                  /\ u.entries[q].requested = t.entries[q].requested
                  /\ u.entries[q].value = IF q = p THEN v ELSE t.entries[q].value
                  /\ SameMatrix(u.entries[q], t.entries[q])
           /\ u.value_updates = t.value_updates /\ u.matrix_dirty = t.matrix_dirty
           /\ u.matrix_watch = t.matrix_watch
<1> DEFINE e == t.entries[p]
           f == [e EXCEPT !.value = v]
           E == [t.entries EXCEPT ![p] = f]
<1>1. \A q \in DOMAIN t.entries : IsEntry(t.entries[q]) /\ EntryOK(t.entries[q])
  BY DEF Sound, Good, IsTree, TreeOK
<1>2. /\ IsEntry(f) /\ f.value = v /\ f.children = e.children
      /\ f.kind = e.kind /\ f.identifier = e.identifier /\ f.stream = e.stream
      /\ f.online = e.online /\ f.requested = e.requested
      /\ f.count = e.count /\ f.signals = e.signals /\ f.names = e.names
      /\ f.labels = e.labels /\ f.params = e.params /\ f.axis_params = e.axis_params
  BY <1>1 DEF IsEntry, EntryFields
<1>3. u = [t EXCEPT !.entries = E]
  BY DEF Sound, Good, IsTree, TreeFields
<1> HIDE DEF f
<1>4. EntryOK(f)
  BY <1>1, <1>2 DEF EntryOK
<1>5. /\ E = [q \in DOMAIN t.entries |-> E[q]]
      /\ \A q \in DOMAIN t.entries : E[q] = IF q = p THEN f ELSE t.entries[q]
  BY DEF Sound, Good, IsTree
<1> HIDE DEF E
<1>6. \A q \in DOMAIN t.entries :
          /\ IsEntry(E[q]) /\ EntryOK(E[q])
          /\ E[q].children = t.entries[q].children
          /\ SameSession(E[q], t.entries[q])
  BY <1>1, <1>2, <1>4, <1>5 DEF SameSession
<1>7. /\ Sound(u) /\ u.entries = E
      /\ u.value_updates = t.value_updates /\ u.matrix_dirty = t.matrix_dirty
      /\ u.matrix_watch = t.matrix_watch
  <2>1. Sound(t)
    OBVIOUS
  <2>2. E = [q \in DOMAIN t.entries |-> E[q]]
    BY <1>5
  <2> QED BY ONLY <1>3, <1>6, <2>1, <2>2, EntriesSound
<1>8. \A q \in DOMAIN t.entries : SameMatrix(E[q], t.entries[q])
  BY <1>2, <1>5 DEF SameMatrix
<1> QED BY <1>2, <1>5, <1>7, <1>8

LEMMA ExpandedSound ==
    ASSUME NEW t, Sound(t), NEW p \in DOMAIN t.entries, t.entries[p].kind # "parameter",
           NEW u, u = [t EXCEPT !.entries[p].requested = TRUE]
    PROVE  /\ Sound(u) /\ DOMAIN u.entries = DOMAIN t.entries
           /\ \A q \in DOMAIN t.entries :
                  /\ u.entries[q].value = t.entries[q].value
                  /\ q # p => u.entries[q] = t.entries[q]
                  /\ SameMatrix(u.entries[q], t.entries[q])
           /\ u.value_updates = t.value_updates /\ u.matrix_dirty = t.matrix_dirty
           /\ u.matrix_watch = t.matrix_watch
<1> DEFINE e == t.entries[p]
           f == [e EXCEPT !.requested = TRUE]
           E == [t.entries EXCEPT ![p] = f]
<1>1. \A q \in DOMAIN t.entries : IsEntry(t.entries[q]) /\ EntryOK(t.entries[q])
  BY DEF Sound, Good, IsTree, TreeOK
<1>2. /\ IsEntry(f) /\ f.value = e.value /\ f.children = e.children
      /\ f.kind = e.kind /\ f.identifier = e.identifier /\ f.stream = e.stream
      /\ f.online = e.online /\ f.requested = TRUE
      /\ f.count = e.count /\ f.signals = e.signals /\ f.names = e.names
      /\ f.labels = e.labels /\ f.params = e.params /\ f.axis_params = e.axis_params
  BY <1>1 DEF IsEntry, EntryFields
<1>3. u = [t EXCEPT !.entries = E]
  BY DEF Sound, Good, IsTree, TreeFields
<1> HIDE DEF f
<1>4. EntryOK(f)
  BY <1>1, <1>2 DEF EntryOK
<1>5. /\ E = [q \in DOMAIN t.entries |-> E[q]]
      /\ \A q \in DOMAIN t.entries : E[q] = IF q = p THEN f ELSE t.entries[q]
  BY DEF Sound, Good, IsTree
<1> HIDE DEF E
<1>6. \A q \in DOMAIN t.entries :
          /\ IsEntry(E[q]) /\ EntryOK(E[q])
          /\ E[q].children = t.entries[q].children
          /\ SameSession(E[q], t.entries[q])
  BY <1>1, <1>2, <1>4, <1>5 DEF SameSession
<1>7. /\ Sound(u) /\ u.entries = E
      /\ u.value_updates = t.value_updates /\ u.matrix_dirty = t.matrix_dirty
      /\ u.matrix_watch = t.matrix_watch
  <2>1. Sound(t)
    OBVIOUS
  <2>2. E = [q \in DOMAIN t.entries |-> E[q]]
    BY <1>5
  <2> QED BY ONLY <1>3, <1>6, <2>1, <2>2, EntriesSound
<1>8. \A q \in DOMAIN t.entries : SameMatrix(E[q], t.entries[q])
  BY <1>2, <1>5 DEF SameMatrix
<1> QED BY <1>2, <1>5, <1>7, <1>8, ZenonT(60)

LEMMA ConnectedSound ==
    ASSUME NEW t, Sound(t),
           NEW u, u = [t EXCEPT !.entries = [p \in DOMAIN @ |-> [@[p] EXCEPT !.requested = FALSE]]]
    PROVE  /\ Sound(u) /\ DOMAIN u.entries = DOMAIN t.entries
           /\ \A q \in DOMAIN t.entries :
                  /\ u.entries[q].value = t.entries[q].value /\ u.entries[q].requested = FALSE
                  /\ SameMatrix(u.entries[q], t.entries[q])
           /\ u.value_updates = t.value_updates /\ u.matrix_dirty = t.matrix_dirty
           /\ u.matrix_watch = t.matrix_watch
<1> DEFINE E == [p \in DOMAIN t.entries |-> [t.entries[p] EXCEPT !.requested = FALSE]]
<1>1. u = [t EXCEPT !.entries = E]
  OBVIOUS
<1>2. /\ E = [q \in DOMAIN t.entries |-> E[q]]
      /\ \A q \in DOMAIN t.entries : E[q] = [t.entries[q] EXCEPT !.requested = FALSE]
  OBVIOUS
<1> HIDE DEF E
<1>3. ASSUME NEW q \in DOMAIN t.entries
      PROVE  /\ IsEntry(E[q]) /\ EntryOK(E[q])
             /\ E[q].children = t.entries[q].children
             /\ SameSession(E[q], t.entries[q])
             /\ E[q].value = t.entries[q].value /\ E[q].requested = FALSE
             /\ SameMatrix(E[q], t.entries[q])
  <2> DEFINE e == t.entries[q]
             f == E[q]
  <2>1. IsEntry(e) /\ EntryOK(e)
    BY DEF Sound, Good, IsTree, TreeOK
  <2>2. /\ IsEntry(f) /\ f.value = e.value /\ f.children = e.children
        /\ f.kind = e.kind /\ f.identifier = e.identifier /\ f.stream = e.stream
        /\ f.online = e.online /\ f.requested = FALSE
        /\ f.count = e.count /\ f.signals = e.signals /\ f.names = e.names
        /\ f.labels = e.labels /\ f.params = e.params /\ f.axis_params = e.axis_params
    BY <1>2, <2>1 DEF IsEntry, EntryFields
  <2> HIDE DEF f
  <2>3. EntryOK(f)
    BY <2>1, <2>2 DEF EntryOK
  <2> QED BY <2>2, <2>3 DEF SameSession, SameMatrix, f
<1>4. /\ Sound(u) /\ u.entries = E
      /\ u.value_updates = t.value_updates /\ u.matrix_dirty = t.matrix_dirty
      /\ u.matrix_watch = t.matrix_watch
  <2>1. Sound(t)
    OBVIOUS
  <2>2. E = [q \in DOMAIN t.entries |-> E[q]]
    BY <1>2
  <2>3. \A q \in DOMAIN t.entries :
            /\ IsEntry(E[q]) /\ EntryOK(E[q])
            /\ E[q].children = t.entries[q].children
            /\ SameSession(E[q], t.entries[q])
    BY <1>3
  <2>4. u = [t EXCEPT !.entries = E]
    BY <1>1
  <2> QED BY ONLY <2>1, <2>2, <2>3, <2>4, EntriesSound
<1> QED BY <1>2, <1>3, <1>4

-------------------------------------------------------------------------------
(* The tree is a forest.                                                   *)

\* The inductive invariant: Forest, and what the next merge relies on.
TreeInv == Sound(tree) /\ TypeOK

LEMMA SaidInOK ==
    ASSUME NEW doc \in Documents, NEW p \in Speaks(doc)
    PROVE  SaidIn(doc, p) \in Names \cup Levels
<1> DEFINE T == {i \in DOMAIN doc : doc[i].path = p /\ Says(doc[i], "value")}
<1>1. Len(doc) \in Nat /\ DOMAIN doc = 1..Len(doc)
  BY TreeAssumption
<1>2. T # {} /\ T \subseteq 1..Len(doc)
  BY <1>1 DEF Speaks, ToSet
<1>3. Max(T) \in T
  <2> HIDE DEF T
  <2> QED BY <1>1, <1>2, MaxOK
<1>4. doc[Max(T)] \in Elements /\ Says(doc[Max(T)], "value")
  <2>1. Max(T) \in DOMAIN doc /\ Says(doc[Max(T)], "value")
    BY <1>3
  <2> HIDE DEF T
  <2>2. doc[Max(T)] \in ToSet(doc)
    BY <2>1 DEF ToSet
  <2> QED BY <2>1, <2>2 DEF Elements
<1>5. FieldOK(doc[Max(T)], "value")
  BY <1>4, ElementFacts DEF ElementOK, Says
<1> QED BY <1>5 DEF SaidIn, FieldOK

\* After a step that leaves no update and no resolve due.
LEMMA TreeTyped ==
    ASSUME NEW t, Sound(t), t.value_updates = {}, t.matrix_dirty = FALSE
    PROVE  TreeOK(t) /\ t.value_updates = {} /\ t.matrix_dirty = FALSE
BY DEF Sound, Good

LEMMA TreeInvInit == Init => TreeInv
<1> SUFFICES ASSUME Init PROVE TreeInv
  OBVIOUS
<1>1. Sound(tree) /\ tree.value_updates = {} /\ tree.matrix_dirty = FALSE
  BY NewTreeSound DEF Init
<1>2. last \in [Valued -> [by : {"nobody", "device", "user"},
                           value : Names \cup Levels \cup {NoValue}]]
  BY DEF Init, Nobody
<1> QED BY <1>1, <1>2 DEF Init, TreeInv, TypeOK, Sound, Good

LEMMA TreeInvStep == TreeInv /\ [Next]_vars => TreeInv'
<1> SUFFICES ASSUME TreeInv, [Next]_vars PROVE TreeInv'
  OBVIOUS
<1> DEFINE Word == [by : {"nobody", "device", "user"}, value : Names \cup Levels \cup {NoValue}]
<1>1. /\ Sound(tree) /\ tree.value_updates = {} /\ tree.matrix_dirty = FALSE
      /\ pending \subseteq Valued /\ last \in [Valued -> Word] /\ asked \subseteq Paths
      /\ DOMAIN tree.entries \subseteq Paths
  BY DEF TreeInv, TypeOK, TreeOK
<1>2. \A v \in Names \cup Levels \cup {NoValue} :
          \A b \in {"nobody", "device", "user"} : [by |-> b, value |-> v] \in Word
  OBVIOUS
<1> HIDE DEF Word
<1>3. SUFFICES /\ Sound(tree') /\ tree'.value_updates = {} /\ tree'.matrix_dirty = FALSE
               /\ pending' \subseteq Valued /\ last' \in [Valued -> Word] /\ asked' \subseteq Paths
  BY DEF TreeInv, TypeOK, Sound, Good, Word
<1>4. ASSUME NEW doc \in Documents, Document(doc)
      PROVE  /\ Sound(tree') /\ tree'.value_updates = {} /\ tree'.matrix_dirty = FALSE
             /\ pending' \subseteq Valued /\ last' \in [Valued -> Word] /\ asked' \subseteq Paths
  <2> DEFINE t == merge(tree, doc)
  <2>1. Sound(t) /\ t.matrix_dirty = FALSE
    BY <1>1, MergeSound, MergeOK DEF Sound
  <2>2. tree' = [t EXCEPT !.value_updates = {}]
    BY <1>4 DEF Document, Take
  <2>3. Sound(tree') /\ tree'.value_updates = {} /\ tree'.matrix_dirty = FALSE
    <3> HIDE DEF t
    <3> QED BY <2>1, <2>2, TakenSound, TakenOK DEF Sound
  <2>4. pending' \subseteq Valued /\ asked' \subseteq Paths
    BY <1>1, <1>4 DEF Document, Take
  <2>5. last' \in [Valued -> Word]
    <3>1. \A p \in Speaks(doc) : [by |-> "device", value |-> SaidIn(doc, p)] \in Word
      BY <1>2, SaidInOK
    <3> QED BY <1>1, <1>4, <3>1 DEF Document
  <2> QED BY <2>3, <2>4, <2>5
<1>5. ASSUME NEW id \in StreamId, NEW v \in Levels, Stream(id, v)
      PROVE  /\ Sound(tree') /\ tree'.value_updates = {} /\ tree'.matrix_dirty = FALSE
             /\ pending' \subseteq Valued /\ last' \in [Valued -> Word] /\ asked' \subseteq Paths
  <2> DEFINE t == apply_streams(tree, id, v)
  <2>1. Sound(t) /\ t.matrix_dirty = FALSE
    BY <1>1, StreamsSound
  <2>2. tree' = [t EXCEPT !.value_updates = {}]
    BY <1>5 DEF Stream, Take
  <2>3. Sound(tree') /\ tree'.value_updates = {} /\ tree'.matrix_dirty = FALSE
    <3> HIDE DEF t
    <3> QED BY <2>1, <2>2, TakenSound, TakenOK DEF Sound
  <2>4. [by |-> "device", value |-> v] \in Word
    BY <1>2
  <2> QED BY <1>1, <1>5, <2>3, <2>4 DEF Stream, Take
<1>6. ASSUME NEW p \in Valued, NEW v \in Names, Apply(p, v)
      PROVE  /\ Sound(tree') /\ tree'.value_updates = {} /\ tree'.matrix_dirty = FALSE
             /\ pending' \subseteq Valued /\ last' \in [Valued -> Word] /\ asked' \subseteq Paths
  <2>1. Sound(tree') /\ tree'.value_updates = {} /\ tree'.matrix_dirty = FALSE
    <3>1. CASE p \in DOMAIN tree.entries
      <4>1. tree' = [tree EXCEPT !.entries[p].value = v]
        BY <1>6, <3>1 DEF Apply
      <4> QED BY <1>1, <3>1, <4>1, AppliedSound
    <3>2. CASE p \notin DOMAIN tree.entries
      BY <1>1, <1>6, <3>2 DEF Apply
    <3> QED BY <3>1, <3>2
  <2>2. [by |-> "user", value |-> v] \in Word
    BY <1>2
  <2> QED BY <1>1, <1>6, <2>1, <2>2 DEF Apply
<1>7. ASSUME NEW p \in DOMAIN tree.entries, Expand(p)
      PROVE  /\ Sound(tree') /\ tree'.value_updates = {} /\ tree'.matrix_dirty = FALSE
             /\ pending' \subseteq Valued /\ last' \in [Valued -> Word] /\ asked' \subseteq Paths
  <2>1. tree.entries[p].kind # "parameter" /\ tree' = [tree EXCEPT !.entries[p].requested = TRUE]
    BY <1>7 DEF Expand
  <2>2. Sound(tree') /\ tree'.value_updates = {} /\ tree'.matrix_dirty = FALSE
    BY <1>1, <2>1, ExpandedSound
  <2> QED BY <1>1, <1>7, <2>2 DEF Expand
<1>8. CASE Connected
  <2>1. Sound(tree') /\ tree'.value_updates = {} /\ tree'.matrix_dirty = FALSE
    BY <1>1, <1>8, ConnectedSound DEF Connected
  <2> QED BY <1>1, <1>8, <2>1 DEF Connected
<1>9. CASE Cleared
  BY <1>2, <1>9, NewTreeSound DEF Cleared, Nobody
<1>10. CASE UNCHANGED vars
  BY <1>1, <1>10 DEF vars
<1> QED BY <1>4, <1>5, <1>6, <1>7, <1>8, <1>9, <1>10 DEF Next

\* Whatever documents a device sends, in whatever order and pieces, and whatever the
\* streams and the user do in between, the tree is a forest of typed entries.
THEOREM TreeForest == Spec => []Forest
<1>1. TreeInv => Forest
  BY DEF TreeInv, Sound, Good, Forest
<1> QED BY <1>1, TreeInvInit, TreeInvStep, PTL DEF Spec

-------------------------------------------------------------------------------
(* What counts as fetched was asked for since its last outage.             *)

FetchedInv == TreeInv /\ FetchedSinceOutage

\* What a document leaves online and fetched was so before.
LEMMA MergeOnline ==
    ASSUME NEW t, Sound(t), NEW doc \in Documents, NEW u, u = merge(t, doc),
           NEW p \in DOMAIN u.entries, u.entries[p].online, u.entries[p].requested
    PROVE  /\ p \in DOMAIN t.entries /\ t.entries[p].online /\ t.entries[p].requested
           /\ p \notin SaidOffline(doc)
<1> DEFINE o == Ingested(t, doc)[Len(doc)]
<1>1. DOMAIN u.entries = DOMAIN o.entries /\ Kept(u.entries[p], o.entries[p])
  BY MergeOK DEF Sound
<1>2. p \in DOMAIN o.entries /\ o.entries[p].online /\ o.entries[p].requested
  BY <1>1 DEF Kept
<1> QED BY <1>2, DocOnline DEF Sound

LEMMA FetchedStep == FetchedInv /\ [Next]_vars => FetchedSinceOutage'
<1> SUFFICES ASSUME FetchedInv, [Next]_vars,
                    NEW p \in DOMAIN tree'.entries,
                    tree'.entries[p].online, tree'.entries[p].requested
             PROVE  p \in asked'
  BY DEF FetchedSinceOutage
<1>1. Sound(tree)
  BY DEF FetchedInv, TreeInv
<1>2. p \in DOMAIN tree.entries /\ tree.entries[p].online /\ tree.entries[p].requested =>
          p \in asked
  BY DEF FetchedInv, FetchedSinceOutage
<1>3. ASSUME NEW doc \in Documents, Document(doc) PROVE p \in asked'
  <2> DEFINE t == merge(tree, doc)
  <2>1. tree' = [t EXCEPT !.value_updates = {}] /\ asked' = asked \ SaidOffline(doc)
    BY <1>3 DEF Document, Take
  <2>2. tree'.entries = t.entries
    <3>1. Good(t)
      BY <1>1, MergeOK DEF Sound
    <3> HIDE DEF t
    <3> QED BY <2>1, <3>1, TakenOK
  <2>3. p \in DOMAIN t.entries /\ t.entries[p].online /\ t.entries[p].requested
    BY <2>2
  <2> QED BY <1>1, <1>2, <2>1, <2>3, MergeOnline
<1>4. ASSUME NEW id \in StreamId, NEW v \in Levels, Stream(id, v) PROVE p \in asked'
  <2> DEFINE t == apply_streams(tree, id, v)
  <2>1. tree' = [t EXCEPT !.value_updates = {}] /\ asked' = asked
    BY <1>4 DEF Stream, Take
  <2>2. /\ Good(t) /\ DOMAIN t.entries = DOMAIN tree.entries
        /\ \A q \in DOMAIN tree.entries :
               /\ t.entries[q].online = tree.entries[q].online
               /\ t.entries[q].requested = tree.entries[q].requested
    BY <1>1, StreamsSound DEF Sound
  <2> HIDE DEF t
  <2>3. tree'.entries = t.entries
    BY <2>1, <2>2, TakenOK
  <2> QED BY <1>2, <2>1, <2>2, <2>3
<1>5. ASSUME NEW q \in Valued, NEW v \in Names, Apply(q, v) PROVE p \in asked'
  <2>1. CASE q \in DOMAIN tree.entries
    <3>1. tree' = [tree EXCEPT !.entries[q].value = v] /\ asked' = asked
      BY <1>5, <2>1 DEF Apply
    <3> QED BY <1>1, <1>2, <2>1, <3>1, AppliedSound
  <2>2. CASE q \notin DOMAIN tree.entries
    BY <1>2, <1>5, <2>2 DEF Apply
  <2> QED BY <2>1, <2>2
<1>6. ASSUME NEW q \in DOMAIN tree.entries, Expand(q) PROVE p \in asked'
  <2>1. /\ tree.entries[q].kind # "parameter"
        /\ tree' = [tree EXCEPT !.entries[q].requested = TRUE] /\ asked' = asked \cup {q}
    BY <1>6 DEF Expand
  <2>2. /\ DOMAIN tree'.entries = DOMAIN tree.entries
        /\ p # q => tree'.entries[p] = tree.entries[p]
    BY <1>1, <2>1, ExpandedSound
  <2> QED BY <1>2, <2>1, <2>2
<1>7. CASE Connected
  <2>1. tree'.entries[p].requested = FALSE
    BY <1>1, <1>7, ConnectedSound DEF Connected
  <2> QED BY <2>1
<1>8. CASE Cleared
  <2>1. tree'.entries = <<>>
    BY <1>8 DEF Cleared, NewTree
  <2> QED BY <2>1
<1>9. CASE UNCHANGED vars
  BY <1>2, <1>9 DEF vars
<1> QED BY <1>3, <1>4, <1>5, <1>6, <1>7, <1>8, <1>9 DEF Next

\* A device that names elements of one kind by a path may go offline and come back
\* as it likes: what is online and counts as fetched was asked for on this link, and
\* since the device last called it offline.
THEOREM TreeFetchedSinceOutage == Spec => []FetchedSinceOutage
<1>1. Init => FetchedInv
  <2>1. Init => FetchedSinceOutage
    BY DEF Init, NewTree, FetchedSinceOutage
  <2> QED BY <2>1, TreeInvInit DEF FetchedInv
<1>2. FetchedInv /\ [Next]_vars => FetchedInv'
  BY FetchedStep, TreeInvStep DEF FetchedInv
<1>3. FetchedInv => FetchedSinceOutage
  BY DEF FetchedInv
<1> QED BY <1>1, <1>2, <1>3, PTL DEF Spec

-------------------------------------------------------------------------------
(* What is on display is what was said last.                               *)

NewestInv == TreeInv /\ ShownIsNewest

\* A stream is routed to the parameters that are in it now.
LEMMA RoutedNow ==
    ASSUME NEW t, Sound(t), NEW id \in StreamId, NEW p \in DOMAIN t.entries
    PROVE  p \in t.stream_index[id] <=> t.entries[p].stream = id
<1>1. /\ t.entries[p].stream \in StreamsOf(p) \cup {NoStream}
      /\ t.entries[p].stream = id => p \in t.stream_index[id]
      /\ p \in t.stream_index[id] => id \in StreamsOf(p) /\ t.entries[p].stream # NoStream
  BY DEF Sound, Routes
<1>2. \A a, b \in StreamsOf(p) : a = b
  BY StreamAssumption DEF StreamsOf
<1> QED BY <1>1, <1>2

LEMMA NewestStep == NewestInv /\ [Next]_vars => ShownIsNewest'
<1> DEFINE Newest(p) ==
        p \in DOMAIN tree.entries => tree.entries[p].value \in {NoValue, last[p].value}
           Marked(p) == p \in pending <=> last[p].by = "user"
<1> SUFFICES ASSUME NewestInv, [Next]_vars
             PROVE  /\ pending' \subseteq Valued
                    /\ \A p \in Valued : Newest(p)' /\ Marked(p)'
  BY DEF ShownIsNewest
<1>1. /\ Sound(tree) /\ tree.value_updates = {} /\ pending \subseteq Valued
      /\ DOMAIN last = Valued
  BY DEF NewestInv, TreeInv, TypeOK
<1>2. \A p \in Valued : Newest(p) /\ Marked(p)
  BY DEF NewestInv, ShownIsNewest
<1>3. pending' \subseteq Valued
  BY TreeInvStep DEF NewestInv, TreeInv, TypeOK
<1> SUFFICES ASSUME NEW p \in Valued PROVE Newest(p)' /\ Marked(p)'
  BY <1>3
<1>4. ASSUME NEW doc \in Documents, Document(doc) PROVE Newest(p)' /\ Marked(p)'
  <2> DEFINE t == merge(tree, doc)
             o == Ingested(tree, doc)[Len(doc)]
  <2>1. /\ tree' = [t EXCEPT !.value_updates = {}] /\ pending' = pending \ t.value_updates
        /\ last'[p] = IF p \in Speaks(doc) THEN [by |-> "device", value |-> SaidIn(doc, p)]
                                           ELSE last[p]
    BY <1>4 DEF Document, Take
  <2>2. /\ Good(t) /\ DOMAIN t.entries = DOMAIN o.entries
        /\ \A q \in DOMAIN o.entries : t.entries[q].value = o.entries[q].value
        /\ t.value_updates = o.value_updates
    <3>1. Good(tree)
      BY <1>1 DEF Sound
    <3>2. /\ Good(t) /\ DOMAIN t.entries = DOMAIN o.entries
          /\ \A q \in DOMAIN o.entries : Kept(t.entries[q], o.entries[q])
          /\ t.value_updates = o.value_updates
      BY ONLY <3>1, doc \in Documents, MergeOK
    <3> HIDE DEF t, o
    <3> QED BY <3>2 DEF Kept
  <2>3. /\ \A q \in DOMAIN o.entries :
               o.entries[q].value = IF q \in Speaks(doc) THEN SaidIn(doc, q)
                                                        ELSE ValueBefore(tree, q)
        /\ o.value_updates = Speaks(doc)
    <3>1. Good(tree)
      BY <1>1 DEF Sound
    <3>2. /\ \A q \in DOMAIN o.entries :
                 o.entries[q].value = IF q \in Speaks(doc) THEN SaidIn(doc, q)
                                                          ELSE ValueBefore(tree, q)
          /\ o.value_updates = tree.value_updates \cup Speaks(doc)
      BY ONLY <3>1, doc \in Documents, DocValues
    <3> HIDE DEF o
    <3> QED BY <1>1, <3>2
  <2> HIDE DEF t, o
  <2>4. tree'.entries = t.entries
    BY <2>1, <2>2, TakenOK
  <2>5. Newest(p)'
    BY <1>2, <2>1, <2>2, <2>3, <2>4 DEF ValueBefore
  <2>6. Marked(p)'
    BY <1>2, <2>1, <2>2, <2>3
  <2> QED BY <2>5, <2>6
<1>5. ASSUME NEW id \in StreamId, NEW v \in Levels, Stream(id, v) PROVE Newest(p)' /\ Marked(p)'
  <2> DEFINE t == apply_streams(tree, id, v)
  <2>1. /\ tree' = [t EXCEPT !.value_updates = {}] /\ pending' = pending \ t.value_updates
        /\ last'[p] = IF p \in DOMAIN tree.entries /\ tree.entries[p].stream = id
                      THEN [by |-> "device", value |-> v] ELSE last[p]
    BY <1>5 DEF Stream, Take
  <2>2. /\ Good(t) /\ DOMAIN t.entries = DOMAIN tree.entries
        /\ \A q \in DOMAIN tree.entries :
               t.entries[q].value = IF q \in tree.stream_index[id] THEN v ELSE tree.entries[q].value
        /\ t.value_updates = tree.stream_index[id]
    <3>1. Sound(tree) /\ tree.value_updates = {}
      BY <1>1
    <3>2. t = apply_streams(tree, id, v)
      OBVIOUS
    <3> HIDE DEF t
    <3>3. Sound(t) /\ DOMAIN t.entries = DOMAIN tree.entries
      BY <3>1, <3>2, StreamsSound
    <3>4. \A q \in DOMAIN tree.entries :
              q \in tree.stream_index[id] => t.entries[q].value = v
      BY <3>1, <3>2, StreamsSound
    <3>5. \A q \in DOMAIN tree.entries :
              q \notin tree.stream_index[id] => t.entries[q].value = tree.entries[q].value
      BY <3>1, <3>2, StreamsSound
    <3>6. t.value_updates = tree.stream_index[id]
      BY <3>1, <3>2, StreamsSound
    <3> QED BY <3>3, <3>4, <3>5, <3>6 DEF Sound
  <2>3. p \in tree.stream_index[id] <=>
            p \in DOMAIN tree.entries /\ tree.entries[p].stream = id
    <3>1. p \in tree.stream_index[id] => p \in DOMAIN tree.entries
      BY <1>1 DEF Sound, Routes
    <3> QED BY <1>1, <3>1, RoutedNow
  <2> HIDE DEF t
  <2>4. tree'.entries = t.entries
    BY <2>1, <2>2, TakenOK
  <2>5. Newest(p)'
    BY <1>2, <2>1, <2>2, <2>3, <2>4
  <2>6. Marked(p)'
    BY <1>2, <2>1, <2>2, <2>3
  <2> QED BY <2>5, <2>6
<1>6. ASSUME NEW q \in Valued, NEW v \in Names, Apply(q, v) PROVE Newest(p)' /\ Marked(p)'
  <2>1. /\ pending' = pending \cup {q}
        /\ last'[p] = IF p = q THEN [by |-> "user", value |-> v] ELSE last[p]
    BY <1>1, <1>6 DEF Apply
  <2>2. Marked(p)'
    BY <1>2, <2>1
  <2>3. CASE q \in DOMAIN tree.entries
    <3>1. tree' = [tree EXCEPT !.entries[q].value = v]
      BY <1>6, <2>3 DEF Apply
    <3>2. /\ DOMAIN tree'.entries = DOMAIN tree.entries
          /\ \A r \in DOMAIN tree.entries :
                 tree'.entries[r].value = IF r = q THEN v ELSE tree.entries[r].value
      BY <1>1, <2>3, <3>1, AppliedSound
    <3> QED BY <1>2, <2>1, <2>2, <3>2
  <2>4. CASE q \notin DOMAIN tree.entries
    BY <1>2, <1>6, <2>1, <2>2, <2>4 DEF Apply
  <2> QED BY <2>3, <2>4
<1>7. ASSUME NEW q \in DOMAIN tree.entries, Expand(q) PROVE Newest(p)' /\ Marked(p)'
  <2>1. /\ tree.entries[q].kind # "parameter" /\ pending' = pending /\ last' = last
        /\ tree' = [tree EXCEPT !.entries[q].requested = TRUE]
    BY <1>7 DEF Expand
  <2>2. /\ DOMAIN tree'.entries = DOMAIN tree.entries
        /\ \A r \in DOMAIN tree.entries : tree'.entries[r].value = tree.entries[r].value
    BY <1>1, <2>1, ExpandedSound
  <2> QED BY <1>2, <2>1, <2>2
<1>8. CASE Connected
  <2>1. /\ DOMAIN tree'.entries = DOMAIN tree.entries
        /\ \A r \in DOMAIN tree.entries : tree'.entries[r].value = tree.entries[r].value
    BY <1>1, <1>8, ConnectedSound DEF Connected
  <2> QED BY <1>2, <1>8, <2>1 DEF Connected
<1>9. CASE Cleared
  <2>1. tree'.entries = <<>> /\ pending' = {} /\ last'[p].by = "nobody"
    BY <1>9 DEF Cleared, NewTree, Nobody
  <2> QED BY <2>1
<1>10. CASE UNCHANGED vars
  BY <1>2, <1>10 DEF vars
<1> QED BY <1>4, <1>5, <1>6, <1>7, <1>8, <1>9, <1>10 DEF Next

\* While a parameter stays in its stream, a value on display is the one said last,
\* by whatever mix of documents, streams and edits; and it is marked as unconfirmed
\* exactly when the user said it.
THEOREM TreeShownIsNewest == Spec => []ShownIsNewest
<1>1. Init => NewestInv
  <2>1. Init => ShownIsNewest
    BY DEF Init, NewTree, ShownIsNewest, Nobody
  <2> QED BY <2>1, TreeInvInit DEF NewestInv
<1>2. NewestInv /\ [Next]_vars => NewestInv'
  BY NewestStep, TreeInvStep DEF NewestInv
<1>3. NewestInv => ShownIsNewest
  BY DEF NewestInv
<1> QED BY <1>1, <1>2, <1>3, PTL DEF Spec

-------------------------------------------------------------------------------
(* What the names of a matrix depend on.                                   *)

LEMMA PrefixElements ==
    ASSUME NEW s \in Seq(Nat), NEW t \in Seq(Nat)
    PROVE  IsPrefix(s, t) <=> Len(s) <= Len(t) /\ \A i \in 1..Len(s) : s[i] = t[i]
<1>1. Len(s) \in Nat /\ Len(t) \in Nat
  OBVIOUS
<1> SUFFICES ASSUME Len(s) <= Len(t)
             PROVE  SubSeq(s, 1, Len(s)) = SubSeq(t, 1, Len(s)) <=>
                        \A i \in 1..Len(s) : s[i] = t[i]
  BY DEF IsPrefix
<1>2. /\ \A i \in 1..Len(s) : s[i] \in Nat /\ t[i] \in Nat
      /\ \A i \in 1..Len(t) : t[i] \in Nat
  BY <1>1
<1> DEFINE a == SubSeq(s, 1, Len(s))
           b == SubSeq(t, 1, Len(s))
<1>3. /\ a \in Seq(Nat) /\ Len(a) = Len(s) /\ \A i \in 1..Len(s) : a[i] = s[i]
      /\ b \in Seq(Nat) /\ Len(b) = Len(s) /\ \A i \in 1..Len(s) : b[i] = t[i]
  BY <1>1, <1>2
<1> HIDE DEF a, b
<1>4. (\A i \in 1..Len(s) : a[i] = b[i]) => a = b
  <2> SUFFICES ASSUME \A i \in 1..Len(s) : a[i] = b[i] PROVE a = b
    OBVIOUS
  <2>1. a \in Seq(Nat) /\ b \in Seq(Nat) /\ Len(a) = Len(b)
    BY <1>3
  <2>2. \A i \in 1..Len(a) : a[i] = b[i]
    BY <1>3
  <2> QED BY ONLY <2>1, <2>2, SeqEqual
<1>5. a = b <=> \A i \in 1..Len(s) : s[i] = t[i]
  BY <1>3, <1>4
<1> QED BY <1>5 DEF a, b

LEMMA PrefixOfItself == ASSUME NEW s \in Seq(Nat) PROVE IsPrefix(s, s)
BY PrefixElements

\* A path is its parent's, with its last number.
LEMMA FrontAndLast ==
    ASSUME NEW c \in Seq(Nat) \ {NoPath}
    PROVE  /\ Front(c) \in Seq(Nat) /\ Last(c) \in Nat /\ c = Append(Front(c), Last(c))
           /\ Len(Front(c)) = Len(c) - 1
           /\ \A i \in 1..Len(Front(c)) : Front(c)[i] = c[i]
<1>1. Len(c) \in Nat \ {0} /\ Last(c) \in Nat
  BY EmptySeq, LastIsNat DEF NoPath
<1> DEFINE k == Len(c) - 1
<1>2. k \in Nat /\ k + 1 = Len(c) /\ \A i \in 1..k : i \in 1..Len(c) /\ c[i] \in Nat
  BY <1>1
<1> HIDE DEF k
<1>3. /\ SubSeq(c, 1, k) \in Seq(Nat) /\ Len(SubSeq(c, 1, k)) = k
      /\ \A i \in 1..k : SubSeq(c, 1, k)[i] = c[i]
  BY <1>2
<1>4. Front(c) = SubSeq(c, 1, k)
  BY DEF Front, k
<1> DEFINE d == Append(Front(c), Last(c))
<1>5. /\ d \in Seq(Nat) /\ Len(d) = k + 1 /\ d[k + 1] = Last(c)
      /\ \A i \in 1..k : d[i] = c[i]
  BY <1>1, <1>2, <1>3, <1>4
<1>6. c[k + 1] = Last(c)
  BY <1>2 DEF Last
<1> HIDE DEF d
<1>7. \A i \in 1..(k + 1) : i = k + 1 \/ i \in 1..k
  BY <1>2
<1>8. \A i \in 1..Len(c) : d[i] = c[i]
  BY <1>2, <1>5, <1>6, <1>7
<1>9. d = c
  BY <1>2, <1>5, <1>8
<1> QED BY <1>1, <1>2, <1>3, <1>4, <1>9 DEF d

\* What is below a path has its children below it too.
LEMMA PrefixOfChild ==
    ASSUME NEW base \in Seq(Nat), NEW c \in Seq(Nat) \ {NoPath}, IsPrefix(base, Front(c))
    PROVE  IsPrefix(base, c)
<1>1. /\ Front(c) \in Seq(Nat) /\ Len(Front(c)) = Len(c) - 1 /\ Len(c) \in Nat
      /\ \A i \in 1..Len(Front(c)) : Front(c)[i] = c[i]
  BY FrontAndLast
<1>2. Len(base) <= Len(Front(c)) /\ \A i \in 1..Len(base) : base[i] = Front(c)[i]
  BY <1>1, PrefixElements
<1>3. Len(base) \in Nat /\ \A i \in 1..Len(base) : i \in 1..Len(Front(c))
  BY <1>1, <1>2
<1>4. Len(base) <= Len(c) /\ \A i \in 1..Len(base) : base[i] = c[i]
  BY <1>1, <1>2, <1>3
<1> QED BY <1>4, PrefixElements

\* The same entry stands at q in both trees, but for its state and its value.
SameLook(t, u, q) ==
    /\ q \in DOMAIN t.entries <=> q \in DOMAIN u.entries
    /\ q \in DOMAIN t.entries =>
           /\ t.entries[q].kind = u.entries[q].kind
           /\ t.entries[q].identifier = u.entries[q].identifier
           /\ t.entries[q].children = u.entries[q].children

SameValue(t, u, q) == q \in DOMAIN t.entries => t.entries[q].value = u.entries[q].value

\* All that is below a path looks the same, and says the same.
SameLooks(t, u, base) == \A q : IsPrefix(base, q) => SameLook(t, u, q)
SameValues(t, u, base) == \A q : IsPrefix(base, q) => SameValue(t, u, q)

LEMMA ChildrenBelow ==
    ASSUME NEW t, Good(t), NEW base \in Seq(Nat), NEW q \in DOMAIN t.entries, IsPrefix(base, q)
    PROVE  \A c \in ToSet(Children(t, q)) :
               /\ c \in DOMAIN t.entries /\ IsPrefix(base, c)
               /\ Last(c) \in Nat /\ Append(q, Last(c)) = c
<1> SUFFICES ASSUME NEW c \in ToSet(Children(t, q))
             PROVE  /\ c \in DOMAIN t.entries /\ IsPrefix(base, c)
                    /\ Last(c) \in Nat /\ Append(q, Last(c)) = c
  OBVIOUS
<1>1. c \in DOMAIN t.entries /\ c \in Seq(Nat) \ {NoPath} /\ Last(c) \in Nat
  BY ChildrenArePaths
<1>2. q # NoPath
  BY PathsAreSeqs DEF Good, TreeOK
<1>3. Front(c) = q
  BY <1>2 DEF Good, Linked, Below
<1> QED BY <1>1, <1>3, FrontAndLast, PrefixOfChild

LEMMA SameLabelName ==
    ASSUME NEW t, Good(t), NEW u, NEW base \in Seq(Nat),
           SameLooks(t, u, base), SameValues(t, u, base),
           NEW p \in DOMAIN t.entries, IsPrefix(base, p)
    PROVE  element_label_name(t, p) = element_label_name(u, p)
<1>1. Children(t, p) = Children(u, p) /\ t.entries[p].identifier = u.entries[p].identifier
  BY DEF SameLooks, SameLook, Children
<1>2. \A i \in DOMAIN Children(t, p) :
          /\ Children(t, p)[i] \in ToSet(Children(t, p))
          /\ t.entries[Children(t, p)[i]].value = u.entries[Children(t, p)[i]].value
          /\ t.entries[Children(t, p)[i]].identifier = u.entries[Children(t, p)[i]].identifier
  <2>1. \A i \in DOMAIN Children(t, p) : Children(t, p)[i] \in ToSet(Children(t, p))
    BY DEF ToSet
  <2> QED BY <2>1, ChildrenBelow DEF SameLooks, SameValues, SameLook, SameValue
<1> DEFINE valueT == [i \in DOMAIN Children(t, p) |-> t.entries[Children(t, p)[i]].value]
           valueU == [i \in DOMAIN Children(u, p) |-> u.entries[Children(u, p)[i]].value]
           namedT == {i \in DOMAIN Children(t, p) : Named(t, Children(t, p)[i])}
           namedU == {i \in DOMAIN Children(u, p) : Named(u, Children(u, p)[i])}
           titledT == {i \in namedT : t.entries[Children(t, p)[i]].identifier = "label"}
           titledU == {i \in namedU : u.entries[Children(u, p)[i]].identifier = "label"}
<1>3. valueT = valueU
  BY <1>1, <1>2
<1>4. namedT = namedU
  BY <1>1, <1>2 DEF Named
<1>5. titledT = titledU
  BY <1>1, <1>2, <1>4
<1> HIDE DEF valueT, valueU, namedT, namedU, titledT, titledU
<1>6. element_label_name(t, p) =
          IF titledT # {} THEN valueT[Min(titledT)]
          ELSE IF namedT # {} THEN valueT[Min(namedT)] ELSE t.entries[p].identifier
  BY DEF element_label_name, valueT, namedT, titledT
<1>7. element_label_name(u, p) =
          IF titledU # {} THEN valueU[Min(titledU)]
          ELSE IF namedU # {} THEN valueU[Min(namedU)] ELSE u.entries[p].identifier
  BY DEF element_label_name, valueU, namedU, titledU
<1> QED BY <1>1, <1>3, <1>4, <1>5, <1>6, <1>7

LEMMA SameNameSaid ==
    ASSUME NEW t, Good(t), NEW u, NEW base \in Seq(Nat),
           SameLooks(t, u, base), SameValues(t, u, base),
           NEW c \in DOMAIN t.entries, IsPrefix(base, c)
    PROVE  NameSaid(t, c) = NameSaid(u, c)
<1>1. t.entries[c].kind = u.entries[c].kind /\ t.entries[c].value = u.entries[c].value
  BY DEF SameLooks, SameValues, SameLook, SameValue
<1>2. element_label_name(t, c) = element_label_name(u, c)
  BY SameLabelName
<1> QED BY <1>1, <1>2 DEF NameSaid, Named

LEMMA SameBelow ==
    ASSUME NEW t, Good(t), NEW u, NEW base \in Seq(Nat),
           SameLooks(t, u, base), SameValues(t, u, base),
           NEW p \in DOMAIN t.entries, IsPrefix(base, p)
    PROVE  /\ StringsBelow(t, p) = StringsBelow(u, p)
           /\ NamesBelow(t, p) = NamesBelow(u, p)
<1> DEFINE C == ToSet(Children(t, p))
<1>1. Children(t, p) = Children(u, p)
  BY DEF SameLooks, SameLook, Children
<1>2. \A c \in C :
          /\ c \in DOMAIN t.entries /\ IsPrefix(base, c) /\ Append(p, Last(c)) = c
          /\ t.entries[c].value = u.entries[c].value /\ NameSaid(t, c) = NameSaid(u, c)
  <2>1. \A c \in C : c \in DOMAIN t.entries /\ IsPrefix(base, c) /\ Append(p, Last(c)) = c
    BY ChildrenBelow
  <2>2. \A c \in C : t.entries[c].value = u.entries[c].value
    BY <2>1 DEF SameValues, SameValue
  <2>3. \A c \in C : NameSaid(t, c) = NameSaid(u, c)
    BY <2>1, SameNameSaid
  <2> QED BY <2>1, <2>2, <2>3
<1>3. StringsBelow(t, p) = StringsBelow(u, p)
  <2> DEFINE N(v) == {Last(c) : c \in {d \in ToSet(Children(v, p)) : Named(v, d)}}
  <2>1. {d \in C : Named(t, d)} = {d \in C : Named(u, d)}
    BY <1>2 DEF Named
  <2>2. N(t) = N(u)
    BY <1>1, <2>1
  <2>3. \A n \in N(t) : \E c \in C : Append(p, n) = c
    BY <1>2
  <2>4. \A n \in N(t) : t.entries[Append(p, n)].value = u.entries[Append(p, n)].value
    BY <1>2, <2>3
  <2>5. /\ StringsBelow(t, p) = [n \in N(t) |-> t.entries[Append(p, n)].value]
        /\ StringsBelow(u, p) = [n \in N(u) |-> u.entries[Append(p, n)].value]
    BY DEF StringsBelow
  <2> HIDE DEF N, C
  <2> QED BY <2>2, <2>4, <2>5
<1>4. NamesBelow(t, p) = NamesBelow(u, p)
  <2> DEFINE N(v) == {Last(c) : c \in {d \in ToSet(Children(v, p)) : NameSaid(v, d) # ""}}
  <2>1. {d \in C : NameSaid(t, d) # ""} = {d \in C : NameSaid(u, d) # ""}
    BY <1>2
  <2>2. N(t) = N(u)
    BY <1>1, <2>1
  <2>3. \A n \in N(t) : \E c \in C : Append(p, n) = c
    BY <1>2
  <2>4. \A n \in N(t) : NameSaid(t, Append(p, n)) = NameSaid(u, Append(p, n))
    BY <1>2, <2>3
  <2>5. /\ NamesBelow(t, p) = [n \in N(t) |-> NameSaid(t, Append(p, n))]
        /\ NamesBelow(u, p) = [n \in N(u) |-> NameSaid(u, Append(p, n))]
    BY DEF NamesBelow
  <2> HIDE DEF N, C
  <2> QED BY <2>2, <2>4, <2>5
<1> QED BY <1>3, <1>4

LEMMA SameExtract ==
    ASSUME NEW t, Good(t), NEW u, NEW base \in Seq(Nat),
           SameLooks(t, u, base), SameValues(t, u, base), NEW a
    PROVE  extract_labels(t, base, a) = extract_labels(u, base, a)
<1>1. IsPrefix(base, base)
  BY PrefixOfItself
<1>2. base \in DOMAIN t.entries <=> base \in DOMAIN u.entries
  BY <1>1 DEF SameLooks, SameLook
<1>3. CASE base \notin DOMAIN t.entries
  BY <1>2, <1>3 DEF extract_labels
<1>4. CASE base \in DOMAIN t.entries
  <2>1. /\ Children(t, base) = Children(u, base)
        /\ t.entries[base].identifier = u.entries[base].identifier
    BY <1>1, <1>4 DEF SameLooks, SameLook, Children
  <2>2. \A i \in DOMAIN Children(t, base) :
            Children(t, base)[i] \in DOMAIN t.entries /\ IsPrefix(base, Children(t, base)[i])
    <3>1. \A i \in DOMAIN Children(t, base) : Children(t, base)[i] \in ToSet(Children(t, base))
      BY DEF ToSet
    <3> QED BY <1>1, <1>4, <3>1, ChildrenBelow
  <2>3. \A i \in DOMAIN Children(t, base) :
            /\ AxisOfChild(t, base, i) = AxisOfChild(u, base, i)
            /\ StringsBelow(t, Children(t, base)[i]) = StringsBelow(u, Children(t, base)[i])
    <3>1. \A i \in DOMAIN Children(t, base) : AxisOfChild(t, base, i) = AxisOfChild(u, base, i)
      BY <2>1, <2>2 DEF SameLooks, SameLook, AxisOfChild
    <3>2. \A i \in DOMAIN Children(t, base) :
              StringsBelow(t, Children(t, base)[i]) = StringsBelow(u, Children(t, base)[i])
      BY <2>2, SameBelow
    <3> QED BY <3>1, <3>2
  <2>4. NamesBelow(t, base) = NamesBelow(u, base)
    BY <1>1, <1>4, SameBelow
  <2> DEFINE maps(v) == [i \in DOMAIN Children(v, base) |->
                             IF AxisOfChild(v, base, i) = a
                             THEN StringsBelow(v, Children(v, base)[i]) ELSE <<>>]
             split(v) == \E i \in DOMAIN Children(v, base) : AxisOfChild(v, base, i) \in Axis
  <2>5. maps(t) = maps(u) /\ (split(t) <=> split(u))
    BY <2>1, <2>3
  <2>6. /\ extract_labels(t, base, a) =
               IF split(t) THEN Overriding(maps(t))
               ELSE IF axis_of(t.entries[base].identifier) = a THEN NamesBelow(t, base) ELSE <<>>
        /\ extract_labels(u, base, a) =
               IF split(u) THEN Overriding(maps(u))
               ELSE IF axis_of(u.entries[base].identifier) = a THEN NamesBelow(u, base) ELSE <<>>
    BY <1>2, <1>4 DEF extract_labels
  <2> HIDE DEF maps, split
  <2> QED BY <2>1, <2>4, <2>5, <2>6
<1> QED BY <1>3, <1>4

LEMMA SameNamesOf ==
    ASSUME NEW t, Good(t), NEW u, NEW m \in DOMAIN t.entries,
           t.entries[m].labels = u.entries[m].labels,
           \A base \in named_by(m, t.entries[m].labels) :
               base \in Seq(Nat) /\ SameLooks(t, u, base) /\ SameValues(t, u, base),
           NEW a
    PROVE  NamesOf(t, m, a) = NamesOf(u, m, a)
<1> DEFINE labels == t.entries[m].labels
<1>1. ASSUME NEW i \in DOMAIN labels PROVE NamesAt(t, m, labels[i], a) = NamesAt(u, m, labels[i], a)
  <2> DEFINE places == label_base_candidates(m, labels[i])
             found(v) == [j \in DOMAIN places |->
                             [b \in Axis |-> extract_labels(v, places[j], b)]]
             yielding(v) == {j \in DOMAIN places : \E b \in Axis : found(v)[j][b] # <<>>}
  <2>1. \A j \in DOMAIN places : places[j] \in named_by(m, labels)
    <3>1. \A j \in DOMAIN places : places[j] \in ToSet(places)
      BY DEF ToSet
    <3>2. labels[i] \in ToSet(labels)
      BY DEF ToSet
    <3> HIDE DEF labels
    <3> QED BY <3>1, <3>2 DEF named_by
  <2>2. \A j \in DOMAIN places, b \in Axis :
            extract_labels(t, places[j], b) = extract_labels(u, places[j], b)
    BY <2>1, SameExtract
  <2> HIDE DEF places, labels
  <2>3. found(t) = found(u)
    BY <2>2
  <2>4. yielding(t) = yielding(u)
    BY <2>3
  <2>5. /\ NamesAt(t, m, labels[i], a) =
               IF yielding(t) = {} THEN <<>> ELSE found(t)[Min(yielding(t))][a]
        /\ NamesAt(u, m, labels[i], a) =
               IF yielding(u) = {} THEN <<>> ELSE found(u)[Min(yielding(u))][a]
    BY DEF NamesAt, places
  <2> HIDE DEF found, yielding
  <2> QED BY <2>3, <2>4, <2>5
<1>2. /\ NamesOf(t, m, a) = Overriding([i \in DOMAIN labels |-> NamesAt(t, m, labels[i], a)])
      /\ NamesOf(u, m, a) = Overriding([i \in DOMAIN labels |-> NamesAt(u, m, labels[i], a)])
  BY DEF NamesOf
<1> HIDE DEF labels
<1>3. [i \in DOMAIN labels |-> NamesAt(t, m, labels[i], a)] =
          [i \in DOMAIN labels |-> NamesAt(u, m, labels[i], a)]
  BY <1>1
<1> QED BY <1>2, <1>3

-------------------------------------------------------------------------------
(* An entry that a walk would leave as it is.                              *)

\* What a walk makes of the fields of an entry.
NewNames(t, m) ==
    [a \in Axis |-> IF NamesOf(t, m, a) = <<>> THEN t.entries[m].names[a] ELSE NamesOf(t, m, a)]

NewSignals(t, m) ==
    [a \in Axis |-> IF NamesOf(t, m, a) # <<>>
                       /\ t.entries[m].signals[a] = Dense(t.entries[m].count[a])
                    THEN DOMAIN NamesOf(t, m, a)
                    ELSE t.entries[m].signals[a]]

BelowParams(t, m) ==
    IF t.entries[m].params \in DOMAIN t.entries THEN Children(t, t.entries[m].params) ELSE <<>>

NodesFor(t, m, a) ==
    {i \in DOMAIN BelowParams(t, m) :
        axis_of(t.entries[BelowParams(t, m)[i]].identifier) = a}

NewNodes(t, m) ==
    [a \in Axis |-> IF NodesFor(t, m, a) = {} THEN t.entries[m].axis_params[a]
                    ELSE BelowParams(t, m)[Max(NodesFor(t, m, a))]]

FreshAt(t, m) ==
    /\ NewNames(t, m) = t.entries[m].names
    /\ NewSignals(t, m) = t.entries[m].signals
    /\ NewNodes(t, m) = t.entries[m].axis_params

LEMMA ResolvedFields ==
    ASSUME NEW t, Good(t), NEW m \in DOMAIN t.entries,
           NEW e, e = resolve_matrix_param_paths(t, resolve_names(t, m))
    PROVE  /\ e.names = NewNames(t, m) /\ e.signals = NewSignals(t, m)
           /\ e.axis_params = NewNodes(t, m)
<1> DEFINE was == t.entries[m]
           named == resolve_names(t, m)
<1>1. IsEntry(was)
  BY DEF Good, IsTree
<1>2. DOMAIN was.names = Axis /\ was.signals \in [Axis -> SUBSET Nat]
  BY DEF Good, TreeOK, EntryOK
<1>3. /\ [a \in Axis |-> IF NamesOf(t, m, a) = <<>> THEN was.names[a] ELSE NamesOf(t, m, a)] =
             NewNames(t, m)
      /\ [a \in Axis |-> IF NamesOf(t, m, a) # <<>> /\ was.signals[a] = Dense(was.count[a])
                         THEN DOMAIN NamesOf(t, m, a) ELSE was.signals[a]] = NewSignals(t, m)
  BY DEF NewNames, NewSignals
<1>4. named = [was EXCEPT !.names = NewNames(t, m), !.signals = NewSignals(t, m)]
  BY <1>1, <1>3 DEF resolve_names, IsEntry, EntryFields
<1> HIDE DEF was, named
<1>5. /\ IsEntry(named) /\ named.names = NewNames(t, m) /\ named.signals = NewSignals(t, m)
      /\ named.params = was.params /\ named.axis_params = was.axis_params
  BY <1>1, <1>4 DEF IsEntry, EntryFields
<1> DEFINE below == IF named.params \in DOMAIN t.entries THEN Children(t, named.params) ELSE <<>>
           Of(a) == {i \in DOMAIN below : axis_of(t.entries[below[i]].identifier) = a}
           nodes == [a \in Axis |-> IF Of(a) = {} THEN named.axis_params[a] ELSE below[Max(Of(a))]]
<1>6. below = BelowParams(t, m)
  BY <1>5 DEF BelowParams, was
<1>7. \A a : Of(a) = NodesFor(t, m, a)
  BY <1>6 DEF NodesFor
<1>8. e = [named EXCEPT !.axis_params = nodes]
  BY DEF resolve_matrix_param_paths, named
<1> HIDE DEF below, Of
<1>9. nodes = NewNodes(t, m)
  BY <1>5, <1>6, <1>7 DEF NewNodes, was
<1> HIDE DEF nodes
<1> QED BY <1>5, <1>8, <1>9 DEF IsEntry, EntryFields

LEMMA FreshEverywhere ==
    ASSUME NEW t, Good(t)
    PROVE  (\A m \in DOMAIN t.entries : FreshAt(t, m)) <=> resolve_matrix_labels(t) = t
<1> DEFINE u == resolve_matrix_labels(t)
<1>1. t = [f \in TreeFields |-> t[f]]
  BY DEF Good, IsTree
<1>2. /\ u = [f \in TreeFields |-> u[f]]
      /\ u.entries = [p \in DOMAIN t.entries |->
                          resolve_matrix_param_paths(t, resolve_names(t, p))]
      /\ u.roots = t.roots /\ u.stream_index = t.stream_index
      /\ u.value_updates = t.value_updates
      /\ u.matrix_watch = t.matrix_watch /\ u.matrix_dirty = t.matrix_dirty
  BY <1>1 DEF resolve_matrix_labels, TreeFields
<1> HIDE DEF u
<1>3. \A m \in DOMAIN t.entries :
          /\ IsEntry(u.entries[m]) /\ Kept(u.entries[m], t.entries[m])
          /\ u.entries[m].names = NewNames(t, m) /\ u.entries[m].signals = NewSignals(t, m)
          /\ u.entries[m].axis_params = NewNodes(t, m)
  BY <1>2, ResolvedEntryOK, ResolvedFields
<1>4. (\A m \in DOMAIN t.entries : FreshAt(t, m)) => u = t
  <2> SUFFICES ASSUME \A m \in DOMAIN t.entries : FreshAt(t, m) PROVE u = t
    OBVIOUS
  <2>1. ASSUME NEW m \in DOMAIN t.entries PROVE u.entries[m] = t.entries[m]
    <3> DEFINE e == u.entries[m]
               f == t.entries[m]
    <3>1. e = [x \in EntryFields |-> e[x]] /\ f = [x \in EntryFields |-> f[x]]
      BY <1>3 DEF Good, IsTree, IsEntry
    <3>2. /\ e["names"] = f["names"] /\ e["signals"] = f["signals"]
          /\ e["axis_params"] = f["axis_params"]
      BY <1>3 DEF FreshAt
    <3>3. /\ e["kind"] = f["kind"] /\ e["identifier"] = f["identifier"] /\ e["value"] = f["value"]
          /\ e["stream"] = f["stream"] /\ e["online"] = f["online"]
          /\ e["requested"] = f["requested"] /\ e["children"] = f["children"]
          /\ e["count"] = f["count"] /\ e["labels"] = f["labels"] /\ e["params"] = f["params"]
      BY <1>3 DEF Kept
    <3> HIDE DEF e, f
    <3>4. \A x \in EntryFields : e[x] = f[x]
      BY <3>2, <3>3 DEF EntryFields
    <3>5. e = f
      BY <3>1, <3>4
    <3> QED BY <3>5 DEF e, f
  <2>2. u.entries = t.entries
    BY <1>2, <2>1 DEF Good, IsTree
  <2>3. \A x \in TreeFields : u[x] = t[x]
    BY <1>2, <2>2 DEF TreeFields
  <2> QED BY <1>1, <1>2, <2>3
<1>5. u = t => \A m \in DOMAIN t.entries : FreshAt(t, m)
  BY <1>3 DEF FreshAt
<1> QED BY <1>4, <1>5 DEF u

\* The nodes of a matrix's parameters depend on what is below their place.
LEMMA SameNodes ==
    ASSUME NEW t, Good(t), NEW u, Good(u), NEW m \in DOMAIN t.entries,
           t.entries[m].params = u.entries[m].params,
           t.entries[m].params # NoPath => SameLooks(t, u, t.entries[m].params)
    PROVE  /\ BelowParams(t, m) = BelowParams(u, m)
           /\ \A a : NodesFor(t, m, a) = NodesFor(u, m, a)
<1> DEFINE params == t.entries[m].params
<1>1. params \in Seq(Nat)
  BY DEF Good, TreeOK, EntryOK
<1>2. CASE params \notin DOMAIN t.entries
  <2>1. params \notin DOMAIN u.entries
    <3>1. CASE params = NoPath
      BY <3>1, PathsAreSeqs DEF Good, TreeOK
    <3>2. CASE params # NoPath
      BY <1>1, <1>2, <3>2, PrefixOfItself DEF SameLooks, SameLook
    <3> QED BY <3>1, <3>2
  <2>2. BelowParams(t, m) = <<>> /\ BelowParams(u, m) = <<>>
    BY <1>2, <2>1 DEF BelowParams
  <2> QED BY <2>2 DEF NodesFor
<1>3. CASE params \in DOMAIN t.entries
  <2>1. params # NoPath
    BY <1>3, PathsAreSeqs DEF Good, TreeOK
  <2>2. params \in DOMAIN u.entries /\ Children(t, params) = Children(u, params)
    BY <1>1, <1>3, <2>1, PrefixOfItself DEF SameLooks, SameLook, Children
  <2>3. BelowParams(t, m) = Children(t, params) /\ BelowParams(u, m) = Children(t, params)
    BY <1>3, <2>2 DEF BelowParams
  <2>4. \A c \in ToSet(Children(t, params)) : t.entries[c].identifier = u.entries[c].identifier
    BY <1>1, <1>3, <2>1, PrefixOfItself, ChildrenBelow DEF SameLooks, SameLook
  <2>5. \A i \in DOMAIN Children(t, params) :
            t.entries[Children(t, params)[i]].identifier =
                u.entries[Children(t, params)[i]].identifier
    BY <2>4 DEF ToSet
  <2> HIDE DEF params
  <2> QED BY <2>3, <2>5 DEF NodesFor
<1> QED BY <1>2, <1>3

\* What the names of m are made of is the same in both trees.
SameSources(t, u, m) ==
    /\ t.entries[m].labels = u.entries[m].labels
    /\ \A base \in named_by(m, t.entries[m].labels) :
           base \in Seq(Nat) /\ SameLooks(t, u, base) /\ SameValues(t, u, base)
    /\ t.entries[m].params = u.entries[m].params
    /\ t.entries[m].params # NoPath => SameLooks(t, u, t.entries[m].params)

LEMMA FreshStays ==
    ASSUME NEW t, Good(t), NEW u, Good(u),
           NEW m \in DOMAIN t.entries, FreshAt(t, m), SameSources(t, u, m),
           t.entries[m].count = u.entries[m].count,
           t.entries[m].names = u.entries[m].names,
           t.entries[m].signals = u.entries[m].signals,
           t.entries[m].axis_params = u.entries[m].axis_params
    PROVE  FreshAt(u, m)
<1>1. \A a : NamesOf(t, m, a) = NamesOf(u, m, a)
  BY SameNamesOf DEF SameSources
<1>2. BelowParams(t, m) = BelowParams(u, m) /\ \A a : NodesFor(t, m, a) = NodesFor(u, m, a)
  BY SameNodes DEF SameSources
<1>3. NewNames(t, m) = NewNames(u, m)
  BY <1>1 DEF NewNames
<1>4. NewSignals(t, m) = NewSignals(u, m)
  BY <1>1 DEF NewSignals
<1>5. NewNodes(t, m) = NewNodes(u, m)
  BY <1>2 DEF NewNodes
<1> QED BY <1>3, <1>4, <1>5 DEF FreshAt

\* A walk after a walk changes nothing.
LEMMA ResolvedFresh ==
    ASSUME NEW t, Good(t), NEW m \in DOMAIN t.entries
    PROVE  FreshAt(resolve_matrix_labels(t), m)
<1> DEFINE u == resolve_matrix_labels(t)
           e == u.entries[m]
<1>1. /\ Good(u) /\ DOMAIN u.entries = DOMAIN t.entries
      /\ \A p \in DOMAIN t.entries : Kept(u.entries[p], t.entries[p])
  BY ResolveOK
<1>2. e = resolve_matrix_param_paths(t, resolve_names(t, m))
  BY DEF resolve_matrix_labels, Good, IsTree, TreeFields
<1>3. e.names = NewNames(t, m) /\ e.signals = NewSignals(t, m) /\ e.axis_params = NewNodes(t, m)
  BY <1>2, ResolvedFields
<1> HIDE DEF u
<1>4. \A q : SameLook(t, u, q) /\ SameValue(t, u, q)
  BY <1>1 DEF SameLook, SameValue, Kept
<1>5. /\ e.labels = t.entries[m].labels /\ e.params = t.entries[m].params
      /\ e.count = t.entries[m].count
  BY <1>1 DEF Kept
<1>6. \A a : NamesOf(t, m, a) = NamesOf(u, m, a)
  <2>1. \A base \in named_by(m, t.entries[m].labels) : base \in Seq(Nat)
    <3>1. m \in Seq(Nat) \ {NoPath} /\ EntryOK(t.entries[m])
      BY PathsAreSeqs DEF Good, TreeOK
    <3> QED BY <3>1, WatchedOK DEF watched_by
  <2> QED BY <1>4, <1>5, <2>1, SameNamesOf DEF SameLooks, SameValues
<1>7. BelowParams(t, m) = BelowParams(u, m) /\ \A a : NodesFor(t, m, a) = NodesFor(u, m, a)
  BY <1>1, <1>4, <1>5, SameNodes DEF SameLooks
<1> HIDE DEF e
<1>8. NewNames(u, m) = e.names
  BY <1>3, <1>6 DEF NewNames, e
<1>9. NewSignals(u, m) = e.signals
  BY <1>3, <1>5, <1>6 DEF NewSignals, e
<1>10. NewNodes(u, m) = e.axis_params
  BY <1>3, <1>7 DEF NewNodes, e
<1> QED BY <1>8, <1>9, <1>10 DEF FreshAt, e, u

-------------------------------------------------------------------------------
(* What is watched.                                                        *)

\* All places of names and parameters are watched, and no others.
Watched(t) ==
    /\ \A m \in DOMAIN t.entries :
           /\ named_by(m, t.entries[m].labels) \subseteq NamePlaces
           /\ watched_by(m, t.entries[m]) \subseteq t.matrix_watch
    /\ t.matrix_watch \subseteq NamePlaces \cup ParamPlaces

LEMMA NothingNamed ==
    ASSUME NEW m PROVE named_by(m, <<>>) = {}
BY DEF named_by, ToSet

LEMMA NamedArePaths ==
    ASSUME NEW t, Good(t), NEW m \in DOMAIN t.entries
    PROVE  named_by(m, t.entries[m].labels) \subseteq Seq(Nat)
<1>1. m \in Seq(Nat) \ {NoPath} /\ EntryOK(t.entries[m])
  BY PathsAreSeqs DEF Good, TreeOK
<1> QED BY <1>1, WatchedOK DEF watched_by

LEMMA IngestWatched ==
    ASSUME NEW t, Watched(t), NEW el \in Elements, NEW u, Became(t, u, el)
    PROVE  Watched(u)
<1> DEFINE p == el.path
           was == Was(t, el)
           now == u.entries[p]
<1>1. /\ DOMAIN u.entries = DOMAIN t.entries \cup {p}
      /\ \A q \in DOMAIN t.entries \ {p} :
             u.entries[q].labels = t.entries[q].labels /\ u.entries[q].params = t.entries[q].params
      /\ now.labels = Given(el, "labels", was.labels)
      /\ now.params = Given(el, "params", was.params)
      /\ u.matrix_watch = IF el.kind = "matrix" THEN t.matrix_watch \cup watched_by(p, now)
                                               ELSE t.matrix_watch
  BY DEF Became, Alike, Updated, Noted
<1>2. /\ named_by(p, was.labels) \subseteq NamePlaces
      /\ watched_by(p, was) \subseteq t.matrix_watch
  <2>1. CASE p \in DOMAIN t.entries
    BY <2>1 DEF Watched, Was
  <2>2. CASE p \notin DOMAIN t.entries
    <3>1. was.labels = <<>> /\ was.params = NoPath
      BY <2>2 DEF Was, NewEntry
    <3> QED BY <3>1, NothingNamed DEF watched_by
  <2> QED BY <2>1, <2>2
<1>3. named_by(p, now.labels) \subseteq NamePlaces
  <2>1. Says(el, "labels") => named_by(p, el.contents.labels) \subseteq NamePlaces
    BY DEF NamePlaces
  <2> QED BY <1>1, <1>2, <2>1 DEF Given
<1>4. watched_by(p, now) \subseteq NamePlaces \cup ParamPlaces
  <2>1. now.params = NoPath \/ now.params \in ParamPlaces \cup t.matrix_watch
    <3>1. was.params = NoPath \/ was.params \in t.matrix_watch
      BY <1>2 DEF watched_by
    <3>2. Says(el, "params") => el.contents.params = NoPath \/ el.contents.params \in ParamPlaces
      BY DEF ParamPlaces
    <3> QED BY <1>1, <3>1, <3>2 DEF Given
  <2> QED BY <1>3, <2>1 DEF watched_by, Watched
<1>5. watched_by(p, now) \subseteq u.matrix_watch
  <2>1. CASE el.kind = "matrix"
    BY <1>1, <2>1
  <2>2. CASE el.kind # "matrix"
    <3>1. ~Says(el, "labels") /\ ~Says(el, "params")
      BY <2>2, ElementFacts DEF ElementOK, FieldsOf, Says, Kind
    <3>2. watched_by(p, now) = watched_by(p, was)
      BY <1>1, <3>1 DEF Given, watched_by
    <3> QED BY <1>1, <1>2, <2>2, <3>2
  <2> QED BY <2>1, <2>2
<1>6. /\ u.matrix_watch \subseteq NamePlaces \cup ParamPlaces
      /\ t.matrix_watch \subseteq u.matrix_watch
  BY <1>1, <1>4 DEF Watched
<1>7. ASSUME NEW q \in DOMAIN u.entries
      PROVE  /\ named_by(q, u.entries[q].labels) \subseteq NamePlaces
             /\ watched_by(q, u.entries[q]) \subseteq u.matrix_watch
  <2>1. CASE q = p
    BY <1>3, <1>5, <2>1
  <2>2. CASE q # p
    <3>1. /\ q \in DOMAIN t.entries
          /\ u.entries[q].labels = t.entries[q].labels /\ u.entries[q].params = t.entries[q].params
      BY <1>1, <2>2
    <3>2. watched_by(q, u.entries[q]) = watched_by(q, t.entries[q])
      BY <3>1 DEF watched_by
    <3> QED BY <1>6, <3>1, <3>2 DEF Watched
  <2> QED BY <2>1, <2>2
<1> QED BY <1>6, <1>7 DEF Watched

\* An element that does not make the names due is below no watched place.
LEMMA ElementElsewhere ==
    ASSUME NEW t, Watched(t), NEW el \in Elements, ~MakesDue(t, el), NEW base \in t.matrix_watch
    PROVE  ~IsPrefix(base, el.path)
<1>1. el.kind \in {"node", "parameter", "function"}
  BY ElementFacts DEF MakesDue, Kind
<1>2. CASE el.kind \in {"node", "parameter"}
  BY <1>2 DEF MakesDue, note_matrix_watch
<1>3. CASE el.kind = "function"
  BY <1>3, WatchAssumption DEF Watched
<1> QED BY <1>1, <1>2, <1>3

LEMMA IngestSame ==
    ASSUME NEW t, Good(t), Watched(t), NEW el \in Elements, ~MakesDue(t, el),
           NEW u, Became(t, u, el), NEW base \in t.matrix_watch
    PROVE  SameLooks(t, u, base) /\ SameValues(t, u, base)
<1> SUFFICES ASSUME NEW q, IsPrefix(base, q) PROVE SameLook(t, u, q) /\ SameValue(t, u, q)
  BY DEF SameLooks, SameValues
<1>1. ~IsPrefix(base, el.path) /\ base \in Seq(Nat)
  BY ElementElsewhere DEF Good, TreeOK
<1>2. q # el.path /\ q # Front(el.path)
  BY <1>1, ElementFacts, PrefixOfChild
<1>3. q \in DOMAIN t.entries <=> q \in DOMAIN u.entries
  BY <1>2 DEF Became
<1>4. q \in DOMAIN t.entries =>
          Alike(u.entries[q], t.entries[q]) /\ u.entries[q].children = t.entries[q].children
  BY <1>2 DEF Became
<1> QED BY <1>3, <1>4 DEF SameLook, SameValue, Alike

\* A walk would leave every entry as it is.
AllFresh(t) == \A m \in DOMAIN t.entries : FreshAt(t, m)

LEMMA NewEntryFresh ==
    ASSUME NEW u, Good(u), NEW m \in DOMAIN u.entries,
           u.entries[m].labels = <<>>, u.entries[m].params = NoPath,
           u.entries[m].names = [a \in Axis |-> <<>>]
    PROVE  FreshAt(u, m)
<1>1. ASSUME NEW a PROVE NamesOf(u, m, a) = <<>>
  <2> DEFINE maps == [i \in DOMAIN <<>> |-> NamesAt(u, m, <<>>[i], a)]
  <2>1. NamesOf(u, m, a) = Overriding(maps)
    BY DEF NamesOf
  <2>2. DOMAIN maps = {}
    OBVIOUS
  <2> HIDE DEF maps
  <2>3. UNION {DOMAIN maps[i] : i \in DOMAIN maps} = {}
    BY <2>2
  <2>4. Overriding(maps) = <<>>
    BY <2>3 DEF Overriding
  <2> QED BY <2>1, <2>4
<1>2. BelowParams(u, m) = <<>>
  BY PathsAreSeqs DEF BelowParams, Good, TreeOK
<1>3. \A a : NodesFor(u, m, a) = {}
  BY <1>2 DEF NodesFor
<1>4. EntryOK(u.entries[m])
  BY DEF Good, TreeOK
<1>5. NewNames(u, m) = u.entries[m].names
  BY <1>1 DEF NewNames
<1>6. NewSignals(u, m) = u.entries[m].signals
  BY <1>1, <1>4 DEF NewSignals, EntryOK
<1>7. NewNodes(u, m) = u.entries[m].axis_params
  BY <1>3, <1>4 DEF NewNodes, EntryOK
<1> QED BY <1>5, <1>6, <1>7 DEF FreshAt

LEMMA IngestFresh ==
    ASSUME NEW t, Good(t), Watched(t), AllFresh(t), NEW el \in Elements, ~MakesDue(t, el),
           NEW u, Good(u), Became(t, u, el)
    PROVE  AllFresh(u)
<1> SUFFICES ASSUME NEW m \in DOMAIN u.entries PROVE FreshAt(u, m)
  BY DEF AllFresh
<1> DEFINE p == el.path
<1>1. el.kind # "matrix"
  BY DEF MakesDue
<1>2. ~Says(el, "labels") /\ ~Says(el, "params")
  BY <1>1, ElementFacts DEF ElementOK, FieldsOf, Says, Kind
<1>3. CASE m \in DOMAIN t.entries
  <2>1. /\ t.entries[m].labels = u.entries[m].labels /\ t.entries[m].params = u.entries[m].params
        /\ t.entries[m].count = u.entries[m].count /\ t.entries[m].names = u.entries[m].names
        /\ t.entries[m].signals = u.entries[m].signals
        /\ t.entries[m].axis_params = u.entries[m].axis_params
    <3>1. CASE m # p
      BY <1>3, <3>1 DEF Became, Alike
    <3>2. CASE m = p
      BY <1>1, <1>2, <1>3, <3>2 DEF Became, Updated, Given, Was
    <3> QED BY <3>1, <3>2
  <2>2. SameSources(t, u, m)
    <3>1. watched_by(m, t.entries[m]) \subseteq t.matrix_watch /\ t.matrix_watch \subseteq Seq(Nat)
      BY <1>3 DEF Watched, Good, TreeOK
    <3>2. \A base \in t.matrix_watch : SameLooks(t, u, base) /\ SameValues(t, u, base)
      BY IngestSame
    <3> QED BY <2>1, <3>1, <3>2 DEF SameSources, watched_by
  <2>3. FreshAt(t, m)
    BY <1>3 DEF AllFresh
  <2> QED BY <1>3, <2>1, <2>2, <2>3, FreshStays
<1>4. CASE m \notin DOMAIN t.entries
  <2>1. m = p /\ Updated(u.entries[m], NewEntry(el.kind), el)
    BY <1>4 DEF Became, Was
  <2>2. /\ u.entries[m].labels = <<>> /\ u.entries[m].params = NoPath
        /\ u.entries[m].names = [a \in Axis |-> <<>>]
    BY <1>2, <2>1 DEF Updated, Given, NewEntry
  <2> QED BY <2>2, NewEntryFresh
<1> QED BY <1>3, <1>4

\* A document that leaves the names due to nobody is about nothing that is watched.
LEMMA DocFresh ==
    ASSUME NEW t, Good(t), Watched(t), NEW doc \in Documents,
           NEW u, u = Ingested(t, doc)[Len(doc)]
    PROVE  /\ Watched(u)
           /\ ~u.matrix_dirty =>
                  /\ DOMAIN t.entries \subseteq DOMAIN u.entries
                  /\ \A m \in DOMAIN t.entries : u.entries[m].labels = t.entries[m].labels
                  /\ \A i \in 1..Len(doc), base \in t.matrix_watch : ~IsPrefix(base, doc[i].path)
                  /\ AllFresh(t) => AllFresh(u)
<1> DEFINE I == Ingested(t, doc)
           N == Len(doc)
           Labels(n) ==
               /\ DOMAIN t.entries \subseteq DOMAIN I[n].entries
               /\ \A m \in DOMAIN t.entries : I[n].entries[m].labels = t.entries[m].labels
           Elsewhere(n) == \A i \in 1..n, base \in t.matrix_watch : ~IsPrefix(base, doc[i].path)
           Fresh(n) == AllFresh(t) => AllFresh(I[n])
           Quiet(n) == I[n].matrix_watch = t.matrix_watch /\ Labels(n) /\ Elsewhere(n) /\ Fresh(n)
           S == {n \in 0..N : Watched(I[n]) /\ (~I[n].matrix_dirty => Quiet(n))}
<1>1. /\ N \in Nat /\ I[0] = t
      /\ \A n \in 1..N : doc[n] \in Elements /\ Became(I[n - 1], I[n], doc[n])
      /\ \A n \in 0..N : Good(I[n])
  BY Steps
<1> HIDE DEF I, N
<1>2. 0 \in S
  BY <1>1
<1>3. ASSUME NEW n \in 1..N, n - 1 \in S PROVE n \in S
  <2> DEFINE el == doc[n]
             was == I[n - 1]
             now == I[n]
  <2>1. /\ n - 1 \in 0..N /\ n \in 0..N /\ el \in Elements /\ Became(was, now, el)
        /\ Good(was) /\ Good(now)
    BY <1>1
  <2>2. Watched(was) /\ (~was.matrix_dirty => Quiet(n - 1))
    BY <1>3
  <2>3. Watched(now)
    BY <2>1, <2>2, IngestWatched
  <2>4. ASSUME ~now.matrix_dirty PROVE Quiet(n)
    <3>1. ~was.matrix_dirty /\ ~MakesDue(was, el)
      BY <2>1, <2>4 DEF Became, Noted
    <3>2. el.kind # "matrix"
      BY <3>1 DEF MakesDue
    <3>3. now.matrix_watch = t.matrix_watch
      BY <2>1, <2>2, <3>1, <3>2 DEF Became, Noted
    <3>4. Labels(n)
      <4>1. Labels(n - 1)
        BY <2>2, <3>1
      <4>2. ~Says(el, "labels")
        BY <2>1, <3>2, ElementFacts DEF ElementOK, FieldsOf, Says, Kind
      <4>3. DOMAIN was.entries \subseteq DOMAIN now.entries
        BY <2>1 DEF Became
      <4>4. ASSUME NEW m \in DOMAIN was.entries
            PROVE  now.entries[m].labels = was.entries[m].labels
        <5>1. CASE m = el.path
          BY <2>1, <4>2, <4>4, <5>1 DEF Became, Updated, Given, Was
        <5>2. CASE m # el.path
          BY <2>1, <5>2 DEF Became, Alike
        <5> QED BY <5>1, <5>2
      <4> QED BY <4>1, <4>3, <4>4
    <3>5. Elsewhere(n)
      <4>1. Elsewhere(n - 1) /\ was.matrix_watch = t.matrix_watch
        BY <2>2, <3>1
      <4>2. \A base \in t.matrix_watch : ~IsPrefix(base, el.path)
        BY <2>1, <2>2, <3>1, <4>1, ElementElsewhere
      <4>3. \A i \in 1..n : i = n \/ i \in 1..(n - 1)
        BY <1>1
      <4> QED BY <4>1, <4>2, <4>3
    <3>6. Fresh(n)
      <4>1. Fresh(n - 1)
        BY <2>2, <3>1
      <4>2. AllFresh(was) => AllFresh(now)
        BY <2>1, <2>2, <3>1, IngestFresh
      <4> QED BY <4>1, <4>2
    <3> HIDE DEF Labels, Elsewhere, Fresh
    <3> QED BY <3>3, <3>4, <3>5, <3>6
  <2> HIDE DEF Quiet
  <2> QED BY <2>1, <2>3, <2>4
<1>4. N \in S
  <2>1. 0..N \subseteq S
    <3> HIDE DEF S
    <3> QED BY <1>1, <1>2, <1>3, InductionUpTo
  <2> QED BY <1>1, <2>1
<1>5. u = I[N]
  BY DEF I, N
<1> QED BY <1>4, <1>5 DEF N

\* A parameter whose value may be a name of some matrix.
Naming(t, p) ==
    \E m \in DOMAIN t.entries :
        \E base \in named_by(m, t.entries[m].labels) : IsPrefix(base, p)

\* What the session changes leaves the names fresh, if it is not a name.
LEMMA FreshKept ==
    ASSUME NEW t, Good(t), Watched(t), NEW u, Good(u), DOMAIN u.entries = DOMAIN t.entries,
           u.matrix_watch = t.matrix_watch,
           \A q \in DOMAIN t.entries : SameMatrix(u.entries[q], t.entries[q])
    PROVE  /\ Watched(u)
           /\ \A p : Naming(t, p) <=> Naming(u, p)
           /\ (\A q \in DOMAIN t.entries :
                   Naming(t, q) => u.entries[q].value = t.entries[q].value)
              => (AllFresh(t) => AllFresh(u))
<1>1. \A q \in DOMAIN t.entries :
          /\ u.entries[q].labels = t.entries[q].labels
          /\ watched_by(q, u.entries[q]) = watched_by(q, t.entries[q])
  BY DEF SameMatrix, watched_by
<1>2. Watched(u)
  BY <1>1 DEF Watched
<1>3. \A p : Naming(t, p) <=> Naming(u, p)
  BY <1>1 DEF Naming
<1>4. ASSUME \A q \in DOMAIN t.entries : Naming(t, q) => u.entries[q].value = t.entries[q].value,
             AllFresh(t),
             NEW m \in DOMAIN t.entries
      PROVE  FreshAt(u, m)
  <2>1. \A base : SameLooks(t, u, base)
    BY DEF SameLooks, SameLook, SameMatrix
  <2>2. \A base \in named_by(m, t.entries[m].labels) : SameValues(t, u, base)
    BY <1>4 DEF SameValues, SameValue, Naming
  <2>3. SameSources(t, u, m)
    BY <2>1, <2>2, NamedArePaths DEF SameSources, SameMatrix
  <2>4. FreshAt(t, m)
    BY <1>4 DEF AllFresh
  <2>5. /\ t.entries[m].count = u.entries[m].count /\ t.entries[m].names = u.entries[m].names
        /\ t.entries[m].signals = u.entries[m].signals
        /\ t.entries[m].axis_params = u.entries[m].axis_params
    BY DEF SameMatrix
  <2> QED BY <2>3, <2>4, <2>5, FreshStays
<1> QED BY <1>2, <1>3, <1>4 DEF AllFresh

-------------------------------------------------------------------------------
(* The names of a matrix are up to date, or one of them is being edited.   *)

\* While a name is edited the names may be behind; no other time.
UpToDate(t, marked) == (\E p \in marked : Naming(t, p)) \/ AllFresh(t)

\* The inductive invariant: NamesFresh, with the places of names it depends on.
NamesInv == TreeInv /\ Watched(tree) /\ UpToDate(tree, pending)

LEMMA MergeFresh ==
    ASSUME NEW t, Sound(t), Watched(t), t.value_updates = {}, NEW doc \in Documents,
           NEW marked, UpToDate(t, marked),
           NEW u, u = merge(t, doc)
    PROVE  Watched(u) /\ UpToDate(u, marked \ u.value_updates)
<1> DEFINE o == Ingested(t, doc)[Len(doc)]
<1>1. /\ Len(doc) \in Nat /\ DOMAIN doc = 1..Len(doc) /\ Good(o)
  BY Steps DEF Sound
<1>2. /\ Watched(o)
      /\ ~o.matrix_dirty =>
             /\ DOMAIN t.entries \subseteq DOMAIN o.entries
             /\ \A m \in DOMAIN t.entries : o.entries[m].labels = t.entries[m].labels
             /\ \A i \in 1..Len(doc), base \in t.matrix_watch : ~IsPrefix(base, doc[i].path)
             /\ AllFresh(t) => AllFresh(o)
  BY DocFresh DEF Sound
<1>3. o.value_updates = Speaks(doc)
  <2>1. Good(t)
    BY DEF Sound
  <2>2. o.value_updates = t.value_updates \cup Speaks(doc)
    BY <2>1, DocValues
  <2> HIDE DEF o
  <2> QED BY <2>2
<1>4. u = IF o.matrix_dirty THEN [resolve_matrix_labels(o) EXCEPT !.matrix_dirty = FALSE] ELSE o
  BY DEF merge
<1> HIDE DEF o
<1>5. CASE ~o.matrix_dirty
  <2>1. u = o
    BY <1>4, <1>5
  <2>2. CASE AllFresh(t)
    BY <1>2, <1>5, <2>1, <2>2 DEF UpToDate
  <2>3. CASE \E p \in marked : Naming(t, p)
    <3>0. PICK p \in marked, m \in DOMAIN t.entries :
               \E base \in named_by(m, t.entries[m].labels) : IsPrefix(base, p)
      BY <2>3 DEF Naming
    <3>1. PICK base \in named_by(m, t.entries[m].labels) : IsPrefix(base, p)
      BY <3>0
    <3>2. base \in t.matrix_watch
      BY <3>1 DEF Watched, watched_by
    <3>3. p \notin Speaks(doc)
      BY <1>1, <1>2, <1>5, <3>1, <3>2 DEF Speaks, ToSet
    <3>4. Naming(o, p)
      BY <1>2, <1>5, <3>1 DEF Naming
    <3> QED BY <1>2, <1>3, <2>1, <3>3, <3>4 DEF UpToDate
  <2> QED BY <2>2, <2>3 DEF UpToDate
<1>6. CASE o.matrix_dirty
  <2> DEFINE w == resolve_matrix_labels(o)
  <2>1. /\ Good(w) /\ DOMAIN w.entries = DOMAIN o.entries
        /\ \A p \in DOMAIN o.entries : Kept(w.entries[p], o.entries[p])
    BY <1>1, ResolveOK
  <2>2. AllFresh(w)
    BY <1>1, <2>1, ResolvedFresh DEF AllFresh
  <2>3. w.matrix_watch = o.matrix_watch
    BY <1>1 DEF resolve_matrix_labels, Good, IsTree, TreeFields
  <2> HIDE DEF w
  <2>4. Good(u)
    BY MergeOK DEF Sound
  <2>5. u.entries = w.entries /\ u.matrix_watch = w.matrix_watch
    BY <1>4, <1>6, <2>1 DEF Good, IsTree, TreeFields, w
  <2>6. Watched(u)
    <3>1. \A p \in DOMAIN u.entries :
              /\ u.entries[p].labels = o.entries[p].labels
              /\ watched_by(p, u.entries[p]) = watched_by(p, o.entries[p])
      BY <2>1, <2>5 DEF Kept, watched_by
    <3> QED BY <1>2, <2>1, <2>3, <2>5, <3>1 DEF Watched
  <2>7. \A p \in DOMAIN w.entries : SameMatrix(u.entries[p], w.entries[p])
    BY <2>5 DEF SameMatrix
  <2>8. Watched(w)
    BY <2>5, <2>6 DEF Watched
  <2>9. AllFresh(u)
    BY <2>1, <2>2, <2>4, <2>5, <2>7, <2>8, FreshKept
  <2> QED BY <2>6, <2>9 DEF UpToDate
<1> QED BY <1>5, <1>6

LEMMA TakenFresh ==
    ASSUME NEW t, Sound(t), Watched(t), NEW marked, UpToDate(t, marked),
           NEW u, u = [t EXCEPT !.value_updates = {}]
    PROVE  Watched(u) /\ UpToDate(u, marked)
<1>1. Good(t) /\ Good(u) /\ u.entries = t.entries /\ u.matrix_watch = t.matrix_watch
  BY TakenOK DEF Sound
<1>2. \A q \in DOMAIN t.entries : SameMatrix(u.entries[q], t.entries[q])
  BY <1>1 DEF SameMatrix
<1>3. (\A p : Naming(t, p) <=> Naming(u, p)) /\ (AllFresh(t) => AllFresh(u)) /\ Watched(u)
  BY <1>1, <1>2, FreshKept
<1> QED BY <1>3 DEF UpToDate

\* An edit of a name leaves its mark; any other edit leaves the names fresh.
LEMMA AppliedFresh ==
    ASSUME NEW t, Sound(t), Watched(t), NEW marked, UpToDate(t, marked),
           NEW p \in DOMAIN t.entries, NEW v \in Names,
           NEW u, u = [t EXCEPT !.entries[p].value = v]
    PROVE  Watched(u) /\ UpToDate(u, marked \cup {p})
<1>1. /\ Sound(u) /\ DOMAIN u.entries = DOMAIN t.entries /\ u.matrix_watch = t.matrix_watch
      /\ \A q \in DOMAIN t.entries :
             /\ SameMatrix(u.entries[q], t.entries[q])
             /\ u.entries[q].value = IF q = p THEN v ELSE t.entries[q].value
  <2>1. Sound(u) /\ DOMAIN u.entries = DOMAIN t.entries
    BY AppliedSound
  <2>2. u.matrix_watch = t.matrix_watch
    BY AppliedSound
  <2>3. \A q \in DOMAIN t.entries : SameMatrix(u.entries[q], t.entries[q])
    BY AppliedSound
  <2>4. \A q \in DOMAIN t.entries : u.entries[q].value = IF q = p THEN v ELSE t.entries[q].value
    BY AppliedSound
  <2> QED BY <2>1, <2>2, <2>3, <2>4
<1>2. Good(t) /\ Good(u)
  BY <1>1 DEF Sound
<1>3. /\ Watched(u) /\ \A q : Naming(t, q) <=> Naming(u, q)
      /\ ~Naming(t, p) => (AllFresh(t) => AllFresh(u))
  <2>1. /\ Watched(u) /\ \A q : Naming(t, q) <=> Naming(u, q)
        /\ (\A q \in DOMAIN t.entries :
                Naming(t, q) => u.entries[q].value = t.entries[q].value)
           => (AllFresh(t) => AllFresh(u))
    BY <1>1, <1>2, FreshKept, ZenonT(60)
  <2> QED BY <1>1, <2>1
<1> QED BY <1>3 DEF UpToDate

LEMMA ExpandedFresh ==
    ASSUME NEW t, Sound(t), Watched(t), NEW marked, UpToDate(t, marked),
           NEW p \in DOMAIN t.entries, t.entries[p].kind # "parameter",
           NEW u, u = [t EXCEPT !.entries[p].requested = TRUE]
    PROVE  Watched(u) /\ UpToDate(u, marked)
<1>1. /\ Sound(u) /\ DOMAIN u.entries = DOMAIN t.entries /\ u.matrix_watch = t.matrix_watch
      /\ \A q \in DOMAIN t.entries :
             /\ SameMatrix(u.entries[q], t.entries[q])
             /\ u.entries[q].value = t.entries[q].value
  <2>1. Sound(u) /\ DOMAIN u.entries = DOMAIN t.entries
    BY ExpandedSound
  <2>2. u.matrix_watch = t.matrix_watch
    BY ExpandedSound
  <2>3. \A q \in DOMAIN t.entries : SameMatrix(u.entries[q], t.entries[q])
    BY ExpandedSound
  <2>4. \A q \in DOMAIN t.entries : u.entries[q].value = t.entries[q].value
    BY ExpandedSound
  <2> QED BY <2>1, <2>2, <2>3, <2>4
<1>2. Good(t) /\ Good(u)
  BY <1>1 DEF Sound
<1>3. /\ Watched(u) /\ \A q : Naming(t, q) <=> Naming(u, q)
      /\ (AllFresh(t) => AllFresh(u))
  BY <1>1, <1>2, FreshKept, ZenonT(60)
<1> QED BY <1>3 DEF UpToDate

LEMMA ConnectedFresh ==
    ASSUME NEW t, Sound(t), Watched(t), NEW marked, UpToDate(t, marked),
           NEW u, u = [t EXCEPT !.entries = [p \in DOMAIN @ |-> [@[p] EXCEPT !.requested = FALSE]]]
    PROVE  Watched(u) /\ UpToDate(u, marked)
<1>1. /\ Sound(u) /\ DOMAIN u.entries = DOMAIN t.entries /\ u.matrix_watch = t.matrix_watch
      /\ \A q \in DOMAIN t.entries :
             /\ SameMatrix(u.entries[q], t.entries[q])
             /\ u.entries[q].value = t.entries[q].value
  BY ConnectedSound
<1>2. Good(t) /\ Good(u)
  BY <1>1 DEF Sound
<1>3. /\ Watched(u) /\ \A q : Naming(t, q) <=> Naming(u, q)
      /\ (AllFresh(t) => AllFresh(u))
  BY <1>1, <1>2, FreshKept, ZenonT(60)
<1> QED BY <1>3 DEF UpToDate

LEMMA NamesInit == Init => Watched(tree) /\ UpToDate(tree, pending)
<1> SUFFICES ASSUME Init PROVE Watched(tree) /\ UpToDate(tree, pending)
  OBVIOUS
<1>1. DOMAIN tree.entries = {} /\ tree.matrix_watch = {}
  BY DEF Init, NewTree
<1> QED BY <1>1 DEF Watched, UpToDate, AllFresh

LEMMA NamesStep == NamesInv /\ [Next]_vars => Watched(tree)' /\ UpToDate(tree, pending)'
<1> SUFFICES ASSUME NamesInv, [Next]_vars PROVE Watched(tree') /\ UpToDate(tree', pending')
  OBVIOUS
<1>1. /\ Sound(tree) /\ Good(tree) /\ tree.value_updates = {}
      /\ Watched(tree) /\ UpToDate(tree, pending)
  BY DEF NamesInv, TreeInv, TypeOK, Sound
<1>2. ASSUME NEW doc \in Documents, Document(doc)
      PROVE  Watched(tree') /\ UpToDate(tree', pending')
  <2> DEFINE t == merge(tree, doc)
  <2>1. Sound(t)
    BY <1>1, MergeSound
  <2>2. Watched(t) /\ UpToDate(t, pending \ t.value_updates)
    BY <1>1, MergeFresh
  <2>3. tree' = [t EXCEPT !.value_updates = {}] /\ pending' = pending \ t.value_updates
    BY <1>2 DEF Document, Take
  <2> HIDE DEF t
  <2> QED BY <2>1, <2>2, <2>3, TakenFresh
<1>3. ASSUME NEW id \in StreamId, NEW v \in Levels, Stream(id, v)
      PROVE  Watched(tree') /\ UpToDate(tree', pending')
  <2> DEFINE t == apply_streams(tree, id, v)
  <2>1. /\ Sound(t) /\ Good(t) /\ DOMAIN t.entries = DOMAIN tree.entries
        /\ t.matrix_watch = tree.matrix_watch /\ t.value_updates = tree.stream_index[id]
        /\ \A p \in DOMAIN tree.entries :
               /\ SameMatrix(t.entries[p], tree.entries[p])
               /\ p \notin tree.stream_index[id] => t.entries[p].value = tree.entries[p].value
    BY <1>1, StreamsSound DEF Sound
  <2>2. tree' = [t EXCEPT !.value_updates = {}] /\ pending' = pending \ t.value_updates
    BY <1>3 DEF Stream, Take
  <2> HIDE DEF t
  <2>3. \A p \in tree.stream_index[id] : ~Naming(tree, p)
    <3> SUFFICES ASSUME NEW p \in tree.stream_index[id], Naming(tree, p) PROVE FALSE
      OBVIOUS
    <3>1. PICK el \in Elements : el.path = p /\ Says(el, "stream")
      BY <1>1 DEF Sound, Routes, StreamsOf
    <3>2. \E base \in NamePlaces : IsPrefix(base, p)
      BY <1>1 DEF Naming, Watched
    <3> QED BY <3>1, <3>2, WatchAssumption
  <2>4. /\ Watched(t) /\ \A p : Naming(tree, p) <=> Naming(t, p)
        /\ AllFresh(tree) => AllFresh(t)
    BY <1>1, <2>1, <2>3, FreshKept
  <2>5. UpToDate(t, pending \ t.value_updates)
    BY <1>1, <2>1, <2>3, <2>4 DEF UpToDate
  <2> QED BY <2>1, <2>2, <2>4, <2>5, TakenFresh
<1>4. ASSUME NEW p \in Valued, NEW v \in Names, Apply(p, v)
      PROVE  Watched(tree') /\ UpToDate(tree', pending')
  <2>1. pending' = pending \cup {p}
    BY <1>4 DEF Apply
  <2>2. CASE p \in DOMAIN tree.entries
    <3>1. tree' = [tree EXCEPT !.entries[p].value = v]
      BY <1>4, <2>2 DEF Apply
    <3>2. UpToDate(tree', pending \cup {p}) /\ Watched(tree')
      BY <1>1, <2>2, <3>1, AppliedFresh
    <3> QED BY <2>1, <3>2
  <2>3. CASE p \notin DOMAIN tree.entries
    <3>1. tree' = tree
      BY <1>4, <2>3 DEF Apply
    <3> QED BY <1>1, <2>1, <3>1 DEF UpToDate
  <2> QED BY <2>2, <2>3
<1>5. ASSUME NEW p \in DOMAIN tree.entries, Expand(p)
      PROVE  Watched(tree') /\ UpToDate(tree', pending')
  <2>1. /\ tree.entries[p].kind # "parameter" /\ pending' = pending
        /\ tree' = [tree EXCEPT !.entries[p].requested = TRUE]
    BY <1>5 DEF Expand
  <2> QED BY <1>1, <2>1, ExpandedFresh
<1>6. CASE Connected
  <2>1. /\ tree' = [tree EXCEPT !.entries =
                        [p \in DOMAIN @ |-> [@[p] EXCEPT !.requested = FALSE]]]
        /\ pending' = pending
    BY <1>6 DEF Connected
  <2> QED BY <1>1, <2>1, ConnectedFresh
<1>7. CASE Cleared
  <2>1. DOMAIN tree'.entries = {} /\ tree'.matrix_watch = {}
    BY <1>7 DEF Cleared, NewTree
  <2> QED BY <2>1 DEF Watched, UpToDate, AllFresh
<1>8. CASE UNCHANGED vars
  BY <1>1, <1>8 DEF vars
<1> QED BY <1>2, <1>3, <1>4, <1>5, <1>6, <1>7, <1>8 DEF Next

\* The check before the walk skips none that is due, for every device whose names are
\* neither streamed nor functions (note_matrix_watch, resolve_matrix_labels).
THEOREM TreeNamesFresh == Spec => []NamesFresh
<1>1. NamesInv => NamesFresh
  <2> SUFFICES ASSUME NamesInv PROVE NamesFresh
    OBVIOUS
  <2>1. Good(tree) /\ Watched(tree) /\ UpToDate(tree, pending)
    BY DEF NamesInv, TreeInv, Sound
  <2>2. AllFresh(tree) => resolve_matrix_labels(tree) = tree
    BY <2>1, FreshEverywhere DEF AllFresh
  <2>3. \A p : Naming(tree, p) => note_matrix_watch(tree, p)
    BY <2>1 DEF Naming, note_matrix_watch, Watched, watched_by
  <2> QED BY <2>1, <2>2, <2>3 DEF UpToDate, NamesFresh
<1>2. Init => NamesInv
  BY TreeInvInit, NamesInit DEF NamesInv
<1>3. NamesInv /\ [Next]_vars => NamesInv'
  BY TreeInvStep, NamesStep DEF NamesInv
<1> QED BY <1>1, <1>2, <1>3, PTL DEF Spec

===============================================================================
