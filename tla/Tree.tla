---------------------------------- MODULE Tree ----------------------------------
(***************************************************************************)
(* A viewer's tree of a provider (emberviewer/src/model.rs, TreeModel) and *)
(* what keeps it up to date (app.rs, pump_network; model.rs, merge).       *)
(*                                                                         *)
(* The device describes its tree in documents, in the order and the pieces *)
(* it likes: directories, single elements, values that changed.  A         *)
(* document is the sequence of its elements, an element before the ones    *)
(* nested in it; whether an element was nested or qualified makes no       *)
(* difference once its path is known.  A matrix takes the names of its     *)
(* signals from label sub-trees elsewhere, which are walked again only     *)
(* when a document touched one of them.                                    *)
(***************************************************************************)
EXTENDS Naturals, Sequences, FiniteSets, SequencesExt

CONSTANTS
    Documents, \* the documents the device may send
    Names,     \* values that are strings
    Levels,    \* other values
    StreamId,
    MaxAsked   \* bound: directories asked for at a time

Axis == {"target", "source"}
Kind == {"node", "parameter", "matrix", "function"}
NoValue == "no value"
NoStream == "no stream"
NoPath == <<>>

\* Whether identifiers contain "target", "source", "label" or "name" is all that
\* the resolvers ask; one of each stands for the rest.
Identifier == {"", "targets", "sources", "label", "other"}

\* What the elements of a kind can say of themselves (glow.rs, ...Contents).
FieldsOf(kind) ==
    CASE kind = "node" -> {"identifier", "online"}
      [] kind = "parameter" -> {"identifier", "online", "value", "stream"}
      [] kind = "matrix" -> {"identifier", "count", "signals", "labels", "params"}
      [] kind = "function" -> {"identifier"}

Says(el, field) == field \in DOMAIN el.contents

FieldOK(el, field) ==
    LET said == el.contents[field]
    IN  CASE field = "identifier" -> said \in Identifier
          [] field = "online" -> said \in BOOLEAN
          [] field = "value" -> said \in Names \cup Levels
          [] field = "stream" -> said \in StreamId
          [] field = "count" -> \A a \in DOMAIN said : said[a] \in Nat
          [] field = "signals" -> \A a \in DOMAIN said : said[a] \in SUBSET Nat
          [] field = "labels" -> said \in Seq(Seq(Nat))
          [] field = "params" -> said \in Seq(Nat)

ElementOK(el) ==
    /\ el.path \in Seq(Nat) \ {NoPath}
    /\ el.kind \in Kind
    /\ DOMAIN el.contents \subseteq FieldsOf(el.kind)
    /\ \A field \in DOMAIN el.contents : FieldOK(el, field)

\* What the decoder makes of the bytes a device sends.
ASSUME TreeAssumption ==
    /\ Names \cap Levels = {}
    /\ NoValue \notin Names \cup Levels
    /\ NoStream \notin StreamId
    /\ MaxAsked \in Nat
    /\ \A doc \in Documents :
        /\ doc = [i \in 1..Len(doc) |-> doc[i]]
        /\ Len(doc) \in Nat
        /\ \A i \in 1..Len(doc) : ElementOK(doc[i])

VARIABLES
    tree,    \* the TreeModel
    pending, \* parameters shown with a value the provider has not confirmed
    last,    \* who spoke last of a parameter's value, and what it said
    asked    \* directories asked for on this link, since their nodes were last offline

vars == <<tree, pending, last, asked>>

Elements == UNION {ToSet(doc) : doc \in Documents}
Paths == {el.path : el \in Elements}

\* A path names an element of one kind, and a parameter stays in one stream:
\* upsert keeps the first kind, and stream_index keeps every stream.
ASSUME KindAssumption ==
    \A el1, el2 \in Elements : el1.path = el2.path => el1.kind = el2.kind
ASSUME StreamAssumption ==
    \A el1, el2 \in {el \in Elements : Says(el, "stream")} :
        el1.path = el2.path => el1.contents.stream = el2.contents.stream

\* The parameters that come to have a value, from documents or from a stream.
Valued == {el.path : el \in {e \in Elements : Says(e, "value") \/ Says(e, "stream")}}

NewTree ==
    [entries |-> <<>>, roots |-> <<>>, stream_index |-> [id \in StreamId |-> {}],
     value_updates |-> {}, matrix_watch |-> {}, matrix_dirty |-> FALSE]

\* The matrix's detail is part of every entry and unused in the others.
NewEntry(kind) ==
    [kind |-> kind, identifier |-> "", value |-> NoValue, stream |-> NoStream,
     online |-> TRUE, requested |-> FALSE, children |-> <<>>,
     count |-> [a \in Axis |-> 0], signals |-> [a \in Axis |-> {}],
     names |-> [a \in Axis |-> <<>>], labels |-> <<>>, params |-> NoPath,
     axis_params |-> [a \in Axis |-> NoPath]]

Nobody == [by |-> "nobody", value |-> NoValue]

Init ==
    /\ tree = NewTree
    /\ pending = {}
    /\ last = [p \in Valued |-> Nobody]
    /\ asked = {}

-------------------------------------------------------------------------------
(* Ingesting the elements of a document. *)

\* (Faulty: an element whose parent is not known becomes a root.)
link_as_root(t, p) ==
    IF Front(p) \in DOMAIN t.entries
    THEN [t EXCEPT !.entries[Front(p)].children = Append(@, p)]
    ELSE [t EXCEPT !.roots = Append(@, p)]

link_to_parent(t, p) ==
    IF Len(p) = 1
    THEN [t EXCEPT !.roots = IF Contains(@, p) THEN @ ELSE Append(@, p)]
    ELSE IF Front(p) \in DOMAIN t.entries
    THEN [t EXCEPT !.entries[Front(p)].children =
                       IF Contains(@, p) THEN @ ELSE Append(@, p)]
    ELSE t

upsert(t, el) ==
    IF el.path \in DOMAIN t.entries
    THEN t
    ELSE link_to_parent(
             [t EXCEPT !.entries = [q \in DOMAIN @ \cup {el.path} |->
                                       IF q = el.path THEN NewEntry(el.kind) ELSE @[q]]],
             el.path)

note_matrix_watch(t, p) == \E base \in t.matrix_watch : IsPrefix(base, p)

\* Where a label base may be: absolute, or relative to the matrix's parent.
label_base_candidates(m, base) ==
    IF Front(m) \o base = base THEN <<base>> ELSE <<base, Front(m) \o base>>

\* A field the element does not carry stays as it was.
Given(el, field, was) == IF Says(el, field) THEN el.contents[field] ELSE was

GivenByAxis(el, field, was) ==
    [a \in Axis |-> IF Says(el, field) /\ a \in DOMAIN el.contents[field]
                    THEN el.contents[field][a]
                    ELSE was[a]]

\* (Faulty: a node that is back online still counts as fetched.)
ingest_node_fetched(t, el) ==
    LET old == upsert(t, el)
        now == [old.entries[el.path] EXCEPT
                   !.identifier = Given(el, "identifier", @),
                   !.online = Given(el, "online", @)]
    IN  [old EXCEPT !.entries[el.path] = now,
                    !.matrix_dirty = @ \/ note_matrix_watch(old, el.path)]

ingest_node(t, el) ==
    LET old == upsert(t, el)
        backOnline == Given(el, "online", FALSE) /\ ~old.entries[el.path].online
        now == [old.entries[el.path] EXCEPT
                   !.identifier = Given(el, "identifier", @),
                   !.online = Given(el, "online", @),
                   !.requested = @ /\ ~backOnline]
    IN  [old EXCEPT !.entries[el.path] = now,
                    !.matrix_dirty = @ \/ note_matrix_watch(old, el.path)]

parameter_entry(was, el) ==
    [was EXCEPT !.identifier = Given(el, "identifier", @),
                !.value = Given(el, "value", @),
                !.stream = Given(el, "stream", @),
                !.online = Given(el, "online", @)]

\* The path is listed under the stream the entry names now.
routed_by(index, stream, p) ==
    [id \in StreamId |-> IF id = stream THEN index[id] \cup {p} ELSE index[id]]

\* (Faulty: only nodes and matrices make the names due.)
ingest_parameter_unwatched(t, el) ==
    LET old == upsert(t, el)
        now == parameter_entry(old.entries[el.path], el)
    IN  [old EXCEPT
            !.entries[el.path] = now,
            !.value_updates = IF Says(el, "value") THEN @ \cup {el.path} ELSE @,
            !.stream_index = routed_by(@, now.stream, el.path)]

ingest_parameter(t, el) ==
    LET old == upsert(t, el)
        now == parameter_entry(old.entries[el.path], el)
    IN  [old EXCEPT
            !.entries[el.path] = now,
            !.value_updates = IF Says(el, "value") THEN @ \cup {el.path} ELSE @,
            !.stream_index = routed_by(@, now.stream, el.path),
            !.matrix_dirty = @ \/ note_matrix_watch(old, el.path)]

\* Without a list of its own, a matrix has the signals 0..count-1.
Dense(count) == 0 .. (count - 1)

matrix_entry(was, el) ==
    LET count == GivenByAxis(el, "count", was.count)
        listed == GivenByAxis(el, "signals", was.signals)
    IN  [was EXCEPT !.identifier = Given(el, "identifier", @),
                    !.count = count,
                    !.signals = [a \in Axis |-> IF listed[a] = {} THEN Dense(count[a])
                                                                 ELSE listed[a]],
                    !.labels = Given(el, "labels", @),
                    !.params = Given(el, "params", @)]

\* Where a matrix's names may be, and its parameters.
named_by(p, labels) ==
    UNION {ToSet(label_base_candidates(p, base)) : base \in ToSet(labels)}

watched_by(p, e) == named_by(p, e.labels) \cup ({e.params} \ {NoPath})

ingest_matrix(t, el) ==
    LET old == upsert(t, el)
        now == matrix_entry(old.entries[el.path], el)
    IN  [old EXCEPT !.entries[el.path] = now,
                    !.matrix_dirty = TRUE,
                    !.matrix_watch = @ \cup watched_by(el.path, now)]

ingest_function(t, el) ==
    LET old == upsert(t, el)
        now == [old.entries[el.path] EXCEPT !.identifier = Given(el, "identifier", @)]
    IN  [old EXCEPT !.entries[el.path] = now]

\* Where the device says that names are, and parameters.
NamePlaces ==
    UNION {named_by(el.path, el.contents.labels) : el \in {e \in Elements : Says(e, "labels")}}
ParamPlaces ==
    {el.contents.params : el \in {e \in Elements : Says(e, "params")}} \ {NoPath}

\* Names are not streamed, and no function is among names or parameter nodes: a value
\* from a stream and a function do not make the names due.
ASSUME WatchAssumption ==
    /\ \A el \in {e \in Elements : Says(e, "stream")}, base \in NamePlaces :
           ~IsPrefix(base, el.path)
    /\ \A el \in {e \in Elements : e.kind = "function"}, base \in NamePlaces \cup ParamPlaces :
           ~IsPrefix(base, el.path)

ingest_element(t, el) ==
    CASE el.kind = "node" -> ingest_node(t, el)
      [] el.kind = "parameter" -> ingest_parameter(t, el)
      [] el.kind = "matrix" -> ingest_matrix(t, el)
      [] el.kind = "function" -> ingest_function(t, el)

-------------------------------------------------------------------------------
(* Names and parameter nodes of a matrix, found from the entries. *)

axis_of(identifier) ==
    CASE identifier = "targets" -> "target"
      [] identifier = "sources" -> "source"
      [] OTHER -> "neither"

Children(t, p) == t.entries[p].children
Named(t, p) == t.entries[p].value \in Names

\* Partial functions one after the other, each over the ones before it.
Overriding(maps) ==
    [n \in UNION {DOMAIN maps[i] : i \in DOMAIN maps} |->
        maps[Max({i \in DOMAIN maps : n \in DOMAIN maps[i]})][n]]

\* A per-signal node is called what a child says: a label or name first.
element_label_name(t, p) ==
    LET value == [i \in DOMAIN Children(t, p) |-> t.entries[Children(t, p)[i]].value]
        named == {i \in DOMAIN Children(t, p) : Named(t, Children(t, p)[i])}
        titled == {i \in named : t.entries[Children(t, p)[i]].identifier = "label"}
    IN  IF titled # {} THEN value[Min(titled)]
        ELSE IF named # {} THEN value[Min(named)]
        ELSE t.entries[p].identifier

\* What a child of a label node says of the signal of its number, "" if nothing.
NameSaid(t, c) ==
    CASE t.entries[c].kind = "parameter" /\ Named(t, c) -> t.entries[c].value
      [] t.entries[c].kind = "node" -> element_label_name(t, c)
      [] OTHER -> ""

StringsBelow(t, p) ==
    LET signals == {Last(c) : c \in {d \in ToSet(Children(t, p)) : Named(t, d)}}
    IN  [n \in signals |-> t.entries[Append(p, n)].value]

NamesBelow(t, p) ==
    LET signals == {Last(c) : c \in {d \in ToSet(Children(t, p)) : NameSaid(t, d) # ""}}
    IN  [n \in signals |-> NameSaid(t, Append(p, n))]

\* The axis of the i-th child, if that is a node for one.
AxisOfChild(t, base, i) ==
    LET e == t.entries[Children(t, base)[i]]
    IN  IF e.kind = "node" THEN axis_of(e.identifier) ELSE "neither"

\* The names found at a label base: it holds a node for each axis, or is one.
extract_labels(t, base, a) ==
    IF base \notin DOMAIN t.entries THEN <<>>
    ELSE IF \E i \in DOMAIN Children(t, base) : AxisOfChild(t, base, i) \in Axis
    THEN Overriding([i \in DOMAIN Children(t, base) |->
             IF AxisOfChild(t, base, i) = a THEN StringsBelow(t, Children(t, base)[i]) ELSE <<>>])
    ELSE IF axis_of(t.entries[base].identifier) = a THEN NamesBelow(t, base) ELSE <<>>

\* Of the places a label may be, the first that yields a name counts.
NamesAt(t, m, base, a) ==
    LET places == label_base_candidates(m, base)
        found == [j \in DOMAIN places |-> [b \in Axis |-> extract_labels(t, places[j], b)]]
        yielding == {j \in DOMAIN places : \E b \in Axis : found[j][b] # <<>>}
    IN  IF yielding = {} THEN <<>> ELSE found[Min(yielding)][a]

\* Later label bases override earlier ones.
NamesOf(t, m, a) ==
    LET labels == t.entries[m].labels
    IN  Overriding([i \in DOMAIN labels |-> NamesAt(t, m, labels[i], a)])

resolve_names(t, m) ==
    LET e == t.entries[m]
        found == [a \in Axis |-> NamesOf(t, m, a)]
    IN  [e EXCEPT
            !.names = [a \in Axis |-> IF found[a] = <<>> THEN @[a] ELSE found[a]],
            !.signals = [a \in Axis |-> IF found[a] # <<>> /\ @[a] = Dense(e.count[a])
                                        THEN DOMAIN found[a]
                                        ELSE @[a]]]

resolve_matrix_param_paths(t, e) ==
    LET below == IF e.params \in DOMAIN t.entries THEN Children(t, e.params) ELSE <<>>
        Of(a) == {i \in DOMAIN below : axis_of(t.entries[below[i]].identifier) = a}
    IN  [e EXCEPT !.axis_params = [a \in Axis |-> IF Of(a) = {} THEN @[a] ELSE below[Max(Of(a))]]]

resolve_matrix_labels(t) ==
    [t EXCEPT !.entries = [p \in DOMAIN @ |->
                              resolve_matrix_param_paths(t, resolve_names(t, p))]]

\* The tree after the first n elements of a document, for each n.
Ingested(t, doc) ==
    LET after[n \in 0..Len(doc)] ==
            IF n = 0 THEN t ELSE ingest_element(after[n - 1], doc[n])
    IN  after

merge(t, doc) ==
    LET ingested == Ingested(t, doc)[Len(doc)]
    IN  IF ingested.matrix_dirty
        THEN [resolve_matrix_labels(ingested) EXCEPT !.matrix_dirty = FALSE]
        ELSE ingested

\* (Faulty: a value from a stream is not a value update.)
apply_streams_silently(t, id, v) ==
    [t EXCEPT !.entries = [p \in DOMAIN @ |->
        IF p \in t.stream_index[id] THEN [@[p] EXCEPT !.value = v] ELSE @[p]]]

apply_streams(t, id, v) ==
    LET routed == t.stream_index[id] \cap DOMAIN t.entries
    IN  [t EXCEPT
            !.entries = [p \in DOMAIN @ |-> IF p \in routed THEN [@[p] EXCEPT !.value = v]
                                                            ELSE @[p]],
            !.value_updates = @ \cup routed]

-------------------------------------------------------------------------------
(* The session's side: documents arrive, the user looks around and edits. *)

\* What the device says last of p in a document.
SaidIn(doc, p) ==
    doc[Max({i \in DOMAIN doc : doc[i].path = p /\ Says(doc[i], "value")})].contents.value

Speaks(doc) == {el.path : el \in {e \in ToSet(doc) : Says(e, "value")}}

SaidOffline(doc) ==
    {el.path : el \in {e \in ToSet(doc) : Says(e, "online") /\ ~e.contents.online}}

\* The updates are taken, and the marks of what the device spoke of removed.
Take(t) ==
    /\ tree' = [t EXCEPT !.value_updates = {}]
    /\ pending' = pending \ t.value_updates

Document(doc) ==
    /\ Take(merge(tree, doc))
    /\ last' = [p \in Valued |-> IF p \in Speaks(doc)
                                 THEN [by |-> "device", value |-> SaidIn(doc, p)]
                                 ELSE last[p]]
    /\ asked' = asked \ SaidOffline(doc)

\* A stream entry speaks for the parameters that name its stream.
Stream(id, v) ==
    /\ Take(apply_streams(tree, id, v))
    /\ last' = [p \in Valued |->
                   IF p \in DOMAIN tree.entries /\ tree.entries[p].stream = id
                   THEN [by |-> "device", value |-> v]
                   ELSE last[p]]
    /\ UNCHANGED asked

\* string_edit_window: the window may still be open when its parameter is gone.
Apply(p, v) ==
    /\ tree' = IF p \in DOMAIN tree.entries THEN [tree EXCEPT !.entries[p].value = v] ELSE tree
    /\ pending' = pending \cup {p}
    /\ last' = [last EXCEPT ![p] = [by |-> "user", value |-> v]]
    /\ UNCHANGED asked

\* render_entry: a node is opened and its directory not asked for yet.
Expand(p) ==
    /\ tree.entries[p].kind # "parameter"
    /\ ~tree.entries[p].requested
    /\ Cardinality(asked) < MaxAsked
    /\ tree' = [tree EXCEPT !.entries[p].requested = TRUE]
    /\ asked' = asked \cup {p}
    /\ UNCHANGED <<pending, last>>

Connected ==
    /\ tree' = [tree EXCEPT !.entries = [p \in DOMAIN @ |-> [@[p] EXCEPT !.requested = FALSE]]]
    /\ asked' = {}
    /\ UNCHANGED <<pending, last>>

\* Retargeted, and Disconnected when the setting says so.
Cleared ==
    /\ tree' = NewTree
    /\ pending' = {}
    /\ last' = [p \in Valued |-> Nobody]
    /\ asked' = {}

Next ==
    \/ \E doc \in Documents : Document(doc)
    \/ \E id \in StreamId, v \in Levels : Stream(id, v)
    \/ \E p \in Valued, v \in Names : Apply(p, v)
    \/ \E p \in DOMAIN tree.entries : Expand(p)
    \/ Connected
    \/ Cleared

Spec == Init /\ [][Next]_vars

-------------------------------------------------------------------------------
(* Properties. *)

EntryOK(e) ==
    /\ e.kind \in Kind
    /\ e.identifier \in Identifier
    /\ e.value \in Names \cup Levels \cup {NoValue}
    /\ e.stream \in StreamId \cup {NoStream}
    /\ e.online \in BOOLEAN
    /\ e.requested \in BOOLEAN
    /\ e.children \in Seq(Paths)
    /\ e.count \in [Axis -> Nat]
    /\ e.signals \in [Axis -> SUBSET Nat]
    /\ DOMAIN e.names = Axis
    /\ \A a \in Axis : DOMAIN e.names[a] \subseteq Nat
    /\ e.labels \in Seq(Seq(Nat))
    /\ e.params \in Seq(Nat)
    /\ e.axis_params \in [Axis -> Paths \cup {NoPath}]

TreeOK(t) ==
    /\ DOMAIN t.entries \subseteq Paths
    /\ \A p \in DOMAIN t.entries : EntryOK(t.entries[p])
    /\ t.roots \in Seq(Paths)
    /\ t.stream_index \in [StreamId -> SUBSET Paths]
    /\ t.value_updates \subseteq Valued
    /\ t.matrix_watch \subseteq Seq(Nat)
    /\ t.matrix_dirty \in BOOLEAN

\* The types of all variables; between two events no update waits and no resolve
\* is owed (model.rs, merge).
TypeOK ==
    /\ TreeOK(tree)
    /\ tree.value_updates = {}
    /\ tree.matrix_dirty = FALSE
    /\ pending \subseteq Valued
    /\ last \in [Valued -> [by : {"nobody", "device", "user"},
                            value : Names \cup Levels \cup {NoValue}]]
    /\ asked \subseteq Paths

Below(t, p) == IF p = NoPath THEN t.roots ELSE Children(t, p)

Linked(t) ==
    \A p \in DOMAIN t.entries \cup {NoPath} :
        /\ IsInjective(Below(t, p))
        /\ \A c \in ToSet(Below(t, p)) : c \in DOMAIN t.entries /\ Front(c) = p

\* Whatever order elements arrive in and however often, the tree is a forest:
\* a child is listed once, exists, and is listed by its own parent only
\* (upsert, link_to_parent).
Forest == TypeOK /\ Linked(tree)

\* The names of signals and the nodes of their parameters are those a walk of the
\* whole tree would find now: the check that saves the walk on value changes
\* never skips one that was due (note_matrix_watch).  A name the user is editing is
\* taken over when the device confirms it.
NamesFresh ==
    \/ \E p \in pending : note_matrix_watch(tree, p)
    \/ resolve_matrix_labels(tree) = tree

\* A value on display is the one said last, by the device or by the user; and it
\* is marked as unconfirmed exactly when that was the user, whether the device
\* speaks in documents or in streams (merge, apply_streams, take_value_updates).
ShownIsNewest ==
    /\ \A p \in Valued \cap DOMAIN tree.entries :
        tree.entries[p].value \in {NoValue, last[p].value}
    /\ pending = {p \in Valued : last[p].by = "user"}

\* An online node that counts as fetched was asked for on this link, and after it
\* was last offline (ingest_node, Connected).
FetchedSinceOutage ==
    \A p \in DOMAIN tree.entries :
        tree.entries[p].online /\ tree.entries[p].requested => p \in asked

\* "If the parent isn't known yet, the link is re-established when it arrives (it
\* always carries the same child paths on getDirectory)" (model.rs, link_to_parent):
\* an element of a document is below its parent afterwards, if that is known.
LinkedWhenSent ==
    [][\A doc \in Documents : Document(doc) =>
        \A el \in ToSet(doc) :
            Front(el.path) \in DOMAIN tree'.entries =>
                Contains(Children(tree', Front(el.path)), el.path)]_vars

ListsNone(p, a) ==
    \A el \in Elements :
        el.path = p /\ Says(el, "signals") => a \notin DOMAIN el.contents.signals

\* "Only fall back to the (sparse) label keys when the matrix gave us nothing but a
\* dense 0..count default" (model.rs, resolve_matrix_labels): in the grid of a matrix
\* that lists no signals of its own, every signal with a name has its place.
NamedInGrid ==
    \A p \in DOMAIN tree.entries, a \in Axis :
        ListsNone(p, a) => DOMAIN tree.entries[p].names[a] \subseteq tree.entries[p].signals[a]

===============================================================================
