--------------------------------- MODULE Session ---------------------------------
(***************************************************************************)
(* A desktop session (app.rs): what the UI shows of one provider, what it  *)
(* asks for, subscribes to and sets, against a hub whose connection comes  *)
(* and goes and that may be pointed at another device.                     *)
(*                                                                         *)
(* logic() drains the hub's events (pump_network); ui(), which the system  *)
(* skips while the window is minimised, sends the commands.  The provider  *)
(* has one matrix, with parameters below it and labels in a sub-tree of    *)
(* their own.  The hub is that of module Hub, reduced to what the session  *)
(* sees of it: it walks the root when it has connected, keeps count of     *)
(* subscriptions, and drops other commands while it has no connection.     *)
(* The device tells a viewer of each change of a value.                    *)
(***************************************************************************)
EXTENDS Naturals, Sequences, FiniteSets, SequencesExt

CONSTANTS
    Switch,      \* boolean parameters
    Text,        \* string parameters
    MaxAttempts, \* LABEL_FETCH_MAX_ATTEMPTS
    MaxEvents,   \* bound: events that wait before the hub adds more
    MaxCmds,     \* bound: commands that wait for the hub
    MaxFaults,   \* bound: lost connections, retargets and requests dropped
    Locks,       \* bound: whether the lock and the window of a matrix signal are used
    MaxActs      \* bound: writes of the user and changes on the device

Path == Switch \cup Text

\* A provider's tree is finite, and a parameter has one type.
ASSUME SessionAssumption ==
    /\ IsFiniteSet(Path)
    /\ Switch \cap Text = {}
    /\ MaxAttempts \in Nat
    /\ MaxEvents \in Nat
    /\ MaxCmds \in Nat
    /\ Locks \in BOOLEAN

Value == {0, 1}

Unknown == 2

NoPath == "none"

VARIABLES
    s,      \* the session (App::sessions) and what the UI shows of it
    locked, \* the safety lock
    events, \* from the hub, not yet drained
    cmds,   \* to the hub, not yet taken
    hub,    \* the hub: whether it is connected, subscriptions
    value,  \* value[p]: of the parameter on the device the hub is pointed at
    pulsed, \* switches whose last change was the user's pulse
    lost,   \* label requests the session made that no one will answer
    lapse,  \* a connection was lost since the user's first write
    faults, acts

vars == <<s, locked, events, cmds, hub, value, pulsed, lost, lapse, faults, acts>>

-------------------------------------------------------------------------------
(* The session, as a value.                                                *)

\* node and labels: the entries of the matrix and of its label sub-tree are in the
\* tree; requested: that of the matrix; expanded: `open`; fetched: label_fetch has
\* the matrix; tries: label_retry; popup: signal_params; signal: label_fetch has
\* the signal; edit: string_edit.
NewSession ==
    [active |-> TRUE, node |-> FALSE, requested |-> FALSE, expanded |-> FALSE,
     fetched |-> FALSE, labels |-> FALSE, tries |-> 0,
     shown |-> [p \in Path |-> Unknown], subscribed |-> {}, pending |-> {},
     pulses |-> {}, popup |-> FALSE, signal |-> FALSE, edit |-> {}]

\* An empty TreeModel.
NoTree(t) ==
    [t EXCEPT !.node = FALSE, !.requested = FALSE, !.labels = FALSE,
              !.shown = [p \in Path |-> Unknown], !.pending = {}]

\* (Faulty: the subscriptions are forgotten, as those of the connection.)
ConnectedForgetting(t) == [t EXCEPT !.requested = FALSE, !.subscribed = {}]

Connected(t) == [t EXCEPT !.requested = FALSE]

Retargeted(t) == NoTree(t)

\* A Document: a value is authoritative, whatever was shown before.
Known(t, vals) ==
    [t EXCEPT !.shown = [p \in Path |-> IF p \in DOMAIN vals THEN vals[p] ELSE @[p]],
              !.pending = @ \ DOMAIN vals]

Pumped(t, e) ==
    CASE e.kind = "Connected"  -> Connected(t)
      [] e.kind = "Retargeted" -> Retargeted(t)
      [] e.kind = "Root"       -> [t EXCEPT !.node = TRUE]
      [] e.kind = "Values"     -> IF t.node THEN Known(t, e.vals) ELSE t
      [] e.kind = "Labels"     -> IF t.node THEN [t EXCEPT !.labels = TRUE] ELSE t

\* The rows on screen.
Rows(t) ==
    IF t.active /\ t.node /\ t.expanded
    THEN {p \in Path : t.shown[p] # Unknown} ELSE {}

Send(kind, p, v) == [kind |-> kind, path |-> p, val |-> v]

\* process_pulses: of every session, shown or not.
PulsesDue(t, due) ==
    [to |-> [t EXCEPT !.pulses = @ \ due],
     out |-> SetToSeq({Send("Set", p, 0) : p \in due})]

\* A matrix on screen is asked for once, open or not (and again by LazyFetch).
EagerFetch(t) ==
    IF t.active /\ t.node /\ ~t.fetched
    THEN [to |-> [t EXCEPT !.fetched = TRUE], out |-> <<Send("GetNode", NoPath, 0)>>]
    ELSE [to |-> t, out |-> <<>>]

\* (Faulty: an attempt counts though its time has not come and nothing is sent.)
label_fetch_eagerly(t, when) ==
    IF t.active /\ t.node /\ ~t.labels /\ t.tries < MaxAttempts
    THEN [to |-> [t EXCEPT !.tries = @ + 1],
          out |-> IF when THEN <<Send("GetLabels", NoPath, 0)>> ELSE <<>>]
    ELSE [to |-> t, out |-> <<>>]

\* label_fetch_step: a sub-tree that is not there is asked for again, some time
\* later (when), until its attempts are used up.
label_fetch_step(t, when) ==
    IF t.active /\ t.node /\ ~t.labels /\ t.tries < MaxAttempts /\ when
    THEN [to |-> [t EXCEPT !.tries = @ + 1], out |-> <<Send("GetLabels", NoPath, 0)>>]
    ELSE [to |-> t, out |-> <<>>]

\* An open node is asked for once a connection.
LazyFetch(t) ==
    IF t.active /\ t.node /\ t.expanded /\ ~t.requested
    THEN [to |-> [t EXCEPT !.requested = TRUE], out |-> <<Send("GetNode", NoPath, 0)>>]
    ELSE [to |-> t, out |-> <<>>]

\* tree_panel, at its end: subscribe the rows that appeared, unsubscribe those gone.
Reconcile(t) ==
    IF t.active
    THEN [to |-> [t EXCEPT !.subscribed = Rows(t)],
          out |-> SetToSeq({Send("Subscribe", p, 0) : p \in Rows(t) \ t.subscribed}
                           \cup {Send("Unsubscribe", p, 0) : p \in t.subscribed \ Rows(t)})]
    ELSE [to |-> t, out |-> <<>>]

-------------------------------------------------------------------------------
(* What the user can do in a pass of ui(): one thing, or nothing.          *)

Idle == [what |-> "nothing", path |-> NoPath, val |-> 0]

Click(what, p, v) == [what |-> what, path |-> p, val |-> v]

\* editor(): a boolean is pulsed, or set to what it is not; a text is typed over.
editor(t, S) ==
    {Click("Pulse", p, 1) : p \in S \cap Switch}
    \cup {Click("Set", p, 1 - t.shown[p]) : p \in S \cap Switch}
    \cup {Click("Set", p, v) : p \in S \cap Text, v \in Value}

\* The rows are gated by the lock; the window of a matrix signal, which shows what
\* is known of its parameters, and the string editor are not.
RowWrites(t) == editor(t, Rows(t))

PopupWrites(t) ==
    IF t.active /\ t.popup THEN editor(t, {p \in Path : t.shown[p] # Unknown}) ELSE {}

EditorWrites(t) ==
    IF t.active THEN {Click("Apply", p, v) : p \in t.edit, v \in Value} ELSE {}

Writes(t) == (IF locked THEN {} ELSE RowWrites(t)) \cup PopupWrites(t) \cup EditorWrites(t)

Gestures(t) ==
    {Idle, Click("Activate", NoPath, 0)}
    \cup (IF Locks THEN {Click("Lock", NoPath, 0)} ELSE {})
    \cup (IF t.active /\ t.node
          THEN {Click("Expand", NoPath, 0)} ELSE {})
    \cup (IF Locks /\ t.active /\ t.popup THEN {Click("Close", NoPath, 0)} ELSE {})
    \cup (IF Locks /\ t.active /\ t.node /\ t.expanded
          THEN {Click("Popup", NoPath, 0)} ELSE {})
    \cup (IF locked THEN {} ELSE {Click("Edit", p, 0) : p \in Rows(t) \cap Text})
    \cup (IF t.active /\ t.edit # {} THEN {Click("Cancel", NoPath, 0)} ELSE {})

\* Every click but Apply.
ClickedElse(t, c) ==
    CASE c.what = "Pulse" ->
            [to |-> [t EXCEPT !.pulses = @ \cup {c.path}], out |-> <<Send("Set", c.path, 1)>>]
      [] c.what = "Set" ->
            [to |-> [t EXCEPT !.pulses = IF c.val = 0 THEN @ \ {c.path} ELSE @],
             out |-> <<Send("Set", c.path, c.val)>>]
      [] c.what = "Edit"     -> [to |-> [t EXCEPT !.edit = {c.path}], out |-> <<>>]
      [] c.what = "Cancel"   -> [to |-> [t EXCEPT !.edit = {}], out |-> <<>>]
      [] c.what = "Expand"   -> [to |-> [t EXCEPT !.expanded = ~@], out |-> <<>>]
      [] c.what = "Close"    -> [to |-> [t EXCEPT !.popup = FALSE], out |-> <<>>]
      [] c.what = "Popup"    -> \* a signal's parameters are asked for once
            [to |-> [t EXCEPT !.popup = TRUE, !.signal = TRUE],
             out |-> IF t.signal THEN <<>> ELSE <<Send("GetNode", NoPath, 0)>>]
      [] c.what = "Activate" -> [to |-> [t EXCEPT !.active = ~@], out |-> <<>>]
      [] OTHER               -> [to |-> t, out |-> <<>>]

\* (Faulty: the value applied is shown as if it were the device's.)
ClickedUnmarked(t, c) ==
    CASE c.what = "Apply" ->
            [to |-> [t EXCEPT !.edit = {}, !.shown[c.path] = c.val],
             out |-> <<Send("Set", c.path, c.val)>>]
      [] OTHER -> ClickedElse(t, c)

\* (Faulty: the reset of a pulse is not scheduled.)
ClickedWithoutReset(t, c) ==
    IF c.what = "Pulse" THEN [to |-> t, out |-> <<Send("Set", c.path, 1)>>]
    ELSE ClickedElse(t, c)

Clicked(t, c) ==
    CASE c.what = "Apply" -> \* shown at once, marked, and read back
            [to |-> [t EXCEPT !.edit = {}, !.pending = @ \cup {c.path},
                              !.shown[c.path] = IF t.node /\ @ # Unknown THEN c.val ELSE @],
             out |-> <<Send("Set", c.path, c.val), Send("Refresh", c.path, 0)>>]
      [] OTHER -> ClickedElse(t, c)

-------------------------------------------------------------------------------
(* The passes of the UI thread.                                            *)

Fault == faults < MaxFaults /\ faults' = faults + 1

Act == acts < MaxActs /\ acts' = acts + 1

\* logic(): what waits is applied, event by event.
Logic ==
    /\ events # <<>>
    /\ s' = Pumped(s, Head(events))
    /\ events' = Tail(events)
    /\ UNCHANGED <<locked, cmds, hub, value, pulsed, lost, lapse, faults, acts>>

\* ui(): pulses that are due, the click, and what the panel asks for.
Ui(c, due, when) ==
    LET a == PulsesDue(s, due)
        b == Clicked(a.to, c)
        e == EagerFetch(b.to)
        f == label_fetch_step(e.to, when)
        g == LazyFetch(f.to)
        h == Reconcile(g.to)
        out == a.out \o b.out \o e.out \o f.out \o g.out \o h.out
    IN  /\ Len(cmds) + Len(out) <= MaxCmds
        /\ s' = h.to
        /\ cmds' = cmds \o out
        /\ locked' = IF c.what = "Lock" THEN ~locked ELSE locked
        /\ UNCHANGED <<events, hub, value, lost, lapse, faults>>

\* A write is counted; the rest is free.
UiPass ==
    \E due \in SUBSET s.pulses, when \in BOOLEAN :
        \/ \E c \in Gestures(s) : Ui(c, due, when) /\ UNCHANGED <<acts, pulsed>>
        \/ \E c \in Writes(s) :
              /\ Act
              /\ Ui(c, due, when)
              /\ pulsed' = IF c.what = "Pulse" THEN pulsed \cup {c.path}
                           ELSE pulsed \ {c.path}

-------------------------------------------------------------------------------
(* The hub and the device (module Hub; the device is external).            *)

Emit(es) ==
    /\ Len(events) < MaxEvents
    /\ events' = events \o es

\* The values of a device that nobody has set yet.
AtRest == [p \in Path |-> 0]

Event(kind) == [kind |-> kind]

Values(S, v) == [kind |-> "Values", vals |-> [p \in S |-> v[p]]]

Taken(c) == cmds # <<>> /\ c = Head(cmds) /\ cmds' = Tail(cmds)

\* Subscriptions are counted with or without a connection.
TakeSubscription(c) ==
    /\ Taken(c)
    /\ c.kind \in {"Subscribe", "Unsubscribe"}
    /\ hub' = [hub EXCEPT !.subs = IF c.kind = "Subscribe" THEN @ \cup {c.path}
                                   ELSE @ \ {c.path}]
    /\ UNCHANGED <<s, locked, events, value, pulsed, lost, lapse, faults, acts>>

\* Requests are answered by the device.
TakeRequest(c) ==
    /\ hub.up
    /\ Taken(c)
    /\ \/ c.kind = "GetRoot" /\ Emit(<<Event("Root")>>)
       \/ c.kind = "GetNode" /\ Emit(<<Values(Path, value)>>)
       \/ c.kind = "Refresh" /\ Emit(<<Values({c.path}, value)>>)
       \/ c.kind = "GetLabels" /\ Emit(<<Event("Labels")>>)
    /\ UNCHANGED <<s, locked, hub, value, pulsed, lost, lapse, faults, acts>>

\* A value is set, and reported; the device may refuse a text.
TakeWrite(c) ==
    /\ hub.up
    /\ Taken(c)
    /\ c.kind = "Set"
    /\ \/ /\ value' = [value EXCEPT ![c.path] = c.val]
          /\ Emit(<<Values({c.path}, value')>>)
       \/ /\ c.path \in Text
          /\ UNCHANGED <<value, events>>
    /\ UNCHANGED <<s, locked, hub, pulsed, lost, lapse, faults, acts>>

\* A device drops label requests in the burst of the first walk.
DropRequest(c) ==
    /\ Fault
    /\ hub.up
    /\ Taken(c)
    /\ c.kind = "GetLabels"
    /\ lost' = lost + 1
    /\ UNCHANGED <<s, locked, events, hub, value, pulsed, lapse, acts>>

\* Without a connection the rest is dropped.
TakeOffline(c) ==
    /\ ~hub.up
    /\ Taken(c)
    /\ c.kind \notin {"Subscribe", "Unsubscribe"}
    /\ lost' = IF c.kind = "GetLabels" /\ lost < MaxAttempts THEN lost + 1 ELSE lost
    /\ UNCHANGED <<s, locked, events, hub, value, pulsed, lapse, faults, acts>>

Lose ==
    /\ Fault
    /\ hub.up
    /\ hub' = [hub EXCEPT !.up = FALSE]
    /\ lapse' = TRUE
    /\ UNCHANGED <<s, locked, events, cmds, value, pulsed, lost, acts>>

Connect ==
    /\ ~hub.up
    /\ hub' = [hub EXCEPT !.up = TRUE]
    /\ Emit(<<Event("Connected"), Event("Root")>>)
    /\ UNCHANGED <<s, locked, cmds, value, pulsed, lost, lapse, faults, acts>>

\* The provider's address was edited: another device, with values of its own.
Retarget ==
    /\ Fault
    /\ hub' = [hub EXCEPT !.up = FALSE]
    /\ value' = AtRest
    /\ Emit(<<Event("Retargeted")>>)
    /\ lapse' = TRUE
    /\ lost' = MaxAttempts \* what was asked of the old device is not asked again
    /\ UNCHANGED <<s, locked, cmds, pulsed, acts>>

\* A value changes on the device; the viewers that are connected are told.
DeviceChange(p) ==
    /\ Act
    /\ value' = [value EXCEPT ![p] = 1 - @]
    /\ pulsed' = pulsed \ {p}
    /\ IF hub.up THEN Emit(<<Values({p}, value')>>) ELSE UNCHANGED events
    /\ UNCHANGED <<s, locked, cmds, hub, lost, lapse, faults>>

Init ==
    /\ s = NewSession
    /\ locked \in (IF Locks THEN BOOLEAN ELSE {FALSE})
    /\ events = <<>>
    /\ cmds = <<Send("GetRoot", NoPath, 0)>>
    /\ hub = [up |-> FALSE, subs |-> {}]
    /\ value = AtRest
    /\ pulsed = {}
    /\ lost = 0
    /\ lapse = FALSE
    /\ faults = 0
    /\ acts = 0

Next ==
    \/ Logic \/ UiPass
    \/ \E c \in ToSet(cmds) :
          TakeSubscription(c) \/ TakeRequest(c) \/ TakeWrite(c) \/ DropRequest(c) \/ TakeOffline(c)
    \/ Lose \/ Connect \/ Retarget
    \/ \E p \in Path : DeviceChange(p)

Spec == Init /\ [][Next]_vars

-------------------------------------------------------------------------------
(* Properties.                                                             *)

SessionType ==
    [active : BOOLEAN, node : BOOLEAN, requested : BOOLEAN, expanded : BOOLEAN,
     fetched : BOOLEAN, labels : BOOLEAN, tries : 0..MaxAttempts,
     shown : [Path -> Value \cup {Unknown}], subscribed : SUBSET Path,
     pending : SUBSET Path, pulses : SUBSET Switch, popup : BOOLEAN,
     signal : BOOLEAN, edit : SUBSET Text]

EventType ==
    [kind : {"Connected", "Retargeted", "Root", "Labels"}]
    \cup [kind : {"Values"}, vals : UNION {[S -> Value] : S \in SUBSET Path}]

Cmd ==
    [kind : {"GetRoot", "GetNode", "GetLabels"}, path : {NoPath}, val : {0}]
    \cup [kind : {"Subscribe", "Unsubscribe", "Refresh", "Set"}, path : Path, val : Value]

TypeOK ==
    /\ s \in SessionType
    /\ events \in Seq(EventType) /\ Len(events) <= MaxEvents + 1
    /\ cmds \in Seq(Cmd)
    /\ hub \in [up : BOOLEAN, subs : SUBSET Path]
    /\ value \in [Path -> Value]
    /\ pulsed \in SUBSET Switch
    /\ lost \in Nat
    /\ locked \in BOOLEAN /\ lapse \in BOOLEAN

\* No message is in the set A; the last one that is in A is in its subset G.
NoneIn(msgs, A) == \A i \in 1..Len(msgs) : msgs[i] \notin A

LastIn(msgs, A, G) ==
    \E i \in 1..Len(msgs) :
        /\ msgs[i] \in G
        /\ \A j \in i + 1..Len(msgs) : msgs[j] \notin A

\* Commands about the subscription of p.
Subscribing(p) == [kind : {"Subscribe"}, path : {p}, val : Value]

About(p) == [kind : {"Subscribe", "Unsubscribe"}, path : {p}, val : Value]

\* Whether the hub will have p counted once it has taken what waits.
Counted(p) ==
    LastIn(cmds, About(p), Subscribing(p)) \/ (p \in hub.subs /\ NoneIn(cmds, About(p)))

\* "We keep our `subscribed` set intact (clearing it would desync the ref-counts)"
\* (app.rs:649): the session and the hub agree on what is subscribed, through lost
\* connections, retargets and sessions out of sight.
SubscriptionsAgree ==
    /\ TypeOK
    /\ \A p \in Path : p \in s.subscribed <=> Counted(p)

Settled ==
    /\ hub.up
    /\ events = <<>>
    /\ cmds = <<>>

\* Once everything sent is taken and everything answered is drained, a row shows
\* the value of the device or is marked as pending: whatever was set, applied,
\* refused or lost, changed while there was no connection, or was another device's.
ShownIsTrue ==
    Settled /\ s.requested =>
        \A p \in Rows(s) : s.shown[p] = value[p] \/ p \in s.pending

\* "Set true, then false": a pulse that was not overtaken by another write ends
\* with false on the device, if the connection held.
PulseEnds ==
    Settled /\ ~lapse =>
        \A p \in pulsed \ s.pulses : value[p] = 0

Count(msgs, kind) == Cardinality({i \in 1..Len(msgs) : msgs[i].kind = kind})

\* The attempts at the labels (label_fetch_step) are used up only by requests that
\* were lost: a sub-tree that could still be fetched is not given up.
GivesUpOnlyOnLoss ==
    ~s.labels => s.tries <= lost + Count(cmds, "GetLabels") + Count(events, "Labels")

\* The safety lock ("When true, value/route/invoke controls start locked", settings.rs:99)
\* and its padlock ("lock/arm the value/route/invoke controls", app.rs:1084): while
\* it is on, no control takes a write.
LockHolds == locked => Writes(s) = {}

===============================================================================
