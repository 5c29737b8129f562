--------------------------------- MODULE Feed ---------------------------------
(***************************************************************************)
(* The events of one hub and their subscribers (emberviewer/src/hub.rs).   *)
(*                                                                         *)
(* The connection task emits statuses and documents into a broadcast       *)
(* channel that keeps the last Cap of them; each Subscriber reads at its   *)
(* own pace and skips what it was too slow for.  A new Subscriber takes    *)
(* its receiver first and then a snapshot of last_status, which it         *)
(* delivers before anything else.  The task and the subscribers run on     *)
(* different threads: emit writes last_status, then broadcasts.            *)
(***************************************************************************)
EXTENDS Naturals, Sequences

CONSTANTS
    Viewer,     \* subscribers, each attached once
    Leased,     \* those that hold a HubLease, and with it the Hub
    Cap,        \* EVENT_CAPACITY
    MaxEvents   \* bound: events emitted

ASSUME FeedAssumption ==
    /\ Leased \subseteq Viewer
    /\ Cap \in Nat \ {0}
    /\ MaxEvents \in Nat

VARIABLES
    conn,     \* the task: "down", "up", "ended"
    device,   \* how often the task was retargeted: the device it serves now
    sent,     \* every event broadcast so far; the channel keeps the last Cap
    last,     \* last_status
    emitting, \* a status written to last_status and not yet broadcast
    statuses, \* statuses emitted so far
    hubHeld,  \* somebody besides the leases holds the Hub
    \* the subscribers
    viewer,   \* "new", "receiving" (no snapshot yet), "attached", "closed"
    pos,      \* the next event to receive
    replay,   \* the snapshot, until it is delivered
    lagged,   \* it has skipped events
    \* what the viewer makes of them
    seen,     \* the number of the status last delivered
    shown,    \* the status it shows
    tree      \* the devices whose documents are in its tree

taskVars == <<conn, device, sent, last, emitting, statuses>>
viewerVars == <<viewer, pos, replay, lagged, seen, shown, tree>>
vars == <<taskVars, hubHeld, viewerVars>>

Kind == {"Connected", "Error", "Reconnecting", "Retargeted", "Disconnected"}

\* A status is its kind and the order it was emitted in; None is no status.
None == [kind |-> "None", n |-> 0]

StatusEvent == [kind : Kind, n : 1..MaxEvents]

\* A document carries the device it came from.
DocEvent == [kind : {"Document"}, device : Nat]

\* The oldest event the channel still has.
Oldest == IF Len(sent) > Cap THEN Len(sent) - Cap + 1 ELSE 1

Init ==
    /\ conn = "down"
    /\ device = 0
    /\ sent = <<>>
    /\ last = None
    /\ emitting = None
    /\ statuses = 0
    /\ hubHeld = TRUE
    /\ viewer = [v \in Viewer |-> "new"]
    /\ pos = [v \in Viewer |-> 1]
    /\ replay = [v \in Viewer |-> None]
    /\ lagged = [v \in Viewer |-> FALSE]
    /\ seen = [v \in Viewer |-> 0]
    /\ shown = [v \in Viewer |-> "Connecting"]
    /\ tree = [v \in Viewer |-> {}]

-------------------------------------------------------------------------------
(* The task.  It does nothing between the two halves of an emit.           *)

Room == Len(sent) + (IF emitting = None THEN 0 ELSE 1) < MaxEvents

\* First half of emit for a status: remember it.
Remember(kind) ==
    /\ emitting = None
    /\ Room
    /\ statuses' = statuses + 1
    /\ emitting' = [kind |-> kind, n |-> statuses + 1]
    /\ last' = emitting'
    /\ UNCHANGED <<sent, hubHeld, viewerVars>>

\* Second half: evt_tx.send.
Broadcast ==
    /\ emitting # None
    /\ sent' = Append(sent, emitting)
    /\ emitting' = None
    /\ UNCHANGED <<conn, device, last, statuses, hubHeld, viewerVars>>

Connect ==
    /\ conn = "down"
    /\ Remember("Connected")
    /\ conn' = "up"
    /\ UNCHANGED device

\* The root GetDirectory of a new session could not be written.
RootFails ==
    /\ conn = "up"
    /\ sent # <<>> /\ sent[Len(sent)].kind = "Connected"
    /\ Remember("Error")
    /\ UNCHANGED <<conn, device>>

\* A lost link, or a connect that failed.
LoseLink ==
    /\ conn # "ended"
    /\ Remember("Reconnecting")
    /\ conn' = "down"
    /\ UNCHANGED device

\* Read in a session or in the backoff, not while connecting.
Retarget ==
    /\ conn = "up" \/ last.kind = "Reconnecting"
    /\ Remember("Retargeted")
    /\ conn' = "down"
    /\ device' = device + 1

\* A Disconnect, or nobody holds the Hub any more.
End ==
    /\ conn # "ended"
    /\ Remember("Disconnected")
    /\ conn' = "ended"
    /\ UNCHANGED device

\* Documents are broadcast and not remembered.
Document ==
    /\ conn = "up"
    /\ emitting = None
    /\ Room
    /\ sent' = Append(sent, [kind |-> "Document", device |-> device])
    /\ UNCHANGED <<conn, device, last, emitting, statuses, hubHeld, viewerVars>>

-------------------------------------------------------------------------------
(* The subscribers.                                                        *)

\* What a viewer makes of an event (pump_network, apply_inbound): a status is
\* shown, Retargeted also clears the tree, an Error is only reported, and a
\* document is merged.
Shows(kind, old) ==
    CASE kind = "Error" -> old
      [] kind = "Retargeted" -> "Connecting"
      [] OTHER -> kind

\* (Faulty: a Retargeted leaves the old device's tree.)
DeliverKeepingTree(v, e) ==
    IF e.kind = "Document"
    THEN /\ tree' = [tree EXCEPT ![v] = @ \cup {e.device}]
         /\ UNCHANGED <<seen, shown>>
    ELSE /\ seen' = [seen EXCEPT ![v] = e.n]
         /\ shown' = [shown EXCEPT ![v] = Shows(e.kind, @)]
         /\ UNCHANGED tree

Deliver(v, e) ==
    IF e.kind = "Document"
    THEN /\ tree' = [tree EXCEPT ![v] = @ \cup {e.device}]
         /\ UNCHANGED <<seen, shown>>
    ELSE /\ seen' = [seen EXCEPT ![v] = e.n]
         /\ shown' = [shown EXCEPT ![v] = Shows(e.kind, @)]
         /\ tree' = [tree EXCEPT ![v] = IF e.kind = "Retargeted" THEN {} ELSE @]

TakeReceiver(v) ==
    /\ pos' = [pos EXCEPT ![v] = Len(sent) + 1]
    /\ UNCHANGED replay

TakeSnapshot(v) ==
    /\ replay' = [replay EXCEPT ![v] = last]
    /\ UNCHANGED pos

HubGone == ~hubHeld /\ \A v \in Leased : viewer[v] # "attached"

\* (Faulty: the snapshot is taken first.)
SubscribeSnapshotFirst(v) ==
    /\ \/ /\ viewer[v] = "new"
          /\ ~HubGone
          /\ viewer' = [viewer EXCEPT ![v] = "receiving"]
          /\ TakeSnapshot(v)
       \/ /\ viewer[v] = "receiving"
          /\ viewer' = [viewer EXCEPT ![v] = "attached"]
          /\ TakeReceiver(v)
    /\ UNCHANGED <<taskVars, hubHeld, lagged, seen, shown, tree>>

\* Hub::subscribe: the receiver, which starts at what is sent next, and then
\* the snapshot.
Subscribe(v) ==
    /\ \/ /\ viewer[v] = "new"
          /\ ~HubGone
          /\ viewer' = [viewer EXCEPT ![v] = "receiving"]
          /\ TakeReceiver(v)
       \/ /\ viewer[v] = "receiving"
          /\ viewer' = [viewer EXCEPT ![v] = "attached"]
          /\ TakeSnapshot(v)
    /\ UNCHANGED <<taskVars, hubHeld, lagged, seen, shown, tree>>

\* recv and drain deliver the snapshot before any broadcast event.
Replayed(v) ==
    /\ viewer[v] = "attached"
    /\ replay[v] # None
    /\ Deliver(v, replay[v])
    /\ replay' = [replay EXCEPT ![v] = None]
    /\ UNCHANGED <<taskVars, hubHeld, viewer, pos, lagged>>

Receive(v) ==
    /\ viewer[v] = "attached"
    /\ replay[v] = None
    /\ pos[v] \in Oldest..Len(sent)
    /\ Deliver(v, sent[pos[v]])
    /\ pos' = [pos EXCEPT ![v] = @ + 1]
    /\ UNCHANGED <<taskVars, hubHeld, viewer, replay, lagged>>

\* (Faulty: a receiver that fell behind starts over at the end.)
LagToEnd(v) ==
    /\ viewer[v] = "attached"
    /\ replay[v] = None
    /\ pos[v] < Oldest
    /\ pos' = [pos EXCEPT ![v] = Len(sent) + 1]
    /\ lagged' = [lagged EXCEPT ![v] = TRUE]
    /\ UNCHANGED <<taskVars, hubHeld, viewer, replay, seen, shown, tree>>

\* RecvError::Lagged: the receiver continues at the oldest event kept.
Lag(v) ==
    /\ viewer[v] = "attached"
    /\ replay[v] = None
    /\ pos[v] < Oldest
    /\ pos' = [pos EXCEPT ![v] = Oldest]
    /\ lagged' = [lagged EXCEPT ![v] = TRUE]
    /\ UNCHANGED <<taskVars, hubHeld, viewer, replay, seen, shown, tree>>

\* RecvError::Closed: recv returns None once the task and the Hub are gone,
\* for each of them has a sender.
Closed(v) ==
    /\ viewer[v] = "attached"
    /\ replay[v] = None
    /\ pos[v] > Len(sent)
    /\ conn = "ended"
    /\ emitting = None
    /\ HubGone
    /\ viewer' = [viewer EXCEPT ![v] = "closed"]
    /\ UNCHANGED <<taskVars, hubHeld, pos, replay, lagged, seen, shown, tree>>

\* A lease is dropped.
Leave(v) ==
    /\ v \in Leased
    /\ viewer[v] = "attached"
    /\ viewer' = [viewer EXCEPT ![v] = "closed"]
    /\ UNCHANGED <<taskVars, hubHeld, pos, replay, lagged, seen, shown, tree>>

\* The Hub's first owner lets go (HubRegistry::open, when the lease is made).
Release ==
    /\ hubHeld
    /\ hubHeld' = FALSE
    /\ UNCHANGED <<taskVars, viewerVars>>

-------------------------------------------------------------------------------
Task ==
    \/ Connect
    \/ RootFails
    \/ LoseLink
    \/ Retarget
    \/ End
    \/ Document
    \/ Broadcast

Reads(v) == Replayed(v) \/ Receive(v) \/ Lag(v) \/ Closed(v)

Next ==
    \/ Task
    \/ Release
    \/ \E v \in Viewer :
          \/ Subscribe(v)
          \/ Reads(v)
          \/ Leave(v)

Spec == Init /\ [][Next]_vars

(* An emit is finished, and a subscriber that is there is read: the web     *)
(* server awaits its events, the desktop drains them on every pass.        *)
Fairness ==
    /\ WF_vars(Broadcast)
    /\ \A v \in Viewer : WF_vars(Subscribe(v)) /\ WF_vars(Reads(v))

FairSpec == Spec /\ Fairness

-------------------------------------------------------------------------------
(* Properties.                                                             *)

\* Types; a cursor never runs ahead of the channel, and an emit in progress is
\* of the status just remembered.
TypeOK ==
    /\ conn \in {"down", "up", "ended"}
    /\ device \in Nat
    /\ sent \in Seq(StatusEvent \cup DocEvent)
    /\ last \in StatusEvent \cup {None}
    /\ emitting \in {last, None}
    /\ statuses = last.n
    /\ hubHeld \in BOOLEAN
    /\ viewer \in [Viewer -> {"new", "receiving", "attached", "closed"}]
    /\ pos \in [Viewer -> 1..Len(sent) + 1]
    /\ replay \in [Viewer -> StatusEvent \cup {None}]
    /\ lagged \in [Viewer -> BOOLEAN]
    /\ seen \in [Viewer -> 0..statuses]
    /\ shown \in [Viewer -> Kind \cup {"Connecting"}]
    /\ tree \in [Viewer -> SUBSET (0..device)]

\* v has read everything there is to read.
Drained(v) ==
    /\ viewer[v] = "attached"
    /\ replay[v] = None
    /\ pos[v] = Len(sent) + 1
    /\ emitting = None

\* v has heard the hub's current status and shows it.
UpToDate(v) ==
    /\ seen[v] = last.n
    /\ last.kind \notin {"None", "Error"} =>
           shown[v] = Shows(last.kind, shown[v])

\* Whenever it attaches and however emit and subscribe interleave, a viewer
\* that kept up has heard the current status once it has read everything
\* (the replay of last_status; the receiver is taken before the snapshot).
OnlyLagMisses ==
    /\ TypeOK
    /\ \A v \in Viewer : Drained(v) /\ ~lagged[v] => UpToDate(v)

\* A viewer that kept up never mixes the trees of two devices, and holds
\* nothing of the old one once it has read everything.
TreeOfOneDevice ==
    \A v \in Viewer : ~lagged[v] =>
        /\ \A d, e \in tree[v] : d = e
        /\ Drained(v) => tree[v] \subseteq {device}

\* The end of the connection reaches every viewer, slow ones too: nothing is
\* emitted after Disconnected that could push it out of the channel.
EndIsShown ==
    \A v \in Viewer :
        conn = "ended" /\ viewer[v] = "attached"
            ~> (shown[v] = "Disconnected" \/ viewer[v] = "closed")

===============================================================================
