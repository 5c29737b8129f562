---------------------------------- MODULE Hub ----------------------------------
(***************************************************************************)
(* The connection task of emberviewer/src/hub.rs and its viewers.          *)
(*                                                                         *)
(* One task owns the TCP connection of one provider.  Viewers reach it     *)
(* through an unbounded FIFO of HubMsg; it merges their commands into the  *)
(* connection and reference-counts Subscribe and Unsubscribe, so that the  *)
(* device hears one consumer.  The task survives lost links: it waits out  *)
(* a backoff, reconnects and replays the wanted subscriptions, because the *)
(* device forgets them with the connection.                                *)
(*                                                                         *)
(* The task is sequential: while it connects, or while it writes, it reads *)
(* no message.  A write to a link that is already lost may still succeed   *)
(* locally; the device then never hears of it.                             *)
(***************************************************************************)
EXTENDS Integers, Sequences, SubMap

CONSTANTS
    Viewer,       \* subscriber ids; an id is handed out once (next_id)
    Path,         \* paths of the device tree
    Addr,         \* host:port values of the provider's address-book entry
    FirstAddr,    \* the address the hub was spawned with
    KeepAlive,    \* the provider's keepalive option
    MaxBackoff,   \* MAX_BACKOFF_SECS
    QueueCap,     \* bound: messages in the FIFO
    MaxFaults,    \* bound: lost links, failed connects, false dead peers
    MaxRetargets, \* bound: edits of the address
    MaxActs       \* bound: commands other than Subscribe and Unsubscribe

ASSUME HubAssumption ==
    /\ FirstAddr \in Addr
    /\ KeepAlive \in BOOLEAN
    /\ MaxBackoff \in Nat \ {0}
    /\ QueueCap \in Nat
    /\ MaxFaults \in Nat
    /\ MaxRetargets \in Nat
    /\ MaxActs \in Nat

VARIABLES
    \* the viewers
    viewer,    \* viewer[v]: "new", "attached" (it holds a HubLease), "gone"
    want,      \* want[v]: the paths v has asked for and not given up
    target,    \* the address last asked for
    issued,    \* number of the last command issued
    queue,     \* the mpsc channel to the task
    shutdown,  \* the Hub was dropped: shutdown_rx is ready
    \* the task
    phase,     \* where the task is
    addr,      \* the address it connects to
    backoff,   \* seconds of the next wait
    due,       \* the backoff sleep has elapsed
    subs,      \* the reference counts
    todo,      \* paths the running replay or release loop has still to write
    status,    \* last_status
    \* the link and the device
    link,      \* "none", "up", or "lost" before the task has noticed
    devRefs,   \* Subscribes less Unsubscribes the device got on this link
    performed, \* number of the last command the device got
    faults,    \* faults so far
    retargets  \* edits so far

viewerVars == <<viewer, want, target, issued>>
taskVars == <<phase, addr, backoff, due, subs, todo, status>>
deviceVars == <<link, devRefs, performed>>
bounds == <<faults, retargets>>
vars == <<viewerVars, queue, shutdown, taskVars, deviceVars, bounds>>

-------------------------------------------------------------------------------
(* Messages.  Act stands for every command that is neither Subscribe,      *)
(* Unsubscribe nor Disconnect: each is one write, without state.           *)

Msg ==
    [type : {"Subscribe", "Unsubscribe"}, id : Viewer, path : Path]
    \cup [type : {"Act"}, id : Viewer, n : Nat]
    \cup [type : {"Disconnect", "Drop"}, id : Viewer]
    \cup [type : {"Retarget"}, addr : Addr]

\* What a message does to v's reference on p.
Sets(m, v, p) == m.type = "Subscribe" /\ m.id = v /\ m.path = p

Clears(m, v, p) ==
    \/ m.type = "Unsubscribe" /\ m.id = v /\ m.path = p
    \/ m.type = "Drop" /\ m.id = v

\* The reference counts after a message: sub_add, sub_remove,
\* release_subscriber, as apply_command and record_sub_intent both call them.
Counted(s, m) ==
    CASE m.type = "Subscribe" -> sub_add(s, m.path, m.id)
      [] m.type = "Unsubscribe" -> sub_remove(s, m.path, m.id)
      [] m.type = "Drop" -> release_subscriber(s, m.id)
      [] OTHER -> s

Phase == {"connecting", "opening", "replay", "session", "release",
          "backoff", "done"}

\* The phases in which the task holds a connection.
Online == {"opening", "replay", "session", "release"}

Status == {"None", "Connected", "Error", "Reconnecting", "Retargeted",
           "Disconnected"}

NoRefs == [p \in Path |-> 0]

MinOf(a, b) == IF a < b THEN a ELSE b

Init ==
    /\ viewer = [v \in Viewer |-> "new"]
    /\ want = [v \in Viewer |-> {}]
    /\ target = FirstAddr
    /\ issued = 0
    /\ queue = <<>>
    /\ shutdown = FALSE
    /\ phase = "connecting"
    /\ addr = FirstAddr
    /\ backoff = 1
    /\ due = FALSE
    /\ subs = NoSubs
    /\ todo = {}
    /\ status = "None"
    /\ link = "none"
    /\ devRefs = NoRefs
    /\ performed = 0
    /\ faults = 0
    /\ retargets = 0

-------------------------------------------------------------------------------
(* The viewers.  Sending never blocks; once the task is done the channel   *)
(* is closed and a send is ignored.                                        *)

Send(m) ==
    /\ Len(queue) < QueueCap
    /\ queue' = IF phase = "done" THEN queue ELSE Append(queue, m)

\* Hub::subscribe: a fresh id.
Attach(v) ==
    /\ viewer[v] = "new"
    /\ ~shutdown
    /\ viewer' = [viewer EXCEPT ![v] = "attached"]
    /\ UNCHANGED <<want, target, issued, queue, shutdown, taskVars, deviceVars,
                   bounds>>

SendSubscribe(v, p) ==
    /\ viewer[v] = "attached"
    /\ Send([type |-> "Subscribe", id |-> v, path |-> p])
    /\ want' = [want EXCEPT ![v] = @ \cup {p}]
    /\ UNCHANGED <<viewer, target, issued, shutdown, taskVars, deviceVars,
                   bounds>>

SendUnsubscribe(v, p) ==
    /\ viewer[v] = "attached"
    /\ Send([type |-> "Unsubscribe", id |-> v, path |-> p])
    /\ want' = [want EXCEPT ![v] = @ \ {p}]
    /\ UNCHANGED <<viewer, target, issued, shutdown, taskVars, deviceVars,
                   bounds>>

SendAct(v) ==
    /\ viewer[v] = "attached"
    /\ issued < MaxActs
    /\ issued' = issued + 1
    /\ Send([type |-> "Act", id |-> v, n |-> issued + 1])
    /\ UNCHANGED <<viewer, want, target, shutdown, taskVars, deviceVars,
                   bounds>>

SendDisconnect(v) ==
    /\ viewer[v] = "attached"
    /\ Send([type |-> "Disconnect", id |-> v])
    /\ UNCHANGED <<viewerVars, shutdown, taskVars, deviceVars, bounds>>

\* Hub::retarget, after an edit of the address-book entry; the registry finds
\* the hub only while a lease holds it.
SendRetarget(a) ==
    /\ \E v \in Viewer : viewer[v] = "attached"
    /\ a # target
    /\ retargets < MaxRetargets
    /\ retargets' = retargets + 1
    /\ target' = a
    /\ Send([type |-> "Retarget", addr |-> a])
    /\ UNCHANGED <<viewer, want, issued, shutdown, taskVars, deviceVars,
                   faults>>

\* A lease is dropped: its Arc<Hub> first, which shuts the task down when it
\* was the last, then its Subscriber, which queues Drop.
Detach(v) ==
    /\ viewer[v] = "attached"
    /\ viewer' = [viewer EXCEPT ![v] = "gone"]
    /\ want' = [want EXCEPT ![v] = {}]
    /\ shutdown' = (\A w \in Viewer \ {v} : viewer[w] # "attached")
    /\ Send([type |-> "Drop", id |-> v])
    /\ UNCHANGED <<target, issued, taskVars, deviceVars, bounds>>

-------------------------------------------------------------------------------
(* The task's exits and writes.                                            *)

\* (Faulty: the exits break out of the session, not out of the task.)
StopRetries ==
    /\ phase' = "connecting"
    /\ status' = "Disconnected"
    /\ queue' = <<>>
    /\ subs' = NoSubs
    /\ todo' = {}
    /\ link' = "none"
    /\ devRefs' = NoRefs
    /\ UNCHANGED <<addr, backoff, due>>

\* emit(Disconnected) and return: the channel and the connection go with it.
Stop ==
    /\ phase' = "done"
    /\ status' = "Disconnected"
    /\ queue' = <<>>
    /\ subs' = NoSubs
    /\ todo' = {}
    /\ link' = "none"
    /\ devRefs' = NoRefs
    /\ UNCHANGED <<addr, backoff, due>>

\* SessionEnd::Dropped: emit(Reconnecting) and wait.
Dropped ==
    /\ phase' = "backoff"
    /\ status' = "Reconnecting"
    /\ due' = FALSE
    /\ todo' = {}
    /\ link' = "none"
    /\ devRefs' = NoRefs
    /\ UNCHANGED <<addr, backoff>>

\* (Faulty: the task reconnects to the address it has.)
RetargetedNowhere(a) ==
    /\ phase' = "connecting"
    /\ status' = "Retargeted"
    /\ addr' = addr
    /\ backoff' = 1
    /\ due' = FALSE
    /\ todo' = {}
    /\ link' = "none"
    /\ devRefs' = NoRefs

\* SessionEnd::Retarget and the Retarget arm of the backoff: connect to the
\* new address at once; the subscriptions are kept for it.
Retargeted(a) ==
    /\ phase' = "connecting"
    /\ status' = "Retargeted"
    /\ addr' = a
    /\ backoff' = 1
    /\ due' = FALSE
    /\ todo' = {}
    /\ link' = "none"
    /\ devRefs' = NoRefs

\* A write that returns Ok: the device gets it if the link still stands.
Written(p, d) ==
    /\ devRefs' = IF link = "up" THEN [devRefs EXCEPT ![p] = @ + d] ELSE devRefs
    /\ UNCHANGED <<phase, status, due, addr, backoff, link>>

\* A write that returns Err: only on a lost link.
WriteFails == link = "lost" /\ Dropped

-------------------------------------------------------------------------------
(* Connecting.  The shutdown arm is polled first; nothing else is read.    *)

ConnectOk ==
    /\ phase = "connecting"
    /\ ~shutdown
    /\ phase' = "opening"
    /\ backoff' = 1
    /\ status' = "Connected"
    /\ link' = "up"
    /\ UNCHANGED <<viewerVars, queue, shutdown, addr, due, subs, todo, devRefs,
                   performed, bounds>>

ConnectFails ==
    /\ phase = "connecting"
    /\ ~shutdown
    /\ faults < MaxFaults
    /\ faults' = faults + 1
    /\ Dropped
    /\ UNCHANGED <<viewerVars, queue, shutdown, subs, performed, retargets>>

\* (Faulty: nothing is replayed to the device.)
GetRootOnly ==
    /\ phase = "opening"
    /\ phase' = "session"
    /\ todo' = {}
    /\ UNCHANGED <<viewerVars, queue, shutdown, addr, backoff, due, subs, status,
                   deviceVars, bounds>>

\* run_session's GetDirectory of the root: a failure is only reported.
GetRoot ==
    /\ phase = "opening"
    /\ phase' = "replay"
    /\ todo' = DOMAIN subs
    /\ \/ UNCHANGED status
       \/ link = "lost" /\ status' = "Error"
    /\ UNCHANGED <<viewerVars, queue, shutdown, addr, backoff, due, subs,
                   deviceVars, bounds>>

\* One turn of the replay loop, in the order of the hash map's keys.
Replay(p) ==
    /\ phase = "replay"
    /\ p \in todo
    /\ \/ Written(p, 1) /\ todo' = todo \ {p}
       \/ WriteFails
    /\ UNCHANGED <<viewerVars, queue, shutdown, subs, performed, bounds>>

\* The loop ends and the timers start.
Replayed ==
    /\ phase = "replay"
    /\ todo = {}
    /\ phase' = "session"
    /\ UNCHANGED <<viewerVars, queue, shutdown, addr, backoff, due, subs, todo,
                   status, deviceVars, bounds>>

-------------------------------------------------------------------------------
(* The session: one message at a time, each handled to its last write.     *)

Arrives(type) ==
    /\ ~shutdown
    /\ queue # <<>>
    /\ Head(queue).type = type

\* (Faulty: the reference is counted only once the write has succeeded.)
OnSubscribeWritten ==
    LET m == Head(queue) IN
    /\ phase = "session"
    /\ Arrives("Subscribe")
    /\ queue' = Tail(queue)
    /\ \/ ~FirstRef(subs, m.path) /\ UNCHANGED <<phase, status, due, addr,
                                                 backoff, todo, link, devRefs>>
       \/ FirstRef(subs, m.path) /\ Written(m.path, 1) /\ UNCHANGED todo
       \/ FirstRef(subs, m.path) /\ WriteFails
    /\ subs' = IF phase' = "session" THEN Counted(subs, m) ELSE subs
    /\ UNCHANGED <<viewerVars, shutdown, performed, bounds>>

OnSubscribe ==
    LET m == Head(queue) IN
    /\ phase = "session"
    /\ Arrives("Subscribe")
    /\ queue' = Tail(queue)
    /\ subs' = Counted(subs, m)
    /\ \/ ~FirstRef(subs, m.path) /\ UNCHANGED <<phase, status, due, addr,
                                                 backoff, todo, link, devRefs>>
       \/ FirstRef(subs, m.path) /\ Written(m.path, 1) /\ UNCHANGED todo
       \/ FirstRef(subs, m.path) /\ WriteFails
    /\ UNCHANGED <<viewerVars, shutdown, performed, bounds>>

\* (Faulty: every Unsubscribe is forwarded to the device.)
OnUnsubscribeForwarded ==
    LET m == Head(queue) IN
    /\ phase = "session"
    /\ Arrives("Unsubscribe")
    /\ queue' = Tail(queue)
    /\ subs' = Counted(subs, m)
    /\ \/ Written(m.path, -1) /\ UNCHANGED todo
       \/ WriteFails
    /\ UNCHANGED <<viewerVars, shutdown, performed, bounds>>

OnUnsubscribe ==
    LET m == Head(queue) IN
    /\ phase = "session"
    /\ Arrives("Unsubscribe")
    /\ queue' = Tail(queue)
    /\ subs' = Counted(subs, m)
    /\ \/ ~LastRef(subs, m.path, m.id) /\ UNCHANGED <<phase, status, due, addr,
                                                  backoff, todo, link, devRefs>>
       \/ LastRef(subs, m.path, m.id) /\ Written(m.path, -1) /\ UNCHANGED todo
       \/ LastRef(subs, m.path, m.id) /\ WriteFails
    /\ UNCHANGED <<viewerVars, shutdown, performed, bounds>>

\* (Faulty: the device is not told.)
OnDropSilently ==
    /\ phase = "session"
    /\ Arrives("Drop")
    /\ queue' = Tail(queue)
    /\ subs' = Counted(subs, Head(queue))
    /\ UNCHANGED <<viewerVars, shutdown, phase, addr, backoff, due, todo, status,
                   deviceVars, bounds>>

\* unsubscribe_released: the counts change first, then the writes go out.
OnDrop ==
    /\ phase = "session"
    /\ Arrives("Drop")
    /\ queue' = Tail(queue)
    /\ subs' = Counted(subs, Head(queue))
    /\ todo' = Orphaned(subs, Head(queue).id)
    /\ phase' = "release"
    /\ UNCHANGED <<viewerVars, shutdown, addr, backoff, due, status, deviceVars,
                   bounds>>

Release(p) ==
    /\ phase = "release"
    /\ p \in todo
    /\ \/ Written(p, -1) /\ todo' = todo \ {p}
       \/ WriteFails
    /\ UNCHANGED <<viewerVars, queue, shutdown, subs, performed, bounds>>

Released ==
    /\ phase = "release"
    /\ todo = {}
    /\ phase' = "session"
    /\ UNCHANGED <<viewerVars, queue, shutdown, addr, backoff, due, subs, todo,
                   status, deviceVars, bounds>>

\* (Faulty: a command that could not be written is put back for the next link.)
OnActRetried ==
    /\ phase = "session"
    /\ Arrives("Act")
    /\ \/ /\ queue' = Tail(queue)
          /\ performed' = IF link = "up" THEN Head(queue).n ELSE performed
          /\ UNCHANGED <<phase, status, due, addr, backoff, todo, link, devRefs>>
       \/ /\ queue' = Append(Tail(queue), Head(queue))
          /\ WriteFails
          /\ UNCHANGED performed
    /\ UNCHANGED <<viewerVars, shutdown, subs, bounds>>

\* GetDirectory, SetValue, RefreshValue, MatrixConnect, Invoke: one write.
OnAct ==
    /\ phase = "session"
    /\ Arrives("Act")
    /\ queue' = Tail(queue)
    /\ \/ /\ performed' = IF link = "up" THEN Head(queue).n ELSE performed
          /\ UNCHANGED <<phase, status, due, addr, backoff, todo, link, devRefs>>
       \/ WriteFails /\ UNCHANGED performed
    /\ UNCHANGED <<viewerVars, shutdown, subs, bounds>>

\* A lost link is noticed: end of stream, a read or keepalive write error,
\* or no inbound traffic for DEAD_PEER_TIMEOUT.
LinkEnds ==
    /\ phase = "session"
    /\ ~shutdown
    /\ link = "lost"
    /\ Dropped
    /\ UNCHANGED <<viewerVars, queue, shutdown, subs, performed, bounds>>

\* The dead-peer deadline passes although the device is only slow.
FalseDeadPeer ==
    /\ KeepAlive
    /\ phase = "session"
    /\ ~shutdown
    /\ link = "up"
    /\ faults < MaxFaults
    /\ faults' = faults + 1
    /\ Dropped
    /\ UNCHANGED <<viewerVars, queue, shutdown, subs, performed, retargets>>

-------------------------------------------------------------------------------
(* The backoff wait: shutdown, then the sleep, then one message.           *)

Elapse ==
    /\ phase = "backoff"
    /\ ~due
    /\ due' = TRUE
    /\ UNCHANGED <<viewerVars, queue, shutdown, phase, addr, backoff, subs,
                   todo, status, deviceVars, bounds>>

\* Both ways to the next attempt double the wait that would follow it.
Retry ==
    /\ phase' = "connecting"
    /\ backoff' = MinOf(2 * backoff, MaxBackoff)
    /\ due' = FALSE
    /\ UNCHANGED <<addr, todo, status>>

Expire ==
    /\ phase = "backoff"
    /\ ~shutdown
    /\ due
    /\ Retry
    /\ UNCHANGED <<viewerVars, queue, shutdown, subs, deviceVars, bounds>>

\* (Faulty: what arrives while the link is down is not counted.)
BackoffMsgIgnored ==
    /\ phase = "backoff"
    /\ ~due
    /\ \/ Arrives("Subscribe")
       \/ Arrives("Unsubscribe")
       \/ Arrives("Drop")
       \/ Arrives("Act")
    /\ queue' = Tail(queue)
    /\ Retry
    /\ UNCHANGED <<viewerVars, shutdown, subs, deviceVars, bounds>>

\* Any command or Drop ends the wait.  A subscription or a Drop is counted
\* (record_sub_intent, release_subscriber); every other command is lost.
BackoffMsg ==
    /\ phase = "backoff"
    /\ ~due
    /\ \/ Arrives("Subscribe")
       \/ Arrives("Unsubscribe")
       \/ Arrives("Drop")
       \/ Arrives("Act")
    /\ queue' = Tail(queue)
    /\ subs' = Counted(subs, Head(queue))
    /\ Retry
    /\ UNCHANGED <<viewerVars, shutdown, deviceVars, bounds>>

-------------------------------------------------------------------------------
(* Messages the session and the backoff treat alike.                       *)

Listening == phase = "session" \/ (phase = "backoff" /\ ~due)

OnRetarget ==
    /\ Listening
    /\ Arrives("Retarget")
    /\ queue' = Tail(queue)
    /\ Retargeted(Head(queue).addr)
    /\ UNCHANGED <<viewerVars, shutdown, subs, performed, bounds>>

OnDisconnect ==
    /\ Listening
    /\ Arrives("Disconnect")
    /\ Stop
    /\ UNCHANGED <<viewerVars, shutdown, performed, bounds>>

\* The Hub is dropped.  No arm is polled while a write is awaited.
ShutDown ==
    /\ shutdown
    /\ phase \in {"connecting", "session", "backoff"}
    /\ Stop
    /\ UNCHANGED <<viewerVars, shutdown, performed, bounds>>

\* The link breaks; the device forgets the connection's subscriptions.
LinkLost ==
    /\ link = "up"
    /\ faults < MaxFaults
    /\ faults' = faults + 1
    /\ link' = "lost"
    /\ devRefs' = NoRefs
    /\ UNCHANGED <<viewerVars, queue, shutdown, taskVars, performed, retargets>>

\* The task has returned.
Done == phase = "done" /\ UNCHANGED vars

-------------------------------------------------------------------------------
Viewers ==
    \/ \E v \in Viewer :
          \/ Attach(v)
          \/ Detach(v)
          \/ SendAct(v)
          \/ SendDisconnect(v)
          \/ \E p \in Path : SendSubscribe(v, p) \/ SendUnsubscribe(v, p)
    \/ \E a \in Addr : SendRetarget(a)

HandleMsg ==
    \/ OnSubscribe
    \/ OnUnsubscribe
    \/ OnDrop
    \/ OnAct
    \/ BackoffMsg
    \/ OnRetarget
    \/ OnDisconnect

Loops ==
    \/ GetRoot
    \/ \E p \in Path : Replay(p) \/ Release(p)
    \/ Replayed
    \/ Released

Next ==
    \/ Viewers
    \/ ConnectOk
    \/ ConnectFails
    \/ Loops
    \/ HandleMsg
    \/ LinkEnds
    \/ FalseDeadPeer
    \/ Elapse
    \/ Expire
    \/ ShutDown
    \/ LinkLost
    \/ Done

Spec == Init /\ [][Next]_vars

-------------------------------------------------------------------------------
(* Fairness.  Every await of the task completes: a connect, a write and a  *)
(* sleep end, a message that is there is read, and with keepalives a lost  *)
(* link is noticed.  The viewers and the network owe nothing.              *)

Fairness ==
    /\ WF_vars(ConnectOk)
    /\ WF_vars(Loops)
    /\ WF_vars(HandleMsg)
    /\ WF_vars(Elapse)
    /\ WF_vars(Expire)
    /\ WF_vars(ShutDown)
    /\ KeepAlive => WF_vars(LinkEnds)

FairSpec == Spec /\ Fairness

-------------------------------------------------------------------------------
(* Properties.                                                             *)

ViewersTypeOK ==
    /\ viewer \in [Viewer -> {"new", "attached", "gone"}]
    /\ want \in [Viewer -> SUBSET Path]
    /\ target \in Addr
    /\ issued \in Nat
    /\ queue \in Seq(Msg)

TaskTypeOK ==
    /\ phase \in Phase
    /\ addr \in Addr
    /\ backoff \in 1..MaxBackoff
    /\ DOMAIN subs \subseteq Path
    /\ subs \in [DOMAIN subs -> (SUBSET Viewer) \ {{}}]
    /\ todo \subseteq Path
    /\ status \in Status

DeviceTypeOK ==
    /\ link \in {"none", "up", "lost"}
    /\ devRefs \in [Path -> Int]
    /\ performed \in Nat
    /\ faults \in Nat
    /\ retargets \in Nat

FlagTypeOK == shutdown \in BOOLEAN /\ due \in BOOLEAN

\* Types; no path is left with an empty set of references, and the wait stays
\* within 1..MAX_BACKOFF_SECS.
TypeOK == ViewersTypeOK /\ TaskTypeOK /\ DeviceTypeOK /\ FlagTypeOK

\* The paths the device holds exactly one subscription for are those that
\* some subscriber references, whenever the task is between two messages of a
\* live session: the device hears only the 0 -> 1 and 1 -> 0 transitions
\* (apply_command, unsubscribe_released and the replay of run_session).
DeviceInSync ==
    phase = "session" /\ link = "up" =>
        \A p \in Path : devRefs[p] = IF p \in DOMAIN subs THEN 1 ELSE 0

\* The paths the device is subscribed to at every point of the task's loops.
OnDevice ==
    CASE phase = "opening" -> {}
      [] phase = "replay" -> DOMAIN subs \ todo
      [] phase = "release" -> DOMAIN subs \cup todo
      [] OTHER -> DOMAIN subs

\* The strengthening of DeviceInSync that every step preserves.
LinkInSync ==
    /\ link # "none" <=> phase \in Online
    /\ link # "up" => devRefs = NoRefs
    /\ link = "up" =>
           \A p \in Path : devRefs[p] = IF p \in OnDevice THEN 1 ELSE 0
    /\ phase = "replay" => todo \subseteq DOMAIN subs
    /\ phase = "release" => todo \cap DOMAIN subs = {}
    /\ phase \notin {"replay", "release"} => todo = {}

\* v's reference on p, once the queue is read: the last message about it
\* decides, and the counts do when there is none.
Pending(q, s, v, p) ==
    \/ \E i \in 1..Len(q) : /\ Sets(q[i], v, p)
                            /\ \A j \in i+1..Len(q) : ~Clears(q[j], v, p)
    \/ /\ Holds(s, v, p)
       /\ \A j \in 1..Len(q) : ~Clears(q[j], v, p)

\* Whatever the link does - lost, retargeted, waiting - no interest is
\* forgotten and none outlives its viewer: what a viewer asked for is what
\* the counts and the unread messages say together (record_sub_intent and
\* release_subscriber against apply_command; Drop is a viewer's last message).
IntentPreserved ==
    phase # "done" =>
        \A v \in Viewer, p \in Path :
            p \in want[v] <=> Pending(queue, subs, v, p)

\* End to end: once the messages are read, a live device serves each path
\* that an attached viewer wants once, and nothing else.
ServedIsWanted ==
    phase = "session" /\ link = "up" /\ queue = <<>> =>
        \A p \in Path :
            devRefs[p] = IF \E v \in Viewer : p \in want[v] THEN 1 ELSE 0

\* The commands still to come are newer than those performed, in order.
ActsAhead ==
    /\ performed <= issued
    /\ \A i \in 1..Len(queue) : queue[i].type = "Act" =>
           /\ performed < queue[i].n
           /\ queue[i].n <= issued
           /\ \A j \in i+1..Len(queue) :
                  queue[j].type = "Act" => queue[i].n < queue[j].n

\* The inductive invariant of HubProofs.
IInv == TypeOK /\ LinkInSync /\ IntentPreserved /\ ActsAhead

\* A command (SetValue, MatrixConnect, Invoke, ...) reaches the device at
\* most once and in the order issued: the reconnect replays subscriptions
\* only, so a lost command stays lost.
ActsInOrder == [][performed' # performed => performed' > performed]_vars

\* The hub implements Fanout.  A subscriber's interests are its references;
\* a path whose Unsubscribe the release loop has yet to write is no longer
\* counted as served.
Interest == [v \in Viewer |-> {p \in DOMAIN subs : v \in subs[p]}]

Live == phase \in {"session", "release"} /\ link = "up"

Served == IF Live THEN {p \in Path : devRefs[p] > 0} \ todo ELSE {}

Promise == INSTANCE Fanout
    WITH interest <- Interest, live <- Live, served <- Served

KeepsPromise == Promise!Spec

\* A path asked for is eventually subscribed at the device, unless it is
\* given up or the hub ends, across lost links and retargets.
WantServed ==
    \A v \in Viewer, p \in Path :
        p \in want[v] ~> (p \notin want[v] \/ devRefs[p] = 1 \/ phase = "done")

\* A path nobody wants any more is eventually unsubscribed.
UnwantedReleased ==
    \A p \in Path :
        (\A v \in Viewer : p \notin want[v])
            ~> (devRefs[p] = 0 \/ \E v \in Viewer : p \in want[v])

\* An edited address is eventually the one connected to, although a connect
\* in progress is not interrupted for it.
RetargetReached ==
    \A a \in Addr :
        target = a ~> (target # a \/ phase = "done"
                       \/ (addr = a /\ phase \in Online))

\* Dropping the last lease ends the task, wherever it is.
ShutdownCompletes == shutdown ~> phase = "done"

===============================================================================
