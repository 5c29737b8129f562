# EmberViewer: a verification project

TLA+ models of EmberViewer (`src/`), a viewer and controller for Ember+ devices
("providers"): a desktop program that talks S101/Glow over TCP to devices and,
through a built-in web server, shares its connections with browsers. The models
are checked with TLC on small instances; the most important results are proved
with TLAPS for every instance.

Paths below are relative to `src/crates/`; `hub.rs`, `server.rs`, `app.rs`,
`web.rs` and so on are in `emberviewer/src/`.

## 1. Inventory

### 1.1 Components

| Component | State it keeps | Operations | What makes it correct |
|---|---|---|---|
| **Hub task** (`hub.rs`: `run_connection`, `run_session`, `apply_command`) | TCP link, address, backoff, reference counts `subs`, `last_status` | connect, replay, forward a command, count Subscribe/Unsubscribe, wait out a backoff, retarget, end | The device hears one consumer: one subscription per wanted path, none for others, across lost links, retargets and departures. Commands are performed at most once and in order. It ends when nobody holds it. |
| **Event fan-out** (`hub.rs`: `emit`, `subscribe`, `Subscriber`) | a bounded broadcast channel, a snapshot of the last status | emit, subscribe with replay, drain / recv, lag | A viewer that kept up knows the current status and holds the tree of one device only; the end reaches everybody. |
| **Registry and leases** (`hub.rs`: `HubRegistry`, `HubLease`, `Hub`) | weak references to hubs by provider id, the `alive` flag, leases | open, retarget, drop | One running hub per provider, shared by all; nobody waits on a dead one; a hub without leases ends. |
| **Session timing** (`hub.rs`: `run_session`'s select) | keep-alive ticker, idle deadline | keep-alive, dead-peer detection | A live link is not cut, a dead one is. |
| **Provider connection** (`ember-net/src/connection.rs`) | socket halves, decoder, decoded frames not delivered yet, traffic counters | recv, send | No decoded message is lost or overtaken. |
| **S101 framing** (`ember-proto/src/s101.rs`) | bytes of a frame under way, payload under reassembly | encode, push | Whatever the reads and the damage, each whole message is delivered; nothing is invented; memory is bounded. |
| **Glow codec** (`ember-proto/src/glow.rs`) | none | encode, decode | Round trips. |
| **Tree model** (`model.rs`) | nodes by path, children, streams, labels, a log of value updates | merge, apply_streams, resolve labels | The tree is a tree however elements arrive; values are the newest. |
| **Desktop sessions** (`app.rs`) | one session per open provider: lease, tree, subscriptions, fetches, pulses, pending marks, invocations | connect, disconnect, pump_network, reconcile, set, invoke, pulse | Subscriptions match what is visible; a pulse is reset; a result belongs to its call. |
| **Web server** (`server.rs`) | policy (token, read-only), a copy of the address book, per socket one lease | handshake, open, forward, deny, restart | A socket's commands reach the provider it named and no other; a read-only server changes nothing. |
| **Browser client** (`web.rs`, `web_transport.rs`) | socket, current provider, tree, subscriptions, editor, pending marks | reconnect, open, apply events, reconcile, edit | It shows one provider's tree, recovers by itself, and its subscriptions are those the hub has. |
| **Wire protocol** (`ember-web-proto`) | none | JSON and document frames | Round trips. |
| **Address book** (`address_book.rs`) | folders and providers, next id | add, rename, move, remove, graft, load, save | It stays a tree with unique ids; sessions and hubs, keyed by these, follow it; a node lands where it was dropped. |
| **Files** (`fsutil.rs`, `settings.rs`, `address_book.rs`) | two files, a temporary and a `.bak` of each | load or recover, atomic write, quarantine | A crash leaves the old or the new file; what cannot be used is kept. |
| **Server mode** (`app.rs`: `sync_server`, `restart_server`; `server.rs`: `start`) | settings, the handle of a listener, listeners still closing | switch on and off, reconfigure | What the options show is what runs. |
| **Update check, discovery, debug log, widgets, entry points, test provider** | little or none | HTTP request, mDNS, log files, drawing | see "Not modelled" |

### 1.2 Interactions

```
 device <--TCP bytes--> FrameDecoder/Connection <--> hub task --broadcast--> Subscriber (desktop pass)
                                                      ^  ^                  Subscriber (socket handler) --WS--> browser
                                            mpsc FIFO |  | retarget / drop
                                       HubLease.send -+  +- HubRegistry <- app.rs (edits), server.rs (opens)
```

* Viewers send `HubMsg` through an unbounded FIFO; the task reads one at a time,
  and none while it connects or writes.
* The task sends events through a broadcast channel of 4096 entries that drops
  the oldest for slow readers, and keeps the last status for late ones.
* The desktop's frame loop drains its subscribers without waiting; each socket
  handler awaits its own.
* The address book is edited by the desktop and copied to the server once per
  frame.

### 1.3 What is hard

Concurrency: several viewers on one connection; opens, edits and drops against a
task that is ending. Failure: links that die before anybody notices, writes that
succeed locally only, frames damaged or cut. Ordering: snapshot against stream,
replay against queued messages, documents of a provider no longer shown.
Timeouts: backoff, dead peers, reconnects. Bounds: channel capacity, frame and
reassembly caps. `PROJECT.json` lists the hazards at their lines with the
properties that guard them; those without a property yet are the plan's backlog.

## 2. Modules

| Module | Models | Composes |
|---|---|---|
| `SubMap` | the reference counts: `sub_add`, `sub_remove`, `release_subscriber` | |
| `Fanout` | abstract: many viewers, one consumer | |
| `Hub` | one hub task, its viewers, the link and the device | `SubMap`; implements `Fanout` |
| `HubProofs` | theorems about `Hub` | `Hub` |
| `Feed` | events from `emit` to what a viewer shows | |
| `Registry` | the registry, leases and hubs of one provider, the desktop and sockets that open and edit it | |
| `Browser` | one browser and its socket handler | |
| `Framing` | S101 between a device and `ProviderReader` | |
| `Tree` | a viewer's tree of a provider, and the events and edits that change it | |
| `Book` | the address book, the desktop's operations on it, and the sessions and hubs keyed by it | |
| `AtomicFile` | abstract: a file that is always one whole version | |
| `Store` | loading, saving and moving aside a settings file or an address book; who saves at start-up | implements `AtomicFile` |
| `Serve` | server mode: options, listeners, what a socket keeps of the one that accepted it | |
| `Session` | a desktop session: what it shows, asks for, subscribes to and sets | |
| `FeedProofs`, `StoreProofs`, `BookProofs`, `TreeProofs`, `FramingProofs` | theorems about the module of that name | that module |
| `BrowserProofs` | theorems about `Browser` and about `Serve`, whose own names start with `Serve` where the two would meet | `Browser`, `Serve` |
| `SessionProofs` | theorems about `Session` and about `Registry`, whose own names start with `Registry` where the two would meet | `Session`, `Registry` |
| `MC*` | constants for TLC | |

Definitions keep the source's names where they translate one function; the map in
`PROJECT.json` gives the lines of each. A definition marked *(Faulty: ...)* is a
plausible mistake used to confirm that a property notices it; the models do not
use it.

### 2.1 Hub

State: `viewer`, `want`, `target`, `issued` belong to the viewers; `queue` is the
mpsc channel and `shutdown` the oneshot that fires when the `Hub` is dropped;
`phase` says at which await the task stands (`connecting`, `opening` = the root
GetDirectory, `replay` = the loop over `subs` after a connect, `session` = the
select, `release` = the loop of `unsubscribe_released`, `backoff`, `done`).
`link` is `"lost"` when the connection is dead and the task has not noticed;
`devRefs` counts what the device has heard on this link.

Actions: a viewer's sends (`SendSubscribe`, `SendUnsubscribe`, `SendAct` for every
command without state, `SendDisconnect`, `SendRetarget`, `Detach`); the task's
steps, one per await (`ConnectOk`, `ConnectFails`, `GetRoot`, `Replay`,
`OnSubscribe`, `OnUnsubscribe`, `OnDrop`, `Release`, `OnAct`, `OnRetarget`,
`OnDisconnect`, `LinkEnds`, `FalseDeadPeer`, `Elapse`, `BackoffMsg`, `Expire`,
`ShutDown`); and the environment (`LinkLost`). A message is counted before it is
written, as in `apply_command`, so a failing write leaves the count; a write to a
lost link may succeed and reach nobody. In the backoff a command is recorded
(`record_sub_intent`) or dropped, and the wait is over.

### 2.2 Feed

`emit` is two steps (`Remember` the status, `Broadcast` it) and so is `subscribe`
(`TakeReceiver`, `TakeSnapshot`): the order in which they interleave decides
whether a late viewer misses a status. `sent` is every event, of which the
channel keeps the last `Cap`; `Lag` moves a cursor forward as `RecvError::Lagged`
does. `Deliver` is what the viewer makes of an event (`pump_network`: a retarget
empties the tree). One viewer holds a lease; a bare subscriber does not keep the
`Hub` alive. The web page does not empty its tree in the same places as the
desktop; its side is in `Browser`.

### 2.3 Registry

One provider id; several hubs in turn. `task[h]` has the two steps at the end of
`run_connection` apart: `Disconnected` is emitted (`"ending"`), then the alive flag
cleared (`"ended"`), because a viewer can open in between. The desktop edits the
`book` and sends a retarget to the hub it finds; a socket first reads the address
(`picked`) and opens later. `lease` and the weak `entry` decide who holds what;
`Dropped(h)` is the end of the last strong reference.

### 2.4 Browser

Both directions of a socket are FIFOs (`up`, `down`); `Break` loses what is under
way up and a suffix of what is under way down. The browser's actions are the arms of
`apply_inbound`, `try_reconnect`, and what the user does in a frame (`Open`,
`Reconcile`, `SetInRow`, `OpenEditor`, `Apply`, `Cancel`); the handler's are the arms of
`handle_ws`. `tree` records the providers whose documents were merged, and
`performed` the provider a SetValue ended at. A hub is only what it sends
(`Forward`) and the set of paths wanted through the socket's lease (`wants`);
counting across viewers is `Hub`'s.

### 2.5 Framing

The device writes frames, byte by byte as `frame_message` and `encode_ember`
produce them, with keep-alives, provider states and messages that parse as
nothing in between, and damages some; `Read` takes any chunk up to `ReadBuf` and
pushes it through the decoder; `Deliver` is the loop of `recv`. A message keeps
its command, flags and payload. The CRC is a sum modulo 256: a damaged message
fails it, and its own byte may need escaping. A payload nobody sent (the remains
of a broken run) may or may not decode. What the code does byte by byte (`Crc`, `Body`,
`Unescape`, `Push`) is a recursive function over the bytes, as the proofs need it. A
frame is long enough for a package with every byte escaped (`FrameAssumption`), which is
what the comment at `MAX_FRAME_BYTES` says of the two limits.

### 2.6 Tree

`tree` is the `TreeModel`, a record with its fields; `Document` is the arm of
`pump_network` for a document, `merge` and the removal of pending marks included, and
`merge` ingests the elements one after the other. A document is what the decoder makes
of the bytes of a device (`TreeAssumption`). The operators below it have the
names of the methods. The fields of a matrix that come in two, for targets and for
sources, are functions of `Axis`. An element's contents are a record of the fields it
carries, and `Overlay` keeps the others. Signal lists are sets (a list is sent in
increasing order), identifiers one of each class the resolvers tell apart, values
strings (`Names`) or not (`Levels`). `last` and `asked` only observe: who spoke last
of a value, and which directories were asked for.

### 2.7 Book

A book is a value: `kids` (the children of each folder, in order), `entry` (the
contents of each provider) and `next`. The methods of `AddressBook` are operators on
it; the code finds ids by recursive searches, which come to a look-up because the
book is a tree, which is what `ATree` checks. `Reid` numbers the copies of a merge in
the preorder of the code's recursion. The actions are the handlers of `app.rs`, each
with its save, the sessions and the hub it tells: `Edit` (`add_dialog`), `Move`
(`dispatch_sidebar`), `RemoveNode` (every session below the node is closed),
`Merge`, `Replace`, `Restart` in each start-up mode. A dialog may be confirmed
after its node is gone, so ids are any that were handed out. A hub is reduced to
its address and lives while the desktop or a browser (`web`) holds it; `strays` are
the hubs that were live when `Replace` changed the book under them. Saves succeed
here; failing ones are in `Store`. A book to import is a tree whose preorder meets
each node once (`BookAssumption`), as nested JSON is. Folder names, renames and descriptions are left
out.

### 2.8 Store

One behaviour is about one of the files (`which`). The file system is external: a
name has contents and a set of contents that may be left after a power loss, and
`older` are the directories that a power loss may bring back. `write_atomic` is
four steps that may each fail, and `Kill` may come between any two.
`load_or_recover` is four actions: the file is absent or parses (`Load`), is
moved aside (`Quarantine`), cannot be moved (`QuarantineFails`), or, for settings
that cannot be read or are not UTF-8, counts as absent (`QuietDefault`). Saves
come from the sessions that start-up opens one by one (`StartupConnect`: in any
order, each saves the list so far), from opening and closing sessions, from update checks
(throttled by the day on record) and from changes of the book. `AtomicFile` is the
promise in `fsutil.rs`'s comment; `Atomic` is the refinement.

### 2.9 Serve

`server` is the `ServerHandle`; dropping it only signals the listener, so the
listener it ran lives on in `listener` until `WindDown`. `restart_server` binds again
at once, while the old listener may or may not have closed. A socket copies the
`ServerState` of the listener that accepted it. Another program may take a port.

### 2.10 Session

`s` is the session: whether its matrix is known, open and asked for, values shown,
`subscribed`, pending marks, pulses waiting for their reset, the string editor and the
window of a signal. `Logic` drains the events (`pump_network`), one a step, since the
hub may add more while it does, and an event left for later is one that came later;
`UiPass` is one pass of
`ui()` with at most one click, in the order of the code: pulses that are due, the
click, the eager fetches, the lazy ones, and the reconcile of subscriptions. The
system skips `ui()` while the window is minimised, so it may stay away. The hub is
`Hub` as a session sees it: subscriptions are counted at any time, the rest is
dropped without a connection. The device reports every change of a value, may
refuse a text, and may drop label requests in the burst of the first walk.
`pulsed` and `lapse` only observe. The fetch of the code's timers is a free choice
(`when`, `due`): a property holds whatever the intervals.

## 3. Runs

| Run | Question | Result |
|---|---|---|
| `hub_safety` | Do the counts, the queue and the device stay in step; are commands performed once, in order; is `Fanout` implemented; does the proofs' invariant hold? | yes |
| `hub_live` | Is a wanted path subscribed, an unwanted one released, an edited address reached, an abandoned hub ended? | yes |
| `feed` | Does a viewer that kept up know the status and hold one device's tree; does the end reach all? | yes |
| `registry` | Is the running hub found and shared; is nobody left on a dead one; do abandoned hubs end? | yes |
| `browser` | Do tree, commands and subscriptions stay with their provider; is what is shown served again after a reconnect? | yes |
| `framing` | Does every whole message arrive, in order, and nothing else, within the caps? | yes |
| `tree` | Whatever order elements arrive in: is the tree a forest, are names and values the newest, are fetch flags and pending marks right? | yes |
| `book` | Is the book always a tree; do sessions, hubs, disk and the list of the last session follow it; does a drop land where it was aimed; is a merge an exact copy? | yes |
| `store` | Is a file always one whole version, through kills and power losses (`AtomicFile`); is what could not be used kept? | yes |
| `serve` | Is what the options show what runs; is the server lost only to a clash over its port? | yes |
| `session` | Do subscriptions agree with the hub's; is what is shown the device's or marked; does a pulse end; are labels given up only after lost requests? | yes |
| `session_lock` | Does the safety lock hold for every control? | no: finding |

`PROJECT.json` names each run's properties, and for each property of a passing run
a mutation of the model that breaks it. Types are part of an invariant of each run.
Beside the runs there are configurations that each refute one statement; section 5
names them.

### Bounds and why they are enough

* **hub**: two viewers and two paths, so that a path is shared, private and
  unwanted and the loops over paths have a middle; two addresses and one
  retarget; two faults, so that a link is lost again during the recovery; a wait
  up to 2 seconds, so that it doubles and is capped; three unread messages, two
  numbered commands. Viewers and paths are symmetric; the liveness run uses no
  symmetry and a shorter queue.
* **feed**: a channel of two entries and four events, so that readers lag in the
  middle and at the end.
* **registry**: the desktop and two sockets, two addresses, two hubs (three in
  `MCRegistry_target.cfg`), so that a hub is replaced while another is still ending.
* **browser**: two providers that share their two paths, one broken link, two unread
  messages up and one down before more are sent: enough for a switch, a removal
  and a reconnect to overtake messages of every kind. The bounds on unread
  messages limit the user and the hub only, never the handlers.
* **framing**: one byte per package and payloads of up to four packages, two bytes
  of reassembly, frames of up to six bytes (what the longest valid frame
  needs), plain bytes, the escape byte and both delimiters; three messages, one
  damaged frame; reads of one to seven bytes, so that a read ends anywhere in a
  frame and can complete two.
* **tree**: eight documents about ten elements, so that parents and children, a matrix
  and its names, a value and its stream come in either order; a name as a parameter
  and one as a node with a label; a name that changes; a root that goes offline; one
  directory asked for at a time. A device keeps its stream identifiers. Nothing else
  bounds the run: documents repeat at will.
* **book**: three ids, so that a folder can hold a folder with a provider in it, or two
  siblings, and a move can go before, after, into and below; an import of a folder
  with a provider in it, whose ids are not in preorder; two addresses; one browser, so
  that a hub outlives its session. `MovesAsAsked` tries every move to every place
  (`Drops`) at every state, those the user has not made included.
* **store**: two providers, so that start-up saves a partial list; faults and renames
  enough for a save that fails, is killed or loses power after a quarantine; two
  days, so that an update check is due once.
* **serve**: two ports, two tokens (symmetric) and a blank one, one socket, two
  listeners, so that one closes while its successor is bound or refused, one port
  taken by another program.
* **session**: a switch and a text under one matrix, a device and one it is exchanged
  for, two commands under way; the hub adds events only when those before are drained
  (the bounds hold the user and the hub back, never a pass under way), two attempts at
  the labels, two writes or changes, one fault: so that a write crosses a change, a pulse its reset, a lost request a retry. The lock and
  the window of a signal are explored in `session_lock`.

Deadlock is not checked where the system comes to rest: when the bounds are used
up, or when everybody has left. `Hub` states its final state as a stuttering
action.

### Fairness

* `Hub`: weak fairness of the task's own steps: each await completes. That a lost
  link is noticed is assumed only with keep-alives on (the idle deadline notices
  it). A write that never completes is outside the assumption: the select is not
  polled meanwhile, and the code has no limit for it. Viewers, faults and edits owe
  nothing.
* `Feed`: an emit finishes; a subscriber that exists is read (the handler awaits,
  the desktop drains on every pass).
* `Registry`: a task whose hub is dropped sees its shutdown, which is an arm of
  every wait, and clears its flag.
* `Browser`: the page runs frames, which drain the inbox and reconnect a closed
  socket, and the handler reads its socket. The user and the link owe nothing.

The other modules check safety only: nothing in them waits for another task.

## 4. Proofs

The modules `*Proofs` hold for all values of the constants that satisfy the
assumptions named in each component's module. Nothing else is assumed, and TLC
evaluates the assumptions in every run.

| Assumption | What it says, and why the code justifies it |
|---|---|
| `HubAssumption`, `RegistryAssumption` | A hub starts with an address, and its longest wait is not zero; the desktop is not a socket, and "none" not an address. |
| `FeedAssumption` | The channel holds at least one event (it holds 4096); who has a lease is a viewer. |
| `BrowserAssumption` | A provider's tree is finite, as documents are; "no provider" is not a provider's id. |
| `StoreAssumption` | Contents are told apart: what another program left, a torn file, no file, and the contents of each of the two files. |
| `ServeAssumption` | There is a port to start with; a blank token is not a token. |
| `BookAssumption` | A provider's entry is a record of its name and address; a file that is imported is a tree (it is nested JSON) and its preorder meets each node once. The second follows from the first, by an induction over trees that is not done here; TLC evaluates it. |
| `SessionAssumption` | A provider's tree is finite; a parameter has one type. |
| `FramingAssumption`, `FrameAssumption` | What a device means to send are bytes, a package and a read are not empty; a frame has room for a package with every byte escaped (the comment at `MAX_FRAME_BYTES`: 64 KiB for packages of 1024 bytes). |
| `TreeAssumption` | What the decoder makes of any bytes: paths are not empty, an element has the fields of its kind; a string is not a number. |
| `KindAssumption` | A path names an element of one kind. `upsert` keeps the kind an entry has first: with two, the fields of one would go to the other. Used by `TreeFetchedSinceOutage` and what follows. |
| `StreamAssumption` | A parameter stays in one stream: `stream_index` keeps every stream it was in (`model.rs:427`, section 5). Used by `TreeShownIsNewest` and what follows. |
| `WatchAssumption` | Names of signals are not streamed and no function is among them: `apply_streams` and `ingest_function` do not make the names due (section 5). Used by `TreeNamesFresh`. |

Bounds (`MaxEvents`, `MaxUp`, ...) are only assumed to be natural numbers, so each
theorem holds however far a behaviour goes.

**Hub.** `DeviceInSync` and `ServedIsWanted` only speak of the moments between two
messages, so they are not inductive. The invariant is

    IInv == TypeOK /\ LinkInSync /\ IntentPreserved /\ ActsAhead

* `LinkInSync` says what the device holds at every point of the two loops: while
  replaying, the counted paths less those still to do; while releasing, the
  counted paths and those still to do. `DeviceInSync` is its case "session".
* `IntentPreserved` relates what each viewer wants to the counts *and the unread
  messages*: the last message about a path decides. It needs two facts about
  queues: appending a message (`AppendPending`) and taking the first one while
  counting it (`TailPending`).
* `ActsAhead`: the numbers in the queue increase and are above the last one
  performed.

The step lemmas (`TypeStep`, `LinkStep`, `IntentStep`, `ActsStep`) have one case per
group of actions. `AddOK`, `RemoveOK`, `ReleaseOK` and `CountedOK` say what the
reference counting does, once. From `Inductive` follow `TypeCorrect`,
`DeviceAlwaysInSync`, `IntentAlwaysPreserved`, `ServedAlwaysWanted` and
`ActsAlwaysInOrder`. `Implements` (`Spec => KeepsPromise`) maps a subscriber's
references to its interests and the device's subscriptions, less those the release
loop has yet to write, to `served`: a counted message is `Add`, `Remove` or `Leave`,
the end of the replay `GoLive`, a lost link `GoDown`, the end of the task `End`,
everything else a stutter. The types of `Hub` are a theorem of their own
(`TypeCorrect`); the `hub_safety` run checks them as part of `IInv`.

**Registry.** `TypeOK`, `Reachable` and `NobodyWaitsOnZombie` are inductive together:
`HubRegistry::open` replaces the entry only when no lease holds it or its flag is
down, and the snapshot of the last status tells a viewer that opens between
`Disconnected` and the flag. `AlwaysReachable` and `NobodyEverWaitsOnZombie` follow.

**Feed.** What a viewer shows once it has read everything depends on the events it has
yet to read, so

    FeedInv == TypeOK /\ Numbered /\ Fresh /\ LastIsSent /\ Hears /\ DevicesInOrder /\ TreeFollows

says it of any point of the stream. `Hears`: a viewer with no status left to read is up
to date or has the current one as its snapshot. That holds wherever the two steps
of `subscribe` fall between the two of `emit` because of `LastIsSent`: the remembered
status is the last one broadcast, or is about to be. `DevicesInOrder` and
`TreeFollows`: between two documents of different devices there is a Retargeted, which
empties the tree. `NothingMissed` and `OneDevice` follow.

**Browser.** `TreeIsCurrents` and `CommandsReachTheirProvider` need what is under way.
`BrowserInv` adds `LastWord` (the last message under way about a path, an OpenProvider
being about all of them, asks for what the browser believes; without one the handler
has done so), `NeedsCurrent` and `ClosedIsGone` (a browser that is told its socket is
closed has no handler any more). `TreeOfCurrent`, `CommandsArriveHome` and
`SubscriptionsTrue` follow.

**Store.** `KeptAside` speaks of what the disk would hold after a power loss. `StoreInv`
adds that the two lasting names are whole in every directory that may come back
(`AllSynced`: the temporary file is synced before the rename), that the program's
contents are its own (`OwnContent`), and `Aside`: what could not be used is under the
file's name or in the backup in every such directory, and in the backup whenever the
program may save. From it `AlwaysKeptAside` and the refinement `SavesAreAtomic`
(`Spec => Atomic`): the rename is `Put`, and so is a move to the backup (of "no file");
what the system writes back is `Settle`; every other step of `write_atomic` is a stutter.

**Serve.** `OptionsAreTrue` is inductive as it stands; `restart_server` and `sync_server`
share the lemma `StartedOK`. `OptionsTrue` and, of each step, `OnlyToClash`.

**Book.** `ATree` needs a definition of "below" that a proof can use: `Below(b, x)` is what
every set with `x` that is closed under children has (`BelowFacts`, `BelowLeast`), so that
a move of `x` outside of it leaves no cycle (`MovedOK`). `InsertFacts`, `PlaceFacts` and
`WithoutFacts` say what the list of a folder is after a drop, `ReidFacts` and
`GraftFacts` what a merge appends. The invariant is

    BookInv == TypeOK /\ Tree(book) /\ SurvivesRestart /\ SessionsMatch /\ Handed

where `Handed` says that no hub but a stray runs ahead of the id counter: an id given
to a new provider has no hub yet, which would have the wrong address.
`BookStaysATree`, `SessionsFollowTheBook`, `RestartsFindIt`, `MovesGoWhereAsked` and the
action property `MergesCopy` follow.

**Session.** What a session shows is true only when all is settled, and everything
that is still under way can change it. Each part of

    SessionInv == SubscriptionsAgree /\ NodeFirst /\ TruthAhead /\ Before /\ ResetAhead
                  /\ TriesOfTree /\ GivesUpOnlyOnLoss

says what the *last* message of a kind that waits will leave (`LastIn`, `NoneIn`):

* `SubscriptionsAgree` (it holds the types): a path is in `subscribed` if and only if
  the hub will count it once it has taken the last command about it.
* `TruthAhead`: once the matrix was asked for on the present connection, each value
  has been asked for (a GetNode or the read-back of Apply waits), or the last report
  that waits tells it, or nothing waits and it is shown, unknown or marked.
* `ResetAhead`: the last write that waits about a pulsed switch says false, or none
  waits and the device has false, unless the reset is yet to come.
* `TriesOfTree` and `GivesUpOnlyOnLoss`: attempts at labels are accounted for by
  requests or answers under way, or lost.
* `NodeFirst` and `Before` are what the others need at the start and after a retarget.

`ConcatLast`, `TailLast`, `ConcatCount` and `TailCount` say how last messages and counts
change when messages are added and taken, `ListFacts` that the order in which a pass
lists a set of commands does not matter; `UiStep` puts the stages of `ui()`
together. `SubscriptionsStayTrue`, `RowsTellTheTruth`, `PulsesEnd` and
`LabelsNotGivenUp` follow.

**Framing.** Where a read ends must not matter, so the invariant speaks of `Ahead`, the
decoder as it will be when all on the wire has been pushed, and of `Heard`, what has
been delivered and will be:

    FramingInv == TypesInv /\ RunOK /\ SentOK /\ KeptOK

* `TypesInv`: `TypeOK`; what the device has yet to write are the last packages of the
  payload under way, which is whole unless something is `broken` (`DeviceOK`); a decoder
  between two reads holds no results (`ReaderOK`).
* `RunOK`: while the payload can still arrive, the packages written so far are what
  `Ahead` has reassembled.
* `SentOK`: whatever should arrive is certain to be delivered when it is decoded.
* `KeptOK`: an increasing map picks what should arrive out of `Heard`, what it picks of
  the delivered part being delivered; unless a longer payload was broken, it leaves out
  only what nobody can see.

A stream can be cut anywhere (`PushGrows`: pushing two pieces is pushing their
concatenation), so `Read` changes neither `Ahead` nor `Heard`. What a written frame adds
to `Ahead` is said by three lemmas, for a package (`PackageArrives`), another message
(`OtherArrives`) and a damaged frame (`DamagedArrives`), which rest on what unescaping
makes of an escaped message, whatever its bytes, and on the sum over a changed byte.
`FramingTypes`, `FramingStillDecodes` and `FramingNothingInvented` follow.

**Tree.** Each theorem has an invariant of its own above

    TreeInv == Sound(tree) /\ TypeOK

where `Sound` says that the tree is well formed and `Linked` (`Good`), that a parameter is
listed under its stream and under none that nobody said it is in (`Routes`), and that an
entry has a kind that was sent for its path and no parameter counts as fetched
(`Fetchable`). `Forest` follows from it (`TreeForest`). `FetchedSinceOutage` and
`ShownIsNewest` are inductive with it; a merge is followed element by element, so that
the last element that speaks of a value is the one that counts.
`NamesFresh` says that resolving the names again changes nothing, which depends on
everything that is read to resolve them:

    NamesInv == TreeInv /\ Watched(tree) /\ UpToDate(tree, pending)

* `Watched`: every place where a matrix has its names or parameters is watched, and
  nothing is but places the device has named.
* `UpToDate`: the names are the result of resolving them (`AllFresh`), unless the user is
  changing one.

That an element outside of the watched places changes no name is the lemma that
carries it: what is read is below a place that is watched.

**Induction over data.** The theorems on `Framing` and `Tree` are about what is computed
over sequences of any length. The library's induction theorems take an operator and
cannot be used; the proofs use them as sets: a set of numbers that holds 0 and with n
also n + 1 holds every number (`Induction`), because otherwise there is a least one
missing (`LeastOf`, from the fact that < is well-founded). What a recursive function
computes is then the set of n up to which it does so.

**Model-checked only.** All liveness properties (fairness and ENABLED are out of the
prover's reach), the end of `Feed` among them, and the statements that are refuted
(section 5). Every safety property of the passing runs is a theorem.

## 5. Findings

`session_lock` - the window of a matrix signal (`app.rs:2309`) draws its editors without
the lock, and opens from a header that the lock leaves live: with the padlock
locked its pulses, switches and texts are still sent. The web page locks the same
window (`web.rs:523`).

Statements of the code's comments that one configuration each refutes:

| Configuration | Property | What happens |
|---|---|---|
| `MCBrowser_switch.cfg` | `EditsStayHome` | `open_provider` (`web.rs:140`) keeps an open string editor; its Apply then sets the parameter of that path on the provider shown by then. |
| `MCFraming_resync.cfg` | `ResyncsAtFirst` | after `ReassemblyTooLong` the rest of the discarded payload is yielded as a payload of its own (`s101.rs:344`), against the comment there. |
| `MCRegistry_target.cfg` | `TargetIsBook` | an open that read the address before an edit connects to the old address after it (`hub.rs:250`, `server.rs:290`). |
| `MCTree_orphan.cfg` | `LinkedWhenSent` | `upsert` (`model.rs:805`) links an element only when it is new: one that came before its parent stays out of the tree for good. |
| `MCTree_grid.cfg` | `NamedInGrid` | once labels have replaced a dense signal list (`model.rs:637`), labels of later documents add no signals to the grid. |
| `MCBook_replace.cfg` | `StableIds` | an import that replaces the book keeps the sessions, whose ids may now name other providers (`app.rs:882`, "stable unique identifier" at `address_book.rs:17`). |
| `MCStore_overwrite.cfg` | `NothingOverwritten` | settings that cannot be read, or are not UTF-8, count as "no file yet" (`settings.rs:187`) and are overwritten by the next save, which the comment at `settings.rs:178` sets out to prevent; an address book that cannot be moved aside likewise. |
| `MCServe_readonly.cfg` | `ReadOnlyHolds` | a socket keeps the policy it was accepted under: a browser that was in when read-only was ticked goes on changing values (`settings.rs:120`). |

Seen while modelling, without a configuration:

* any command or departing viewer ends the backoff wait and doubles the next one
  (`hub.rs:374`; the comment names shutdown, Disconnect and retarget);
* a subscriber's own lease keeps a sender alive, so `recv` never returns `None` after
  the end (`hub.rs:189`);
* an `OpenProvider` for a removed provider leaves the old lease in place
  (`server.rs:298`);
* a parameter whose stream identifier changes keeps the old route (`model.rs:427`);
* a name that came by a stream, and the identifier of a function among the parameters
  of a matrix, would not make the names due (`apply_streams`, `ingest_function`);
* a restart of the server on the same port may find the port still held by the
  listener it replaces, and then turns the server off for good (`app.rs:631`);
* editing a provider drops its description (`update_provider(.., None)` in `add_dialog`);
* a crash while start-up connects leaves the part of the list connected so far as
  "the last session" (`app.rs:477`); two instances share one temporary file; a second
  quarantine overwrites the first `.bak`; errors of `settings.save` are ignored;
* pulses, the string editor and label attempts survive a retarget (`app.rs:699`), so the
  reset of a pulse may go to the new device and its labels may not be fetched:
  `GivesUpOnlyOnLoss` counts a retarget as lost requests, `PulseEnds` is about
  connections that hold; setting a switch to true within a pulse does not cancel
  the reset;
* the string editor's Apply is not gated by a lock set after it was opened;
* no front end sends `NetCommand::Disconnect`.

## 6. Plan

Done: `SubMap`, `Fanout`, `Hub`, `Feed`, `Registry`, `Browser`, `Framing`, `Tree`, `Book`,
`AtomicFile`, `Store`, `Serve`, `Session`, and proofs about each: every safety property of
the passing runs is a theorem. Left, in this order:

1. `Timing` - `run_session`'s select in time: keep-alive ticker, idle deadline, writes
   in progress. Refines the "link is noticed" assumption of `Hub`.
2. Invocation ids across viewers (results are broadcast and keyed by per-viewer
   counters), crosspoints and slider throttling in `Session`.
3. Abstract specifications: a set-of-messages channel for `Framing`; "one provider
   at a time" for `Browser`.

## 7. Not modelled, and why

* **Glow codec, wire JSON**: data layout; documents and messages are records.
* **Discovery, update check, debug log**: a library's list (adding a provider from it
  is in `Book`), one request and a version comparison (when it runs and what it saves
  is in `Store`), log files.
* **Widgets, matrix view**: drawing; what the lock and the string editor let through is in
  `Session` and `Browser`, the rest is a function of modelled state.
* **Entry points, build script, test provider, examples, docs**: not part of the
  running system's logic.
* Within modelled components: the order of two providers' events (each hub has its
  own channel), the web server's static files, bind address and keep-alive setting, the browser's pending
  marks, labels, meters and function results, traffic counters and frame dumps; in the
  tree, crosspoints, packed streams, enumerations and other display fields; in a
  session, invocations, crosspoints, sliders, meters, the change log and the filter; in
  the address book, names of folders and descriptions.
* **Session timing**: planned; `Hub` has its outcomes, without the time.
