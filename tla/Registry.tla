------------------------------- MODULE Registry -------------------------------
(***************************************************************************)
(* HubRegistry of emberviewer/src/hub.rs, for one provider, with the       *)
(* viewers that open it: the desktop (app.rs) and the browser sockets      *)
(* (server.rs).                                                            *)
(*                                                                         *)
(* The registry keeps a weak reference to the provider's hub; the leases   *)
(* keep the hub itself.  A hub whose last lease is dropped shuts its task  *)
(* down, which takes a while; a task that was told to disconnect ends      *)
(* under its leases.  The address of the provider is in the address book,  *)
(* which the desktop's UI thread owns; the sockets read a catalog copied   *)
(* from it on every frame.                                                 *)
(***************************************************************************)
EXTENDS Naturals, Sequences

CONSTANTS
    Web,       \* browser sockets
    Desk,      \* the desktop's session
    Addr,      \* host:port values
    NoAddr,    \* none of them
    MaxHubs,   \* bound: hubs spawned
    InboxCap   \* bound: messages to a task

ASSUME RegistryAssumption ==
    /\ Desk \notin Web
    /\ NoAddr \notin Addr
    /\ MaxHubs \in Nat
    /\ InboxCap \in Nat

Viewer == Web \cup {Desk}

\* Hubs are numbered as they are spawned; 0 is none.
Hub == 1..MaxHubs

VARIABLES
    book,     \* the provider's address in the address book
    catalog,  \* the server's copy of it
    picked,   \* picked[v]: the address a socket has read and not yet opened
    entry,    \* the registry's Weak<Hub>
    spawned,  \* hubs spawned so far
    lease,    \* lease[v]: the hub v holds, 0 for none
    ended,    \* viewers that have Disconnected, delivered or on its way
    task,     \* task[h]: "none", "connecting", "online", "waiting" (backoff),
              \*   "ending" (Disconnected emitted), "ended" (alive is false)
    addr,     \* addr[h]: the address the task connects to
    inbox     \* inbox[h]: its unread messages

registryVars == <<book, catalog, picked, entry, spawned, lease, ended, task, addr, inbox>>

Msg == [type : {"Retarget"}, addr : Addr] \cup [type : {"Disconnect"}]

\* Some viewer holds h: the weak reference can be upgraded.
Leased(h) == \E v \in Viewer : lease[v] = h

\* The Hub was dropped: the task's shutdown is signalled.
Dropped(h) == h \in 1..spawned /\ ~Leased(h)

\* The task has not emitted Disconnected.
Running(h) == task[h] \in {"connecting", "online", "waiting"}

RegistryInit ==
    /\ book \in Addr
    /\ catalog = book
    /\ picked = [v \in Web |-> NoAddr]
    /\ entry = 0
    /\ spawned = 0
    /\ lease = [v \in Viewer |-> 0]
    /\ ended = {}
    /\ task = [h \in Hub |-> "none"]
    /\ addr = [h \in Hub |-> book]
    /\ inbox = [h \in Hub |-> <<>>]

-------------------------------------------------------------------------------
(* The viewers.                                                            *)

\* Weak::upgrade, and the alive flag.
Reusable(h) == h # 0 /\ Leased(h) /\ task[h] # "ended"

\* (Faulty: the new hub is not entered in the map.)
OpenUnregistered(v, a) ==
    \/ /\ Reusable(entry)
       /\ lease' = [lease EXCEPT ![v] = entry]
       /\ ended' = IF Running(entry) THEN ended \ {v} ELSE ended \cup {v}
       /\ UNCHANGED <<entry, spawned, task, addr>>
    \/ /\ ~Reusable(entry)
       /\ spawned < MaxHubs
       /\ spawned' = spawned + 1
       /\ lease' = [lease EXCEPT ![v] = spawned']
       /\ ended' = ended \ {v}
       /\ task' = [task EXCEPT ![spawned'] = "connecting"]
       /\ addr' = [addr EXCEPT ![spawned'] = a]
       /\ UNCHANGED entry

\* (Faulty: last_status is not replayed to the new subscriber.)
OpenUntold(v, a) ==
    \/ /\ Reusable(entry)
       /\ lease' = [lease EXCEPT ![v] = entry]
       /\ ended' = ended \ {v}
       /\ UNCHANGED <<entry, spawned, task, addr>>
    \/ /\ ~Reusable(entry)
       /\ spawned < MaxHubs
       /\ spawned' = spawned + 1
       /\ entry' = spawned'
       /\ lease' = [lease EXCEPT ![v] = spawned']
       /\ ended' = ended \ {v}
       /\ task' = [task EXCEPT ![spawned'] = "connecting"]
       /\ addr' = [addr EXCEPT ![spawned'] = a]

\* HubRegistry::open, under its lock: share the hub or spawn one.  A lease the
\* viewer already had is dropped when the new one takes its place.  The
\* subscriber starts with last_status, so it learns of a task that has ended.
Open(v, a) ==
    \/ /\ Reusable(entry)
       /\ lease' = [lease EXCEPT ![v] = entry]
       /\ ended' = IF Running(entry) THEN ended \ {v} ELSE ended \cup {v}
       /\ UNCHANGED <<entry, spawned, task, addr>>
    \/ /\ ~Reusable(entry)
       /\ spawned < MaxHubs
       /\ spawned' = spawned + 1
       /\ entry' = spawned'
       /\ lease' = [lease EXCEPT ![v] = spawned']
       /\ ended' = ended \ {v}
       /\ task' = [task EXCEPT ![spawned'] = "connecting"]
       /\ addr' = [addr EXCEPT ![spawned'] = a]

\* App::connect, on the thread that owns the address book.
DeskOpens ==
    /\ lease[Desk] = 0
    /\ Open(Desk, book)
    /\ UNCHANGED <<book, catalog, picked, inbox>>

\* OpenProvider of a socket: the address is read from the catalog...
WebPicks(v) ==
    /\ picked[v] = NoAddr
    /\ picked' = [picked EXCEPT ![v] = catalog]
    /\ UNCHANGED <<book, catalog, entry, spawned, lease, ended, task, addr, inbox>>

\* ...and the registry is asked when the catalog's lock is released.
WebOpens(v) ==
    /\ picked[v] # NoAddr
    /\ Open(v, picked[v])
    /\ picked' = [picked EXCEPT ![v] = NoAddr]
    /\ UNCHANGED <<book, catalog, inbox>>

\* App::disconnect; CloseProvider, a Disconnect, the end of the socket.
Close(v) ==
    /\ lease[v] # 0
    /\ v \in Web => picked[v] = NoAddr
    /\ lease' = [lease EXCEPT ![v] = 0]
    /\ ended' = ended \ {v}
    /\ UNCHANGED <<book, catalog, picked, entry, spawned, task, addr, inbox>>

\* A message to the task of h; the channel of an ended task is closed.
Post(h, m) ==
    /\ Len(inbox[h]) < InboxCap
    /\ inbox' = IF Running(h) THEN [inbox EXCEPT ![h] = Append(@, m)] ELSE inbox

\* NetCommand::Disconnect over a lease ends the hub for everybody.  A socket's
\* never gets there: the server only closes that socket's lease (Close).
Disconnect(v) ==
    /\ v \notin Web
    /\ lease[v] # 0
    /\ Post(lease[v], [type |-> "Disconnect"])
    /\ UNCHANGED <<book, catalog, picked, entry, spawned, lease, ended, task, addr>>

\* The provider's host or port is edited: add_dialog saves the book and calls
\* HubRegistry::retarget, which finds the hub if somebody holds it.
Edit(a) ==
    /\ a # book
    /\ book' = a
    /\ IF entry # 0 /\ Leased(entry)
       THEN Post(entry, [type |-> "Retarget", addr |-> a])
       ELSE UNCHANGED inbox
    /\ UNCHANGED <<catalog, picked, entry, spawned, lease, ended, task, addr>>

\* App::refresh_catalog, at the start of the next frame.
Refresh ==
    /\ catalog # book
    /\ catalog' = book
    /\ UNCHANGED <<book, picked, entry, spawned, lease, ended, task, addr, inbox>>

-------------------------------------------------------------------------------
(* The tasks.                                                              *)

Moves(h, from, to) ==
    /\ task[h] \in from
    /\ task' = [task EXCEPT ![h] = to]

Connects(h) ==
    /\ ~Dropped(h)
    /\ Moves(h, {"connecting"}, "online")
    /\ UNCHANGED <<book, catalog, picked, entry, spawned, lease, ended, addr, inbox>>

\* The connect fails or the link is lost.
Fails(h) ==
    /\ ~Dropped(h)
    /\ Moves(h, {"connecting", "online"}, "waiting")
    /\ UNCHANGED <<book, catalog, picked, entry, spawned, lease, ended, addr, inbox>>

Retries(h) ==
    /\ ~Dropped(h)
    /\ Moves(h, {"waiting"}, "connecting")
    /\ UNCHANGED <<book, catalog, picked, entry, spawned, lease, ended, addr, inbox>>

Reads(h, type) ==
    /\ ~Dropped(h)
    /\ inbox[h] # <<>>
    /\ Head(inbox[h]).type = type

Retargets(h) ==
    /\ Reads(h, "Retarget")
    /\ Moves(h, {"online", "waiting"}, "connecting")
    /\ addr' = [addr EXCEPT ![h] = Head(inbox[h]).addr]
    /\ inbox' = [inbox EXCEPT ![h] = Tail(@)]
    /\ UNCHANGED <<book, catalog, picked, entry, spawned, lease, ended>>

\* emit(Disconnected): every subscriber has it; the messages are dropped.
Ends(h) ==
    /\ ended' = ended \cup {v \in Viewer : lease[v] = h}
    /\ inbox' = [inbox EXCEPT ![h] = <<>>]
    /\ UNCHANGED <<book, catalog, picked, entry, spawned, lease, addr>>

Disconnects(h) ==
    /\ Reads(h, "Disconnect")
    /\ Moves(h, {"online", "waiting"}, "ending")
    /\ Ends(h)

\* (Faulty: the signal is only looked at in a session.)
ShutsDownOnline(h) ==
    /\ Dropped(h)
    /\ Moves(h, {"online"}, "ending")
    /\ Ends(h)

ShutsDown(h) ==
    /\ Dropped(h)
    /\ Moves(h, {"connecting", "online", "waiting"}, "ending")
    /\ Ends(h)

\* The Done guard clears the alive flag as the task is dropped.
Flags(h) ==
    /\ Moves(h, {"ending"}, "ended")
    /\ UNCHANGED <<book, catalog, picked, entry, spawned, lease, ended, addr, inbox>>

-------------------------------------------------------------------------------
Viewers ==
    \/ DeskOpens
    \/ \E v \in Web : WebPicks(v) \/ WebOpens(v)
    \/ \E v \in Viewer : Close(v) \/ Disconnect(v)
    \/ \E a \in Addr : Edit(a)
    \/ Refresh

Task(h) ==
    \/ Connects(h)
    \/ Fails(h)
    \/ Retries(h)
    \/ Retargets(h)
    \/ Disconnects(h)
    \/ ShutsDown(h)
    \/ Flags(h)

RegistryNext == Viewers \/ \E h \in Hub : Task(h)

RegistrySpec == RegistryInit /\ [][RegistryNext]_registryVars

(* A task polls its shutdown whenever it is connecting, online or waiting,  *)
(* and returns once it has seen it.                                        *)
Fairness == \A h \in Hub : WF_registryVars(ShutsDown(h)) /\ WF_registryVars(Flags(h))

FairSpec == RegistrySpec /\ Fairness

-------------------------------------------------------------------------------
(* Properties.                                                             *)

\* Types; a task runs exactly for the hubs spawned.
RegistryTypeOK ==
    /\ book \in Addr
    /\ catalog \in Addr
    /\ picked \in [Web -> Addr \cup {NoAddr}]
    /\ spawned \in 0..MaxHubs
    /\ entry \in 0..spawned
    /\ lease \in [Viewer -> 0..spawned]
    /\ ended \subseteq Viewer
    /\ task \in [Hub -> {"none", "connecting", "online", "waiting", "ending",
                         "ended"}]
    /\ \A h \in Hub : task[h] = "none" <=> h > spawned
    /\ addr \in [Hub -> Addr]
    /\ inbox \in [Hub -> Seq(Msg)]

\* A hub that somebody holds and whose task runs is the one in the registry:
\* viewers share it, an edit finds it, and no second one is spawned beside it.
Reachable == \A h \in Hub : Leased(h) /\ task[h] # "ended" => h = entry

\* A viewer whose hub has ended has been told so, also when it attached in
\* the moment between the last event and the alive flag.
NobodyWaitsOnZombie ==
    \A v \in Viewer : lease[v] # 0 /\ ~Running(lease[v]) => v \in ended

\* The address a task will have once it has read its messages.
Target(h) ==
    LET asked == SelectSeq(inbox[h], LAMBDA m : m.type = "Retarget")
    IN  IF asked = <<>> THEN addr[h] ELSE asked[Len(asked)].addr

\* The hub the viewers share is on its way to the address in the book.
TargetIsBook ==
    entry # 0 /\ Leased(entry) /\ Running(entry) => Target(entry) = book

\* A hub that nobody holds any more ends, and its connection with it.
DroppedEnds == \A h \in Hub : Dropped(h) ~> task[h] = "ended"

===============================================================================
