---------------------------------- MODULE Book ----------------------------------
(***************************************************************************)
(* The address book (emberviewer/src/address_book.rs) and the desktop      *)
(* operations on it (app.rs): folders and providers are added, edited,     *)
(* dragged about, removed and imported while sessions, keyed by the ids of *)
(* the book, are open on them.                                             *)
(*                                                                         *)
(* A book is a value: the children of each folder, the contents of each    *)
(* provider and the next id.  The code's recursive searches find an id     *)
(* anywhere in the tree; Tree below is what makes that the same as a       *)
(* look-up by id.  Names of folders are left out.                          *)
(*                                                                         *)
(* Hubs are those of Registry, reduced to the address they have: a hub     *)
(* lives as long as the desktop or a browser holds it, and an open finds   *)
(* it by its id whatever address it is given.                              *)
(***************************************************************************)
EXTENDS Naturals, Sequences, FiniteSets, SequencesExt

CONSTANTS
    Entry,    \* what a provider says: a record with name and addr (host:port)
    Imports,  \* the books found in the files that a user may import
    Browsers, \* bound: providers held open by browsers at a time
    MaxId     \* bound: ids handed out

Root == 0

NoId == MaxId + 1

Id == 1..MaxId

VARIABLES
    book,    \* the address book
    disk,    \* address_book.json
    last,    \* settings.last_connected, in memory and on disk
    open,    \* open[id]: name and address shown by the session of id
    active,  \* the session in the main panel
    hub,     \* hub[id]: the address of the hub of id
    web,     \* ids that browsers hold open
    staged,  \* the import that awaits its choice, if any
    strays   \* ids whose hub was live when another book took over

vars == <<book, disk, last, open, active, hub, web, staged, strays>>

-------------------------------------------------------------------------------
(* Books.                                                                  *)

Empty == [kids |-> [f \in {Root} |-> <<>>], entry |-> <<>>, next |-> 1]

Folders(b) == DOMAIN b.kids

Providers(b) == DOMAIN b.entry

\* What `find` can return: every node but the root.
Nodes(b) == (Folders(b) \cup Providers(b)) \ {Root}

Children(b, x) == IF x \in Folders(b) THEN ToSet(b.kids[x]) ELSE {}

\* x and what is nested in it: whatever every set with x that is closed under
\* children must have (is_descendant, subtree_contains, collect).
Below(b, x) ==
    {y \in Nodes(b) \cup {x} :
        y = x \/ \A S \in SUBSET (Nodes(b) \ {x, y}) :
                   \E z \in S \cup {x} : ~(Children(b, z) \subseteq S \cup {x})}

Without(s, x) == RemoveFirst(s, x)

\* f, and x mapped to v.
Extended(f, x, v) == [y \in DOMAIN f \cup {x} |-> IF y = x THEN v ELSE f[y]]

\* Add a folder or a provider as last child; the id is used up even when the
\* parent does not exist.
AddFolder(b, parent) ==
    IF parent \in Folders(b)
    THEN [kids |-> Extended([b.kids EXCEPT ![parent] = Append(@, b.next)], b.next, <<>>),
          entry |-> b.entry,
          next |-> b.next + 1]
    ELSE [b EXCEPT !.next = @ + 1]

AddProvider(b, parent, e) ==
    IF parent \in Folders(b)
    THEN [kids |-> [b.kids EXCEPT ![parent] = Append(@, b.next)],
          entry |-> Extended(b.entry, b.next, e),
          next |-> b.next + 1]
    ELSE [b EXCEPT !.next = @ + 1]

UpdateProvider(b, id, e) ==
    IF id \in Providers(b) THEN [b EXCEPT !.entry[id] = e] ELSE b

\* The node goes with everything in it.
Removed(b, x) ==
    LET gone == Below(b, x)
    IN  [b EXCEPT !.kids = [f \in Folders(b) \ gone |-> Without(b.kids[f], x)],
                  !.entry = [p \in Providers(b) \ gone |-> b.entry[p]]]

\* (Faulty: the index is not corrected when x leaves a place before it.)
PlaceShifted(s, x, i) ==
    LET rest == Without(s, x)
    IN  InsertAt(rest, (IF i < Len(rest) THEN i ELSE Len(rest)) + 1, x)

\* A place in 0..Len(kids) means "before that child"; a larger one, the end.
Place(s, x, i) ==
    LET rest == Without(s, x)
        at == {j \in 1..Len(s) : s[j] = x}
        k == IF \E j \in at : i > j - 1 THEN i - 1 ELSE i
    IN  InsertAt(rest, (IF k < Len(rest) THEN k ELSE Len(rest)) + 1, x)

\* (Faulty: only a move into the folder itself is refused.)
CanMoveNear(b, x, into) ==
    /\ x \in Nodes(b)
    /\ into \in Folders(b)
    /\ into # x

CanMove(b, x, into) ==
    /\ x \in Nodes(b)
    /\ into \in Folders(b)
    /\ into \notin Below(b, x)

MoveNodeTo(b, x, into, i) ==
    [b EXCEPT !.kids = [f \in Folders(b) |-> IF f = into THEN Place(@[f], x, i)
                                             ELSE Without(@[f], x)]]

\* A folder, then what is in it, child by child (iter, reid).
Preorder(b) ==
    LET walk[x \in Nodes(b) \cup {Root}] ==
            IF x \in Folders(b)
            THEN <<x>> \o FlattenSeq([i \in 1..Len(b.kids[x]) |-> walk[b.kids[x][i]]])
            ELSE <<x>>
    IN  Tail(walk[Root])

\* (Faulty: the copies are numbered from 1, as in a new book.)
ReidFromOne(b, from) ==
    [x \in Nodes(from) |-> CHOOSE i \in 1..Len(Preorder(from)) : Preorder(from)[i] = x]

\* The ids that the nodes of `from` are given in b.
Reid(b, from) ==
    [x \in Nodes(from) |->
        b.next + (CHOOSE i \in 1..Len(Preorder(from)) : Preorder(from)[i] = x) - 1]

\* A copy of the top level of `from`, appended to the top level of b.
Graft(b, from) ==
    LET new == Reid(b, from)
        Renamed(s) == [i \in 1..Len(s) |-> new[s[i]]]
        old(y) == CHOOSE x \in Nodes(from) : new[x] = y
    IN  [kids |-> [y \in Folders(b) \cup {new[f] : f \in Folders(from) \ {Root}} |->
                     CASE y = Root -> b.kids[Root] \o Renamed(from.kids[Root])
                       [] y \in Folders(b) \ {Root} -> b.kids[y]
                       [] OTHER -> Renamed(from.kids[old(y)])],
         entry |-> [y \in Providers(b) \cup {new[p] : p \in Providers(from)} |->
                     IF y \in Providers(b) THEN b.entry[y] ELSE from.entry[old(y)]],
         next |-> b.next + Len(Preorder(from))]

IsBook(b) ==
    /\ b = [kids |-> b.kids, entry |-> b.entry, next |-> b.next]
    /\ b.kids \in [Folders(b) -> Seq(Id)] /\ Folders(b) \subseteq {Root} \cup Id
    /\ b.entry \in [Providers(b) -> Entry] /\ Providers(b) \subseteq Id
    /\ b.next \in 1..(MaxId + 1)

\* A book is a tree of distinct nodes: every node is the child of one folder,
\* once, and is found from the root; the next id is above all.
Tree(b) ==
    /\ Root \in Folders(b)
    /\ Folders(b) \cap Providers(b) = {}
    /\ \A f \in Folders(b) : Children(b, f) \subseteq Nodes(b) /\ IsInjective(b.kids[f])
    /\ \A x \in Nodes(b) :
          /\ x < b.next
          /\ \E f \in Folders(b) : \A g \in Folders(b) : x \in Children(b, g) <=> g = f
    /\ Below(b, Root) = Nodes(b) \cup {Root}

\* The files are books that the program exported: trees, whose pre-order meets
\* every node once.
ASSUME BookAssumption ==
    /\ MaxId \in Nat
    /\ \A e \in Entry : e = [name |-> e.name, addr |-> e.addr]
    /\ \A b \in Imports :
          /\ IsBook(b) /\ Tree(b)
          /\ Preorder(b) \in Seq(Nodes(b))
          /\ ToSet(Preorder(b)) = Nodes(b) /\ IsInjective(Preorder(b))

-------------------------------------------------------------------------------
(* The desktop.  A dialog may outlive the node it was opened for: the id   *)
(* it holds is any that was handed out.                                    *)

Seen == {Root} \cup 1..(book.next - 1)

Init ==
    /\ book = Empty
    /\ disk = Empty
    /\ last = {}
    /\ open = <<>>
    /\ active = NoId
    /\ hub = <<>>
    /\ web = {}
    /\ staged = {}
    /\ strays = {}

\* Every handler that changes the book saves it.
Save(b) ==
    /\ book' = b
    /\ disk' = b

\* folder_dialog, to create.
NewFolder(parent) ==
    /\ book.next <= MaxId
    /\ Save(AddFolder(book, parent))
    /\ UNCHANGED <<last, open, active, hub, web, staged, strays>>

\* add_dialog, to add.
NewProvider(parent, e) ==
    /\ book.next <= MaxId
    /\ Save(AddProvider(book, parent, e))
    /\ UNCHANGED <<last, open, active, hub, web, staged, strays>>

\* The Add button of a provider that mDNS found, enabled while no entry has
\* its host and port.
AddDiscovered(e) ==
    /\ book.next <= MaxId
    /\ \A p \in Providers(book) : book.entry[p].addr # e.addr
    /\ Save(AddProvider(book, Root, e))
    /\ UNCHANGED <<last, open, active, hub, web, staged, strays>>

\* (Faulty: the hub is not told.)
EditUntold(id, e) ==
    /\ Save(UpdateProvider(book, id, e))
    /\ open' = IF id \in DOMAIN open THEN [open EXCEPT ![id] = e] ELSE open
    /\ UNCHANGED <<last, active, hub, web, staged, strays>>

\* add_dialog, to edit: the book, the session's copy, and the hub.
Edit(id, e) ==
    LET moved == id \in Providers(book) /\ book.entry[id].addr # e.addr
    IN  /\ Save(UpdateProvider(book, id, e))
        /\ open' = IF id \in DOMAIN open
                   THEN [open EXCEPT ![id].name = e.name,
                                     ![id].addr = IF moved THEN e.addr ELSE @]
                   ELSE open
        /\ hub' = IF moved /\ id \in DOMAIN hub THEN [hub EXCEPT ![id] = e.addr] ELSE hub
        /\ UNCHANGED <<last, active, web, staged, strays>>

\* Where something may be dropped in a folder: before a child, or at its end.
Drops(into) == (0..Len(book.kids[into])) \cup {MaxId}

\* A row is dropped before or after another, on a folder, or at the top level.
Move(x, into) ==
    /\ CanMove(book, x, into)
    /\ UNCHANGED <<last, open, active, hub, web, staged, strays>>
    /\ \E i \in Drops(into) : Save(MoveNodeTo(book, x, into, i))

\* (Faulty: the list of the last session's providers is not brought up to date.)
CloseUnrecorded(S) ==
    /\ open' = [id \in DOMAIN open \ S |-> open[id]]
    /\ hub' = [id \in (DOMAIN open \ S) \cup (web \cap DOMAIN hub) |-> hub[id]]
    /\ strays' = strays \cap DOMAIN hub'
    /\ active' \in (IF DOMAIN open' = {} THEN {NoId}
                   ELSE IF active \in S THEN DOMAIN open' ELSE {active})
    /\ last' = last

\* The sessions of S are closed one after the other; each time the active one
\* is gone another takes its place (in any order: they are hashed).
Close(S) ==
    /\ open' = [id \in DOMAIN open \ S |-> open[id]]
    /\ hub' = [id \in (DOMAIN open \ S) \cup (web \cap DOMAIN hub) |-> hub[id]]
    /\ strays' = strays \cap DOMAIN hub'
    /\ IF active \notin S
       THEN active' = active
       ELSE IF DOMAIN open' = {} THEN active' = NoId
       ELSE active' \in DOMAIN open'
    /\ last' = IF S = {} THEN last ELSE DOMAIN open'

\* confirm_remove_dialog, confirmed.
RemoveNode(x) ==
    /\ x \in Nodes(book)
    /\ Save(Removed(book, x))
    /\ Close(Below(book, x) \cap Providers(book))
    /\ UNCHANGED <<web, staged>>

Disconnect(id) ==
    /\ id \in DOMAIN open
    /\ Close({id})
    /\ UNCHANGED <<book, disk, web, staged>>

\* HubRegistry::open: a live hub of that id is shared, at the address it has.
Lease(S) ==
    hub' = [h \in DOMAIN hub \cup S |->
               IF h \in DOMAIN hub THEN hub[h] ELSE book.entry[h].addr]

OpenProvider(id) ==
    /\ id \in Providers(book) \ DOMAIN open
    /\ open' = Extended(open, id, book.entry[id])
    /\ Lease({id})
    /\ active' = id
    /\ last' = DOMAIN open'
    /\ UNCHANGED <<book, disk, web, staged, strays>>

\* A click on the row or the tab of an open session.
Activate(id) ==
    /\ id \in DOMAIN open
    /\ active' = id
    /\ UNCHANGED <<book, disk, last, open, hub, web, staged, strays>>

-------------------------------------------------------------------------------
(* Imports, browsers, restarts.                                            *)

Stage(b) ==
    /\ staged' = {b}
    /\ UNCHANGED <<book, disk, last, open, active, hub, web, strays>>

Cancel ==
    /\ staged # {}
    /\ staged' = {}
    /\ UNCHANGED <<book, disk, last, open, active, hub, web, strays>>

Merge(b) ==
    /\ b \in staged
    /\ book.next + Len(Preorder(b)) <= MaxId + 1
    /\ staged' = {}
    /\ UNCHANGED <<last, open, active, hub, web, strays>>
    /\ Save(Graft(book, b))

\* The sessions and the hubs stay, keyed by the ids of the old book.
Replace(b) ==
    /\ b \in staged
    /\ Save(b)
    /\ staged' = {}
    /\ strays' = DOMAIN hub
    /\ UNCHANGED <<last, open, active, hub, web>>

\* A socket opens a provider of the catalog, or leaves it.
WebOpens(id) ==
    /\ id \in Providers(book) \ web
    /\ Cardinality(web) < Browsers
    /\ web' = web \cup {id}
    /\ Lease({id})
    /\ UNCHANGED <<book, disk, last, open, active, staged, strays>>

WebCloses(id) ==
    /\ id \in web
    /\ web' = web \ {id}
    /\ hub' = [h \in DOMAIN open \cup web' |-> hub[h]]
    /\ strays' = strays \cap DOMAIN hub'
    /\ UNCHANGED <<book, disk, last, open, active, staged>>

\* What App::new opens in each startup mode.
AtStart(mode) ==
    CASE mode = "ConnectNone" -> {}
      [] mode = "ConnectAll"  -> Providers(disk)
      [] mode = "ConnectLast" -> last \cap Providers(disk)

\* The program ends and is started again; connect records each session.
Restart(mode) ==
    /\ book' = disk
    /\ open' = [id \in AtStart(mode) |-> disk.entry[id]]
    /\ hub' = [id \in AtStart(mode) |-> disk.entry[id].addr]
    /\ active' = IF AtStart(mode) = {} THEN NoId
                 ELSE CHOOSE id \in AtStart(mode) : \A o \in AtStart(mode) : id <= o
    /\ last' = IF AtStart(mode) = {} THEN last ELSE AtStart(mode)
    /\ web' = {}
    /\ staged' = {}
    /\ strays' = {}
    /\ UNCHANGED disk

Next ==
    \/ \E p \in Seen : NewFolder(p)
    \/ \E p \in Seen, e \in Entry : NewProvider(p, e)
    \/ \E e \in Entry : AddDiscovered(e)
    \/ \E id \in Seen \ {Root}, e \in Entry : Edit(id, e)
    \/ \E x \in Nodes(book), into \in Folders(book) : Move(x, into)
    \/ \E x \in Nodes(book) : RemoveNode(x)
    \/ \E id \in Id : Disconnect(id) \/ OpenProvider(id) \/ Activate(id)
    \/ \E id \in Id : WebOpens(id) \/ WebCloses(id)
    \/ \E b \in Imports : Stage(b) \/ Merge(b) \/ Replace(b)
    \/ Cancel
    \/ \E mode \in {"ConnectNone", "ConnectAll", "ConnectLast"} : Restart(mode)

Spec == Init /\ [][Next]_vars

-------------------------------------------------------------------------------
(* Properties.                                                             *)

\* Types; a session is active exactly when one is open; a hub lives exactly
\* while somebody holds it.
TypeOK ==
    /\ \A b \in {book, disk} \cup staged : IsBook(b)
    /\ last \subseteq Id
    /\ DOMAIN open \subseteq Id
    /\ IF DOMAIN open = {} THEN active = NoId ELSE active \in DOMAIN open
    /\ web \subseteq Id
    /\ DOMAIN hub = DOMAIN open \cup web
    /\ staged \subseteq Imports /\ Cardinality(staged) <= 1
    /\ strays \subseteq DOMAIN hub

\* Whatever is added, dragged, removed and imported, the book stays a tree with
\* unique ids (move_node_to detaches a node before it puts it back).
ATree == TypeOK /\ Tree(book)

\* A session shows, and its hub connects to, what the book says of its provider,
\* through edits, removals and browsers that keep hubs alive; sessions from before
\* an imported book took over apart.
SessionsMatch ==
    \A id \in DOMAIN hub \ strays :
        /\ id \in DOMAIN open => id \in Providers(book) /\ open[id] = book.entry[id]
        /\ id \in Providers(book) => hub[id] = book.entry[id].addr

\* A restart finds the book that was shown, and the sessions that were open.
SurvivesRestart ==
    /\ disk = book
    /\ DOMAIN open # {} => last = DOMAIN open

\* The place of x in s.
At(s, x) == CHOOSE i \in 1..Len(s) : s[i] = x

\* Whatever may be dragged now ends up between the siblings it is dropped
\* between, as they stand before the move (move_node_to's doc), and these keep
\* their order.
MovesAsAsked ==
    \A x \in Nodes(book), into \in Folders(book) :
        CanMove(book, x, into) =>
            \A i \in Drops(into) :
                LET was == book.kids[into]
                    is == MoveNodeTo(book, x, into, i).kids[into]
                IN  /\ x \in ToSet(is)
                    /\ \A j \in 1..Len(was) :
                         was[j] # x => (At(is, was[j]) < At(is, x) <=> j <= i)
                    /\ Without(is, x) = Without(was, x)

\* A merge appends a copy of the imported tree, under ids of its own, and leaves
\* the rest alone.
MergeCopies ==
    [][book' # book => \A b \in staged : Merge(b) =>
          \E new \in [Nodes(b) -> Nodes(book') \ Nodes(book)] :
            LET copy(s) == [i \in 1..Len(s) |-> new[s[i]]]
            IN  /\ \A x, y \in Nodes(b) : new[x] = new[y] => x = y
                /\ \A p \in Providers(b) :
                     new[p] \in Providers(book') /\ book'.entry[new[p]] = b.entry[p]
                /\ \A f \in Folders(b) \ {Root} :
                     new[f] \in Folders(book') /\ book'.kids[new[f]] = copy(b.kids[f])
                /\ book'.kids[Root] = book.kids[Root] \o copy(b.kids[Root])
                /\ \A f \in Folders(book) \ {Root} : book'.kids[f] = book.kids[f]
                /\ \A p \in Providers(book) : book'.entry[p] = book.entry[p]]_vars

\* An id is a "stable unique identifier" (address_book.rs:17): a session's id is
\* that of the provider it was opened for, whatever was imported since.
StableIds ==
    \A id \in DOMAIN open \cap Providers(book) : open[id] = book.entry[id]

===============================================================================
