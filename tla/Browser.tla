-------------------------------- MODULE Browser --------------------------------
(***************************************************************************)
(* A browser (emberviewer/src/web.rs, web_transport.rs) and the handler of *)
(* its WebSocket in the desktop program (server.rs, handle_ws).            *)
(*                                                                         *)
(* The handler gives a socket one provider at a time and forwards the      *)
(* events of that provider's hub, tagged with the provider's id.  The      *)
(* browser opens providers from the list it was sent, keeps a tree of the  *)
(* one it shows, subscribes what is visible, and reconnects by itself when *)
(* the socket is gone.  Both directions are FIFO, and a broken link loses  *)
(* what was under way.                                                     *)
(***************************************************************************)
EXTENDS Naturals, Sequences, SequencesExt

CONSTANTS
    Provider,  \* address-book ids
    NoProvider,
    Path,      \* parameter paths; providers share them
    MaxBreaks, \* bound: links broken
    MaxUp,     \* bound: unread messages before a browser sends more
    MaxDown    \* bound: unread messages before the handler forwards more

ASSUME BrowserAssumption ==
    /\ NoProvider \notin Provider
    /\ MaxBreaks \in Nat
    /\ MaxUp \in Nat
    /\ MaxDown \in Nat
    /\ IsFiniteSet(Path)

VARIABLES
    catalog,    \* the providers the server may open
    readOnly,   \* the server's read_only
    stage,      \* the handler: "none", "auth" (awaits Auth), "open", "gone"
    lease,      \* the provider it holds a lease of
    wants,      \* the paths subscribed through that lease
    performed,  \* the SetValue that reached a hub last, if any
    breaks,
    up,         \* messages to the server
    down,       \* messages to the browser, its inbox included
    \* the browser
    connected,  \* it has a WsConnection
    closed,     \* and has been told that it is closed
    authed,
    rejected,   \* auth_error
    listed,     \* the providers on its left pane
    current,    \* the provider it shows
    tree,       \* the providers whose documents are in its tree
    subscribed,
    edit        \* the provider whose parameter the open string editor is of

serverVars == <<catalog, readOnly, stage, lease, wants, performed, breaks>>
shownVars == <<current, tree, subscribed, edit>>
accessVars == <<connected, closed, authed, rejected, listed>>
vars == <<serverVars, up, down, shownVars, accessVars>>

ClientMsg ==
    [type : {"Auth"}]
    \cup [type : {"OpenProvider"}, id : Provider]
    \cup [type : {"Subscribe", "Unsubscribe"}, id : Provider, path : Path]
    \cup [type : {"SetValue"}, id : Provider]

ServerMsg ==
    [type : {"AuthOk", "AuthRejected", "Denied", "Closed"}]
    \cup [type : {"AddressBook"}, listed : SUBSET Provider]
    \cup [type : {"Connecting", "Document"}, id : Provider]

Init ==
    /\ catalog = Provider
    /\ readOnly \in BOOLEAN
    /\ stage = "none"
    /\ lease = NoProvider
    /\ wants = {}
    /\ performed = {}
    /\ breaks = 0
    /\ up = <<>>
    /\ down = <<>>
    /\ connected = FALSE
    /\ closed = FALSE
    /\ authed = FALSE
    /\ rejected = FALSE
    /\ listed = {}
    /\ current = NoProvider
    /\ tree = {}
    /\ subscribed = {}
    /\ edit = NoProvider

\* Messages to a handler that is gone are lost.
Sent(msgs) == IF stage \in {"auth", "open"} THEN up \o msgs ELSE up

UserMaySend == Len(up) < MaxUp

-------------------------------------------------------------------------------
(* The browser: the socket.                                                *)

\* WebApp::new and try_reconnect.
Connect ==
    /\ ~connected \/ closed
    /\ ~rejected
    /\ connected' = TRUE
    /\ closed' = FALSE
    /\ stage' = "auth"
    /\ up' = <<[type |-> "Auth"]>>
    /\ down' = <<>>
    /\ UNCHANGED <<catalog, readOnly, lease, wants, performed, breaks,
                   shownVars, authed, rejected, listed>>

\* (Faulty: the subscriptions of the last provider are kept.)
OpeningKeepsSubscribed(p) ==
    /\ current' = p
    /\ tree' = {}
    /\ up' = Sent(<<[type |-> "OpenProvider", id |-> p]>>)
    /\ UNCHANGED <<subscribed, edit>>

\* open_provider: tree and subscriptions are forgotten, an open editor is not.
Opening(p) ==
    /\ current' = p
    /\ tree' = {}
    /\ subscribed' = {}
    /\ up' = Sent(<<[type |-> "OpenProvider", id |-> p]>>)
    /\ UNCHANGED edit

Inbox(type) == down # <<>> /\ Head(down).type = type

\* (Faulty: a reconnect does not open the provider again.)
OnAuthOkOnly ==
    /\ Inbox("AuthOk")
    /\ down' = Tail(down)
    /\ authed' = TRUE
    /\ rejected' = FALSE
    /\ closed' = FALSE
    /\ UNCHANGED <<up, shownVars, serverVars, connected, listed>>

\* apply_inbound, one event at a time.  What was shown is opened again.
OnAuthOk ==
    /\ Inbox("AuthOk")
    /\ down' = Tail(down)
    /\ authed' = TRUE
    /\ rejected' = FALSE
    /\ closed' = FALSE
    /\ IF current # NoProvider THEN Opening(current) ELSE UNCHANGED <<up, shownVars>>
    /\ UNCHANGED <<serverVars, connected, listed>>

OnAuthRejected ==
    /\ Inbox("AuthRejected")
    /\ down' = Tail(down)
    /\ rejected' = TRUE
    /\ UNCHANGED <<serverVars, up, shownVars, connected, closed, authed, listed>>

OnAddressBook ==
    /\ Inbox("AddressBook")
    /\ down' = Tail(down)
    /\ listed' = Head(down).listed
    /\ UNCHANGED <<serverVars, up, shownVars, connected, closed, authed, rejected>>

OnClosed ==
    /\ Inbox("Closed")
    /\ down' = Tail(down)
    /\ closed' = TRUE
    /\ UNCHANGED <<serverVars, up, shownVars, connected, authed, rejected, listed>>

\* The reason is shown and nothing else happens.
OnDenied ==
    /\ Inbox("Denied")
    /\ down' = Tail(down)
    /\ UNCHANGED <<serverVars, up, shownVars, accessVars>>

\* A Connecting status: the provider moves to another address.
OnConnecting ==
    /\ Inbox("Connecting")
    /\ down' = Tail(down)
    /\ IF Head(down).id = current
       THEN tree' = {}
       ELSE UNCHANGED tree
    /\ UNCHANGED <<serverVars, up, current, subscribed, edit, accessVars>>

\* (Faulty: the tag of a document is not looked at.)
OnDocumentUntagged ==
    /\ Inbox("Document")
    /\ down' = Tail(down)
    /\ tree' = tree \cup {Head(down).id}
    /\ UNCHANGED <<serverVars, up, current, subscribed, edit, accessVars>>

OnDocument ==
    /\ Inbox("Document")
    /\ down' = Tail(down)
    /\ tree' = IF Head(down).id = current THEN tree \cup {current} ELSE tree
    /\ UNCHANGED <<serverVars, up, current, subscribed, edit, accessVars>>

-------------------------------------------------------------------------------
(* The browser: the user and the frame.                                    *)

\* A click on the left pane, handled at the end of the frame.
Open(p) ==
    /\ authed
    /\ p \in listed
    /\ UserMaySend
    /\ Opening(p)
    /\ UNCHANGED <<serverVars, down, accessVars>>

\* The user sees the tree, locked or not.
Browsing == authed /\ ~rejected /\ current \in tree

Each(type, paths) ==
    SetToSeq({[type |-> type, id |-> current, path |-> p] : p \in paths})

\* The subscriptions follow what is visible, whatever becomes of the messages.
Reconcile(visible) ==
    /\ authed
    /\ ~rejected
    /\ current # NoProvider
    /\ visible # {} => Browsing
    /\ visible # subscribed
    /\ UserMaySend
    /\ up' = Sent(Each("Subscribe", visible \ subscribed)
                  \o Each("Unsubscribe", subscribed \ visible))
    /\ subscribed' = visible
    /\ UNCHANGED <<serverVars, down, current, tree, edit, accessVars>>

SetMsg == [type |-> "SetValue", id |-> current]

\* A control of a row: the value is sent and not marked.
SetInRow ==
    /\ Browsing
    /\ UserMaySend
    /\ up' = Sent(<<SetMsg>>)
    /\ UNCHANGED <<serverVars, down, shownVars, accessVars>>

\* The Edit button of a row.
OpenEditor ==
    /\ Browsing
    /\ edit' = current
    /\ UNCHANGED <<serverVars, up, down, current, tree, subscribed, accessVars>>

\* Apply: the value goes to the provider now shown.  The RefreshValue that
\* follows reads it back and changes nothing else.
Apply ==
    /\ UserMaySend
    /\ edit # NoProvider
    /\ up' = Sent(<<SetMsg>>)
    /\ edit' = NoProvider
    /\ UNCHANGED <<serverVars, down, current, tree, subscribed, accessVars>>

Cancel ==
    /\ edit # NoProvider
    /\ edit' = NoProvider
    /\ UNCHANGED <<serverVars, up, down, current, tree, subscribed, accessVars>>

-------------------------------------------------------------------------------
(* The handler.                                                            *)

Arrives(type) == up # <<>> /\ Head(up).type = type

\* The first message: the policy decides (the token may have changed since).
Authorize ==
    /\ stage = "auth"
    /\ Arrives("Auth")
    /\ up' = Tail(up)
    /\ \/ /\ stage' = "open"
          /\ down' = down \o <<[type |-> "AuthOk"],
                               [type |-> "AddressBook", listed |-> catalog]>>
       \/ /\ stage' = "gone"
          /\ down' = down \o <<[type |-> "AuthRejected"], [type |-> "Closed"]>>
    /\ UNCHANGED <<catalog, readOnly, lease, wants, performed, breaks,
                   shownVars, accessVars>>

\* OpenProvider: a new lease in place of the old one, if the id is known.
HandleOpen ==
    /\ stage = "open"
    /\ Arrives("OpenProvider")
    /\ up' = Tail(up)
    /\ IF Head(up).id \in catalog
       THEN lease' = Head(up).id /\ wants' = {}
       ELSE UNCHANGED <<lease, wants>>
    /\ UNCHANGED <<catalog, readOnly, stage, performed, breaks, down,
                   shownVars, accessVars>>

\* The lease the command is for, and no other, hears it.
Addressed == Head(up).id = lease

HandleWatch ==
    /\ stage = "open"
    /\ Arrives("Subscribe") \/ Arrives("Unsubscribe")
    /\ up' = Tail(up)
    /\ wants' = IF ~Addressed THEN wants
                ELSE IF Head(up).type = "Subscribe"
                     THEN wants \cup {Head(up).path}
                     ELSE wants \ {Head(up).path}
    /\ UNCHANGED <<catalog, readOnly, stage, lease, performed, breaks, down,
                   shownVars, accessVars>>

\* (Faulty: the command goes to whatever lease there is.)
HandleSetAnywhere ==
    /\ stage = "open"
    /\ Arrives("SetValue")
    /\ up' = Tail(up)
    /\ readOnly => Len(down) <= MaxDown
    /\ IF readOnly
       THEN down' = Append(down, [type |-> "Denied"]) /\ UNCHANGED performed
       ELSE /\ performed' = IF lease # NoProvider
                            THEN {[at |-> lease, id |-> Head(up).id]}
                            ELSE performed
            /\ UNCHANGED down
    /\ UNCHANGED <<catalog, readOnly, stage, lease, wants, breaks, shownVars, accessVars>>

\* A read-only server denies whatever would change the device.
HandleSet ==
    /\ stage = "open"
    /\ Arrives("SetValue")
    /\ up' = Tail(up)
    /\ readOnly => Len(down) <= MaxDown
    /\ IF readOnly
       THEN down' = Append(down, [type |-> "Denied"]) /\ UNCHANGED performed
       ELSE /\ performed' = IF Addressed
                            THEN {[at |-> lease, id |-> Head(up).id]}
                            ELSE performed
            /\ UNCHANGED down
    /\ UNCHANGED <<catalog, readOnly, stage, lease, wants, breaks, shownVars, accessVars>>

\* forward_event: a document of the hub leased, or a Connecting; the other
\* statuses are only shown.
Forward ==
    /\ stage = "open"
    /\ lease # NoProvider
    /\ Len(down) < MaxDown
    /\ \E type \in {"Connecting", "Document"} :
          down' = Append(down, [type |-> type, id |-> lease])
    /\ UNCHANGED <<serverVars, up, shownVars, accessVars>>

\* The provider is removed from the address book; its hub may live on.
RemoveProvider(p) ==
    /\ p \in catalog
    /\ catalog' = catalog \ {p}
    /\ UNCHANGED <<readOnly, stage, lease, wants, performed, breaks, up, down,
                   shownVars, accessVars>>

\* The link breaks, or the program is closed: the handler returns and drops
\* its lease; the browser still reads what has arrived.
Break ==
    /\ stage \in {"auth", "open"}
    /\ breaks < MaxBreaks
    /\ breaks' = breaks + 1
    /\ stage' = "gone"
    /\ lease' = NoProvider
    /\ wants' = {}
    /\ up' = <<>>
    /\ \E n \in 0..Len(down) :
          down' = Append(SubSeq(down, 1, n), [type |-> "Closed"])
    /\ UNCHANGED <<catalog, readOnly, performed, shownVars, accessVars>>

-------------------------------------------------------------------------------
Inbound ==
    \/ OnAuthOk
    \/ OnAuthRejected
    \/ OnAddressBook
    \/ OnClosed
    \/ OnDenied
    \/ OnConnecting
    \/ OnDocument

Handle ==
    \/ Authorize
    \/ HandleOpen
    \/ HandleWatch
    \/ HandleSet

User ==
    \/ \E p \in Provider : Open(p)
    \/ \E visible \in SUBSET Path : Reconcile(visible)
    \/ SetInRow
    \/ OpenEditor
    \/ Apply
    \/ Cancel

Next ==
    \/ Connect
    \/ Inbound
    \/ User
    \/ Handle
    \/ Forward
    \/ \E p \in Provider : RemoveProvider(p)
    \/ Break

Spec == Init /\ [][Next]_vars

(* The page runs frames, which drain its inbox and reconnect a closed      *)
(* socket, and the handler reads its socket.                               *)
Fairness == WF_vars(Connect) /\ WF_vars(Inbound) /\ WF_vars(Handle)

FairSpec == Spec /\ Fairness

-------------------------------------------------------------------------------
(* Properties.                                                             *)

\* Types; only an open handler holds a lease, and only a lease has wants.
TypeOK ==
    /\ catalog \subseteq Provider
    /\ readOnly \in BOOLEAN
    /\ stage \in {"none", "auth", "open", "gone"}
    /\ lease \in Provider \cup {NoProvider}
    /\ lease # NoProvider => stage = "open"
    /\ wants \subseteq Path
    /\ wants # {} => lease # NoProvider
    /\ performed \subseteq [at : Provider, id : Provider]
    /\ breaks \in 0..MaxBreaks
    /\ up \in Seq(ClientMsg)
    /\ down \in Seq(ServerMsg)
    /\ connected \in BOOLEAN
    /\ closed \in BOOLEAN
    /\ authed \in BOOLEAN
    /\ rejected \in BOOLEAN
    /\ listed \subseteq Provider
    /\ current \in Provider \cup {NoProvider}
    /\ tree \subseteq Provider
    /\ subscribed \subseteq Path
    /\ edit \in Provider \cup {NoProvider}

\* However providers are switched and documents are under way, the tree shows
\* the current provider's and nobody else's.
TreeIsCurrents == tree \subseteq {current}

\* A command is performed by the provider it was sent to, or not at all, also
\* when the socket's provider changes while it is under way.
CommandsReachTheirProvider == \A x \in performed : x.at = x.id

\* Once the handler has read everything, the subscriptions made through its
\* lease are those the browser believes to have: after a switch, a reopen or
\* a reconnect none is missing and, unless the reopened provider has been
\* removed and the old lease stays in place, none is left over.
SubscriptionsAgree ==
    /\ TypeOK
    /\ stage = "open" /\ up = <<>> /\ lease = current =>
        /\ subscribed \subseteq wants
        /\ current \in catalog => wants = subscribed

\* What the browser shows is what its socket serves in the end, across broken
\* links, unless it is rejected or the provider is removed.
Reopened ==
    \A p \in Provider :
        current = p ~> \/ lease = p
                       \/ current # p
                       \/ p \notin catalog
                       \/ rejected

\* The comment on string_edit_window: a window "opened from a string
\* parameter's `Edit...`/`View...` button" - what it applies is meant for the
\* provider it was opened on.
EditsStayHome == [][Apply => edit = current]_vars

===============================================================================
