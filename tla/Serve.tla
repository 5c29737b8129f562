---------------------------------- MODULE Serve ----------------------------------
(***************************************************************************)
(* Server mode: the options of the desktop (app.rs), the listeners started *)
(* and dropped for them (server.rs) and the sockets accepted by each.      *)
(* Dropping a ServerHandle only signals its listener, which the runtime    *)
(* closes later; a socket keeps the state of the listener that accepted it *)
(* until it closes (axum, external).                                       *)
(***************************************************************************)
EXTENDS Naturals, FiniteSets, FiniteSetsExt

CONSTANTS
    Port,      \* ports that the user may choose
    AtFirst,   \* the default port
    Token,     \* tokens that may be typed or generated
    Blank,     \* a token that is empty, or only spaces
    Socket,    \* browser sockets, at a time
    Listeners, \* bound: listeners that live at a time
    MaxTaken   \* bound: times that another program takes a port

ASSUME ServeAssumption ==
    /\ AtFirst \in Port
    /\ Blank \notin Token
    /\ Listeners \in Nat \ {0}
    /\ MaxTaken \in Nat

Instance == 1..Listeners
NoInstance == 0

VARIABLES
    settings, \* enabled, port, token, openLan and readOnly
    server,   \* the ServerHandle: the listener the desktop believes in
    listener, \* listener[k]: its state and the ServerState of its sockets
    sock,     \* sock[s]: its stage and what it keeps of its listener's ServerState
    taken,    \* the ports other programs have, and how often they took one
    acted     \* the last command was performed while a read-only server ran

serveVars == <<settings, server, listener, sock, taken, acted>>

Config == [port : Port, token : Token \cup {Blank}, openLan : BOOLEAN, readOnly : BOOLEAN]

\* What start is given.
ConfigOf(s) ==
    [port |-> s.port, token |-> s.token, openLan |-> s.openLan, readOnly |-> s.readOnly]

\* What gets a socket in.
token_ok(cfg, got) == cfg.openLan \/ got = cfg.token

\* A socket's copy of ServerState: what lets it in, and whether it may only view.
Policy(cfg) ==
    [tokens |-> {t \in Token \cup {Blank} : token_ok(cfg, t)}, readOnly |-> cfg.readOnly]

-------------------------------------------------------------------------------
(* sync_server.                                                            *)

Closed == [state |-> "closed"]

Live(l, k) == l[k].state # "closed"

\* Who has the port, as bind sees it: a listener that is not closed, whether or
\* not it was told to, or another program.
Held(l, p) == p \in taken.ports \/ \E k \in Instance : Live(l, k) /\ l[k].cfg.port = p

\* A server that asks for a token has one.
WithToken(s) ==
    IF s.token = Blank /\ ~s.openLan
    THEN {[s EXCEPT !.token = t] : t \in Token}
    ELSE {s}

\* A server that is not running is started when s says so; if it cannot, the
\* setting is turned off, for good.  l: the listeners at that moment.
Started(s, l) ==
    \E t \in WithToken(s) :
        IF Held(l, t.port)
        THEN /\ settings' = [t EXCEPT !.enabled = FALSE]
             /\ server' = NoInstance
             /\ listener' = l
        ELSE \E k \in Instance :
                /\ ~Live(l, k)
                /\ settings' = t
                /\ server' = k
                /\ listener' = [l EXCEPT ![k] = [state |-> "bound", cfg |-> ConfigOf(t)]]

sync_server(s) ==
    IF s.enabled /\ server = NoInstance
    THEN Started(s, listener)
    ELSE /\ settings' = s
         /\ server' = IF s.enabled THEN server ELSE NoInstance
         /\ UNCHANGED listener

\* (Faulty: the running server is left as it is.)
restart_lazily(s) ==
    /\ settings' = s
    /\ UNCHANGED <<server, listener>>

\* (Faulty: the server is stopped, for the user to start again.)
restart_by_hand(s) ==
    IF server # NoInstance
    THEN /\ settings' = [s EXCEPT !.enabled = FALSE]
         /\ server' = NoInstance
         /\ UNCHANGED listener
    ELSE settings' = s /\ UNCHANGED <<server, listener>>

\* The handle is dropped and the port bound again at once: the runtime has closed
\* the listener by then, or, more likely, it has not.
restart_server(s) ==
    IF server # NoInstance
    THEN \E l \in {listener, [listener EXCEPT ![server] = Closed]} : Started(s, l)
    ELSE settings' = s /\ UNCHANGED <<server, listener>>

-------------------------------------------------------------------------------
(* The options window; every change is saved.                              *)

SetEnabled ==
    /\ sync_server([settings EXCEPT !.enabled = ~@])
    /\ UNCHANGED <<sock, taken, acted>>

\* Port, token, open on LAN, read-only; or the address to bind to, which makes
\* no difference here: all addresses of a port clash.
Configure ==
    /\ \E p \in Port, t \in Token \cup {Blank}, o, r \in BOOLEAN :
          LET s == [settings EXCEPT !.port = p, !.token = t, !.openLan = o, !.readOnly = r]
          IN  /\ Cardinality({f \in DOMAIN s : s[f] # settings[f]}) <= 1
              /\ restart_server(s)
    /\ UNCHANGED <<sock, taken, acted>>

\* The program ends and is started again: its listeners and sockets go with it.
Relaunch ==
    /\ sock' = [s \in Socket |-> Closed]
    /\ \E t \in WithToken(settings) :
          LET runs == t.enabled /\ t.port \notin taken.ports
          IN  /\ settings' = IF t.enabled THEN [t EXCEPT !.enabled = runs] ELSE settings
              /\ server' = IF runs THEN 1 ELSE NoInstance
              /\ listener' = [k \in Instance |->
                                IF runs /\ k = 1
                                THEN [state |-> "bound", cfg |-> ConfigOf(t)]
                                ELSE Closed]
    /\ UNCHANGED <<taken, acted>>

-------------------------------------------------------------------------------
(* The task of each listener.                                              *)

Adopt(k) ==
    /\ listener[k].state = "bound"
    /\ listener' = [listener EXCEPT ![k].state = "serving"]
    /\ UNCHANGED <<settings, server, sock, taken, acted>>

\* The task cannot take the listener over, and ends; the handle stays.
AdoptFails(k) ==
    /\ listener[k].state = "bound"
    /\ listener' = [listener EXCEPT ![k] = Closed]
    /\ UNCHANGED <<settings, server, sock, taken, acted>>

\* Graceful shutdown: the accept loop notices that the handle is gone.
WindDown(k) ==
    /\ listener[k].state = "serving"
    /\ k # server
    /\ listener' = [listener EXCEPT ![k] = Closed]
    /\ UNCHANGED <<settings, server, sock, taken, acted>>

-------------------------------------------------------------------------------
(* Browsers and other programs.                                            *)

\* ws_upgrade: the socket takes a copy of the listener's ServerState.
Accept(s, k) ==
    /\ sock[s].state = "closed"
    /\ listener[k].state = "serving"
    /\ sock' = [sock EXCEPT ![s] = [state |-> "new", policy |-> Policy(listener[k].cfg)]]
    /\ UNCHANGED <<settings, server, listener, taken, acted>>

\* handle_ws: the first message must be an Auth with the token.
Auth(s, got) ==
    /\ sock[s].state = "new"
    /\ sock' = [sock EXCEPT ![s] = IF got \in sock[s].policy.tokens
                                   THEN [state |-> "in", readOnly |-> @.policy.readOnly]
                                   ELSE Closed]
    /\ UNCHANGED <<settings, server, listener, taken, acted>>

\* handle_client_msg: a command that changes the device, denied when read-only.
Command(s) ==
    /\ sock[s].state = "in"
    /\ ~sock[s].readOnly
    /\ acted' = (settings.enabled /\ settings.readOnly)
    /\ UNCHANGED <<settings, server, listener, sock, taken>>

Leave(s) ==
    /\ sock[s].state # "closed"
    /\ sock' = [sock EXCEPT ![s] = Closed]
    /\ UNCHANGED <<settings, server, listener, taken, acted>>

TakePort(p) ==
    /\ taken.times < MaxTaken
    /\ ~Held(listener, p)
    /\ taken' = [ports |-> taken.ports \cup {p}, times |-> taken.times + 1]
    /\ UNCHANGED <<settings, server, listener, sock, acted>>

FreePort(p) ==
    /\ p \in taken.ports
    /\ taken' = [taken EXCEPT !.ports = @ \ {p}]
    /\ UNCHANGED <<settings, server, listener, sock, acted>>

ServeInit ==
    /\ settings = [enabled |-> FALSE, port |-> AtFirst, token |-> Blank, openLan |-> FALSE,
                   readOnly |-> FALSE]
    /\ server = NoInstance
    /\ listener = [k \in Instance |-> Closed]
    /\ sock = [s \in Socket |-> Closed]
    /\ taken = [ports |-> {}, times |-> 0]
    /\ acted = FALSE

Runtime(k) == Adopt(k) \/ AdoptFails(k) \/ WindDown(k)

ServeNext ==
    \/ SetEnabled \/ Configure \/ Relaunch
    \/ \E k \in Instance : Runtime(k) \/ \E s \in Socket : Accept(s, k)
    \/ \E s \in Socket : Leave(s) \/ Command(s) \/ \E t \in Token \cup {Blank} : Auth(s, t)
    \/ \E p \in Port : TakePort(p) \/ FreePort(p)

ServeSpec == ServeInit /\ [][ServeNext]_serveVars

-------------------------------------------------------------------------------
(* Properties.                                                             *)

\* Types; a port has one holder: a listener that is not closed, or another program.
ServeTypeOK ==
    /\ settings \in [enabled : BOOLEAN, port : Port, token : Token \cup {Blank},
                     openLan : BOOLEAN, readOnly : BOOLEAN]
    /\ server \in {NoInstance} \cup Instance
    /\ listener \in [Instance -> {Closed} \cup [state : {"bound", "serving"}, cfg : Config]]
    /\ sock \in [Socket -> {Closed}
                             \cup [state : {"new"}, policy : {Policy(c) : c \in Config}]
                             \cup [state : {"in"}, readOnly : BOOLEAN]]
    /\ taken \in [ports : SUBSET Port, times : 0..MaxTaken]
    /\ acted \in BOOLEAN
    /\ \A k \in Instance : Live(listener, k) => listener[k].cfg.port \notin taken.ports
    /\ \A k, j \in Instance :
          /\ Live(listener, k) /\ Live(listener, j)
          /\ listener[k].cfg.port = listener[j].cfg.port
          => k = j

\* Through every change of the options, failed start and relaunch, the server
\* runs exactly when the box is ticked, and never asks for a token it has not.
RunsAsTicked ==
    /\ settings.enabled <=> server # NoInstance
    /\ settings.enabled => settings.openLan \/ settings.token # Blank

\* Whoever opens the address shown in the options, with the token shown there,
\* gets in, under the policy shown: no earlier listener, still winding down,
\* answers in the place of the one that replaced it.
UrlShownWorks ==
    \A k \in Instance :
        settings.enabled /\ Live(listener, k) /\ listener[k].cfg.port = settings.port =>
            /\ k = server
            /\ token_ok(listener[k].cfg, settings.token)
            /\ listener[k].cfg = ConfigOf(settings)

\* What the options show is what runs.
OptionsAreTrue == ServeTypeOK /\ RunsAsTicked /\ UrlShownWorks

\* "Restart the server (after a config change) if it is running" (app.rs:631): a
\* change of the configuration ends it only if its port has another holder, and
\* the listener that it had itself, not closed yet, is one.
LostOnlyToClash ==
    [][server # NoInstance /\ server' = NoInstance =>
          \/ settings' = [settings EXCEPT !.enabled = FALSE]
          \/ Held(listener, settings'.port)]_serveVars

\* "Web clients may view but not change values/routes/invoke" (settings.rs:120).
ReadOnlyHolds == ~acted

===============================================================================
