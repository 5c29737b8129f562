---------------------------------- MODULE Store ----------------------------------
(***************************************************************************)
(* The two files of the desktop, settings.json and address_book.json: how  *)
(* they are loaded (load_or_recover), saved (fsutil::write_atomic) and     *)
(* moved aside (fsutil::quarantine) while the program is killed, the power *)
(* fails, the disk is full and other programs write to them; and who saves *)
(* the settings when the program starts (App::new).                        *)
(*                                                                         *)
(* A behaviour is about one of the files, chosen at the start.  The file   *)
(* system is external: a directory changes at once for the programs and    *)
(* some time later on the disk; so do contents, sync_all apart.            *)
(***************************************************************************)
EXTENDS Naturals, FiniteSets

CONSTANTS
    Id,       \* providers
    Torn,     \* the beginning of a file
    NotJson,  \* text that does not parse
    NotText,  \* not UTF-8
    Nothing,  \* no file
    MaxDay,   \* bound: days that pass
    MaxOlder, \* bound: renames before the system must write back
    MaxFaults \* bound: power losses, failed calls and foreign contents

File == {"settings", "book"}

\* A whole settings file: the providers to reconnect and the day of the last
\* update check.  A whole address book: its providers.
Setting == [last : SUBSET Id, checked : 0..MaxDay]
Book == [providers : SUBSET Id]

Foreign == {NotJson, NotText}

ASSUME StoreAssumption ==
    /\ MaxDay \in Nat
    /\ Torn \notin Foreign \cup {Nothing}
    /\ Nothing \notin Foreign
    /\ (Foreign \cup {Torn, Nothing}) \cap (Setting \cup Book) = {}

Default(w) == IF w = "settings" THEN [last |-> {}, checked |-> 0] ELSE [providers |-> {}]

VARIABLES
    which,   \* the file that the behaviour is about
    dir,     \* dir[n]: the file of that name, as programs see it
    older,   \* earlier states of dir that a power loss may bring back
    phase,   \* the program: off, starting, running
    mem,     \* the content it holds
    todo,    \* the providers that it has still to connect as it starts
    open,    \* the providers with a session
    writer,  \* the step of write_atomic, saving mem, that it is at
    flight,  \* an update check is under way
    day,
    faults,  \* faults so far
    unread   \* what was there when the program loaded something else, and why

vars == <<which, dir, older, phase, mem, todo, open, writer, flight, day,
          faults, unread>>

app == <<phase, mem, todo, open, flight, unread>>

AllUsed == [what |-> Nothing, why |-> "none"]

-------------------------------------------------------------------------------
(* The file system (external).                                             *)

Name == {"target", "tmp", "bak"}

\* A file: what programs read, and what may be left of it by a power loss.
Absent == [data |-> Nothing, safe |-> {Nothing}]

Synced(c) == [data |-> c, safe |-> {c}]

\* What matters of dir after a power loss.
Kept(d) == [n \in {"target", "bak"} |-> d[n]]

\* A file takes the place of another.
Rename(from, to) ==
    /\ Cardinality(older) < MaxOlder
    /\ dir' = [dir EXCEPT ![to] = dir[from], ![from] = Absent]
    /\ older' = older \cup {Kept(dir)}

Fault == faults < MaxFaults /\ faults' = faults + 1

\* Everything reaches the disk.
WriteBack ==
    /\ dir' = [n \in Name |-> Synced(dir[n].data)]
    /\ older' = {}
    /\ UNCHANGED <<which, app, writer, day, faults>>

Off ==
    /\ phase' = "off"
    /\ todo' = {}
    /\ open' = {}
    /\ writer' = "idle"
    /\ flight' = FALSE
    /\ mem' = Default(which)

PowerLoss ==
    /\ Fault
    /\ \E d \in older \cup {Kept(dir)} :
          \E target \in d["target"].safe, bak \in d["bak"].safe :
             dir' = [n \in Name |-> CASE n = "target" -> Synced(target)
                                      [] n = "bak" -> Synced(bak)
                                      [] OTHER -> IF dir[n] = Absent THEN Absent ELSE Synced(Torn)]
    /\ older' = {}
    /\ unread' = IF unread.what \in Foreign THEN unread ELSE AllUsed
    /\ Off
    /\ UNCHANGED <<which, day>>

\* Another program leaves a file the desktop did not write.
Meddle(c) ==
    /\ Fault
    /\ phase = "off"
    /\ dir' = [dir EXCEPT !["target"] = Synced(c)]
    /\ older' = {}
    /\ unread' = AllUsed
    /\ UNCHANGED <<which, phase, mem, todo, open, writer, flight, day>>

-------------------------------------------------------------------------------
(* write_atomic: its steps, each of which may fail.                        *)

Save == writer' = "create"

Create ==
    /\ writer = "create"
    /\ writer' = "write"
    /\ dir' = [dir EXCEPT !["tmp"] = Synced(Torn)]
    /\ UNCHANGED <<which, older, app, day, faults>>

Write ==
    /\ writer = "write"
    /\ writer' = "sync"
    /\ dir' = [dir EXCEPT !["tmp"] = [data |-> mem, safe |-> {Torn, mem}]]
    /\ UNCHANGED <<which, older, app, day, faults>>

\* (Faulty: the file is not flushed before it is renamed.)
Unsynced ==
    /\ writer = "sync"
    /\ writer' = "rename"
    /\ UNCHANGED <<which, dir, older, app, day, faults>>

Sync ==
    /\ writer = "sync"
    /\ writer' = "rename"
    /\ dir' = [dir EXCEPT !["tmp"] = Synced(mem)]
    /\ UNCHANGED <<which, older, app, day, faults>>

Replace ==
    /\ writer = "rename"
    /\ writer' = "idle"
    /\ Rename("tmp", "target")
    /\ UNCHANGED <<which, app, day, faults>>

\* Any step fails; the caller goes on with what it has in memory.  A failed
\* rename removes the temporary file.
SaveFails ==
    /\ Fault
    /\ writer # "idle"
    /\ dir' = IF writer = "rename" THEN [dir EXCEPT !["tmp"] = Absent] ELSE dir
    /\ writer' = "idle"
    /\ UNCHANGED <<which, older, app, day>>

-------------------------------------------------------------------------------
(* Loading.                                                                *)

\* The start-up mode: no provider, all of them, or those of the last session
\* that are in the book still.
Start(c) ==
    /\ phase' = "starting"
    /\ mem' = c
    /\ todo' \in IF which = "book" THEN {{}} ELSE {Id} \cup SUBSET c.last
    /\ UNCHANGED <<which, open, writer, flight, day>>

\* There is no file, or one that parses.
Load ==
    /\ phase = "off"
    /\ IF dir["target"].data = Nothing THEN Start(Default(which))
       ELSE /\ dir["target"].data \notin Foreign \cup {Torn}
            /\ Start(dir["target"].data)
    /\ UNCHANGED <<dir, older, faults, unread>>

\* (Faulty: a file that does not parse stays where it is.)
NotMoved(why) ==
    /\ phase = "off"
    /\ dir["target"].data # Nothing
    /\ why = "parse" => dir["target"].data \in Foreign \cup {Torn}
    /\ why = "parse" /\ which = "settings" => dir["target"].data # NotText
    /\ IF why = "read" THEN Fault ELSE UNCHANGED faults
    /\ UNCHANGED <<dir, older>>
    /\ unread' = [what |-> dir["target"].data, why |-> why]
    /\ Start(Default(which))

\* load_or_recover, when it moves the file aside: an address book for any
\* error, settings that are text (read_to_string) for a parse error.
Quarantine(why) ==
    /\ phase = "off"
    /\ dir["target"].data # Nothing
    /\ why = "parse" => dir["target"].data \in Foreign \cup {Torn}
    /\ why = "parse" /\ which = "settings" => dir["target"].data # NotText
    /\ why = "read" => which = "book"
    /\ IF why = "read" THEN Fault ELSE UNCHANGED faults
    /\ Rename("target", "bak")
    /\ unread' = [what |-> dir["target"].data, why |-> why]
    /\ Start(Default(which))

\* The rename fails too; the file stays, until the next save.
QuarantineFails ==
    /\ Fault
    /\ phase = "off"
    /\ dir["target"].data \in Foreign \cup {Torn}
    /\ unread' = AllUsed
    /\ Start(Default(which))
    /\ UNCHANGED <<dir, older>>

\* Settings that cannot be read, or are not UTF-8, count as not there.
QuietDefault ==
    /\ which = "settings"
    /\ phase = "off"
    /\ dir["target"].data # Nothing
    /\ IF dir["target"].data = NotText THEN UNCHANGED faults ELSE Fault
    /\ unread' = [what |-> dir["target"].data, why |-> "read"]
    /\ Start(Default(which))
    /\ UNCHANGED <<dir, older>>

-------------------------------------------------------------------------------
(* Who saves.                                                              *)

\* remember_session: the open sessions, if they are not those on record.
Remember(now) ==
    /\ open' = now
    /\ mem' = [mem EXCEPT !.last = now]
    /\ IF now = mem.last THEN UNCHANGED writer ELSE Save

\* apply_startup_mode, one provider at a time, in any order.
StartupConnect ==
    /\ phase = "starting" /\ writer = "idle"
    /\ \E id \in todo :
          /\ todo' = todo \ {id}
          /\ Remember(open \cup {id})
    /\ UNCHANGED <<which, dir, older, phase, flight, day, faults, unread>>

\* An update check begins: its time is recorded first.
Check ==
    /\ mem' = [mem EXCEPT !.checked = day]
    /\ Save
    /\ flight' = TRUE

\* maybe_check_for_updates at launch, opted out of, throttled or not.
StartupDone ==
    /\ phase = "starting" /\ writer = "idle" /\ todo = {}
    /\ phase' = "running"
    /\ \/ which = "settings" /\ day > mem.checked /\ Check
       \/ UNCHANGED <<mem, writer, flight>>
    /\ UNCHANGED <<which, dir, older, todo, open, day, faults, unread>>

\* "Check now" in the About window.
CheckNow ==
    /\ which = "settings" /\ phase = "running" /\ writer = "idle" /\ ~flight
    /\ Check
    /\ UNCHANGED <<which, dir, older, phase, todo, open, day, faults, unread>>

\* poll_update_check, whatever the answer.
CheckDone ==
    /\ phase = "running" /\ writer = "idle" /\ flight
    /\ flight' = FALSE
    /\ UNCHANGED <<which, dir, older, phase, mem, todo, open, writer, day,
                   faults, unread>>

\* A session is opened or closed.
Sessions(now) ==
    /\ which = "settings" /\ phase = "running" /\ writer = "idle" /\ now # open
    /\ Remember(now)
    /\ UNCHANGED <<which, dir, older, phase, todo, flight, day, faults, unread>>

\* The book is changed.
Change(b) ==
    /\ which = "book" /\ phase = "running" /\ writer = "idle"
    /\ mem' = b
    /\ Save
    /\ UNCHANGED <<which, dir, older, phase, todo, open, flight, day, faults, unread>>

\* The program ends, or is killed, at any point: nothing is saved on the way out.
Kill ==
    /\ phase # "off"
    /\ Off
    /\ UNCHANGED <<which, dir, older, day, faults, unread>>

Tick ==
    /\ day < MaxDay
    /\ day' = day + 1
    /\ UNCHANGED <<which, dir, older, app, writer, faults>>

Init ==
    /\ which \in File
    /\ dir = [n \in Name |-> Absent]
    /\ older = {}
    /\ phase = "off"
    /\ mem = Default(which)
    /\ todo = {}
    /\ open = {}
    /\ writer = "idle"
    /\ flight = FALSE
    /\ day = 0
    /\ faults = 0
    /\ unread = AllUsed

Next ==
    \/ WriteBack \/ PowerLoss \/ \E c \in Foreign : Meddle(c)
    \/ Create \/ Write \/ Sync \/ Replace \/ SaveFails
    \/ Load \/ \E why \in {"parse", "read"} : Quarantine(why)
    \/ QuarantineFails \/ QuietDefault
    \/ StartupConnect \/ StartupDone \/ CheckNow \/ CheckDone
    \/ \E now \in SUBSET Id : Sessions(now)
    \/ \E b \in Book : Change(b)
    \/ Kill \/ Tick

Spec == Init /\ [][Next]_vars

-------------------------------------------------------------------------------
(* Properties.                                                             *)

Content == Setting \cup Book \cup Foreign \cup {Torn, Nothing}

Inode == [data : Content, safe : SUBSET Content]

\* Types; a temporary file holds what is being saved once it is written.
TypeOK ==
    /\ which \in File
    /\ dir \in [Name -> Inode]
    /\ older \subseteq [{"target", "bak"} -> Inode]
    /\ phase \in {"off", "starting", "running"}
    /\ mem \in Content
    /\ unread \in [what : Content, why : {"none", "parse", "read"}]
    /\ todo \subseteq Id
    /\ open \subseteq Id
    /\ flight \in BOOLEAN
    /\ day \in 0..MaxDay
    /\ writer \in {"idle", "create", "write", "sync", "rename"}
    /\ writer # "idle" => phase # "off"
    /\ writer \in {"sync", "rename"} => dir["tmp"].data = mem

\* "A crash or power loss mid-save leaves the old file intact instead of a
\* truncated one" (fsutil.rs:5): the file is an AtomicFile, through kills, power
\* losses, failed steps and leftovers of earlier saves.
Promise ==
    INSTANCE AtomicFile WITH
        Whole <- Content \ {Torn},
        value <- dir["target"].data,
        after <- UNION {d["target"].safe : d \in older \cup {dir}}

Atomic == Promise!Spec

\* A file that could not be used is in its place or kept as .bak, however often
\* the program is killed, restarted and saves, and after a power loss: an address
\* book always, settings that do not parse (load_or_recover of both).
KeptAside ==
    /\ TypeOK
    /\ which = "book" \/ unread.why = "parse" =>
          unread.what \in {Nothing, dir["target"].data, dir["bak"].data}

\* "Settings are re-saved shortly after startup, which would otherwise permanently
\* overwrite whatever the user had" (settings.rs:178): nothing that was there and
\* could not be used is overwritten.
NothingOverwritten ==
    unread.what \in {Nothing, dir["target"].data, dir["bak"].data}

===============================================================================
