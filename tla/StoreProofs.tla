------------------------------- MODULE StoreProofs -------------------------------
(***************************************************************************)
(* Proofs about Store, for any providers, days, bounds and number of       *)
(* faults: write_atomic is an AtomicFile, and what could not be used is    *)
(* kept aside.  What the loaded file was is only safe from a power loss    *)
(* because a foreign content is on the disk before the program sees it.    *)
(***************************************************************************)
EXTENDS Store, TLAPS

\* Contents that a file of the desktop has when it is what the desktop wrote.
Own(w) == IF w = "settings" THEN Setting ELSE Book

\* The program holds contents of its own; only settings have sessions to open,
\* and only a running writer is at a step.
OwnContent ==
    /\ mem \in Own(which)
    /\ todo # {} => which = "settings"
    /\ dir["target"].data \in Own(which) \cup Foreign \cup {Nothing}
    /\ \A d \in older : d["target"].data \in Own(which) \cup Foreign \cup {Nothing}

\* The files under the two lasting names are on the disk whole, in every
\* directory that may come back, and so is a temporary file about to be renamed.
AllSynced ==
    /\ \A d \in older \cup {dir}, n \in {"target", "bak"} : d[n] = Synced(d[n].data)
    /\ writer = "rename" => dir["tmp"] = Synced(mem)

\* Whether the content that could not be used is one load_or_recover keeps.
Keeps == which = "book" \/ unread.why = "parse"

\* A foreign content is found with nothing older to come back; once it could not
\* be used, every directory that may come back has it; and while the program
\* runs, and may save, it is in the backup.
Aside ==
    /\ dir["target"].data \in Foreign => older = {}
    /\ Keeps /\ unread.what \in Foreign =>
          \A d \in older \cup {dir} :
             Synced(unread.what) \in {d["target"], d["bak"]}
    /\ Keeps /\ unread.what # Nothing /\ (phase = "off" => unread.what \notin Foreign) =>
          dir["bak"].data = unread.what

StoreInv == KeptAside /\ OwnContent /\ AllSynced /\ Aside

-------------------------------------------------------------------------------
(* Contents and files.                                                     *)

LEMMA Contents ==
    ASSUME NEW w \in File
    PROVE  /\ Default(w) \in Own(w)
           /\ Own(w) \subseteq Content
           /\ Nothing \notin Own(w) /\ Torn \notin Own(w)
           /\ \A c \in Own(w) : c \notin Foreign
           /\ Nothing \notin Foreign /\ Torn \notin Foreign /\ Torn # Nothing
           /\ {Nothing, Torn} \cup Foreign \subseteq Content
<1>1. 0 \in 0..MaxDay
  BY StoreAssumption
<1>2. Default(w) \in Own(w)
  BY <1>1 DEF Default, Own, File, Setting, Book
<1> QED BY <1>2, StoreAssumption DEF Own, Content

LEMMA SyncedFacts ==
    /\ \A c : Synced(c).data = c /\ Synced(c).safe = {c}
    /\ \A c \in Content : Synced(c) \in Inode
    /\ Absent = Synced(Nothing)
  BY DEF Synced, Inode, Absent

\* What starting the program with c leaves.
LEMMA StartFacts ==
    ASSUME which \in File, NEW c \in Own(which), Start(c)
    PROVE  /\ phase' = "starting" /\ mem' = c
           /\ todo' \subseteq Id
           /\ todo' # {} => which = "settings"
           /\ UNCHANGED <<which, open, writer, flight, day>>
<1>1. CASE which = "book"
  BY <1>1 DEF Start
<1>2. CASE which # "book"
  <2>1. which = "settings" /\ c.last \subseteq Id
    BY <1>2 DEF File, Own, Setting
  <2> QED BY <1>2, <2>1 DEF Start
<1> QED BY <1>1, <1>2

-------------------------------------------------------------------------------
(* Steps of the program that leave the files and what was lost alone.      *)

Program ==
    \/ Load \/ StartupConnect \/ StartupDone \/ CheckNow \/ CheckDone
    \/ \E now \in SUBSET Id : Sessions(now)
    \/ \E b \in Book : Change(b)
    \/ Kill \/ Tick

\* The program's state after a step, given that the files stay.
ProgramMoves ==
    /\ UNCHANGED <<which, dir, older, unread>>
    /\ phase' \in {"off", "starting", "running"}
    /\ mem' \in Own(which)
    /\ todo' \subseteq Id
    /\ todo' # {} => which = "settings"
    /\ open' \subseteq Id
    /\ flight' \in BOOLEAN
    /\ day' \in 0..MaxDay
    /\ \/ writer' = "idle"
       \/ writer' = "create" /\ phase' # "off"
       \/ UNCHANGED <<writer, mem, phase>>
    /\ phase = "off" /\ phase' # "off" => dir["target"].data \notin Foreign

LEMMA RememberFacts ==
    ASSUME mem \in Setting, writer = "idle", NEW now \in SUBSET Id, Remember(now)
    PROVE  mem' \in Setting /\ open' = now /\ writer' \in {"idle", "create"}
  BY DEF Remember, Save, Setting

LEMMA ProgramStep ==
    ASSUME StoreInv, Program PROVE ProgramMoves
<1>0. TypeOK /\ OwnContent /\ which \in File
  BY DEF StoreInv, KeptAside, TypeOK
<1>1. CASE Load
  <2>1. PICK c \in Own(which) :
           Start(c) /\ dir["target"].data \notin Foreign /\ UNCHANGED <<dir, older, unread>>
    <3>1. CASE dir["target"].data = Nothing
      BY <1>0, <1>1, <3>1, Contents DEF Load
    <3>2. CASE dir["target"].data # Nothing
      BY <1>0, <1>1, <3>2 DEF Load, OwnContent
    <3> QED BY <3>1, <3>2
  <2>2. writer = "idle"
    BY <1>0, <1>1 DEF Load, TypeOK
  <2> QED BY <1>0, <2>1, <2>2, StartFacts DEF ProgramMoves, TypeOK
<1>2. CASE StartupConnect
  <2>1. PICK id \in todo : todo' = todo \ {id} /\ Remember(open \cup {id})
    BY <1>2 DEF StartupConnect
  <2>2. which = "settings" /\ mem \in Setting /\ open \cup {id} \in SUBSET Id
    BY <1>0, <2>1 DEF OwnContent, Own, TypeOK
  <2>3. /\ writer = "idle" /\ phase = "starting"
        /\ UNCHANGED <<which, dir, older, phase, flight, day, faults, unread>>
    BY <1>2 DEF StartupConnect
  <2>4. mem' \in Setting /\ open' \subseteq Id /\ writer' \in {"idle", "create"}
    BY <2>1, <2>2, <2>3, RememberFacts
  <2> QED BY <1>0, <2>1, <2>2, <2>3, <2>4 DEF ProgramMoves, TypeOK, OwnContent, Own
<1>3. CASE StartupDone \/ CheckNow
  <2>1. /\ phase # "off" /\ phase' \in {"starting", "running"} /\ writer = "idle"
        /\ UNCHANGED <<which, dir, older, todo, open, day, faults, unread>>
        /\ \/ which = "settings" /\ Check
           \/ UNCHANGED <<mem, writer, flight>>
    BY <1>3 DEF StartupDone, CheckNow
  <2>2. CASE which = "settings" /\ Check
    <3>1. mem' \in Own(which)
      BY <1>0, <2>2 DEF Check, OwnContent, Own, Setting, TypeOK
    <3> QED BY <1>0, <2>1, <2>2, <3>1 DEF ProgramMoves, TypeOK, OwnContent, Check, Save
  <2>3. CASE UNCHANGED <<mem, writer, flight>>
    BY <1>0, <2>1, <2>3 DEF ProgramMoves, TypeOK, OwnContent
  <2> QED BY <2>1, <2>2, <2>3
<1>4. CASE CheckDone
  BY <1>0, <1>4 DEF CheckDone, ProgramMoves, TypeOK, OwnContent
<1>5. ASSUME NEW now \in SUBSET Id, Sessions(now) PROVE ProgramMoves
  <2>1. /\ which = "settings" /\ writer = "idle" /\ phase = "running" /\ Remember(now)
        /\ UNCHANGED <<which, dir, older, phase, todo, flight, day, faults, unread>>
    BY <1>5 DEF Sessions
  <2>2. mem' \in Setting /\ open' = now /\ writer' \in {"idle", "create"}
    BY <1>0, <2>1, RememberFacts DEF OwnContent, Own
  <2> QED BY <1>0, <2>1, <2>2 DEF ProgramMoves, TypeOK, OwnContent, Own
<1>6. ASSUME NEW b \in Book, Change(b) PROVE ProgramMoves
  BY <1>0, <1>6 DEF Change, Save, ProgramMoves, TypeOK, OwnContent, Own
<1>7. CASE Kill
  BY <1>0, <1>7, Contents DEF Kill, Off, ProgramMoves, TypeOK
<1>8. CASE Tick
  <2>1. day' \in 0..MaxDay
    BY <1>0, <1>8, StoreAssumption DEF Tick, TypeOK
  <2> QED BY <1>0, <1>8, <2>1 DEF Tick, app, ProgramMoves, TypeOK, OwnContent
<1> QED BY <1>1, <1>2, <1>3, <1>4, <1>5, <1>6, <1>7, <1>8 DEF Program

LEMMA ProgramOK ==
    ASSUME StoreInv, ProgramMoves PROVE StoreInv'
<1>0. TypeOK /\ KeptAside /\ OwnContent /\ AllSynced /\ Aside /\ which \in File
  BY DEF StoreInv, KeptAside, TypeOK
<1>1. TypeOK'
  <2>1. mem' \in Content
    BY <1>0, Contents DEF ProgramMoves
  <2>2. /\ writer' \in {"idle", "create", "write", "sync", "rename"}
        /\ writer' # "idle" => phase' # "off"
        /\ writer' \in {"sync", "rename"} => dir["tmp"].data = mem'
    BY <1>0 DEF ProgramMoves, TypeOK
  <2> QED BY <1>0, <2>1, <2>2 DEF ProgramMoves, TypeOK
<1>2. KeptAside'
  BY <1>0, <1>1 DEF KeptAside, ProgramMoves
<1>3. OwnContent'
  BY <1>0 DEF OwnContent, ProgramMoves
<1>4. AllSynced'
  BY <1>0 DEF AllSynced, ProgramMoves
<1>5. Aside'
  <2>1. CASE phase = "off" /\ phase' # "off" /\ Keeps /\ unread.what \in Foreign
    <3>1. unread.what \in {Nothing, dir["target"].data, dir["bak"].data}
      BY <1>0, <2>1 DEF KeptAside, Keeps
    <3>2. unread.what # Nothing /\ unread.what # dir["target"].data
      BY <1>0, <2>1, Contents DEF ProgramMoves
    <3> QED BY <1>0, <2>1, <3>1, <3>2 DEF Aside, ProgramMoves, Keeps
  <2>2. CASE ~(phase = "off" /\ phase' # "off" /\ Keeps /\ unread.what \in Foreign)
    BY <1>0, <2>2 DEF Aside, ProgramMoves, Keeps
  <2> QED BY <2>1, <2>2
<1> QED BY <1>2, <1>3, <1>4, <1>5 DEF StoreInv

-------------------------------------------------------------------------------
(* write_atomic.                                                           *)

\* Before the rename, only the temporary file changes.
LEMMA WriterOK ==
    ASSUME StoreInv, Create \/ Write \/ Sync \/ SaveFails PROVE StoreInv'
<1>0. TypeOK /\ KeptAside /\ OwnContent /\ AllSynced /\ Aside /\ which \in File
  BY DEF StoreInv, KeptAside, TypeOK
<1>1. /\ UNCHANGED <<which, older, phase, mem, todo, open, flight, unread, day>>
      /\ writer' \in {"idle", "write", "sync", "rename"}
      /\ phase # "off"
  BY <1>0 DEF Create, Write, Sync, SaveFails, app, TypeOK
<1>2. PICK x \in Inode :
         /\ dir' = [dir EXCEPT !["tmp"] = x]
         /\ writer' \in {"sync", "rename"} => x.data = mem
         /\ writer' = "rename" => x = Synced(mem)
  <2>1. CASE Create
    BY <1>0, <2>1, SyncedFacts, Contents DEF Create
  <2>2. CASE Write
    <3>1. [data |-> mem, safe |-> {Torn, mem}] \in Inode
      BY <1>0, Contents DEF TypeOK, Inode
    <3> QED BY <2>2, <3>1 DEF Write
  <2>3. CASE Sync
    BY <1>0, <2>3, SyncedFacts DEF Sync, TypeOK
  <2>4. CASE SaveFails
    <3>1. CASE writer = "rename"
      BY <1>0, <2>4, <3>1, SyncedFacts, Contents DEF SaveFails
    <3>2. CASE writer # "rename"
      <4>1. dir["tmp"] \in Inode /\ dir' = [dir EXCEPT !["tmp"] = dir["tmp"]] /\ writer' = "idle"
        BY <1>0, <2>4, <3>2 DEF SaveFails, TypeOK, Name
      <4> QED BY <4>1
    <3> QED BY <3>1, <3>2
  <2> QED BY <2>1, <2>2, <2>3, <2>4
<1>3. /\ dir' \in [Name -> Inode]
      /\ dir'["tmp"] = x /\ dir'["target"] = dir["target"] /\ dir'["bak"] = dir["bak"]
  BY <1>0, <1>2 DEF TypeOK, Name
<1>4. TypeOK'
  BY <1>0, <1>1, <1>2, <1>3 DEF TypeOK
<1>5. KeptAside'
  BY <1>0, <1>1, <1>3, <1>4 DEF KeptAside
<1>6. OwnContent'
  BY <1>0, <1>1, <1>3 DEF OwnContent
<1>7. AllSynced'
  BY <1>0, <1>1, <1>2, <1>3, ZenonT(40) DEF AllSynced
<1>8. Aside'
  BY <1>0, <1>1, <1>3 DEF Aside, Keeps
<1> QED BY <1>5, <1>6, <1>7, <1>8 DEF StoreInv

\* The directory that a rename leaves among those that may come back.
LEMMA KeptFacts ==
    ASSUME TypeOK
    PROVE  /\ Kept(dir) \in [{"target", "bak"} -> Inode]
           /\ Kept(dir)["target"] = dir["target"] /\ Kept(dir)["bak"] = dir["bak"]
           /\ dir["target"] \in Inode /\ dir["bak"] \in Inode /\ dir["tmp"] \in Inode
           /\ dir["target"].data \in Content /\ dir["bak"].data \in Content
  BY DEF Kept, TypeOK, Name, Inode

LEMMA ReplaceOK ==
    ASSUME StoreInv, Replace PROVE StoreInv'
<1>0. TypeOK /\ KeptAside /\ OwnContent /\ AllSynced /\ Aside /\ which \in File
  BY DEF StoreInv, KeptAside, TypeOK
<1>1. /\ dir' = [dir EXCEPT !["target"] = dir["tmp"], !["tmp"] = Absent]
      /\ older' = older \cup {Kept(dir)}
      /\ UNCHANGED <<which, phase, mem, todo, open, flight, unread, day>>
      /\ writer = "rename" /\ writer' = "idle" /\ phase # "off"
  BY <1>0 DEF Replace, Rename, app, TypeOK
<1>2. /\ dir' \in [Name -> Inode]
      /\ dir'["target"] = Synced(mem) /\ dir'["bak"] = dir["bak"]
      /\ older' \subseteq [{"target", "bak"} -> Inode]
  <2>1. Absent \in Inode
    BY <1>0, SyncedFacts, Contents
  <2>2. dir' \in [Name -> Inode]
    BY <1>0, <1>1, <2>1 DEF TypeOK, Name
  <2> QED BY <1>0, <1>1, <2>2, KeptFacts DEF AllSynced, TypeOK, Name
<1>3. TypeOK'
  BY <1>0, <1>1, <1>2 DEF TypeOK
<1>4. mem \notin Foreign /\ mem # Nothing
  BY <1>0, Contents DEF OwnContent
<1>5. Keeps /\ unread.what # Nothing =>
         dir["bak"].data = unread.what /\ dir["bak"] = Synced(unread.what)
  BY <1>0, <1>1 DEF Aside, AllSynced
<1>6. KeptAside'
  BY <1>0, <1>1, <1>2, <1>3, <1>5 DEF KeptAside, Keeps
<1>7. OwnContent'
  BY <1>0, <1>1, <1>2, KeptFacts, SyncedFacts DEF OwnContent
<1>8. AllSynced'
  <2>1. ASSUME NEW d \in older' \cup {dir'}, NEW n \in {"target", "bak"}
        PROVE  d[n] = Synced(d[n].data)
    <3>1. CASE d \in older \cup {dir}
      BY <1>0, <3>1 DEF AllSynced
    <3>2. CASE d = Kept(dir)
      BY <1>0, <3>2, KeptFacts DEF AllSynced
    <3>3. CASE d = dir'
      BY <1>0, <1>2, <3>3, SyncedFacts DEF AllSynced
    <3> QED BY <1>1, <3>1, <3>2, <3>3
  <2> QED BY <1>1, <2>1 DEF AllSynced
<1>9. Aside'
  <2>1. dir'["target"].data \notin Foreign
    BY <1>2, <1>4, SyncedFacts
  <2>2. ASSUME Keeps, unread.what \in Foreign, NEW d \in older' \cup {dir'}
        PROVE  Synced(unread.what) \in {d["target"], d["bak"]}
    <3>1. unread.what # Nothing
      BY <1>0, <2>2, Contents
    <3>2. CASE d \in older \cup {dir}
      BY <1>0, <2>2, <3>2 DEF Aside
    <3>3. CASE d = Kept(dir) \/ d = dir'
      <4>1. d["bak"] = dir["bak"]
        BY <1>0, <1>2, <3>3, KeptFacts
      <4> QED BY <1>5, <2>2, <3>1, <4>1
    <3> QED BY <1>1, <2>2, <3>2, <3>3
  <2> QED BY <1>1, <1>2, <1>5, <2>1, <2>2 DEF Aside, Keeps
<1> QED BY <1>6, <1>7, <1>8, <1>9 DEF StoreInv

-------------------------------------------------------------------------------
(* The file system and other programs.                                     *)

LEMMA WriteBackOK ==
    ASSUME StoreInv, WriteBack PROVE StoreInv'
<1>0. TypeOK /\ KeptAside /\ OwnContent /\ AllSynced /\ Aside /\ which \in File
  BY DEF StoreInv, KeptAside, TypeOK
<1>1. /\ dir' = [n \in Name |-> Synced(dir[n].data)]
      /\ older' = {}
      /\ UNCHANGED <<which, phase, mem, todo, open, flight, unread, writer, day>>
  BY DEF WriteBack, app
<1>2. /\ dir' \in [Name -> Inode]
      /\ \A n \in Name : dir'[n] = Synced(dir[n].data) /\ dir'[n].data = dir[n].data
  <2>1. \A n \in Name : dir[n].data \in Content
    BY <1>0 DEF TypeOK, Inode
  <2> QED BY <1>1, <2>1, SyncedFacts
<1>3. "target" \in Name /\ "bak" \in Name /\ "tmp" \in Name
  BY DEF Name
<1>4. TypeOK'
  BY <1>0, <1>1, <1>2, <1>3 DEF TypeOK
<1>5. KeptAside'
  BY <1>0, <1>1, <1>2, <1>3, <1>4 DEF KeptAside
<1>6. OwnContent'
  BY <1>0, <1>1, <1>2, <1>3 DEF OwnContent
<1>7. AllSynced'
  <2>1. writer = "rename" => dir["tmp"].data = mem
    BY <1>0 DEF TypeOK
  <2>2. \A n \in {"target", "bak"} : dir'[n] = Synced(dir'[n].data)
    BY <1>2, <1>3
  <2> QED BY <1>1, <1>2, <1>3, <2>1, <2>2 DEF AllSynced
<1>8. Aside'
  <2>1. dir'["target"] = dir["target"] /\ dir'["bak"] = dir["bak"]
    BY <1>0, <1>2, <1>3 DEF AllSynced
  <2> QED BY <1>0, <1>1, <2>1 DEF Aside, Keeps
<1> QED BY <1>5, <1>6, <1>7, <1>8 DEF StoreInv

LEMMA PowerLossFacts ==
    ASSUME StoreInv, PowerLoss
    PROVE  \E d \in older \cup {dir} :
             /\ dir' \in [Name -> Inode]
             /\ dir'["target"] = d["target"] /\ dir'["bak"] = d["bak"]
             /\ d["target"] = Synced(d["target"].data) /\ d["bak"] = Synced(d["bak"].data)
             /\ d["target"].data \in Own(which) \cup Foreign \cup {Nothing}
<1>0. TypeOK /\ OwnContent /\ AllSynced /\ which \in File
  BY DEF StoreInv, KeptAside, TypeOK
<1>1. PICK k \in older \cup {Kept(dir)} :
         \E target \in k["target"].safe, bak \in k["bak"].safe :
            dir' = [n \in Name |-> CASE n = "target" -> Synced(target)
                                     [] n = "bak" -> Synced(bak)
                                     [] OTHER -> IF dir[n] = Absent THEN Absent ELSE Synced(Torn)]
  BY DEF PowerLoss
<1>2. PICK d \in older \cup {dir} : d["target"] = k["target"] /\ d["bak"] = k["bak"]
  BY <1>0, KeptFacts
<1>3. /\ d["target"] = Synced(d["target"].data) /\ d["bak"] = Synced(d["bak"].data)
      /\ d["target"].data \in Own(which) \cup Foreign \cup {Nothing}
  BY <1>0 DEF AllSynced, OwnContent
<1>4. d["target"] \in Inode /\ d["bak"] \in Inode
  BY <1>0, KeptFacts DEF TypeOK
<1>5. dir' = [n \in Name |-> CASE n = "target" -> d["target"]
                               [] n = "bak" -> d["bak"]
                               [] OTHER -> IF dir[n] = Absent THEN Absent ELSE Synced(Torn)]
  BY <1>1, <1>2, <1>3, SyncedFacts
<1>6. Absent \in Inode /\ Synced(Torn) \in Inode
  BY <1>0, SyncedFacts, Contents
<1>7. dir' \in [Name -> Inode]
  BY <1>4, <1>5, <1>6
<1>8. dir'["target"] = d["target"] /\ dir'["bak"] = d["bak"]
  BY <1>5 DEF Name
<1> QED BY <1>3, <1>7, <1>8

\* A step that ends the program and leaves nothing else that may come back.
LEMMA Settled ==
    ASSUME StoreInv, phase' = "off",
           Off \/ (phase = "off" /\ UNCHANGED <<mem, todo, open, writer, flight>>),
           UNCHANGED <<which, day>>,
           older' = {},
           dir' \in [Name -> Inode],
           dir'["target"] = Synced(dir'["target"].data),
           dir'["bak"] = Synced(dir'["bak"].data),
           dir'["target"].data \in Own(which) \cup Foreign \cup {Nothing},
           unread' \in [what : Content, why : {"none", "parse", "read"}],
           Keeps' => unread'.what = Nothing \/
              (unread'.what \in Foreign
                 /\ Synced(unread'.what) \in {dir'["target"], dir'["bak"]})
    PROVE  StoreInv'
<1>0. TypeOK /\ OwnContent /\ AllSynced /\ Aside /\ which \in File
  BY DEF StoreInv, KeptAside, TypeOK
<1>1. /\ mem' \in Own(which) /\ mem' \in Content
      /\ todo' \subseteq Id /\ open' \subseteq Id /\ flight' \in BOOLEAN
      /\ todo' # {} => which = "settings"
      /\ writer' = "idle"
  BY <1>0, Contents DEF Off, TypeOK, OwnContent
<1>2. TypeOK'
  BY <1>0, <1>1 DEF TypeOK
<1>3. KeptAside'
  BY <1>2, SyncedFacts DEF KeptAside, Keeps
<1>4. OwnContent'
  BY <1>1 DEF OwnContent
<1>5. AllSynced'
  BY <1>1 DEF AllSynced
<1>6. Aside'
  <2>1. Keeps' /\ unread'.what \in Foreign =>
           Synced(unread'.what) \in {dir'["target"], dir'["bak"]}
    BY <1>0, Contents
  <2>2. ~(Keeps' /\ unread'.what # Nothing /\ unread'.what \notin Foreign)
    OBVIOUS
  <2> QED BY <2>1, <2>2 DEF Aside
<1> QED BY <1>3, <1>4, <1>5, <1>6 DEF StoreInv

LEMMA PowerLossOK ==
    ASSUME StoreInv, PowerLoss PROVE StoreInv'
<1>0. TypeOK /\ Aside /\ which \in File
  BY DEF StoreInv, KeptAside, TypeOK
<1>1. PICK d \in older \cup {dir} :
         /\ dir' \in [Name -> Inode]
         /\ dir'["target"] = d["target"] /\ dir'["bak"] = d["bak"]
         /\ d["target"] = Synced(d["target"].data) /\ d["bak"] = Synced(d["bak"].data)
         /\ d["target"].data \in Own(which) \cup Foreign \cup {Nothing}
  BY PowerLossFacts
<1>2. /\ Off /\ phase' = "off" /\ older' = {} /\ UNCHANGED <<which, day>>
      /\ unread' = IF unread.what \in Foreign THEN unread ELSE AllUsed
  BY DEF PowerLoss, Off
<1>3. unread' \in [what : Content, why : {"none", "parse", "read"}]
  BY <1>0, <1>2, Contents DEF AllUsed, TypeOK
<1>4. ASSUME Keeps' PROVE unread'.what = Nothing \/
              (unread'.what \in Foreign
                 /\ Synced(unread'.what) \in {dir'["target"], dir'["bak"]})
  <2>1. CASE unread.what \in Foreign
    <3>1. unread' = unread /\ Keeps
      BY <1>2, <1>4, <2>1 DEF Keeps
    <3>2. Synced(unread.what) \in {d["target"], d["bak"]}
      BY <1>0, <2>1, <3>1 DEF Aside
    <3> QED BY <1>1, <2>1, <3>1, <3>2
  <2>2. CASE unread.what \notin Foreign
    BY <1>2, <2>2 DEF AllUsed
  <2> QED BY <2>1, <2>2
<1> QED BY <1>1, <1>2, <1>3, <1>4, Settled

LEMMA MeddleOK ==
    ASSUME StoreInv, NEW c \in Foreign, Meddle(c) PROVE StoreInv'
<1>0. TypeOK /\ AllSynced /\ which \in File
  BY DEF StoreInv, KeptAside, TypeOK
<1>1. /\ dir' = [dir EXCEPT !["target"] = Synced(c)]
      /\ older' = {} /\ phase = "off" /\ phase' = "off" /\ unread' = AllUsed
      /\ UNCHANGED <<which, mem, todo, open, writer, flight, day>>
  BY DEF Meddle
<1>2. Synced(c) \in Inode /\ Synced(c).data = c
  BY <1>0, SyncedFacts, Contents
<1>3. /\ dir' \in [Name -> Inode]
      /\ dir'["target"] = Synced(c) /\ dir'["bak"] = dir["bak"]
  BY <1>0, <1>1, <1>2 DEF TypeOK, Name
<1>4. dir'["bak"] = Synced(dir'["bak"].data)
  BY <1>0, <1>3 DEF AllSynced
<1>5. unread'.what = Nothing /\ unread' \in [what : Content, why : {"none", "parse", "read"}]
  BY <1>0, <1>1, Contents DEF AllUsed
<1> QED BY <1>1, <1>2, <1>3, <1>4, <1>5, Settled

-------------------------------------------------------------------------------
(* Loading what cannot be used.                                            *)

LEMMA QuarantineOK ==
    ASSUME StoreInv, NEW why \in {"parse", "read"}, Quarantine(why) PROVE StoreInv'
<1>0. TypeOK /\ OwnContent /\ AllSynced /\ Aside /\ which \in File
  BY DEF StoreInv, KeptAside, TypeOK
<1>1. /\ phase = "off"
      /\ dir["target"].data # Nothing
      /\ why = "read" => which = "book"
      /\ dir' = [dir EXCEPT !["bak"] = dir["target"], !["target"] = Absent]
      /\ older' = older \cup {Kept(dir)}
      /\ unread' = [what |-> dir["target"].data, why |-> why]
      /\ Start(Default(which))
  BY DEF Quarantine, Rename
<1>2. /\ phase' = "starting" /\ mem' = Default(which) /\ mem' \in Own(which)
      /\ mem' \in Content
      /\ todo' \subseteq Id
      /\ todo' # {} => which = "settings"
      /\ UNCHANGED <<which, open, writer, flight, day>>
  BY <1>0, <1>1, StartFacts, Contents
<1>3. writer = "idle"
  BY <1>0, <1>1 DEF TypeOK
<1>4. /\ dir' \in [Name -> Inode]
      /\ dir'["target"] = Synced(Nothing) /\ dir'["bak"] = dir["target"]
      /\ older' \subseteq [{"target", "bak"} -> Inode]
  <2>1. Absent \in Inode /\ Absent = Synced(Nothing)
    BY <1>0, SyncedFacts, Contents
  <2>2. dir' \in [Name -> Inode]
    BY <1>0, <1>1, <2>1 DEF TypeOK, Name
  <2> QED BY <1>0, <1>1, <2>1, <2>2, KeptFacts DEF TypeOK, Name
<1>5. dir["target"] = Synced(dir["target"].data) /\ dir["target"].data \in Content
  BY <1>0, KeptFacts DEF AllSynced
<1>6. TypeOK'
  BY <1>0, <1>1, <1>2, <1>3, <1>4, <1>5 DEF TypeOK
<1>7. KeptAside'
  BY <1>1, <1>4, <1>6 DEF KeptAside
<1>8. OwnContent'
  BY <1>0, <1>1, <1>2, <1>4, KeptFacts, SyncedFacts DEF OwnContent
<1>9. AllSynced'
  <2>1. ASSUME NEW d \in older' \cup {dir'}, NEW n \in {"target", "bak"}
        PROVE  d[n] = Synced(d[n].data)
    <3>1. CASE d \in older
      BY <1>0, <3>1 DEF AllSynced
    <3>2. CASE d = Kept(dir)
      BY <1>0, <3>2, KeptFacts DEF AllSynced
    <3>3. CASE d = dir'
      BY <1>4, <1>5, <3>3, SyncedFacts
    <3> QED BY <1>1, <3>1, <3>2, <3>3
  <2> QED BY <1>2, <1>3, <2>1 DEF AllSynced
<1>10. Aside'
  <2>1. dir'["target"].data \notin Foreign
    BY <1>0, <1>4, SyncedFacts, Contents
  <2>2. ASSUME unread'.what \in Foreign, NEW d \in older' \cup {dir'}
        PROVE  Synced(unread'.what) \in {d["target"], d["bak"]}
    <3>1. older = {}
      BY <1>0, <1>1, <2>2 DEF Aside
    <3>2. Synced(unread'.what) = dir["target"]
      BY <1>1, <1>5
    <3> QED BY <1>0, <1>1, <1>4, <3>1, <3>2, KeptFacts
  <2>3. dir'["bak"].data = unread'.what
    BY <1>1, <1>4
  <2> QED BY <2>1, <2>2, <2>3 DEF Aside
<1> QED BY <1>7, <1>8, <1>9, <1>10 DEF StoreInv

LEMMA DefaultsOK ==
    ASSUME StoreInv, QuarantineFails \/ QuietDefault PROVE StoreInv'
<1>0. TypeOK /\ OwnContent /\ AllSynced /\ Aside /\ which \in File
  BY DEF StoreInv, KeptAside, TypeOK
<1>1. phase = "off" /\ Start(Default(which)) /\ UNCHANGED <<dir, older>>
  BY DEF QuarantineFails, QuietDefault
<1>2. /\ phase' = "starting" /\ mem' \in Own(which) /\ mem' \in Content
      /\ todo' \subseteq Id
      /\ todo' # {} => which = "settings"
      /\ UNCHANGED <<which, open, writer, flight, day>>
  BY <1>0, <1>1, StartFacts, Contents
<1>3. writer = "idle"
  BY <1>0, <1>1 DEF TypeOK
<1>4. /\ unread' \in [what : Content, why : {"none", "parse", "read"}]
      /\ unread'.what = Nothing \/ ~Keeps'
  <2>1. CASE QuarantineFails
    BY <1>0, <2>1, Contents DEF QuarantineFails, AllUsed
  <2>2. CASE QuietDefault
    BY <1>0, <1>2, <2>2, KeptFacts DEF QuietDefault, Keeps
  <2> QED BY <2>1, <2>2
<1>5. TypeOK'
  BY <1>0, <1>1, <1>2, <1>3, <1>4 DEF TypeOK
<1>6. KeptAside'
  BY <1>4, <1>5 DEF KeptAside, Keeps
<1>7. OwnContent'
  BY <1>0, <1>1, <1>2 DEF OwnContent
<1>8. AllSynced'
  BY <1>0, <1>1, <1>2, <1>3 DEF AllSynced
<1>9. Aside'
  BY <1>0, <1>1, <1>4, Contents DEF Aside
<1> QED BY <1>6, <1>7, <1>8, <1>9 DEF StoreInv

-------------------------------------------------------------------------------
(* The invariant, and what is kept aside.                                  *)

LEMMA InitStore == Init => StoreInv
<1> SUFFICES ASSUME Init PROVE StoreInv
  OBVIOUS
<1>1. which \in File /\ Absent = Synced(Nothing) /\ Absent \in Inode /\ Absent.data = Nothing
  BY SyncedFacts, Contents DEF Init
<1>2. dir["target"] = Absent /\ dir["bak"] = Absent /\ dir \in [Name -> Inode]
  BY <1>1 DEF Init, Name
<1>3. mem \in Own(which) /\ mem \in Content /\ 0 \in 0..MaxDay
  BY <1>1, Contents, StoreAssumption DEF Init
<1>4. unread.what = Nothing /\ unread \in [what : Content, why : {"none", "parse", "read"}]
  BY <1>1, Contents DEF Init, AllUsed
<1>5. TypeOK
  BY <1>1, <1>2, <1>3, <1>4 DEF Init, TypeOK
<1>6. KeptAside /\ OwnContent
  BY <1>1, <1>2, <1>3, <1>4, <1>5 DEF Init, KeptAside, OwnContent
<1>7. AllSynced
  BY <1>1, <1>2 DEF Init, AllSynced
<1>8. Aside
  BY <1>1, <1>4, Contents DEF Init, Aside
<1> QED BY <1>6, <1>7, <1>8 DEF StoreInv

LEMMA StepStore == StoreInv /\ [Next]_vars => StoreInv'
<1> SUFFICES ASSUME StoreInv, [Next]_vars PROVE StoreInv'
  OBVIOUS
<1>1. CASE Program
  BY <1>1, ProgramStep, ProgramOK
<1>2. CASE UNCHANGED vars
  BY <1>2 DEF vars, StoreInv, KeptAside, TypeOK, OwnContent, AllSynced, Aside, Keeps
<1>3. CASE ~Program /\ Next
  BY <1>3, WriteBackOK, PowerLossOK, MeddleOK, WriterOK, ReplaceOK, QuarantineOK, DefaultsOK
  DEF Next, Program
<1> QED BY <1>1, <1>2, <1>3

LEMMA StoreAlways == Spec => []StoreInv
  BY InitStore, StepStore, PTL DEF Spec

\* Through any kills, restarts, saves and power losses: an address book that could
\* not be used, and settings that do not parse, are where they were or in the
\* backup that quarantine made of them.
THEOREM AlwaysKeptAside == Spec => []KeptAside
<1>1. StoreInv => KeptAside
  BY DEF StoreInv
<1> QED BY <1>1, StoreAlways, PTL

-------------------------------------------------------------------------------
(* The files are atomic.                                                   *)

After == UNION {d["target"].safe : d \in older \cup {dir}}

LEMMA AfterFacts ==
    ASSUME AllSynced
    PROVE  /\ \A d \in older \cup {dir} : d["target"].safe = {d["target"].data}
           /\ dir["target"].data \in After
<1>1. \A d \in older \cup {dir} : d["target"].safe = {d["target"].data}
  BY SyncedFacts DEF AllSynced
<1> QED BY <1>1 DEF After

LEMMA PromiseStep ==
    ASSUME StoreInv, StoreInv', [Next]_vars PROVE [Promise!Next]_<<dir["target"].data, After>>
<1>0. TypeOK /\ OwnContent /\ AllSynced /\ AllSynced' /\ which \in File
  BY DEF StoreInv, KeptAside, TypeOK
<1>1. CASE UNCHANGED <<dir, older>>
  BY <1>1 DEF After
<1>2. CASE Create \/ Write \/ Sync \/ SaveFails
  <2>1. dir'["target"] = dir["target"] /\ older' = older
    BY <1>0, <1>2 DEF Create, Write, Sync, SaveFails, TypeOK, Name
  <2>2. After' = After
    BY <2>1 DEF After
  <2> QED BY <2>1, <2>2
<1>3. CASE WriteBack
  <2>1. dir'["target"].data = dir["target"].data /\ older' = {}
    BY <1>3, SyncedFacts DEF WriteBack, Name
  <2>2. After' = {dir["target"].data}
    BY <1>0, <2>1, AfterFacts DEF After, AllSynced
  <2> QED BY <2>1, <2>2 DEF Promise!Next, Promise!Settle, After
<1>4. CASE PowerLoss
  <2>1. PICK d \in older \cup {dir} : dir'["target"] = d["target"] /\ older' = {}
    BY <1>4, PowerLossFacts DEF PowerLoss
  <2>2. d["target"].data \in After
    BY <1>0, AfterFacts DEF After
  <2>3. After' = {dir'["target"].data}
    BY <1>0, <2>1, AfterFacts DEF After
  <2> QED BY <2>1, <2>2, <2>3 DEF Promise!Next, Promise!PowerLoss, After
<1>5. ASSUME NEW c \in Content \ {Torn},
             dir'["target"] = Synced(c),
             \A d \in older' : d \in older \/ d = Kept(dir)
      PROVE  Promise!Next
  <2>1. After' \subseteq After \cup {c}
    <3>1. \A d \in older' \cup {dir'} : d["target"].safe \subseteq After \cup {c}
      BY <1>0, <1>5, KeptFacts, SyncedFacts DEF After
    <3> QED BY <3>1 DEF After
  <2>2. c \in After' /\ dir'["target"].data = c
    BY <1>5, SyncedFacts DEF After
  <2> QED BY <2>1, <2>2 DEF Promise!Next, Promise!Put, After
<1>6. CASE Replace
  <2>1. /\ dir'["target"] = Synced(mem)
        /\ older' = older \cup {Kept(dir)}
    BY <1>0, <1>6 DEF Replace, Rename, AllSynced, TypeOK, Name
  <2>2. mem \in Content \ {Torn}
    BY <1>0, Contents DEF OwnContent
  <2> QED BY <1>5, <2>1, <2>2
<1>7. ASSUME NEW c \in Foreign, Meddle(c) PROVE Promise!Next
  <2>1. dir'["target"] = Synced(c) /\ older' = {} /\ c \in Content \ {Torn}
    BY <1>0, <1>7, Contents DEF Meddle, TypeOK, Name
  <2> QED BY <1>5, <2>1
<1>8. ASSUME NEW why \in {"parse", "read"}, Quarantine(why) PROVE Promise!Next
  <2>1. /\ dir'["target"] = Synced(Nothing)
        /\ older' = older \cup {Kept(dir)}
    BY <1>0, <1>8, SyncedFacts DEF Quarantine, Rename, TypeOK, Name
  <2>2. Nothing \in Content \ {Torn}
    BY <1>0, Contents
  <2> QED BY <1>5, <2>1, <2>2
<1>9. CASE Program
  BY <1>1, <1>9, ProgramStep DEF ProgramMoves
<1>10. CASE QuarantineFails \/ QuietDefault \/ UNCHANGED vars
  BY <1>1, <1>10 DEF QuarantineFails, QuietDefault, vars
<1> QED BY <1>2, <1>3, <1>4, <1>6, <1>7, <1>8, <1>9, <1>10 DEF Next, Program

LEMMA PromiseInit == Init => Promise!Init
<1> SUFFICES ASSUME Init PROVE Promise!Init
  OBVIOUS
<1>1. which \in File /\ older = {} /\ dir["target"] = Synced(Nothing)
  BY SyncedFacts DEF Init, Name
<1>2. Nothing \in Content \ {Torn}
  BY <1>1, Contents
<1>3. After = {Nothing}
  BY <1>1, SyncedFacts DEF After
<1> QED BY <1>1, <1>2, <1>3, SyncedFacts DEF Promise!Init, After

\* "A crash or power loss mid-save leaves the old file intact" (fsutil.rs:5): at
\* every step of write_atomic and quarantine, whatever fails or is lost, the file
\* and all that may come back of it is nothing or a whole content.
THEOREM SavesAreAtomic == Spec => Atomic
<1>1. StoreInv /\ StoreInv' /\ [Next]_vars => [Promise!Next]_<<dir["target"].data, After>>
  BY PromiseStep
<1>2. StoreInv /\ StoreInv' /\ [Next]_vars =>
        [Promise!Next]_<<dir["target"].data, UNION {d["target"].safe : d \in older \cup {dir}}>>
  BY <1>1 DEF After
<1> QED BY <1>2, PromiseInit, StoreAlways, PTL DEF Spec, Atomic, Promise!Spec

===============================================================================
