------------------------------- MODULE FeedProofs -------------------------------
(***************************************************************************)
(* Proofs about Feed, for any viewers, channel capacity and number of      *)
(* events.  What a viewer shows depends on the events it has yet to read,  *)
(* so the invariant speaks of those: as long as none of them is a status,  *)
(* the viewer is up to date, or about to be told by its snapshot; as long  *)
(* as none of them is a Retargeted, its tree is the present device's.      *)
(***************************************************************************)
EXTENDS Feed, SequenceTheorems, TLAPS

\* None of the events from i to j has the kind k.
Without(k, i, j) == \A n \in i..j : sent[n].kind # k

OnlyDocuments(i, j) == \A n \in i..j : sent[n].kind = "Document"

\* Events carry numbers and devices given out already, and statuses are not
\* more than the events that were emitted.
Numbered ==
    /\ statuses <= Len(sent) + (IF emitting = None THEN 0 ELSE 1)
    /\ \A i \in 1..Len(sent) :
          /\ sent[i].kind = "Document" => sent[i].device \in 0..device
          /\ sent[i].kind # "Document" => sent[i].n <= statuses
    /\ \A v \in Viewer : replay[v].n <= statuses

\* Nothing has been delivered before a viewer is attached.
Fresh ==
    \A v \in Viewer : viewer[v] \in {"new", "receiving"} =>
        seen[v] = 0 /\ tree[v] = {} /\ replay[v] = None

\* The last status broadcast is the one remembered, between two emits.
LastIsSent ==
    IF last = None
    THEN OnlyDocuments(1, Len(sent))
    ELSE emitting = None =>
            \E i \in 1..Len(sent) : sent[i] = last /\ OnlyDocuments(i + 1, Len(sent))

\* A viewer that kept up, with no status left to read, has heard the current
\* one, or its snapshot is the current one.
Hears ==
    \A v \in Viewer :
        /\ viewer[v] = "attached"
        /\ ~lagged[v]
        /\ emitting = None
        /\ OnlyDocuments(pos[v], Len(sent))
        => IF replay[v] = None THEN UpToDate(v) ELSE replay[v] = last

\* Documents come from one device until a Retargeted, the last ones from the
\* present device.
DevicesInOrder ==
    /\ \A i, j \in 1..Len(sent) :
          /\ i < j
          /\ sent[i].kind = "Document" /\ sent[j].kind = "Document"
          /\ Without("Retargeted", i, j)
          => sent[i].device = sent[j].device
    /\ \A i \in 1..Len(sent) :
          /\ sent[i].kind = "Document"
          /\ Without("Retargeted", i, Len(sent))
          /\ emitting.kind # "Retargeted"
          => sent[i].device = device

\* The tree of a viewer that kept up is of the device whose documents it reads
\* next, or of the present one when no Retargeted is left to read.
TreeFollows ==
    \A v \in Viewer :
        /\ replay[v] # None => tree[v] = {}
        /\ ~lagged[v] =>
              /\ \A d, e \in tree[v] : d = e
              /\ \A i \in pos[v]..Len(sent) :
                    sent[i].kind = "Document" /\ Without("Retargeted", pos[v], i)
                    => tree[v] \subseteq {sent[i].device}
              /\ Without("Retargeted", pos[v], Len(sent)) /\ emitting.kind # "Retargeted"
                 => tree[v] \subseteq {device}

FeedInv ==
    /\ TypeOK
    /\ Numbered
    /\ Fresh
    /\ LastIsSent
    /\ Hears
    /\ DevicesInOrder
    /\ TreeFollows

-------------------------------------------------------------------------------
(* Events and steps.                                                       *)

LEMMA EventFacts ==
    /\ \A e \in StatusEvent : e.kind \in Kind /\ e.kind # "Document" /\ e # None
                            /\ e.n \in 1..MaxEvents /\ e.kind # "None"
    /\ \A e \in DocEvent : e.kind = "Document" /\ e.device \in Nat
    /\ None.kind = "None" /\ None.n = 0
  BY FeedAssumption DEF StatusEvent, DocEvent, None, Kind

\* What is in the channel, told apart by its kind.
LEMMA SentFacts ==
    ASSUME TypeOK
    PROVE  /\ Len(sent) \in Nat
           /\ \A i \in 1..Len(sent) :
                 /\ sent[i].kind = "Document" => sent[i] \in DocEvent
                 /\ sent[i].kind # "Document" => sent[i] \in StatusEvent
<1>1. sent \in Seq(StatusEvent \cup DocEvent)
  BY DEF TypeOK
<1>2. \A i \in 1..Len(sent) : sent[i] \in StatusEvent \cup DocEvent
  BY <1>1
<1> QED BY <1>1, <1>2, EventFacts

\* An event is added at the end.
LEMMA Appended ==
    ASSUME TypeOK, NEW e \in StatusEvent \cup DocEvent, sent' = Append(sent, e)
    PROVE  /\ sent' \in Seq(StatusEvent \cup DocEvent)
           /\ Len(sent') = Len(sent) + 1
           /\ Len(sent) \in Nat
           /\ sent'[Len(sent) + 1] = e
           /\ \A i \in 1..Len(sent) : sent'[i] = sent[i]
  BY DEF TypeOK

\* The task's steps: it remembers a status, broadcasts it, or sends a document.
Remembers(kind) ==
    /\ Remember(kind)
    /\ conn' \in {"down", "up", "ended"}
    /\ device' = IF kind = "Retargeted" THEN device + 1 ELSE device

LEMMA TaskCases ==
    ASSUME TypeOK, Task
    PROVE  \/ \E kind \in Kind : Remembers(kind)
           \/ Document
           \/ Broadcast
  BY DEF Task, Connect, RootFails, LoseLink, Retarget, End, Remembers, Kind, TypeOK

\* A viewer's steps leave the task alone, and the other viewers.
LEMMA ViewerFrame ==
    ASSUME NEW v \in Viewer, Subscribe(v) \/ Reads(v) \/ Leave(v)
    PROVE  UNCHANGED <<taskVars, hubHeld>>
  BY DEF Subscribe, Reads, Replayed, Receive, Lag, Closed, Leave

\* A status remembered is new, and on its way.
LEMMA RememberFacts ==
    ASSUME TypeOK, Numbered, NEW kind \in Kind, Remembers(kind)
    PROVE  /\ emitting = None
           /\ statuses' \in 1..MaxEvents /\ statuses' = statuses + 1 /\ statuses \in Nat
           /\ last' \in StatusEvent /\ last'.kind = kind /\ last'.n = statuses'
           /\ emitting' = last' /\ emitting' # None
           /\ device \in Nat /\ device' \in Nat /\ device <= device'
           /\ UNCHANGED <<sent, hubHeld, viewerVars>>
<1>1. /\ emitting = None
      /\ statuses' = statuses + 1
      /\ emitting' = [kind |-> kind, n |-> statuses + 1]
      /\ last' = emitting'
      /\ UNCHANGED <<sent, hubHeld, viewerVars>>
  BY DEF Remembers, Remember
<1>2. Len(sent) \in Nat /\ Len(sent) < MaxEvents /\ MaxEvents \in Nat
  BY <1>1, SentFacts, FeedAssumption DEF Remembers, Remember, Room
<1>3. statuses \in Nat /\ statuses <= Len(sent)
  BY <1>1, EventFacts DEF TypeOK, Numbered
<1>4. statuses + 1 \in 1..MaxEvents
  BY <1>2, <1>3
<1>5. emitting' \in StatusEvent /\ emitting'.kind = kind /\ emitting'.n = statuses + 1
  BY <1>1, <1>4 DEF StatusEvent
<1>6. device \in Nat /\ device' \in Nat /\ device <= device'
  BY DEF Remembers, TypeOK
<1> QED BY <1>1, <1>3, <1>4, <1>5, <1>6, EventFacts

\* What is delivered to a viewer, and to nobody else.
LEMMA DeliverFacts ==
    ASSUME TypeOK, NEW v \in Viewer, NEW e \in StatusEvent \cup DocEvent,
           e.kind = "Document" => e.device \in 0..device,
           e.kind # "Document" => e.n <= statuses,
           Deliver(v, e)
    PROVE  /\ seen' \in [Viewer -> 0..statuses]
           /\ shown' \in [Viewer -> Kind \cup {"Connecting"}]
           /\ tree' \in [Viewer -> SUBSET (0..device)]
           /\ \A w \in Viewer \ {v} : /\ seen'[w] = seen[w]
                                      /\ shown'[w] = shown[w]
                                      /\ tree'[w] = tree[w]
           /\ e.kind = "Document" => /\ tree'[v] = tree[v] \cup {e.device}
                                     /\ UNCHANGED <<seen, shown>>
           /\ e.kind # "Document" =>
                 /\ seen'[v] = e.n
                 /\ shown'[v] = Shows(e.kind, shown[v])
                 /\ tree'[v] = IF e.kind = "Retargeted" THEN {} ELSE tree[v]
<1>1. CASE e.kind = "Document"
  <2>1. tree[v] \cup {e.device} \in SUBSET (0..device)
    BY <1>1 DEF TypeOK
  <2>2. /\ tree' = [tree EXCEPT ![v] = tree[v] \cup {e.device}]
        /\ UNCHANGED <<seen, shown>>
    BY <1>1 DEF Deliver
  <2> QED BY <1>1, <2>1, <2>2 DEF TypeOK
<1>2. CASE e.kind # "Document"
  <2>1. e.n \in 0..statuses
    BY <1>2, EventFacts DEF TypeOK
  <2>2. Shows(e.kind, shown[v]) \in Kind \cup {"Connecting"}
    BY <1>2, EventFacts DEF Shows, TypeOK
  <2>3. /\ seen' = [seen EXCEPT ![v] = e.n]
        /\ shown' = [shown EXCEPT ![v] = Shows(e.kind, shown[v])]
        /\ tree' = [tree EXCEPT ![v] = IF e.kind = "Retargeted" THEN {} ELSE tree[v]]
    BY <1>2 DEF Deliver
  <2>4. (IF e.kind = "Retargeted" THEN {} ELSE tree[v]) \in SUBSET (0..device)
    BY DEF TypeOK
  <2> QED BY <1>2, <2>1, <2>2, <2>3, <2>4 DEF TypeOK
<1> QED BY <1>1, <1>2

\* Receive delivers an event of the channel, Replayed the snapshot.
LEMMA ReceiveFacts ==
    ASSUME TypeOK, Numbered, NEW v \in Viewer, Receive(v)
    PROVE  /\ pos[v] \in 1..Len(sent)
           /\ sent[pos[v]] \in StatusEvent \cup DocEvent
           /\ sent[pos[v]].kind = "Document" => sent[pos[v]].device \in 0..device
           /\ sent[pos[v]].kind # "Document" => sent[pos[v]].n <= statuses
           /\ Deliver(v, sent[pos[v]])
           /\ pos' \in [Viewer -> 1..Len(sent) + 1]
           /\ pos'[v] = pos[v] + 1
           /\ \A w \in Viewer \ {v} : pos'[w] = pos[w]
<1>1. pos[v] \in 1..Len(sent) /\ Len(sent) \in Nat
  BY SentFacts, FeedAssumption DEF Receive, Oldest, TypeOK
<1>2. pos' = [pos EXCEPT ![v] = pos[v] + 1] /\ pos[v] + 1 \in 1..Len(sent) + 1
  BY <1>1 DEF Receive
<1>3. pos' \in [Viewer -> 1..Len(sent) + 1]
  BY <1>2 DEF TypeOK
<1>4. Deliver(v, sent[pos[v]])
  BY DEF Receive
<1> QED BY <1>1, <1>2, <1>3, <1>4, SentFacts DEF Numbered, TypeOK

LEMMA ReplayedFacts ==
    ASSUME TypeOK, Numbered, NEW v \in Viewer, Replayed(v)
    PROVE  /\ replay[v] \in StatusEvent
           /\ replay[v].kind # "Document"
           /\ replay[v].n <= statuses
           /\ Deliver(v, replay[v])
           /\ replay' \in [Viewer -> StatusEvent \cup {None}]
           /\ replay'[v] = None
           /\ \A w \in Viewer \ {v} : replay'[w] = replay[w]
  BY EventFacts DEF Replayed, TypeOK, Numbered

-------------------------------------------------------------------------------
(* Types, and what else is only counted.                                   *)

TypeInv == TypeOK /\ Numbered /\ Fresh

LEMMA InitType == Init => TypeInv
<1> SUFFICES ASSUME Init PROVE TypeInv
  OBVIOUS
<1>1. <<>> \in Seq(StatusEvent \cup DocEvent) /\ Len(<<>>) = 0
  OBVIOUS
<1>2. last.n = 0 /\ 0 \in 0..statuses /\ 1 \in 1..Len(sent) + 1
  BY <1>1, EventFacts DEF Init
<1>3. TypeOK
  BY <1>1, <1>2, EventFacts DEF Init, TypeOK
<1>4. Numbered
  BY <1>1, EventFacts DEF Init, Numbered
<1>5. Fresh
  BY DEF Init, Fresh
<1> QED BY <1>3, <1>4, <1>5 DEF TypeInv

LEMMA TaskType == ASSUME TypeInv, Task PROVE TypeInv'
<1>0. TypeOK /\ Numbered /\ Fresh
  BY DEF TypeInv
<1>1. ASSUME NEW kind \in Kind, Remembers(kind) PROVE TypeInv'
  <2>1. /\ emitting = None
        /\ statuses' \in 1..MaxEvents /\ statuses' = statuses + 1 /\ statuses \in Nat
        /\ last' \in StatusEvent /\ last'.n = statuses'
        /\ emitting' = last' /\ emitting' # None
        /\ device \in Nat /\ device' \in Nat /\ device <= device'
        /\ UNCHANGED <<sent, hubHeld, viewerVars>>
    BY <1>0, <1>1, RememberFacts
  <2>2. 0..statuses \subseteq 0..statuses' /\ 0..device \subseteq 0..device'
    BY <2>1
  <2>3. TypeOK'
    BY <1>0, <1>1, <2>1, <2>2 DEF TypeOK, Remembers, viewerVars
  <2>4. Numbered'
    <3>1. statuses' <= Len(sent') + 1
      BY <1>0, <2>1, SentFacts DEF Numbered
    <3>2. \A i \in 1..Len(sent) : sent[i].kind # "Document" => sent[i].n <= statuses'
      BY <1>0, <2>1, SentFacts, EventFacts DEF Numbered
    <3>3. \A v \in Viewer : replay[v].n <= statuses'
      BY <1>0, <2>1, EventFacts, SMTT(30) DEF Numbered, TypeOK
    <3>4. \A i \in 1..Len(sent) : sent[i].kind = "Document" => sent[i].device \in 0..device'
      BY <1>0, <2>2 DEF Numbered
    <3> QED BY <2>1, <3>1, <3>2, <3>3, <3>4 DEF Numbered, viewerVars
  <2>5. Fresh'
    BY <1>0, <2>1 DEF Fresh, viewerVars
  <2> QED BY <2>3, <2>4, <2>5 DEF TypeInv
<1>2. ASSUME NEW e \in StatusEvent \cup DocEvent,
             sent' = Append(sent, e),
             e.kind = "Document" => e.device = device,
             e.kind # "Document" => e.n <= statuses,
             emitting' = None,
             IF e.kind = "Document" THEN emitting = None ELSE TRUE,
             UNCHANGED <<conn, device, last, statuses, hubHeld, viewerVars>>
      PROVE  TypeInv'
  <2>1. /\ sent' \in Seq(StatusEvent \cup DocEvent)
        /\ Len(sent') = Len(sent) + 1 /\ Len(sent) \in Nat
        /\ sent'[Len(sent) + 1] = e
        /\ \A i \in 1..Len(sent) : sent'[i] = sent[i]
    BY <1>0, <1>2, Appended
  <2>2. 1..Len(sent) + 1 \subseteq 1..Len(sent') + 1
    BY <2>1
  <2>3. TypeOK'
    BY <1>0, <1>2, <2>1, <2>2 DEF TypeOK, viewerVars
  <2>4. Numbered'
    <3>1. statuses' <= Len(sent')
      BY <1>0, <1>2, <2>1, EventFacts DEF Numbered, TypeOK
    <3>2. device \in 0..device
      BY <1>0 DEF TypeOK
    <3>3. \A i \in 1..Len(sent') :
             /\ sent'[i].kind = "Document" => sent'[i].device \in 0..device
             /\ sent'[i].kind # "Document" => sent'[i].n <= statuses
      <4> SUFFICES ASSUME NEW i \in 1..Len(sent')
                   PROVE  /\ sent'[i].kind = "Document" => sent'[i].device \in 0..device
                          /\ sent'[i].kind # "Document" => sent'[i].n <= statuses
        OBVIOUS
      <4>1. i \in 1..Len(sent) \/ i = Len(sent) + 1
        BY <2>1
      <4> QED BY <1>0, <1>2, <2>1, <3>2, <4>1 DEF Numbered
    <3> QED BY <1>0, <1>2, <3>1, <3>3 DEF Numbered, viewerVars
  <2>5. Fresh'
    BY <1>0, <1>2 DEF Fresh, viewerVars
  <2> QED BY <2>3, <2>4, <2>5 DEF TypeInv
<1>3. CASE Document
  <2> DEFINE e == [kind |-> "Document", device |-> device]
  <2>1. e \in DocEvent /\ e.kind = "Document" /\ e.device = device
    BY <1>0 DEF DocEvent, TypeOK
  <2>2. /\ sent' = Append(sent, e) /\ emitting = None /\ emitting' = None
        /\ UNCHANGED <<conn, device, last, statuses, hubHeld, viewerVars>>
    BY <1>3 DEF Document
  <2> QED BY <1>2, <2>1, <2>2
<1>4. CASE Broadcast
  <2>1. /\ emitting \in StatusEvent /\ emitting.kind # "Document"
        /\ emitting.n <= statuses
    BY <1>0, <1>4, EventFacts DEF Broadcast, TypeOK
  <2>2. /\ sent' = Append(sent, emitting) /\ emitting' = None
        /\ UNCHANGED <<conn, device, last, statuses, hubHeld, viewerVars>>
    BY <1>4 DEF Broadcast
  <2> QED BY <1>2, <2>1, <2>2
<1> QED BY <1>0, <1>1, <1>3, <1>4, TaskCases

LEMMA ViewerType ==
    ASSUME TypeInv, NEW v \in Viewer, Subscribe(v) \/ Reads(v) \/ Leave(v)
    PROVE  TypeInv'
<1>0. TypeOK /\ Numbered /\ Fresh /\ UNCHANGED <<taskVars, hubHeld>>
  BY ViewerFrame DEF TypeInv
<1>a. Len(sent) \in Nat
  BY <1>0, SentFacts
<1>1. CASE Subscribe(v)
  <2>1. Len(sent) + 1 \in 1..Len(sent) + 1 /\ last.n <= statuses
    BY <1>0, <1>a, EventFacts DEF TypeOK
  <2>2. TypeOK'
    BY <1>0, <1>1, <2>1, ZenonT(40) DEF Subscribe, TakeReceiver, TakeSnapshot, TypeOK, taskVars
  <2>3. Numbered'
    BY <1>0, <1>1, <2>1, ZenonT(40)
    DEF Subscribe, TakeReceiver, TakeSnapshot, TypeOK, taskVars, Numbered
  <2>4. Fresh'
    BY <1>0, <1>1, <2>1 DEF Subscribe, TakeReceiver, TakeSnapshot, TypeOK, taskVars, Fresh
  <2> QED BY <2>2, <2>3, <2>4 DEF TypeInv
<1>2. CASE Replayed(v)
  <2>1. /\ replay[v] \in StatusEvent
        /\ replay[v].kind # "Document"
        /\ replay[v].n <= statuses
        /\ Deliver(v, replay[v])
        /\ replay' \in [Viewer -> StatusEvent \cup {None}]
        /\ replay'[v] = None
        /\ \A w \in Viewer \ {v} : replay'[w] = replay[w]
    BY <1>0, <1>2, ReplayedFacts
  <2>2. /\ seen' \in [Viewer -> 0..statuses]
        /\ shown' \in [Viewer -> Kind \cup {"Connecting"}]
        /\ tree' \in [Viewer -> SUBSET (0..device)]
        /\ \A w \in Viewer \ {v} : seen'[w] = seen[w] /\ tree'[w] = tree[w]
    BY <1>0, <2>1, DeliverFacts
  <2>3. viewer[v] = "attached" /\ UNCHANGED <<viewer, pos, lagged>>
    BY <1>2 DEF Replayed
  <2>4. TypeOK'
    BY <1>0, <2>1, <2>2, <2>3 DEF TypeOK, taskVars
  <2>5. Fresh'
    BY <1>0, <2>1, <2>2, <2>3 DEF Fresh
  <2>6. \A w \in Viewer : replay'[w].n <= statuses
    <3>1. statuses \in Nat /\ None.n <= statuses
      BY <1>0, EventFacts DEF TypeOK
    <3> QED BY <1>0, <2>1, <3>1 DEF Numbered
  <2>7. Numbered'
    BY <1>0, <2>6 DEF Numbered, taskVars
  <2> QED BY <2>4, <2>5, <2>7 DEF TypeInv
<1>3. CASE Receive(v)
  <2> DEFINE e == sent[pos[v]]
  <2>0. /\ e \in StatusEvent \cup DocEvent
        /\ e.kind = "Document" => e.device \in 0..device
        /\ e.kind # "Document" => e.n <= statuses
        /\ Deliver(v, e)
        /\ pos' \in [Viewer -> 1..Len(sent) + 1]
    BY <1>0, <1>3, ReceiveFacts
  <2>3. /\ seen' \in [Viewer -> 0..statuses]
        /\ shown' \in [Viewer -> Kind \cup {"Connecting"}]
        /\ tree' \in [Viewer -> SUBSET (0..device)]
        /\ \A w \in Viewer \ {v} : seen'[w] = seen[w] /\ tree'[w] = tree[w]
    BY <1>0, <2>0, DeliverFacts
  <2>4. viewer[v] = "attached" /\ UNCHANGED <<viewer, replay, lagged>>
    BY <1>3 DEF Receive
  <2>5. TypeOK'
    BY <1>0, <2>0, <2>3, <2>4 DEF TypeOK, taskVars
  <2>1. TypeOK' /\ Fresh'
    BY <1>0, <2>3, <2>4, <2>5 DEF Fresh
  <2>2. Numbered'
    BY <1>0, <1>3 DEF Receive, Numbered, taskVars
  <2> QED BY <2>1, <2>2 DEF TypeInv
<1>4. CASE Lag(v)
  <2>1. Oldest \in 1..Len(sent) + 1
    BY <1>a, FeedAssumption DEF Oldest
  <2> QED BY <1>0, <1>4, <2>1 DEF Lag, TypeInv, TypeOK, Numbered, Fresh, taskVars
<1>5. CASE Closed(v) \/ Leave(v)
  BY <1>0, <1>5 DEF Closed, Leave, TypeInv, TypeOK, Numbered, Fresh, taskVars
<1> QED BY <1>1, <1>2, <1>3, <1>4, <1>5 DEF Reads

LEMMA TypeStep == TypeInv /\ [Next]_vars => TypeInv'
<1> SUFFICES ASSUME TypeInv, [Next]_vars PROVE TypeInv'
  OBVIOUS
<1>1. CASE Release \/ UNCHANGED vars
  BY <1>1 DEF Release, vars, taskVars, viewerVars, TypeInv, TypeOK, Numbered, Fresh
<1> QED BY <1>1, TaskType, ViewerType DEF Next

-------------------------------------------------------------------------------
(* The last status in the channel.                                         *)

\* Adding an event that is no document spoils OnlyDocuments, and any other
\* event leaves it of the old ones.
LEMMA TailFacts ==
    ASSUME TypeOK, NEW e \in StatusEvent \cup DocEvent, sent' = Append(sent, e),
           NEW i \in 1..Len(sent) + 1, OnlyDocuments(i, Len(sent))'
    PROVE  e.kind = "Document" /\ OnlyDocuments(i, Len(sent))
<1>1. /\ Len(sent') = Len(sent) + 1 /\ Len(sent) \in Nat
      /\ sent'[Len(sent) + 1] = e
      /\ \A n \in 1..Len(sent) : sent'[n] = sent[n]
  BY Appended
<1>2. \A n \in i..Len(sent) + 1 : sent'[n].kind = "Document"
  BY <1>1 DEF OnlyDocuments
<1>3. Len(sent) + 1 \in i..Len(sent) + 1
  BY <1>1
<1>4. \A n \in i..Len(sent) : n \in 1..Len(sent) /\ n \in i..Len(sent) + 1
  BY <1>1
<1> QED BY <1>1, <1>2, <1>3, <1>4 DEF OnlyDocuments

\* The converse, for a document.
LEMMA TailGrows ==
    ASSUME TypeOK, NEW e \in DocEvent, sent' = Append(sent, e),
           NEW i \in Nat, 0 < i, OnlyDocuments(i, Len(sent))
    PROVE  OnlyDocuments(i, Len(sent))'
<1>1. /\ Len(sent') = Len(sent) + 1 /\ Len(sent) \in Nat
      /\ sent'[Len(sent) + 1] = e
      /\ \A n \in 1..Len(sent) : sent'[n] = sent[n]
  BY Appended
<1>2. \A n \in i..Len(sent) + 1 : 
              n = Len(sent) + 1 \/ (n \in 1..Len(sent) /\ n \in i..Len(sent))
  BY <1>1
<1> QED BY <1>1, <1>2, EventFacts DEF OnlyDocuments

LEMMA LastStep ==
    ASSUME TypeInv, LastIsSent, [Next]_vars PROVE LastIsSent'
<1>0. TypeOK /\ Numbered /\ Len(sent) \in Nat
  BY SentFacts DEF TypeInv
<1>1. ASSUME NEW kind \in Kind, Remembers(kind) PROVE LastIsSent'
  BY <1>0, <1>1, RememberFacts, EventFacts DEF LastIsSent
<1>2. CASE Document
  <2> DEFINE e == [kind |-> "Document", device |-> device]
  <2>1. /\ e \in DocEvent /\ sent' = Append(sent, e)
        /\ UNCHANGED <<last, emitting>>
    BY <1>0, <1>2 DEF Document, DocEvent, TypeOK
  <2>2. CASE last = None
    BY <1>0, <2>1, <2>2, TailGrows DEF LastIsSent
  <2>3. CASE last # None
    <3>1. PICK i \in 1..Len(sent) : sent[i] = last /\ OnlyDocuments(i + 1, Len(sent))
      BY <1>2, <2>3 DEF Document, LastIsSent
    <3>2. OnlyDocuments(i + 1, Len(sent))'
      BY <1>0, <2>1, <3>1, TailGrows
    <3>3. i \in 1..Len(sent') /\ sent'[i] = last
      BY <1>0, <2>1, <3>1, Appended
    <3> QED BY <2>1, <2>3, <3>2, <3>3 DEF LastIsSent
  <2> QED BY <2>2, <2>3
<1>3. CASE Broadcast
  <2>1. /\ emitting \in StatusEvent /\ emitting = last /\ last # None
        /\ sent' = Append(sent, emitting) /\ UNCHANGED last
    BY <1>0, <1>3, EventFacts DEF Broadcast, TypeOK
  <2>2. Len(sent') \in 1..Len(sent') /\ Len(sent') \in Nat /\ sent'[Len(sent')] = last'
    BY <1>0, <2>1, Appended
  <2>3. \A n \in Len(sent') + 1..Len(sent') : FALSE
    BY <2>2
  <2> QED BY <2>1, <2>2, <2>3 DEF LastIsSent, OnlyDocuments
<1>4. CASE UNCHANGED taskVars
  BY <1>4 DEF LastIsSent, OnlyDocuments, taskVars
<1>5. CASE ~Task
  <2>1. Release \/ UNCHANGED vars \/ \E v \in Viewer : Subscribe(v) \/ Reads(v) \/ Leave(v)
    BY <1>5 DEF Next
  <2>2. UNCHANGED taskVars
    BY <2>1, ViewerFrame DEF Release, vars, taskVars
  <2> QED BY <1>4, <2>2
<1> QED BY <1>0, <1>1, <1>2, <1>3, <1>5, TaskCases

-------------------------------------------------------------------------------
(* What a viewer has heard.                                                *)

\* A status is shown, and showing it again changes nothing.
LEMMA ShowsAgain ==
    ASSUME NEW kind, NEW old, kind # "Error"
    PROVE  Shows(kind, Shows(kind, old)) = Shows(kind, old)
  BY DEF Shows

LEMMA HearsStep ==
    ASSUME TypeInv, TypeOK', LastIsSent, Hears, [Next]_vars PROVE Hears'
<1>0. TypeOK /\ Numbered /\ Fresh /\ Len(sent) \in Nat
  BY SentFacts DEF TypeInv
<1>1. ASSUME NEW kind \in Kind, Remembers(kind) PROVE Hears'
  BY <1>0, <1>1, RememberFacts DEF Hears
<1>2. ASSUME NEW e \in StatusEvent \cup DocEvent,
             sent' = Append(sent, e),
             emitting # None => e.kind # "Document",
             UNCHANGED <<last, viewerVars>>
      PROVE  Hears'
  <2> SUFFICES ASSUME NEW v \in Viewer, viewer[v] = "attached", ~lagged[v],
                      OnlyDocuments(pos[v], Len(sent))', pos' = pos
               PROVE  IF replay[v] = None THEN UpToDate(v) ELSE replay[v] = last
    BY <1>2 DEF Hears, UpToDate, viewerVars
  <2>1. e.kind = "Document" /\ OnlyDocuments(pos[v], Len(sent))
    <3>1. pos[v] \in 1..Len(sent) + 1
      BY <1>0 DEF TypeOK
    <3> QED BY <1>0, <1>2, <3>1, TailFacts DEF OnlyDocuments
  <2> QED BY <1>2, <2>1 DEF Hears
<1>3. CASE Document
  BY <1>0, <1>2, <1>3 DEF Document, DocEvent, TypeOK
<1>4. CASE Broadcast
  BY <1>0, <1>2, <1>4, EventFacts DEF Broadcast, TypeOK
<1>5. ASSUME NEW v \in Viewer, Subscribe(v) \/ Reads(v) \/ Leave(v) PROVE Hears'
  <2>0. UNCHANGED <<taskVars, hubHeld>>
    BY <1>5, ViewerFrame
  <2>1. ASSUME NEW w \in Viewer \ {v}
        PROVE  /\ viewer'[w] = viewer[w] /\ lagged'[w] = lagged[w] /\ pos'[w] = pos[w]
               /\ replay'[w] = replay[w] /\ seen'[w] = seen[w] /\ shown'[w] = shown[w]
    BY <1>0, <1>5
    DEF Subscribe, Reads, Leave, TakeReceiver, TakeSnapshot, Replayed, Receive, Lag, Closed,
        Deliver, TypeOK
  <2>2. ASSUME viewer'[v] = "attached", ~lagged'[v], emitting = None,
               OnlyDocuments(pos'[v], Len(sent))
        PROVE  IF replay'[v] = None THEN UpToDate(v)' ELSE replay'[v] = last
    <3>1. CASE Subscribe(v)
      <4>1. viewer[v] = "receiving" /\ replay'[v] = last /\ UNCHANGED <<seen, shown>>
        BY <1>0, <2>2, <3>1 DEF Subscribe, TakeSnapshot, TypeOK
      <4>2. seen[v] = 0
        BY <1>0, <4>1 DEF Fresh
      <4> QED BY <2>0, <4>1, <4>2, EventFacts DEF UpToDate, taskVars
    <3>2. CASE Replayed(v)
      <4>1. /\ replay[v] \in StatusEvent /\ Deliver(v, replay[v])
            /\ replay[v].kind # "Document" /\ replay[v].n <= statuses
            /\ replay'[v] = None
        BY <1>0, <3>2, ReplayedFacts
      <4>2. replay[v] = last
        BY <1>0, <2>2, <3>2, <4>1, EventFacts DEF Replayed, Hears
      <4>3. seen'[v] = last.n /\ shown'[v] = Shows(last.kind, shown[v])
        BY <1>0, <4>1, <4>2, DeliverFacts
      <4> QED BY <2>0, <4>1, <4>3, ShowsAgain DEF UpToDate, taskVars
    <3>3. CASE Receive(v)
      <4> DEFINE e == sent[pos[v]]
      <4>1. /\ pos[v] \in 1..Len(sent) /\ pos'[v] = pos[v] + 1
            /\ e \in StatusEvent \cup DocEvent /\ Deliver(v, e)
            /\ e.kind = "Document" => e.device \in 0..device
            /\ e.kind # "Document" => e.n <= statuses
            /\ replay[v] = None /\ replay' = replay
            /\ viewer[v] = "attached" /\ lagged' = lagged
        BY <1>0, <3>3, ReceiveFacts DEF Receive
      <4>2. CASE e.kind = "Document"
        <5>1. OnlyDocuments(pos[v], Len(sent))
          <6>1. \A n \in pos[v]..Len(sent) : n = pos[v] \/ n \in pos'[v]..Len(sent)
            BY <1>0, <4>1
          <6> QED BY <2>2, <4>2, <6>1 DEF OnlyDocuments
        <5>2. UpToDate(v)
          BY <2>2, <4>1, <5>1 DEF Hears
        <5>3. UNCHANGED <<seen, shown>>
          BY <4>1, <4>2 DEF Deliver
        <5> QED BY <2>0, <4>1, <5>2, <5>3 DEF UpToDate, taskVars
      <4>3. CASE e.kind # "Document"
        <5>1. last # None
          BY <4>1, <4>3 DEF LastIsSent, OnlyDocuments
        <5>2. PICK i \in 1..Len(sent) : sent[i] = last /\ OnlyDocuments(i + 1, Len(sent))
          BY <2>2, <5>1 DEF LastIsSent
        <5>3. ~(pos[v] > i)
          <6> SUFFICES ASSUME pos[v] > i PROVE FALSE
            OBVIOUS
          <6>1. pos[v] \in i + 1..Len(sent)
            BY <1>0, <4>1
          <6> QED BY <4>3, <5>2, <6>1 DEF OnlyDocuments
        <5>4. ~(i > pos[v])
          <6> SUFFICES ASSUME i > pos[v] PROVE FALSE
            OBVIOUS
          <6>1. i \in pos'[v]..Len(sent)
            BY <1>0, <4>1
          <6>2. last.kind = "Document"
            BY <2>2, <5>2, <6>1 DEF OnlyDocuments
          <6> QED BY <1>0, <5>1, <6>2, EventFacts DEF TypeOK
        <5>5. e = last
          BY <1>0, <4>1, <5>2, <5>3, <5>4
        <5>6. seen'[v] = last.n /\ shown'[v] = Shows(last.kind, shown[v])
          BY <1>0, <4>1, <4>3, <5>5, DeliverFacts
        <5> QED BY <2>0, <4>1, <5>6, ShowsAgain DEF UpToDate, taskVars
      <4> QED BY <4>2, <4>3
    <3>4. CASE Lag(v) \/ Closed(v) \/ Leave(v)
      BY <1>0, <2>2, <3>4 DEF Lag, Closed, Leave, TypeOK
    <3> QED BY <1>5, <3>1, <3>2, <3>3, <3>4 DEF Reads
  <2> SUFFICES ASSUME NEW w \in Viewer, viewer'[w] = "attached", ~lagged'[w],
                      emitting = None, OnlyDocuments(pos'[w], Len(sent))
               PROVE  IF replay'[w] = None THEN UpToDate(w)' ELSE replay'[w] = last
    BY <2>0 DEF Hears, OnlyDocuments, taskVars
  <2>3. CASE w = v
    BY <2>2, <2>3
  <2>4. CASE w # v
    BY <2>0, <2>1, <2>4 DEF Hears, UpToDate, taskVars
  <2> QED BY <2>3, <2>4
<1>6. CASE Release \/ UNCHANGED vars
  BY <1>6 DEF Release, vars, taskVars, viewerVars, Hears, OnlyDocuments, UpToDate
<1> QED BY <1>0, <1>1, <1>3, <1>4, <1>5, <1>6, TaskCases DEF Next

-------------------------------------------------------------------------------
(* Whose documents are in the tree.                                        *)

\* The stretches of the channel after an event was added: an old one has no
\* Retargeted exactly when it had none, one that ends with the new event when
\* that is no Retargeted and the old part had none.
LEMMA WithoutFacts ==
    ASSUME TypeOK, NEW e \in StatusEvent \cup DocEvent, sent' = Append(sent, e),
           NEW i \in 1..Len(sent) + 1
    PROVE  /\ \A j \in 1..Len(sent) :
                 (\A n \in i..j : sent'[n].kind # "Retargeted") => Without("Retargeted", i, j)
           /\ (\A n \in i..Len(sent') : sent'[n].kind # "Retargeted") =>
                 e.kind # "Retargeted" /\ Without("Retargeted", i, Len(sent))
<1>1. /\ Len(sent') = Len(sent) + 1 /\ Len(sent) \in Nat
      /\ sent'[Len(sent) + 1] = e
      /\ \A n \in 1..Len(sent) : sent'[n] = sent[n]
  BY Appended
<1>2. \A j \in 1..Len(sent) : \A n \in i..j : n \in 1..Len(sent)
  BY <1>1
<1>3. Len(sent) + 1 \in i..Len(sent')
  BY <1>1
<1>4. \A n \in i..Len(sent) : n \in i..Len(sent') /\ n \in 1..Len(sent)
  BY <1>1
<1> QED BY <1>1, <1>2, <1>3, <1>4 DEF Without

LEMMA DevicesStep ==
    ASSUME TypeInv, DevicesInOrder, [Next]_vars PROVE DevicesInOrder'
<1>0. TypeOK /\ Numbered /\ Len(sent) \in Nat
  BY SentFacts DEF TypeInv
<1>1. ASSUME NEW kind \in Kind, Remembers(kind) PROVE DevicesInOrder'
  <2>1. /\ emitting = None /\ emitting'.kind = kind /\ sent' = sent
        /\ kind # "Retargeted" => device' = device
    BY <1>0, <1>1, RememberFacts DEF Remembers
  <2> QED BY <2>1, EventFacts DEF DevicesInOrder, Without
<1>2. ASSUME NEW e \in StatusEvent \cup DocEvent,
             sent' = Append(sent, e),
             e.kind = "Document" => e.device = device /\ emitting.kind # "Retargeted",
             e.kind # "Document" => e = emitting,
             UNCHANGED device
      PROVE  DevicesInOrder'
  <2>1. /\ Len(sent') = Len(sent) + 1
        /\ sent'[Len(sent) + 1] = e
        /\ \A n \in 1..Len(sent) : sent'[n] = sent[n]
    BY <1>0, <1>2, Appended
  <2>2. ASSUME NEW i \in 1..Len(sent'),
               sent'[i].kind = "Document",
               \A n \in i..Len(sent') : sent'[n].kind # "Retargeted"
        PROVE  sent'[i].device = device
    <3>1. i \in 1..Len(sent) + 1
      BY <1>0, <2>1
    <3>2. e.kind # "Retargeted" /\ Without("Retargeted", i, Len(sent))
      BY <1>0, <1>2, <2>2, <3>1, WithoutFacts
    <3>3. CASE i = Len(sent) + 1
      BY <1>2, <2>1, <2>2, <3>3
    <3>4. CASE i # Len(sent) + 1
      <4>1. i \in 1..Len(sent) /\ emitting.kind # "Retargeted"
        BY <1>0, <1>2, <3>1, <3>2, <3>4
      <4> QED BY <2>1, <2>2, <3>2, <4>1 DEF DevicesInOrder
    <3> QED BY <3>3, <3>4
  <2>3. ASSUME NEW i \in 1..Len(sent'), NEW j \in 1..Len(sent'), i < j,
               sent'[i].kind = "Document", sent'[j].kind = "Document",
               \A n \in i..j : sent'[n].kind # "Retargeted"
        PROVE  sent'[i].device = sent'[j].device
    <3>1. CASE j = Len(sent')
      <4>1. sent'[i].device = device
        BY <2>2, <2>3, <3>1
      <4> QED BY <1>2, <2>1, <2>3, <3>1, <4>1
    <3>2. CASE j # Len(sent')
      <4>1. i \in 1..Len(sent) /\ i \in 1..Len(sent) + 1 /\ j \in 1..Len(sent)
        BY <1>0, <2>1, <2>3, <3>2
      <4>2. Without("Retargeted", i, j)
        BY <1>0, <1>2, <2>3, <4>1, WithoutFacts
      <4> QED BY <2>1, <2>3, <4>1, <4>2 DEF DevicesInOrder
    <3> QED BY <3>1, <3>2
  <2> QED BY <1>2, <2>2, <2>3 DEF DevicesInOrder, Without
<1>3. CASE Document
  BY <1>0, <1>2, <1>3, EventFacts DEF Document, DocEvent, TypeOK
<1>4. CASE Broadcast
  BY <1>0, <1>2, <1>4, EventFacts DEF Broadcast, TypeOK
<1>5. CASE ~Task
  <2>1. Release \/ UNCHANGED vars \/ \E v \in Viewer : Subscribe(v) \/ Reads(v) \/ Leave(v)
    BY <1>5 DEF Next
  <2>2. UNCHANGED taskVars
    BY <2>1, ViewerFrame DEF Release, vars, taskVars
  <2> QED BY <2>2 DEF DevicesInOrder, Without, taskVars
<1> QED BY <1>0, <1>1, <1>3, <1>4, <1>5, TaskCases

LEMMA TreeStep ==
    ASSUME TypeInv, DevicesInOrder, TreeFollows, [Next]_vars PROVE TreeFollows'
<1>0. TypeOK /\ Numbered /\ Fresh /\ Len(sent) \in Nat
  BY SentFacts DEF TypeInv
<1>1. ASSUME NEW kind \in Kind, Remembers(kind) PROVE TreeFollows'
  <2>1. /\ emitting = None /\ emitting'.kind = kind /\ sent' = sent /\ UNCHANGED viewerVars
        /\ kind # "Retargeted" => device' = device
    BY <1>0, <1>1, RememberFacts DEF Remembers
  <2> QED BY <2>1, EventFacts DEF TreeFollows, Without, viewerVars
<1>2. ASSUME NEW e \in StatusEvent \cup DocEvent,
             sent' = Append(sent, e),
             e.kind = "Document" => e.device = device /\ emitting.kind # "Retargeted",
             e.kind # "Document" => e = emitting,
             UNCHANGED <<device, viewerVars>>
      PROVE  TreeFollows'
  <2>1. /\ Len(sent') = Len(sent) + 1
        /\ sent'[Len(sent) + 1] = e
        /\ \A n \in 1..Len(sent) : sent'[n] = sent[n]
    BY <1>0, <1>2, Appended
  <2>2. ASSUME NEW v \in Viewer, ~lagged[v],
               \A n \in pos[v]..Len(sent') : sent'[n].kind # "Retargeted"
        PROVE  tree[v] \subseteq {device}
    <3>1. pos[v] \in 1..Len(sent) + 1
      BY <1>0 DEF TypeOK
    <3>2. e.kind # "Retargeted" /\ Without("Retargeted", pos[v], Len(sent))
      BY <1>0, <1>2, <2>2, <3>1, WithoutFacts
    <3> QED BY <1>2, <2>2, <3>2 DEF TreeFollows
  <2>3. ASSUME NEW v \in Viewer, ~lagged[v], NEW i \in pos[v]..Len(sent'),
               sent'[i].kind = "Document",
               \A n \in pos[v]..i : sent'[n].kind # "Retargeted"
        PROVE  tree[v] \subseteq {sent'[i].device}
    <3>1. pos[v] \in 1..Len(sent) + 1
      BY <1>0 DEF TypeOK
    <3>2. CASE i = Len(sent')
      BY <1>0, <1>2, <2>1, <2>2, <2>3, <3>2
    <3>3. CASE i # Len(sent')
      <4>1. i \in pos[v]..Len(sent) /\ i \in 1..Len(sent)
        BY <1>0, <2>1, <2>3, <3>1, <3>3
      <4>2. Without("Retargeted", pos[v], i)
        BY <1>0, <1>2, <2>3, <3>1, <4>1, WithoutFacts
      <4> QED BY <2>1, <2>3, <4>1, <4>2 DEF TreeFollows
    <3> QED BY <3>2, <3>3
  <2> QED BY <1>2, <2>2, <2>3 DEF TreeFollows, Without, viewerVars
<1>3. CASE Document
  BY <1>0, <1>2, <1>3, EventFacts DEF Document, DocEvent, TypeOK
<1>4. CASE Broadcast
  BY <1>0, <1>2, <1>4, EventFacts DEF Broadcast, TypeOK
<1>5. ASSUME NEW v \in Viewer, Subscribe(v) \/ Reads(v) \/ Leave(v) PROVE TreeFollows'
  <2>0. UNCHANGED <<sent, device, emitting>>
    BY <1>5, ViewerFrame DEF taskVars
  <2>1. ASSUME NEW w \in Viewer \ {v}
        PROVE  /\ lagged'[w] = lagged[w] /\ pos'[w] = pos[w]
               /\ replay'[w] = replay[w] /\ tree'[w] = tree[w]
    BY <1>0, <1>5
    DEF Subscribe, Reads, Leave, TakeReceiver, TakeSnapshot, Replayed, Receive, Lag, Closed,
        Deliver, TypeOK
  <2>2. /\ replay'[v] # None => tree'[v] = {}
        /\ ~lagged'[v] =>
              /\ \A d, e \in tree'[v] : d = e
              /\ \A i \in pos'[v]..Len(sent) :
                    sent[i].kind = "Document" /\ Without("Retargeted", pos'[v], i)
                    => tree'[v] \subseteq {sent[i].device}
              /\ Without("Retargeted", pos'[v], Len(sent)) /\ emitting.kind # "Retargeted"
                 => tree'[v] \subseteq {device}
    <3>1. CASE Subscribe(v)
      <4>1. tree[v] = {} /\ tree' = tree
        BY <1>0, <3>1 DEF Subscribe, Fresh
      <4> QED BY <4>1
    <3>2. CASE Replayed(v)
      <4>1. tree[v] = {} /\ replay[v] \in StatusEvent /\ replay[v].kind # "Document"
            /\ replay[v].n <= statuses /\ Deliver(v, replay[v])
        BY <1>0, <3>2, ReplayedFacts DEF Replayed, TreeFollows
      <4>2. tree'[v] = {}
        BY <1>0, <4>1, DeliverFacts
      <4> QED BY <4>2
    <3>3. CASE Receive(v)
      <4> DEFINE e == sent[pos[v]]
      <4>1. /\ pos[v] \in 1..Len(sent) /\ pos'[v] = pos[v] + 1
            /\ e \in StatusEvent \cup DocEvent /\ Deliver(v, e)
            /\ e.kind = "Document" => e.device \in 0..device
            /\ e.kind # "Document" => e.n <= statuses
            /\ replay[v] = None /\ replay' = replay /\ lagged' = lagged
        BY <1>0, <3>3, ReceiveFacts DEF Receive
      <4>2. CASE e.kind = "Document"
        <5>1. tree'[v] = tree[v] \cup {e.device}
          BY <1>0, <4>1, <4>2, DeliverFacts
        <5>2. ASSUME ~lagged[v] PROVE tree'[v] = {e.device}
          <6>1. Without("Retargeted", pos[v], pos[v]) /\ pos[v] \in pos[v]..Len(sent)
            BY <1>0, <4>1, <4>2 DEF Without
          <6>2. tree[v] \subseteq {e.device}
            BY <4>2, <5>2, <6>1 DEF TreeFollows
          <6> QED BY <5>1, <6>2
        <5>3. ASSUME NEW i \in 1..Len(sent), NEW j \in pos'[v]..i, Without("Retargeted", pos'[v], i)
              PROVE  Without("Retargeted", pos[v], i)
          <6>1. \A n \in pos[v]..i : n = pos[v] \/ n \in pos'[v]..i
            BY <1>0, <4>1
          <6> QED BY <4>2, <5>3, <6>1 DEF Without
        <5>4. ASSUME ~lagged[v], NEW i \in pos'[v]..Len(sent), sent[i].kind = "Document",
                     Without("Retargeted", pos'[v], i)
              PROVE  e.device = sent[i].device
          <6>1. i \in 1..Len(sent) /\ i \in pos'[v]..i /\ pos[v] < i
            BY <1>0, <4>1
          <6>2. Without("Retargeted", pos[v], i)
            BY <5>3, <5>4, <6>1
          <6> QED BY <4>1, <4>2, <5>4, <6>1, <6>2 DEF DevicesInOrder
        <5>5. ASSUME Without("Retargeted", pos'[v], Len(sent)), emitting.kind # "Retargeted"
              PROVE  e.device = device
          <6>1. Without("Retargeted", pos[v], Len(sent))
            <7>1. \A n \in pos[v]..Len(sent) : n = pos[v] \/ n \in pos'[v]..Len(sent)
              BY <1>0, <4>1
            <7> QED BY <4>2, <5>5, <7>1 DEF Without
          <6> QED BY <4>1, <4>2, <5>5, <6>1 DEF DevicesInOrder
        <5> QED BY <4>1, <5>2, <5>4, <5>5
      <4>3. CASE e.kind = "Retargeted"
        <5>1. tree'[v] = {}
          BY <1>0, <4>1, <4>3, DeliverFacts
        <5> QED BY <4>1, <5>1
      <4>4. CASE e.kind \notin {"Document", "Retargeted"}
        <5>1. tree'[v] = tree[v]
          BY <1>0, <4>1, <4>4, DeliverFacts
        <5>2. \A j \in Nat : Without("Retargeted", pos'[v], j) => Without("Retargeted", pos[v], j)
          <6>1. \A j \in Nat : \A n \in pos[v]..j : n = pos[v] \/ n \in pos'[v]..j
            BY <1>0, <4>1
          <6> QED BY <4>4, <6>1 DEF Without
        <5>3. \A i \in pos'[v]..Len(sent) : i \in Nat /\ i \in pos[v]..Len(sent)
          BY <1>0, <4>1
        <5> QED BY <1>0, <4>1, <5>1, <5>2, <5>3 DEF TreeFollows
      <4> QED BY <4>2, <4>3, <4>4
    <3>4. CASE Lag(v)
      <4>1. lagged'[v] /\ replay'[v] = None
        BY <1>0, <3>4 DEF Lag, TypeOK
      <4> QED BY <4>1
    <3>5. CASE Closed(v) \/ Leave(v)
      BY <3>5 DEF Closed, Leave, TreeFollows
    <3> QED BY <1>5, <3>1, <3>2, <3>3, <3>4, <3>5 DEF Reads
  <2>3. \A w \in Viewer : w = v \/ w \in Viewer \ {v}
    OBVIOUS
  <2> QED BY <2>0, <2>1, <2>2, <2>3 DEF TreeFollows, Without
<1>6. CASE Release \/ UNCHANGED vars
  BY <1>6 DEF Release, vars, taskVars, viewerVars, TreeFollows, Without
<1> QED BY <1>0, <1>1, <1>3, <1>4, <1>5, <1>6, TaskCases DEF Next

-------------------------------------------------------------------------------
(* The theorems.                                                           *)

LEMMA InitFeed == Init => FeedInv
<1> SUFFICES ASSUME Init PROVE FeedInv
  OBVIOUS
<1>1. TypeInv
  BY InitType
<1>2. sent = <<>> /\ Len(sent) = 0
  BY DEF Init
<1>3. LastIsSent /\ Hears
  BY <1>2 DEF Init, LastIsSent, Hears, OnlyDocuments
<1>4. DevicesInOrder /\ TreeFollows
  BY <1>2 DEF Init, DevicesInOrder, TreeFollows
<1> QED BY <1>1, <1>3, <1>4 DEF FeedInv, TypeInv

LEMMA StepFeed == FeedInv /\ [Next]_vars => FeedInv'
<1> SUFFICES ASSUME FeedInv, [Next]_vars PROVE FeedInv'
  OBVIOUS
<1>1. TypeInv /\ TypeInv'
  BY TypeStep DEF FeedInv, TypeInv
<1>2. LastIsSent'
  BY <1>1, LastStep DEF FeedInv
<1>3. Hears'
  BY <1>1, HearsStep DEF FeedInv, TypeInv
<1>4. DevicesInOrder' /\ TreeFollows'
  BY <1>1, DevicesStep, TreeStep DEF FeedInv
<1> QED BY <1>1, <1>2, <1>3, <1>4 DEF FeedInv, TypeInv

LEMMA FeedAlways == Spec => []FeedInv
  BY InitFeed, StepFeed, PTL DEF Spec

\* However the two halves of emit and the two of Hub::subscribe interleave, and
\* whatever the size of the channel: a subscriber that never fell behind the
\* channel shows the hub's current status once it has read everything.
THEOREM NothingMissed == Spec => []OnlyLagMisses
<1>1. FeedInv => OnlyLagMisses
  <2> SUFFICES ASSUME FeedInv, NEW v \in Viewer, Drained(v), ~lagged[v] PROVE UpToDate(v)
    BY DEF FeedInv, OnlyLagMisses
  <2>1. OnlyDocuments(pos[v], Len(sent))
    BY SentFacts DEF FeedInv, Drained, OnlyDocuments
  <2> QED BY <2>1 DEF FeedInv, Hears, Drained
<1> QED BY <1>1, FeedAlways, PTL

\* A subscriber that never fell behind never mixes the trees of two devices
\* across a retarget, and has only the present device's once it has read
\* everything (the Retargeted it gets between their documents clears the tree).
THEOREM OneDevice == Spec => []TreeOfOneDevice
<1>1. FeedInv => TreeOfOneDevice
  <2> SUFFICES ASSUME FeedInv, NEW v \in Viewer, ~lagged[v]
               PROVE  /\ \A d, e \in tree[v] : d = e
                      /\ Drained(v) => tree[v] \subseteq {device}
    BY DEF TreeOfOneDevice
  <2>1. Drained(v) => Without("Retargeted", pos[v], Len(sent)) /\ emitting.kind # "Retargeted"
    BY SentFacts, EventFacts DEF FeedInv, Drained, Without
  <2> QED BY <2>1 DEF FeedInv, TreeFollows
<1> QED BY <1>1, FeedAlways, PTL

===============================================================================
