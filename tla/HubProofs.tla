------------------------------- MODULE HubProofs -------------------------------
(***************************************************************************)
(* Proofs about Hub for every set of viewers, paths and addresses and      *)
(* every value of the bounds.                                              *)
(***************************************************************************)
EXTENDS Hub, TLAPS

-------------------------------------------------------------------------------
(* The reference counts.                                                   *)

\* A well-formed SubMap: no path keeps an empty entry.
SubMapOK(s) ==
    /\ DOMAIN s \subseteq Path
    /\ s \in [DOMAIN s -> (SUBSET Viewer) \ {{}}]

LEMMA AddOK ==
    ASSUME NEW s, SubMapOK(s), NEW p \in Path, NEW v \in Viewer
    PROVE  /\ SubMapOK(sub_add(s, p, v))
           /\ DOMAIN sub_add(s, p, v) = DOMAIN s \cup {p}
           /\ FirstRef(s, p) <=> p \notin DOMAIN s
           /\ \A w, q : Holds(sub_add(s, p, v), w, q) <=>
                            Holds(s, w, q) \/ (w = v /\ q = p)
BY DEF SubMapOK, sub_add, Refs, FirstRef, Holds

LEMMA RemoveOK ==
    ASSUME NEW s, SubMapOK(s), NEW p \in Path, NEW v \in Viewer
    PROVE  /\ SubMapOK(sub_remove(s, p, v))
           /\ DOMAIN sub_remove(s, p, v) =
                  IF LastRef(s, p, v) THEN DOMAIN s \ {p} ELSE DOMAIN s
           /\ LastRef(s, p, v) => p \in DOMAIN s
           /\ \A w, q : Holds(sub_remove(s, p, v), w, q) <=>
                            Holds(s, w, q) /\ ~(w = v /\ q = p)
BY DEF SubMapOK, sub_remove, LastRef, Holds

LEMMA ReleaseOK ==
    ASSUME NEW s, SubMapOK(s), NEW v \in Viewer
    PROVE  /\ SubMapOK(release_subscriber(s, v))
           /\ DOMAIN release_subscriber(s, v) = DOMAIN s \ Orphaned(s, v)
           /\ Orphaned(s, v) \subseteq DOMAIN s
           /\ \A w, q : Holds(release_subscriber(s, v), w, q) <=>
                            Holds(s, w, q) /\ w # v
BY DEF SubMapOK, release_subscriber, Orphaned, Holds

\* What a message does to the counts is what Sets and Clears say it does.
LEMMA CountedOK ==
    ASSUME NEW s, SubMapOK(s), NEW m \in Msg
    PROVE  /\ SubMapOK(Counted(s, m))
           /\ \A v, p : Holds(Counted(s, m), v, p) <=>
                  Sets(m, v, p) \/ (Holds(s, v, p) /\ ~Clears(m, v, p))
<1>1. CASE m.type = "Subscribe"
  <2>1. m.path \in Path /\ m.id \in Viewer
    BY <1>1 DEF Msg
  <2>2. Counted(s, m) = sub_add(s, m.path, m.id)
    BY <1>1 DEF Counted
  <2>3. \A v, p : Sets(m, v, p) <=> v = m.id /\ p = m.path
    BY <1>1 DEF Sets
  <2>4. \A v, p : ~Clears(m, v, p)
    BY <1>1 DEF Clears
  <2>5. /\ SubMapOK(sub_add(s, m.path, m.id))
        /\ \A w, q : Holds(sub_add(s, m.path, m.id), w, q) <=>
                         Holds(s, w, q) \/ (w = m.id /\ q = m.path)
    BY <2>1, AddOK
  <2> QED BY <2>2, <2>3, <2>4, <2>5
<1>2. CASE m.type = "Unsubscribe"
  <2>1. m.path \in Path /\ m.id \in Viewer
    BY <1>2 DEF Msg
  <2>2. Counted(s, m) = sub_remove(s, m.path, m.id)
    BY <1>2 DEF Counted
  <2>3. \A v, p : ~Sets(m, v, p)
    BY <1>2 DEF Sets
  <2>4. \A v, p : Clears(m, v, p) <=> v = m.id /\ p = m.path
    BY <1>2 DEF Clears
  <2>5. /\ SubMapOK(sub_remove(s, m.path, m.id))
        /\ \A w, q : Holds(sub_remove(s, m.path, m.id), w, q) <=>
                         Holds(s, w, q) /\ ~(w = m.id /\ q = m.path)
    BY <2>1, RemoveOK
  <2> QED BY <2>2, <2>3, <2>4, <2>5
<1>3. CASE m.type = "Drop"
  <2>1. m.id \in Viewer
    BY <1>3 DEF Msg
  <2>2. Counted(s, m) = release_subscriber(s, m.id)
    BY <1>3 DEF Counted
  <2>3. \A v, p : ~Sets(m, v, p)
    BY <1>3 DEF Sets
  <2>4. \A v, p : Clears(m, v, p) <=> v = m.id
    BY <1>3 DEF Clears
  <2>5. /\ SubMapOK(release_subscriber(s, m.id))
        /\ \A w, q : Holds(release_subscriber(s, m.id), w, q) <=>
                         Holds(s, w, q) /\ w # m.id
    BY <2>1, ReleaseOK
  <2> QED BY <2>2, <2>3, <2>4, <2>5
<1>4. CASE m.type \notin {"Subscribe", "Unsubscribe", "Drop"}
  BY <1>4 DEF Counted, Sets, Clears
<1> QED BY <1>1, <1>2, <1>3, <1>4

-------------------------------------------------------------------------------
(* The queue and the references it will leave.                             *)

LEMMA AppendPending ==
    ASSUME NEW q \in Seq(Msg), NEW m \in Msg, NEW s, NEW v, NEW p
    PROVE  Pending(Append(q, m), s, v, p) <=>
               Sets(m, v, p) \/ (Pending(q, s, v, p) /\ ~Clears(m, v, p))
<1> DEFINE a == Append(q, m)
<1>1. /\ Len(q) \in Nat
      /\ Len(a) = Len(q) + 1
      /\ \A i \in 1..Len(q) : a[i] = q[i]
      /\ a[Len(q) + 1] = m
  OBVIOUS
<1> DEFINE quiet(k) == \A j \in k..Len(q) : ~Clears(q[j], v, p)
<1>2. ASSUME NEW k \in 1..Len(q) + 1
      PROVE  (\A j \in k..Len(a) : ~Clears(a[j], v, p)) <=>
                 ~Clears(m, v, p) /\ quiet(k)
  BY <1>1
<1>3. Sets(m, v, p) => ~Clears(m, v, p)
  BY DEF Sets, Clears
<1>4. (\E i \in 1..Len(a) : Sets(a[i], v, p)
                            /\ \A j \in i + 1..Len(a) : ~Clears(a[j], v, p))
      <=> \/ Sets(m, v, p)
          \/ \E i \in 1..Len(q) : Sets(q[i], v, p) /\ quiet(i + 1)
                                  /\ ~Clears(m, v, p)
  <2>1. ASSUME NEW i \in 1..Len(q)
        PROVE  /\ i \in 1..Len(a)
               /\ a[i] = q[i]
               /\ (\A j \in i + 1..Len(a) : ~Clears(a[j], v, p))
                      <=> ~Clears(m, v, p) /\ quiet(i + 1)
    <3>1. i + 1 \in 1..Len(q) + 1 /\ i \in 1..Len(a) /\ a[i] = q[i]
      BY <1>1
    <3> HIDE DEF a, quiet
    <3> QED BY <3>1, <1>2
  <2>2. /\ Len(q) + 1 \in 1..Len(a)
        /\ a[Len(q) + 1] = m
        /\ \A j \in Len(q) + 1 + 1..Len(a) : ~Clears(a[j], v, p)
    BY <1>1
  <2>3. \A i \in 1..Len(a) : i \in 1..Len(q) \/ i = Len(q) + 1
    BY <1>1
  <2> HIDE DEF a, quiet
  <2> QED BY <2>1, <2>2, <2>3
<1>5. (\A j \in 1..Len(a) : ~Clears(a[j], v, p)) <=>
          ~Clears(m, v, p) /\ quiet(1)
  BY <1>1, <1>2
<1> HIDE DEF a
<1> QED BY <1>3, <1>4, <1>5 DEF Pending, a

LEMMA TailPending ==
    ASSUME NEW q \in Seq(Msg), q # <<>>, NEW s, SubMapOK(s), NEW v, NEW p
    PROVE  Pending(Tail(q), Counted(s, Head(q)), v, p) <=> Pending(q, s, v, p)
<1> DEFINE t == Tail(q)
<1>1. /\ Len(q) \in Nat \ {0}
      /\ Len(t) = Len(q) - 1
      /\ \A i \in 1..Len(t) : t[i] = q[i + 1]
      /\ Head(q) = q[1]
      /\ Head(q) \in Msg
  OBVIOUS
<1>2. ASSUME NEW k \in 1..Len(q)
      PROVE  (\A j \in k..Len(t) : ~Clears(t[j], v, p)) <=>
                 (\A j \in k + 1..Len(q) : ~Clears(q[j], v, p))
  <2>1. \A j \in k + 1..Len(q) : j - 1 \in k..Len(t) /\ t[j - 1] = q[j]
    BY <1>1
  <2>2. \A j \in k..Len(t) : j + 1 \in k + 1..Len(q) /\ t[j] = q[j + 1]
    BY <1>1
  <2> HIDE DEF t
  <2> QED BY <2>1, <2>2
<1>3. Holds(Counted(s, Head(q)), v, p) <=>
          Sets(q[1], v, p) \/ (Holds(s, v, p) /\ ~Clears(q[1], v, p))
  BY <1>1, CountedOK
<1> DEFINE quiet(k) == \A j \in k..Len(q) : ~Clears(q[j], v, p)
<1>4. Pending(q, s, v, p) <=>
          \/ \E i \in 2..Len(q) : Sets(q[i], v, p) /\ quiet(i + 1)
          \/ Sets(q[1], v, p) /\ quiet(2)
          \/ Holds(s, v, p) /\ ~Clears(q[1], v, p) /\ quiet(2)
  BY <1>1 DEF Pending
<1>5. (\E i \in 1..Len(t) : Sets(t[i], v, p)
                            /\ \A j \in i + 1..Len(t) : ~Clears(t[j], v, p))
      <=> (\E i \in 2..Len(q) : Sets(q[i], v, p) /\ quiet(i + 1))
  <2>1. ASSUME NEW i \in 1..Len(t)
        PROVE  /\ i + 1 \in 2..Len(q)
               /\ t[i] = q[i + 1]
               /\ (\A j \in i + 1..Len(t) : ~Clears(t[j], v, p))
                      <=> quiet(i + 1 + 1)
    BY <1>1, <1>2
  <2>2. \A i \in 2..Len(q) : i - 1 \in 1..Len(t) /\ (i - 1) + 1 = i
    BY <1>1
  <2> HIDE DEF t, quiet
  <2> QED BY <2>1, <2>2
<1>6. (\A j \in 1..Len(t) : ~Clears(t[j], v, p)) <=> quiet(2)
  BY <1>1, <1>2
<1> HIDE DEF t, quiet
<1> QED BY <1>3, <1>4, <1>5, <1>6 DEF Pending, t

-------------------------------------------------------------------------------
(* The type invariant.                                                     *)

LEMMA NoneOK ==
    /\ NoRefs \in [Path -> Int]
    /\ SubMapOK(NoSubs)
<1>1. NoRefs \in [Path -> Int]
  BY DEF NoRefs
<1>2. SubMapOK(NoSubs)
  BY DEF SubMapOK, NoSubs
<1> QED BY <1>1, <1>2

LEMMA SubsOK == TypeOK => SubMapOK(subs)
BY DEF TypeOK, TaskTypeOK, SubMapOK

LEMMA SendOK ==
    ASSUME queue \in Seq(Msg), NEW m \in Msg, Send(m)
    PROVE  queue' \in Seq(Msg)
BY DEF Send

LEMMA HeadOK ==
    ASSUME queue \in Seq(Msg), NEW type, Arrives(type)
    PROVE  /\ Head(queue) \in Msg
           /\ Head(queue).type = type
           /\ Tail(queue) \in Seq(Msg)
BY DEF Arrives

LEMMA ConstantsOK == FirstAddr \in Addr /\ MaxBackoff \in Nat \ {0}
BY HubAssumption

LEMMA InitTypeOK == Init => TypeOK
<1> SUFFICES ASSUME Init PROVE TypeOK
  OBVIOUS
<1>1. ViewersTypeOK
  BY ConstantsOK DEF Init, ViewersTypeOK
<1>2. TaskTypeOK
  <2>1. backoff \in 1..MaxBackoff
    BY ConstantsOK DEF Init
  <2> QED BY <2>1, ConstantsOK, NoneOK
          DEF Init, TaskTypeOK, Phase, Status, SubMapOK
<1>3. DeviceTypeOK
  BY NoneOK DEF Init, DeviceTypeOK
<1>4. FlagTypeOK
  BY DEF Init, FlagTypeOK
<1> QED BY <1>1, <1>2, <1>3, <1>4 DEF TypeOK

\* Every step keeps the two flags Boolean.
LEMMA FlagStep == FlagTypeOK /\ [Next]_vars => FlagTypeOK'
<1> SUFFICES ASSUME FlagTypeOK, [Next]_vars PROVE FlagTypeOK'
  OBVIOUS
<1> USE DEF FlagTypeOK, viewerVars, taskVars, deviceVars, bounds
<1>1. CASE Viewers
  BY <1>1 DEF Viewers, Attach, Detach, SendAct, SendDisconnect, SendSubscribe,
              SendUnsubscribe, SendRetarget
<1>2. CASE ConnectOk \/ ConnectFails
  BY <1>2 DEF ConnectOk, ConnectFails, Dropped
<1>3. CASE Loops
  BY <1>3 DEF Loops, GetRoot, Replay, Release, Replayed, Released, Written,
              WriteFails, Dropped
<1>4. CASE OnSubscribe \/ OnUnsubscribe
  BY <1>4 DEF OnSubscribe, OnUnsubscribe, Written, WriteFails, Dropped
<1>5. CASE OnDrop \/ OnAct \/ BackoffMsg \/ OnRetarget \/ OnDisconnect
  BY <1>5 DEF OnDrop, OnAct, BackoffMsg, OnRetarget, OnDisconnect, WriteFails,
              Dropped, Retry, Retargeted, Stop
<1>6. CASE LinkEnds \/ FalseDeadPeer \/ Elapse \/ Expire \/ ShutDown \/ LinkLost
  BY <1>6 DEF LinkEnds, FalseDeadPeer, Elapse, Expire, ShutDown, LinkLost,
              Dropped, Retry, Stop
<1>7. CASE Done \/ UNCHANGED vars
  BY <1>7 DEF Done, vars
<1> QED BY <1>1, <1>2, <1>3, <1>4, <1>5, <1>6, <1>7 DEF Next, HandleMsg

LEMMA ViewersKept ==
    ASSUME ViewersTypeOK, UNCHANGED viewerVars, queue' \in Seq(Msg)
    PROVE  ViewersTypeOK'
BY DEF ViewersTypeOK, viewerVars

\* Every step is either a step of a viewer or leaves the viewers and at most
\* takes the first message.
LEMMA ViewersStep ==
    ASSUME ViewersTypeOK, [Next]_vars PROVE ViewersTypeOK'
<1> USE DEF viewerVars, taskVars, deviceVars, bounds
<1>1. CASE Viewers
  <2>1. ASSUME NEW v \in Viewer, Attach(v) PROVE ViewersTypeOK'
    BY <2>1 DEF Attach, ViewersTypeOK
  <2>2. ASSUME NEW v \in Viewer, Detach(v) PROVE ViewersTypeOK'
    <3>1. [type |-> "Drop", id |-> v] \in Msg
      BY DEF Msg
    <3>2. queue' \in Seq(Msg)
      BY <2>2, <3>1, SendOK DEF Detach, ViewersTypeOK
    <3> QED BY <2>2, <3>2 DEF Detach, ViewersTypeOK
  <2>3. ASSUME NEW v \in Viewer, SendAct(v) PROVE ViewersTypeOK'
    <3>1. [type |-> "Act", id |-> v, n |-> issued + 1] \in Msg
      BY DEF Msg, ViewersTypeOK
    <3>2. queue' \in Seq(Msg)
      BY <2>3, <3>1, SendOK DEF SendAct, ViewersTypeOK
    <3> QED BY <2>3, <3>2 DEF SendAct, ViewersTypeOK
  <2>4. ASSUME NEW v \in Viewer, SendDisconnect(v) PROVE ViewersTypeOK'
    <3>1. [type |-> "Disconnect", id |-> v] \in Msg
      BY DEF Msg
    <3>2. queue' \in Seq(Msg)
      BY <2>4, <3>1, SendOK DEF SendDisconnect, ViewersTypeOK
    <3> QED BY <2>4, <3>2 DEF SendDisconnect, ViewersTypeOK
  <2>5. ASSUME NEW v \in Viewer, NEW p \in Path, SendSubscribe(v, p)
        PROVE  ViewersTypeOK'
    <3>1. [type |-> "Subscribe", id |-> v, path |-> p] \in Msg
      BY DEF Msg
    <3>2. queue' \in Seq(Msg)
      BY <2>5, <3>1, SendOK DEF SendSubscribe, ViewersTypeOK
    <3> QED BY <2>5, <3>2 DEF SendSubscribe, ViewersTypeOK
  <2>6. ASSUME NEW v \in Viewer, NEW p \in Path, SendUnsubscribe(v, p)
        PROVE  ViewersTypeOK'
    <3>1. [type |-> "Unsubscribe", id |-> v, path |-> p] \in Msg
      BY DEF Msg
    <3>2. queue' \in Seq(Msg)
      BY <2>6, <3>1, SendOK DEF SendUnsubscribe, ViewersTypeOK
    <3> QED BY <2>6, <3>2 DEF SendUnsubscribe, ViewersTypeOK
  <2>7. ASSUME NEW a \in Addr, SendRetarget(a) PROVE ViewersTypeOK'
    <3>1. [type |-> "Retarget", addr |-> a] \in Msg
      BY DEF Msg
    <3>2. queue' \in Seq(Msg)
      BY <2>7, <3>1, SendOK DEF SendRetarget, ViewersTypeOK
    <3> QED BY <2>7, <3>2 DEF SendRetarget, ViewersTypeOK
  <2> QED BY <1>1, <2>1, <2>2, <2>3, <2>4, <2>5, <2>6, <2>7 DEF Viewers
<1>2. CASE ConnectOk \/ ConnectFails \/ Loops
  BY <1>2, ViewersKept
     DEF ConnectOk, ConnectFails, Loops, GetRoot, Replay, Release, Replayed,
         Released, ViewersTypeOK
<1>3. CASE OnSubscribe \/ OnUnsubscribe \/ OnDrop \/ OnAct \/ BackoffMsg
           \/ OnRetarget
  <2>1. queue # <<>> /\ queue' = Tail(queue) /\ UNCHANGED viewerVars
    BY <1>3 DEF OnSubscribe, OnUnsubscribe, OnDrop, OnAct, BackoffMsg,
                OnRetarget, Arrives
  <2>2. queue' \in Seq(Msg)
    BY <2>1 DEF ViewersTypeOK
  <2> QED BY <2>1, <2>2, ViewersKept
<1>4. CASE OnDisconnect \/ ShutDown
  <2>1. queue' = <<>> /\ UNCHANGED viewerVars
    BY <1>4 DEF OnDisconnect, ShutDown, Stop
  <2>2. queue' \in Seq(Msg)
    BY <2>1
  <2> QED BY <2>1, <2>2, ViewersKept
<1>5. CASE LinkEnds \/ FalseDeadPeer \/ Elapse \/ Expire \/ LinkLost \/ Done
           \/ UNCHANGED vars
  BY <1>5, ViewersKept
     DEF LinkEnds, FalseDeadPeer, Elapse, Expire, LinkLost, Done, vars,
         ViewersTypeOK
<1> QED BY <1>1, <1>2, <1>3, <1>4, <1>5 DEF Next, HandleMsg

LEMMA DroppedTask ==
    ASSUME TaskTypeOK, Dropped, SubMapOK(subs') PROVE TaskTypeOK'
BY DEF TaskTypeOK, Dropped, Phase, Status, SubMapOK

LEMMA StoppedTask ==
    ASSUME TaskTypeOK, Stop PROVE TaskTypeOK'
BY NoneOK DEF TaskTypeOK, Stop, Phase, Status, SubMapOK

LEMMA WrittenTask ==
    ASSUME TaskTypeOK, NEW p, NEW d, Written(p, d), SubMapOK(subs'),
           todo' \subseteq Path
    PROVE  TaskTypeOK'
BY DEF TaskTypeOK, Written, SubMapOK

LEMMA RetryOK ==
    ASSUME TaskTypeOK, Retry, SubMapOK(subs') PROVE TaskTypeOK'
<1>1. backoff' \in 1..MaxBackoff
  BY ConstantsOK DEF Retry, MinOf, TaskTypeOK
<1> QED BY <1>1 DEF Retry, TaskTypeOK, Phase, SubMapOK

LEMMA TaskStep ==
    ASSUME ViewersTypeOK, TaskTypeOK, [Next]_vars PROVE TaskTypeOK'
<1> USE DEF taskVars
<1> DEFINE m == Head(queue)
<1>1. SubMapOK(subs)
  BY DEF TaskTypeOK, SubMapOK
<1>2. CASE Viewers
  BY <1>2 DEF Viewers, Attach, Detach, SendAct, SendDisconnect, SendSubscribe,
              SendUnsubscribe, SendRetarget, TaskTypeOK
<1>3. CASE ConnectOk
  BY <1>3, ConstantsOK DEF ConnectOk, TaskTypeOK, Phase, Status
<1>4. CASE ConnectFails \/ LinkEnds \/ FalseDeadPeer
  BY <1>1, <1>4, DroppedTask DEF ConnectFails, LinkEnds, FalseDeadPeer
<1>5. CASE Loops
  <2>1. CASE GetRoot
    BY <2>1 DEF GetRoot, TaskTypeOK, Phase, Status
  <2>2. ASSUME NEW p \in Path, Replay(p) \/ Release(p) PROVE TaskTypeOK'
    <3>1. UNCHANGED subs
      BY <2>2 DEF Replay, Release
    <3>2. CASE WriteFails
      BY <1>1, <3>1, <3>2, DroppedTask DEF WriteFails
    <3>3. ASSUME NEW d, Written(p, d), todo' = todo \ {p} PROVE TaskTypeOK'
      BY <1>1, <3>1, <3>3, WrittenTask DEF TaskTypeOK
    <3> QED BY <2>2, <3>2, <3>3 DEF Replay, Release
  <2>3. CASE Replayed \/ Released
    BY <2>3 DEF Replayed, Released, TaskTypeOK, Phase
  <2> QED BY <1>5, <2>1, <2>2, <2>3 DEF Loops
<1>6. CASE OnSubscribe \/ OnUnsubscribe
  <2>1. m \in Msg /\ subs' = Counted(subs, m)
    BY <1>6, HeadOK DEF OnSubscribe, OnUnsubscribe, ViewersTypeOK
  <2>2. SubMapOK(subs')
    BY <1>1, <2>1, CountedOK
  <2>3. CASE WriteFails
    BY <2>2, <2>3, DroppedTask DEF WriteFails
  <2>4. ASSUME NEW p, NEW d, Written(p, d), UNCHANGED todo PROVE TaskTypeOK'
    BY <2>2, <2>4, WrittenTask DEF TaskTypeOK
  <2>5. CASE UNCHANGED <<phase, status, due, addr, backoff, todo, link, devRefs>>
    BY <2>2, <2>5 DEF TaskTypeOK, SubMapOK
  <2> QED BY <1>6, <2>3, <2>4, <2>5 DEF OnSubscribe, OnUnsubscribe
<1>7. CASE OnDrop
  <2>1. m \in Msg /\ m.type = "Drop" /\ subs' = Counted(subs, m)
    BY <1>7, HeadOK DEF OnDrop, ViewersTypeOK
  <2>2. SubMapOK(subs')
    BY <1>1, <2>1, CountedOK
  <2>3. todo' \subseteq Path
    <3>1. m.id \in Viewer
      BY <2>1 DEF Msg
    <3> QED BY <1>1, <1>7, <3>1, ReleaseOK DEF OnDrop, SubMapOK
  <2> QED BY <1>7, <2>2, <2>3 DEF OnDrop, TaskTypeOK, Phase, SubMapOK
<1>8. CASE OnAct
  <2>1. UNCHANGED subs
    BY <1>8 DEF OnAct
  <2>2. CASE WriteFails
    BY <1>1, <2>1, <2>2, DroppedTask DEF WriteFails
  <2> QED BY <1>8, <2>2 DEF OnAct, TaskTypeOK
<1>9. CASE BackoffMsg
  <2>1. m \in Msg /\ subs' = Counted(subs, m)
    BY <1>9, HeadOK DEF BackoffMsg, ViewersTypeOK
  <2>2. SubMapOK(subs')
    BY <1>1, <2>1, CountedOK
  <2> QED BY <1>9, <2>2, RetryOK DEF BackoffMsg
<1>10. CASE OnRetarget
  <2>1. m \in Msg /\ m.type = "Retarget"
    BY <1>10, HeadOK DEF OnRetarget, ViewersTypeOK
  <2>2. m.addr \in Addr
    BY <2>1 DEF Msg
  <2>3. 1 \in 1..MaxBackoff
    BY ConstantsOK
  <2> QED BY <1>10, <2>2, <2>3
          DEF OnRetarget, Retargeted, TaskTypeOK, Phase, Status
<1>11. CASE OnDisconnect \/ ShutDown
  BY <1>11, StoppedTask DEF OnDisconnect, ShutDown
<1>12. CASE Expire
  BY <1>1, <1>12, RetryOK DEF Expire
<1>13. CASE Elapse \/ LinkLost \/ Done \/ UNCHANGED vars
  BY <1>13 DEF Elapse, LinkLost, Done, vars, TaskTypeOK
<1> QED BY <1>2, <1>3, <1>4, <1>5, <1>6, <1>7, <1>8, <1>9, <1>10, <1>11,
           <1>12, <1>13 DEF Next, HandleMsg

LEMMA DeviceStep ==
    ASSUME ViewersTypeOK, DeviceTypeOK, [Next]_vars PROVE DeviceTypeOK'
<1> USE DEF deviceVars, bounds
<1>1. CASE Viewers
  <2>1. /\ UNCHANGED <<link, devRefs, performed, faults>>
        /\ retargets' \in {retargets, retargets + 1}
    BY <1>1 DEF Viewers, Attach, Detach, SendAct, SendDisconnect,
                SendSubscribe, SendUnsubscribe, SendRetarget
  <2> QED BY <2>1 DEF DeviceTypeOK
<1>2. CASE ConnectOk
  BY <1>2 DEF ConnectOk, DeviceTypeOK
<1>3. CASE ConnectFails \/ LinkEnds \/ FalseDeadPeer
  BY <1>3, NoneOK
     DEF ConnectFails, LinkEnds, FalseDeadPeer, Dropped, DeviceTypeOK
<1>4. ASSUME NEW p, NEW d \in Int, Written(p, d) \/ WriteFails,
             performed' = performed, UNCHANGED bounds
      PROVE  DeviceTypeOK'
  BY <1>4, NoneOK DEF Written, WriteFails, Dropped, DeviceTypeOK
<1>5. CASE Loops
  <2>1. CASE GetRoot \/ Replayed \/ Released
    BY <2>1 DEF GetRoot, Replayed, Released, DeviceTypeOK
  <2>2. ASSUME NEW p \in Path, Replay(p) \/ Release(p) PROVE DeviceTypeOK'
    BY <1>4, <2>2 DEF Replay, Release
  <2> QED BY <1>5, <2>1, <2>2 DEF Loops
<1>6. CASE OnSubscribe \/ OnUnsubscribe
  <2>1. CASE UNCHANGED <<link, devRefs>>
    BY <1>6, <2>1 DEF OnSubscribe, OnUnsubscribe, DeviceTypeOK
  <2> QED BY <1>4, <1>6, <2>1 DEF OnSubscribe, OnUnsubscribe
<1>7. CASE OnAct
  <2>1. Head(queue) \in Msg /\ Head(queue).type = "Act"
    BY <1>7, HeadOK DEF OnAct, ViewersTypeOK
  <2>2. Head(queue).n \in Nat
    BY <2>1 DEF Msg
  <2>3. CASE WriteFails /\ UNCHANGED performed
    BY <1>4, <1>7, <2>3 DEF OnAct
  <2> QED BY <1>7, <2>2, <2>3 DEF OnAct, DeviceTypeOK
<1>8. CASE OnDrop \/ BackoffMsg \/ OnRetarget \/ OnDisconnect \/ ShutDown
  BY <1>8, NoneOK
     DEF OnDrop, BackoffMsg, OnRetarget, OnDisconnect, ShutDown, Retargeted,
         Stop, DeviceTypeOK
<1>9. CASE Elapse \/ Expire \/ LinkLost \/ Done \/ UNCHANGED vars
  BY <1>9, NoneOK DEF Elapse, Expire, LinkLost, Done, vars, DeviceTypeOK
<1> QED BY <1>1, <1>2, <1>3, <1>5, <1>6, <1>7, <1>8, <1>9
        DEF Next, HandleMsg

LEMMA TypeStep == TypeOK /\ [Next]_vars => TypeOK'
BY FlagStep, ViewersStep, TaskStep, DeviceStep DEF TypeOK

\* The variables keep their types: the counts never hold an empty entry or a
\* path or viewer that does not exist, and the wait stays within
\* 1..MAX_BACKOFF_SECS (run_connection's doubling).
THEOREM TypeCorrect == Spec => []TypeOK
<1>1. Init => TypeOK
  BY InitTypeOK
<1> QED BY <1>1, TypeStep, PTL DEF Spec

-------------------------------------------------------------------------------
(* The device and the counts.                                              *)

LEMMA Offline ==
    ASSUME todo' = {}, link' = "none", devRefs' = NoRefs,
           phase' \in {"connecting", "backoff", "done"}
    PROVE  LinkInSync'
BY DEF LinkInSync, Online

LEMMA SameLink ==
    ASSUME LinkInSync, UNCHANGED <<phase, link, devRefs, todo, subs>>
    PROVE  LinkInSync'
BY DEF LinkInSync, OnDevice

\* A Subscribe or Unsubscribe that was written, for a path that the device
\* does not hold or does hold.
LEMMA WrittenLink ==
    ASSUME DeviceTypeOK, LinkInSync, phase \in Online, NEW p \in Path, NEW d,
           Written(p, d),
           \/ d = 1 /\ p \notin OnDevice /\ OnDevice' = OnDevice \cup {p}
           \/ d = -1 /\ p \in OnDevice /\ OnDevice' = OnDevice \ {p},
           phase = "replay" => todo' \subseteq DOMAIN subs',
           phase = "release" => todo' \cap DOMAIN subs' = {},
           phase \notin {"replay", "release"} => todo' = {}
    PROVE  LinkInSync'
<1>1. phase' = phase /\ link' = link
  BY DEF Written
<1>2. CASE link = "up"
  BY <1>1, <1>2 DEF Written, LinkInSync, DeviceTypeOK
<1>3. CASE link # "up"
  BY <1>1, <1>3 DEF Written, LinkInSync
<1> QED BY <1>2, <1>3

LEMMA LinkStep ==
    ASSUME TypeOK, LinkInSync, [Next]_vars PROVE LinkInSync'
<1> USE DEF taskVars, deviceVars
<1> DEFINE m == Head(queue)
<1>0. DeviceTypeOK /\ SubMapOK(subs) /\ queue \in Seq(Msg) /\ todo \subseteq Path
  BY SubsOK DEF TypeOK, ViewersTypeOK, TaskTypeOK
<1>1. CASE Viewers
  BY <1>1, SameLink
     DEF Viewers, Attach, Detach, SendAct, SendDisconnect, SendSubscribe,
         SendUnsubscribe, SendRetarget
<1>2. CASE ConnectOk
  BY <1>2 DEF ConnectOk, LinkInSync, Online, OnDevice, NoRefs
<1>3. CASE ConnectFails \/ LinkEnds \/ FalseDeadPeer
  BY <1>3, Offline DEF ConnectFails, LinkEnds, FalseDeadPeer, Dropped
<1>4. CASE GetRoot
  BY <1>4 DEF GetRoot, LinkInSync, Online, OnDevice
<1>5. CASE Replayed \/ Released
  BY <1>5 DEF Replayed, Released, LinkInSync, Online, OnDevice
<1>6. ASSUME NEW p \in Path, Replay(p) PROVE LinkInSync'
  <2>1. CASE WriteFails
    BY <2>1, Offline DEF WriteFails, Dropped
  <2>2. CASE Written(p, 1) /\ todo' = todo \ {p}
    <3>1. p \notin OnDevice /\ OnDevice' = OnDevice \cup {p}
      BY <1>6, <2>2 DEF Replay, Written, OnDevice, LinkInSync
    <3> QED BY <1>0, <1>6, <2>2, <3>1, WrittenLink
            DEF Replay, LinkInSync, Online
  <2> QED BY <1>6, <2>1, <2>2 DEF Replay
<1>7. ASSUME NEW p \in Path, Release(p) PROVE LinkInSync'
  <2>1. CASE WriteFails
    BY <2>1, Offline DEF WriteFails, Dropped
  <2>2. CASE Written(p, -1) /\ todo' = todo \ {p}
    <3>1. p \in OnDevice /\ OnDevice' = OnDevice \ {p}
      BY <1>7, <2>2 DEF Release, Written, OnDevice, LinkInSync
    <3> QED BY <1>0, <1>7, <2>2, <3>1, WrittenLink
            DEF Release, LinkInSync, Online
  <2> QED BY <1>7, <2>1, <2>2 DEF Release
<1>8. CASE OnSubscribe
  <2>1. m \in Msg /\ m.type = "Subscribe"
    BY <1>0, <1>8, HeadOK DEF OnSubscribe
  <2>2. m.path \in Path /\ m.id \in Viewer
    BY <2>1 DEF Msg
  <2>3. /\ DOMAIN subs' = DOMAIN subs \cup {m.path}
        /\ FirstRef(subs, m.path) <=> m.path \notin DOMAIN subs
    <3>1. subs' = sub_add(subs, m.path, m.id)
      BY <1>8, <2>1 DEF OnSubscribe, Counted
    <3> QED BY <1>0, <2>2, <3>1, AddOK
  <2>4. phase = "session" /\ todo = {} /\ OnDevice = DOMAIN subs
    BY <1>8 DEF OnSubscribe, LinkInSync, OnDevice
  <2>5. CASE WriteFails
    BY <2>5, Offline DEF WriteFails, Dropped
  <2>6. CASE FirstRef(subs, m.path) /\ Written(m.path, 1) /\ UNCHANGED todo
    <3>1. m.path \notin OnDevice /\ OnDevice' = OnDevice \cup {m.path}
      BY <2>3, <2>4, <2>6 DEF OnDevice, Written
    <3> HIDE DEF m
    <3> QED BY <1>0, <2>2, <2>4, <2>6, <3>1, WrittenLink DEF Online
  <2>7. CASE ~FirstRef(subs, m.path) /\ UNCHANGED <<phase, status, due, addr,
                                                backoff, todo, link, devRefs>>
    <3>1. OnDevice' = OnDevice
      BY <2>3, <2>4, <2>7 DEF OnDevice
    <3> HIDE DEF m
    <3> QED BY <2>4, <2>7, <3>1 DEF LinkInSync
  <2> QED BY <1>8, <2>5, <2>6, <2>7 DEF OnSubscribe
<1>9. CASE OnUnsubscribe
  <2>1. m \in Msg /\ m.type = "Unsubscribe"
    BY <1>0, <1>9, HeadOK DEF OnUnsubscribe
  <2>2. m.path \in Path /\ m.id \in Viewer
    BY <2>1 DEF Msg
  <2>3. /\ DOMAIN subs' = IF LastRef(subs, m.path, m.id)
                          THEN DOMAIN subs \ {m.path} ELSE DOMAIN subs
        /\ LastRef(subs, m.path, m.id) => m.path \in DOMAIN subs
    <3>1. subs' = sub_remove(subs, m.path, m.id)
      BY <1>9, <2>1 DEF OnUnsubscribe, Counted
    <3> QED BY <1>0, <2>2, <3>1, RemoveOK
  <2>4. phase = "session" /\ todo = {} /\ OnDevice = DOMAIN subs
    BY <1>9 DEF OnUnsubscribe, LinkInSync, OnDevice
  <2>5. CASE WriteFails
    BY <2>5, Offline DEF WriteFails, Dropped
  <2>6. CASE LastRef(subs, m.path, m.id) /\ Written(m.path, -1)
             /\ UNCHANGED todo
    <3>1. m.path \in OnDevice /\ OnDevice' = OnDevice \ {m.path}
      BY <2>3, <2>4, <2>6 DEF OnDevice, Written
    <3> HIDE DEF m
    <3> QED BY <1>0, <2>2, <2>4, <2>6, <3>1, WrittenLink DEF Online
  <2>7. CASE ~LastRef(subs, m.path, m.id)
             /\ UNCHANGED <<phase, status, due, addr, backoff, todo, link,
                            devRefs>>
    <3>1. OnDevice' = OnDevice
      BY <2>3, <2>4, <2>7 DEF OnDevice
    <3> HIDE DEF m
    <3> QED BY <2>4, <2>7, <3>1 DEF LinkInSync
  <2> QED BY <1>9, <2>5, <2>6, <2>7 DEF OnUnsubscribe
<1>10. CASE OnDrop
  <2>1. m \in Msg /\ m.type = "Drop"
    BY <1>0, <1>10, HeadOK DEF OnDrop
  <2>2. m.id \in Viewer
    BY <2>1 DEF Msg
  <2>3. /\ DOMAIN subs' = DOMAIN subs \ Orphaned(subs, m.id)
        /\ Orphaned(subs, m.id) \subseteq DOMAIN subs
    <3>1. subs' = release_subscriber(subs, m.id)
      BY <1>10, <2>1 DEF OnDrop, Counted
    <3> QED BY <1>0, <2>2, <3>1, ReleaseOK
  <2>4. /\ phase = "session" /\ phase' = "release"
        /\ todo' = Orphaned(subs, m.id)
        /\ UNCHANGED <<link, devRefs>>
    BY <1>10 DEF OnDrop
  <2>5. OnDevice = DOMAIN subs /\ OnDevice' = DOMAIN subs
    BY <2>3, <2>4 DEF OnDevice
  <2> HIDE DEF m
  <2> QED BY <2>3, <2>4, <2>5 DEF LinkInSync, Online
<1>11. CASE OnAct
  <2>1. CASE WriteFails
    BY <2>1, Offline DEF WriteFails, Dropped
  <2> QED BY <1>11, <2>1, SameLink DEF OnAct
<1>12. CASE BackoffMsg \/ Expire
  BY <1>12, Offline DEF BackoffMsg, Expire, Retry, LinkInSync, Online
<1>13. CASE OnRetarget
  BY <1>13, Offline DEF OnRetarget, Retargeted
<1>14. CASE OnDisconnect \/ ShutDown
  BY <1>14, Offline DEF OnDisconnect, ShutDown, Stop
<1>15. CASE LinkLost
  BY <1>15 DEF LinkLost, LinkInSync
<1>16. CASE Elapse \/ Done \/ UNCHANGED vars
  BY <1>16, SameLink DEF Elapse, Done, vars
<1> QED BY <1>1, <1>2, <1>3, <1>4, <1>5, <1>6, <1>7, <1>8, <1>9, <1>10,
           <1>11, <1>12, <1>13, <1>14, <1>15, <1>16
        DEF Next, HandleMsg, Loops

-------------------------------------------------------------------------------
(* The viewers' intent.                                                    *)

LEMMA SentIntent ==
    ASSUME TypeOK, IntentPreserved, NEW m \in Msg, Send(m), phase' = phase,
           subs' = subs,
           \A v \in Viewer, p \in Path :
               p \in want'[v] <=>
                   Sets(m, v, p) \/ (p \in want[v] /\ ~Clears(m, v, p))
    PROVE  IntentPreserved'
<1>1. SUFFICES ASSUME phase # "done", NEW v \in Viewer, NEW p \in Path
               PROVE  p \in want'[v] <=> Pending(queue', subs', v, p)
  BY DEF IntentPreserved
<1>2. queue \in Seq(Msg) /\ queue' = Append(queue, m)
  BY <1>1 DEF TypeOK, ViewersTypeOK, Send
<1>3. Pending(queue', subs', v, p) <=>
          Sets(m, v, p) \/ (Pending(queue, subs, v, p) /\ ~Clears(m, v, p))
  BY <1>2, AppendPending
<1>4. p \in want[v] <=> Pending(queue, subs, v, p)
  BY <1>1 DEF IntentPreserved
<1> QED BY <1>3, <1>4

LEMMA TakenIntent ==
    ASSUME TypeOK, IntentPreserved, phase # "done", queue # <<>>,
           queue' = Tail(queue), subs' = Counted(subs, Head(queue)),
           want' = want
    PROVE  IntentPreserved'
<1>1. SUFFICES ASSUME NEW v \in Viewer, NEW p \in Path
               PROVE  p \in want'[v] <=> Pending(queue', subs', v, p)
  BY DEF IntentPreserved
<1>2. queue \in Seq(Msg) /\ SubMapOK(subs)
  BY SubsOK DEF TypeOK, ViewersTypeOK
<1>3. Pending(queue', subs', v, p) <=> Pending(queue, subs, v, p)
  BY <1>2, TailPending
<1>4. p \in want[v] <=> Pending(queue, subs, v, p)
  BY DEF IntentPreserved
<1> QED BY <1>3, <1>4

LEMMA SameIntent ==
    ASSUME IntentPreserved, UNCHANGED <<want, queue, subs>>,
           phase = "done" => phase' = "done"
    PROVE  IntentPreserved'
BY DEF IntentPreserved

LEMMA IntentStep ==
    ASSUME TypeOK, IntentPreserved, [Next]_vars PROVE IntentPreserved'
<1> USE DEF viewerVars, taskVars
<1>0. want \in [Viewer -> SUBSET Path] /\ queue \in Seq(Msg) /\ issued \in Nat
  BY DEF TypeOK, ViewersTypeOK
<1>1. CASE Viewers
  <2>1. ASSUME NEW v \in Viewer, Attach(v) PROVE IntentPreserved'
    BY <2>1, SameIntent DEF Attach
  <2>2. ASSUME NEW v \in Viewer, Detach(v) PROVE IntentPreserved'
    <3> DEFINE m == [type |-> "Drop", id |-> v]
    <3>1. m \in Msg /\ Send(m) /\ phase' = phase /\ subs' = subs
      BY <2>2 DEF Detach, Msg
    <3>2. \A w \in Viewer, p \in Path :
              p \in want'[w] <=> p \in want[w] /\ w # v
      BY <1>0, <2>2 DEF Detach
    <3>3. \A w \in Viewer, p \in Path :
              ~Sets(m, w, p) /\ (Clears(m, w, p) <=> w = v)
      BY DEF Sets, Clears
    <3> HIDE DEF m
    <3> QED BY <3>1, <3>2, <3>3, SentIntent
  <2>3. ASSUME NEW v \in Viewer, SendAct(v) PROVE IntentPreserved'
    <3> DEFINE m == [type |-> "Act", id |-> v, n |-> issued + 1]
    <3>1. m \in Msg /\ Send(m) /\ phase' = phase /\ subs' = subs /\ want' = want
      BY <1>0, <2>3 DEF SendAct, Msg
    <3>2. \A w \in Viewer, p \in Path : ~Sets(m, w, p) /\ ~Clears(m, w, p)
      BY DEF Sets, Clears
    <3> HIDE DEF m
    <3> QED BY <3>1, <3>2, SentIntent
  <2>4. ASSUME NEW v \in Viewer, SendDisconnect(v) PROVE IntentPreserved'
    <3> DEFINE m == [type |-> "Disconnect", id |-> v]
    <3>1. m \in Msg /\ Send(m) /\ phase' = phase /\ subs' = subs /\ want' = want
      BY <2>4 DEF SendDisconnect, Msg
    <3>2. \A w \in Viewer, p \in Path : ~Sets(m, w, p) /\ ~Clears(m, w, p)
      BY DEF Sets, Clears
    <3> HIDE DEF m
    <3> QED BY <3>1, <3>2, SentIntent
  <2>5. ASSUME NEW v \in Viewer, NEW p \in Path, SendSubscribe(v, p)
        PROVE  IntentPreserved'
    <3> DEFINE m == [type |-> "Subscribe", id |-> v, path |-> p]
    <3>1. m \in Msg /\ Send(m) /\ phase' = phase /\ subs' = subs
      BY <2>5 DEF SendSubscribe, Msg
    <3>2. \A w \in Viewer, q \in Path :
              q \in want'[w] <=> q \in want[w] \/ (w = v /\ q = p)
      BY <1>0, <2>5 DEF SendSubscribe
    <3>3. \A w \in Viewer, q \in Path :
              ~Clears(m, w, q) /\ (Sets(m, w, q) <=> w = v /\ q = p)
      BY DEF Sets, Clears
    <3> HIDE DEF m
    <3> QED BY <3>1, <3>2, <3>3, SentIntent
  <2>6. ASSUME NEW v \in Viewer, NEW p \in Path, SendUnsubscribe(v, p)
        PROVE  IntentPreserved'
    <3> DEFINE m == [type |-> "Unsubscribe", id |-> v, path |-> p]
    <3>1. m \in Msg /\ Send(m) /\ phase' = phase /\ subs' = subs
      BY <2>6 DEF SendUnsubscribe, Msg
    <3>2. \A w \in Viewer, q \in Path :
              q \in want'[w] <=> q \in want[w] /\ ~(w = v /\ q = p)
      BY <1>0, <2>6 DEF SendUnsubscribe
    <3>3. \A w \in Viewer, q \in Path :
              ~Sets(m, w, q) /\ (Clears(m, w, q) <=> w = v /\ q = p)
      BY DEF Sets, Clears
    <3> HIDE DEF m
    <3> QED BY <3>1, <3>2, <3>3, SentIntent
  <2>7. ASSUME NEW a \in Addr, SendRetarget(a) PROVE IntentPreserved'
    <3> DEFINE m == [type |-> "Retarget", addr |-> a]
    <3>1. m \in Msg /\ Send(m) /\ phase' = phase /\ subs' = subs /\ want' = want
      BY <2>7 DEF SendRetarget, Msg
    <3>2. \A w \in Viewer, p \in Path : ~Sets(m, w, p) /\ ~Clears(m, w, p)
      BY DEF Sets, Clears
    <3> HIDE DEF m
    <3> QED BY <3>1, <3>2, SentIntent
  <2> QED BY <1>1, <2>1, <2>2, <2>3, <2>4, <2>5, <2>6, <2>7 DEF Viewers
<1>2. CASE OnSubscribe \/ OnUnsubscribe \/ OnDrop \/ BackoffMsg
  <2>1. /\ phase # "done" /\ queue # <<>> /\ queue' = Tail(queue)
        /\ subs' = Counted(subs, Head(queue)) /\ want' = want
    BY <1>2 DEF OnSubscribe, OnUnsubscribe, OnDrop, BackoffMsg, Arrives
  <2> QED BY <2>1, TakenIntent
<1>3. CASE OnAct \/ OnRetarget
  <2>1. /\ phase # "done" /\ queue # <<>> /\ queue' = Tail(queue)
        /\ subs' = subs /\ want' = want
        /\ Head(queue).type \in {"Act", "Retarget"}
    BY <1>3 DEF OnAct, OnRetarget, Arrives, Listening
  <2>2. Counted(subs, Head(queue)) = subs
    BY <2>1 DEF Counted
  <2> QED BY <2>1, <2>2, TakenIntent
<1>4. CASE OnDisconnect \/ ShutDown
  BY <1>4 DEF OnDisconnect, ShutDown, Stop, IntentPreserved
<1>5. CASE ConnectOk \/ ConnectFails \/ Loops \/ LinkEnds \/ FalseDeadPeer
           \/ Elapse \/ Expire \/ LinkLost \/ Done \/ UNCHANGED vars
  <2>1. UNCHANGED <<want, queue, subs>> /\ (phase = "done" => phase' = "done")
    BY <1>5 DEF ConnectOk, ConnectFails, Loops, GetRoot, Replay, Release,
                Replayed, Released, LinkEnds, FalseDeadPeer, Elapse, Expire,
                LinkLost, Done, vars
  <2> QED BY <2>1, SameIntent
<1> QED BY <1>1, <1>2, <1>3, <1>4, <1>5 DEF Next, HandleMsg

-------------------------------------------------------------------------------
(* The order of the commands.                                              *)

LEMMA SentActs ==
    ASSUME TypeOK, ActsAhead, NEW m \in Msg, Send(m), performed' = performed,
           \/ m.type # "Act" /\ issued' = issued
           \/ m.type = "Act" /\ m.n = issued' /\ issued' = issued + 1
    PROVE  ActsAhead'
<1>1. /\ queue \in Seq(Msg) /\ issued \in Nat /\ performed \in Nat
      /\ performed <= issued /\ issued <= issued'
  BY DEF TypeOK, ViewersTypeOK, DeviceTypeOK, ActsAhead
<1>2. CASE queue' = queue
  <2>1. \A i \in 1..Len(queue) : queue[i].type = "Act" => queue[i].n \in Nat
    BY <1>1 DEF Msg
  <2> QED BY <1>1, <1>2, <2>1 DEF ActsAhead
<1>3. CASE queue' = Append(queue, m)
  <2>1. /\ Len(queue') = Len(queue) + 1 /\ Len(queue) \in Nat
        /\ \A i \in 1..Len(queue) : queue'[i] = queue[i]
        /\ queue'[Len(queue) + 1] = m
    BY <1>1, <1>3
  <2>2. \A i \in 1..Len(queue) : queue[i].type = "Act" => queue[i].n \in Nat
    BY <1>1 DEF Msg
  <2>3. ASSUME NEW i \in 1..Len(queue'), queue'[i].type = "Act"
        PROVE  /\ performed < queue'[i].n
               /\ queue'[i].n <= issued'
               /\ \A j \in i + 1..Len(queue') :
                      queue'[j].type = "Act" => queue'[i].n < queue'[j].n
    <3>1. CASE i \in 1..Len(queue)
      BY <1>1, <2>1, <2>2, <2>3, <3>1 DEF ActsAhead
    <3>2. CASE i = Len(queue) + 1
      BY <1>1, <2>1, <2>3, <3>2
    <3> QED BY <2>1, <3>1, <3>2
  <2> QED BY <1>1, <2>3 DEF ActsAhead
<1> QED BY <1>2, <1>3 DEF Send

LEMMA TakenActs ==
    ASSUME TypeOK, ActsAhead, queue # <<>>, queue' = Tail(queue),
           issued' = issued,
           performed' \in {performed} \cup
               (IF Head(queue).type = "Act" THEN {Head(queue).n} ELSE {})
    PROVE  /\ ActsAhead'
           /\ performed' # performed => performed' > performed
<1>1. /\ queue \in Seq(Msg) /\ issued \in Nat /\ performed \in Nat
      /\ Len(queue) \in Nat \ {0}
      /\ Len(queue') = Len(queue) - 1
      /\ \A i \in 1..Len(queue') : queue'[i] = queue[i + 1]
      /\ Head(queue) = queue[1]
  BY DEF TypeOK, ViewersTypeOK, DeviceTypeOK
<1>2. \A i \in 1..Len(queue) : queue[i].type = "Act" => queue[i].n \in Nat
  BY <1>1 DEF Msg
<1>3. /\ performed' \in Nat /\ performed' <= issued
      /\ performed' # performed => performed' > performed
      /\ \A j \in 2..Len(queue) :
             queue[j].type = "Act" => performed' < queue[j].n
  BY <1>1, <1>2 DEF ActsAhead
<1>4. ASSUME NEW i \in 1..Len(queue'), queue'[i].type = "Act"
      PROVE  /\ performed' < queue'[i].n
             /\ queue'[i].n <= issued
             /\ \A j \in i + 1..Len(queue') :
                    queue'[j].type = "Act" => queue'[i].n < queue'[j].n
  <2>1. i + 1 \in 2..Len(queue) /\ queue'[i] = queue[i + 1]
    BY <1>1
  <2>2. \A j \in i + 1..Len(queue') :
            j + 1 \in i + 1 + 1..Len(queue) /\ queue'[j] = queue[j + 1]
    BY <1>1
  <2> QED BY <1>1, <1>3, <1>4, <2>1, <2>2 DEF ActsAhead
<1> QED BY <1>3, <1>4 DEF ActsAhead

LEMMA ActsStep ==
    ASSUME TypeOK, ActsAhead, [Next]_vars
    PROVE  /\ ActsAhead'
           /\ performed' # performed => performed' > performed
<1> USE DEF viewerVars, deviceVars
<1>1. CASE Viewers
  <2> SUFFICES ActsAhead'
    BY <1>1 DEF Viewers, Attach, Detach, SendAct, SendDisconnect,
                SendSubscribe, SendUnsubscribe, SendRetarget
  <2>1. ASSUME NEW v \in Viewer, Attach(v) PROVE ActsAhead'
    BY <2>1 DEF Attach, ActsAhead
  <2>2. ASSUME NEW m \in Msg, Send(m), m.type # "Act",
               UNCHANGED <<issued, performed>>
        PROVE  ActsAhead'
    BY <2>2, SentActs
  <2>3. ASSUME NEW v \in Viewer, SendAct(v) PROVE ActsAhead'
    <3>1. [type |-> "Act", id |-> v, n |-> issued + 1] \in Msg
      BY DEF Msg, TypeOK, ViewersTypeOK
    <3> QED BY <2>3, <3>1, SentActs DEF SendAct
  <2>4. ASSUME NEW v \in Viewer, Detach(v) \/ SendDisconnect(v)
        PROVE  ActsAhead'
    <3>1. /\ [type |-> "Drop", id |-> v] \in Msg
          /\ [type |-> "Disconnect", id |-> v] \in Msg
      BY DEF Msg
    <3> QED BY <2>2, <2>4, <3>1 DEF Detach, SendDisconnect
  <2>5. ASSUME NEW v \in Viewer, NEW p \in Path,
               SendSubscribe(v, p) \/ SendUnsubscribe(v, p)
        PROVE  ActsAhead'
    <3>1. /\ [type |-> "Subscribe", id |-> v, path |-> p] \in Msg
          /\ [type |-> "Unsubscribe", id |-> v, path |-> p] \in Msg
      BY DEF Msg
    <3> QED BY <2>2, <2>5, <3>1 DEF SendSubscribe, SendUnsubscribe
  <2>6. ASSUME NEW a \in Addr, SendRetarget(a) PROVE ActsAhead'
    <3>1. [type |-> "Retarget", addr |-> a] \in Msg
      BY DEF Msg
    <3> QED BY <2>2, <2>6, <3>1 DEF SendRetarget
  <2> QED BY <1>1, <2>1, <2>3, <2>4, <2>5, <2>6 DEF Viewers
<1>2. CASE OnSubscribe \/ OnUnsubscribe \/ OnDrop \/ BackoffMsg \/ OnRetarget
           \/ OnAct
  <2>1. /\ queue # <<>> /\ queue' = Tail(queue) /\ issued' = issued
        /\ performed' \in {performed} \cup
               (IF Head(queue).type = "Act" THEN {Head(queue).n} ELSE {})
    BY <1>2 DEF OnSubscribe, OnUnsubscribe, OnDrop, BackoffMsg, OnRetarget,
                OnAct, Arrives
  <2> QED BY <2>1, TakenActs
<1>3. CASE OnDisconnect \/ ShutDown
  <2>1. queue' = <<>> /\ UNCHANGED <<issued, performed>>
    BY <1>3 DEF OnDisconnect, ShutDown, Stop
  <2> QED BY <2>1 DEF ActsAhead
<1>4. CASE ConnectOk \/ ConnectFails \/ Loops \/ LinkEnds \/ FalseDeadPeer
           \/ Elapse \/ Expire \/ LinkLost \/ Done \/ UNCHANGED vars
  <2>1. UNCHANGED <<queue, issued, performed>>
    BY <1>4 DEF ConnectOk, ConnectFails, Loops, GetRoot, Replay, Release,
                Replayed, Released, LinkEnds, FalseDeadPeer, Elapse, Expire,
                LinkLost, Done, vars
  <2> QED BY <2>1 DEF ActsAhead
<1> QED BY <1>1, <1>2, <1>3, <1>4 DEF Next, HandleMsg

-------------------------------------------------------------------------------
(* The theorems.                                                           *)

LEMMA InitIInv == Init => IInv
<1> SUFFICES ASSUME Init PROVE IInv
  OBVIOUS
<1>1. TypeOK
  BY InitTypeOK
<1>2. LinkInSync
  BY DEF Init, LinkInSync, Online
<1>3. IntentPreserved
  BY DEF Init, IntentPreserved, Pending, Holds, NoSubs
<1>4. ActsAhead
  BY DEF Init, ActsAhead
<1> QED BY <1>1, <1>2, <1>3, <1>4 DEF IInv

LEMMA IInvStep == IInv /\ [Next]_vars => IInv'
BY TypeStep, LinkStep, IntentStep, ActsStep DEF IInv

\* The inductive invariant holds throughout.
THEOREM Inductive == Spec => []IInv
BY InitIInv, IInvStep, PTL DEF Spec

\* The device holds one subscription for each path with a reference, and none
\* for the others, between any two messages of a live session: the counting
\* of sub_add, sub_remove and release_subscriber, the writes that follow it
\* and the replay after a reconnect agree.
THEOREM DeviceAlwaysInSync == Spec => []DeviceInSync
<1>1. IInv => DeviceInSync
  BY DEF IInv, LinkInSync, OnDevice, DeviceInSync
<1> QED BY <1>1, Inductive, PTL

\* No interest is forgotten and none outlives its viewer, whatever the link
\* does and in whatever state a message is read.
THEOREM IntentAlwaysPreserved == Spec => []IntentPreserved
<1>1. IInv => IntentPreserved
  BY DEF IInv
<1> QED BY <1>1, Inductive, PTL

\* What the device serves is what the viewers want, when the messages are
\* read and the link is up.
THEOREM ServedAlwaysWanted == Spec => []ServedIsWanted
<1>1. IInv => ServedIsWanted
  <2> SUFFICES ASSUME IInv, phase = "session", link = "up", queue = <<>>,
                      NEW p \in Path
               PROVE  devRefs[p] = IF \E v \in Viewer : p \in want[v]
                                   THEN 1 ELSE 0
    BY DEF ServedIsWanted
  <2>1. SubMapOK(subs)
    BY SubsOK DEF IInv
  <2>2. devRefs[p] = IF p \in DOMAIN subs THEN 1 ELSE 0
    BY DEF IInv, LinkInSync, OnDevice
  <2>3. \A v \in Viewer : p \in want[v] <=> Holds(subs, v, p)
    BY DEF IInv, IntentPreserved, Pending
  <2>4. p \in DOMAIN subs <=> \E v \in Viewer : Holds(subs, v, p)
    BY <2>1 DEF SubMapOK, Holds
  <2> QED BY <2>2, <2>3, <2>4
<1> QED BY <1>1, Inductive, PTL

\* A command reaches the device at most once, in the order of its issue.
THEOREM ActsAlwaysInOrder == Spec => ActsInOrder
<1>1. IInv /\ [Next]_vars => [performed' # performed => performed' > performed]_vars
  BY ActsStep DEF IInv
<1> QED BY <1>1, Inductive, PTL DEF Spec, ActsInOrder

-------------------------------------------------------------------------------
(* The hub implements Fanout.                                              *)

\* What the device serves, in terms of the counts.
Follows ==
    /\ Promise!Wanted(Interest) = DOMAIN subs
    /\ Served = IF Live THEN Promise!Wanted(Interest) ELSE {}

LEMMA Following == IInv => Follows
<1> SUFFICES ASSUME IInv PROVE Follows
  OBVIOUS
<1>1. SubMapOK(subs) /\ LinkInSync
  BY SubsOK DEF IInv
<1>2. Promise!Wanted(Interest) = DOMAIN subs
  BY <1>1 DEF SubMapOK, Interest, Promise!Wanted
<1>3. CASE Live
  <2>1. /\ phase \in {"session", "release"}
        /\ \A p \in Path : devRefs[p] > 0 <=> p \in OnDevice
        /\ OnDevice \ todo = DOMAIN subs
    BY <1>1, <1>3 DEF Live, LinkInSync, OnDevice
  <2>2. {p \in Path : devRefs[p] > 0} \ todo = DOMAIN subs
    BY <1>1, <2>1 DEF SubMapOK
  <2> QED BY <1>2, <1>3, <2>2 DEF Follows, Served
<1> QED BY <1>2, <1>3 DEF Follows, Served

LEMMA FollowingNext == IInv' => Follows'
BY Following, PTL

\* A step that leaves the counts alone is a change of the link or a stutter.
LEMMA SameCounts ==
    ASSUME IInv, IInv', UNCHANGED subs
    PROVE  [Promise!Next]_(Promise!vars)
<1>1. Interest' = Interest
  BY DEF Interest
<1>2. /\ Served = IF Live THEN Promise!Wanted(Interest) ELSE {}
      /\ Served' = IF Live' THEN Promise!Wanted(Interest') ELSE {}
  BY Following, FollowingNext DEF Follows
<1>3. Live \in BOOLEAN /\ Live' \in BOOLEAN
  BY DEF Live
<1>4. CASE Live' = Live
  BY <1>1, <1>2, <1>4 DEF Promise!vars, Promise!Wanted
<1>5. CASE Live /\ ~Live'
  BY <1>1, <1>2, <1>3, <1>5 DEF Promise!Next, Promise!GoDown, Promise!Follow
<1>6. CASE ~Live /\ Live'
  BY <1>1, <1>2, <1>3, <1>6 DEF Promise!Next, Promise!GoLive, Promise!Follow
<1> QED BY <1>3, <1>4, <1>5, <1>6

\* A counted message changes one viewer's interests and not the link.
LEMMA CountedStep ==
    ASSUME IInv, IInv', NEW m \in Msg, subs' = Counted(subs, m), Live' = Live
    PROVE  [Promise!Next]_(Promise!vars)
<1>1. /\ Served = IF Live THEN Promise!Wanted(Interest) ELSE {}
      /\ Served' = IF Live' THEN Promise!Wanted(Interest') ELSE {}
  BY Following, FollowingNext DEF Follows
<1>2. /\ SubMapOK(subs) /\ SubMapOK(subs')
      /\ \A v, p : Holds(subs', v, p) <=>
             Sets(m, v, p) \/ (Holds(subs, v, p) /\ ~Clears(m, v, p))
  BY SubsOK, CountedOK DEF IInv
<1>3. /\ Interest \in [Viewer -> SUBSET Path]
      /\ Interest' \in [Viewer -> SUBSET Path]
      /\ \A v \in Viewer : \A p : p \in Interest[v] <=> Holds(subs, v, p)
      /\ \A v \in Viewer : \A p : p \in Interest'[v] <=> Holds(subs', v, p)
  BY <1>2 DEF Interest, Holds, SubMapOK
<1>4. CASE m.type = "Subscribe"
  <2>1. m.id \in Viewer /\ m.path \in Path
    BY <1>4 DEF Msg
  <2>2. \A v, p : Sets(m, v, p) <=> v = m.id /\ p = m.path
    BY <1>4 DEF Sets
  <2>3. \A v, p : ~Clears(m, v, p)
    BY <1>4 DEF Clears
  <2>4. Interest' = [Interest EXCEPT ![m.id] = @ \cup {m.path}]
    <3>1. ASSUME NEW v \in Viewer, v # m.id PROVE Interest'[v] = Interest[v]
      BY <1>2, <1>3, <2>2, <2>3, <3>1
    <3>2. Interest'[m.id] = Interest[m.id] \cup {m.path}
      BY <1>2, <1>3, <2>1, <2>2, <2>3
    <3> QED BY <1>3, <2>1, <3>1, <3>2
  <2>5. Promise!Add(m.id, m.path)
    BY <1>1, <2>4 DEF Promise!Add, Promise!Follow
  <2> QED BY <2>1, <2>5 DEF Promise!Next
<1>5. CASE m.type = "Unsubscribe"
  <2>1. m.id \in Viewer /\ m.path \in Path
    BY <1>5 DEF Msg
  <2>2. \A v, p : ~Sets(m, v, p)
    BY <1>5 DEF Sets
  <2>3. \A v, p : Clears(m, v, p) <=> v = m.id /\ p = m.path
    BY <1>5 DEF Clears
  <2>4. Interest' = [Interest EXCEPT ![m.id] = @ \ {m.path}]
    <3>1. ASSUME NEW v \in Viewer, v # m.id PROVE Interest'[v] = Interest[v]
      BY <1>2, <1>3, <2>2, <2>3, <3>1
    <3>2. Interest'[m.id] = Interest[m.id] \ {m.path}
      BY <1>2, <1>3, <2>1, <2>2, <2>3
    <3> QED BY <1>3, <2>1, <3>1, <3>2
  <2>5. Promise!Remove(m.id, m.path)
    BY <1>1, <2>4 DEF Promise!Remove, Promise!Follow
  <2> QED BY <2>1, <2>5 DEF Promise!Next
<1>6. CASE m.type = "Drop"
  <2>1. m.id \in Viewer
    BY <1>6 DEF Msg
  <2>2. \A v, p : ~Sets(m, v, p)
    BY <1>6 DEF Sets
  <2>3. \A v, p : Clears(m, v, p) <=> v = m.id
    BY <1>6 DEF Clears
  <2>4. Interest' = [Interest EXCEPT ![m.id] = {}]
    <3>1. ASSUME NEW v \in Viewer, v # m.id PROVE Interest'[v] = Interest[v]
      BY <1>2, <1>3, <2>2, <2>3, <3>1
    <3>2. Interest'[m.id] = {}
      BY <1>2, <1>3, <2>1, <2>2, <2>3
    <3> QED BY <1>3, <2>1, <3>1, <3>2
  <2>5. Promise!Leave(m.id)
    BY <1>1, <2>4 DEF Promise!Leave, Promise!Follow
  <2> QED BY <2>1, <2>5 DEF Promise!Next
<1>7. CASE m.type \notin {"Subscribe", "Unsubscribe", "Drop"}
  BY <1>7, SameCounts DEF Counted
<1> QED BY <1>4, <1>5, <1>6, <1>7

LEMMA PromiseStep ==
    ASSUME IInv, IInv', [Next]_vars PROVE [Promise!Next]_(Promise!vars)
<1> USE DEF taskVars
<1>0. queue \in Seq(Msg)
  BY DEF IInv, TypeOK, ViewersTypeOK
<1>1. CASE OnSubscribe \/ OnUnsubscribe
  <2>1. Head(queue) \in Msg /\ subs' = Counted(subs, Head(queue))
    BY <1>0, <1>1, HeadOK DEF OnSubscribe, OnUnsubscribe
  <2>2. Live' = Live
    BY <1>1 DEF OnSubscribe, OnUnsubscribe, Live, Written, WriteFails, Dropped
  <2> QED BY <2>1, <2>2, CountedStep
<1>2. CASE OnDrop
  <2>1. Head(queue) \in Msg /\ subs' = Counted(subs, Head(queue))
    BY <1>0, <1>2, HeadOK DEF OnDrop
  <2>2. Live' = Live
    BY <1>2 DEF OnDrop, Live, deviceVars
  <2> QED BY <2>1, <2>2, CountedStep
<1>3. CASE BackoffMsg
  <2>1. Head(queue) \in Msg /\ subs' = Counted(subs, Head(queue))
    BY <1>0, <1>3, HeadOK DEF BackoffMsg
  <2>2. Live' = Live
    BY <1>3 DEF BackoffMsg, Retry, Live
  <2> QED BY <2>1, <2>2, CountedStep
<1>4. CASE OnDisconnect \/ ShutDown
  <2>1. subs' = NoSubs /\ ~Live'
    BY <1>4 DEF OnDisconnect, ShutDown, Stop, Live
  <2>2. Interest' = [v \in Viewer |-> {}]
    BY <2>1 DEF Interest, NoSubs
  <2>3. Served' = {}
    BY <2>1 DEF Served
  <2>4. Live' = FALSE
    BY <2>1 DEF Live
  <2> QED BY <2>2, <2>3, <2>4 DEF Promise!Next, Promise!End, Promise!Follow
<1>5. CASE Viewers \/ ConnectOk \/ ConnectFails \/ Loops \/ OnAct \/ OnRetarget
           \/ LinkEnds \/ FalseDeadPeer \/ Elapse \/ Expire \/ LinkLost \/ Done
           \/ UNCHANGED vars
  <2>1. UNCHANGED subs
    BY <1>5
       DEF Viewers, Attach, Detach, SendAct, SendDisconnect, SendSubscribe,
           SendUnsubscribe, SendRetarget, ConnectOk, ConnectFails, Loops,
           GetRoot, Replay, Release, Replayed, Released, OnAct, OnRetarget,
           LinkEnds, FalseDeadPeer, Elapse, Expire, LinkLost, Done, vars
  <2> QED BY <2>1, SameCounts
<1> QED BY <1>1, <1>2, <1>3, <1>4, <1>5 DEF Next, HandleMsg

LEMMA PromiseInit == Init => Promise!Init
<1> SUFFICES ASSUME Init PROVE Promise!Init
  OBVIOUS
<1>1. ~Live /\ Interest = [v \in Viewer |-> {}]
  BY DEF Init, Live, Interest, NoSubs
<1> QED BY <1>1 DEF Promise!Init, Served, Live

\* Many viewers, one consumer (the module comment of hub.rs): through every
\* reconnect, retarget and departure the device serves what is referenced.
THEOREM Implements == Spec => KeepsPromise
<1>1. IInv /\ IInv' /\ [Next]_vars => [Promise!Next]_(Promise!vars)
  BY PromiseStep
<1> QED BY <1>1, PromiseInit, Inductive, PTL DEF Spec, KeepsPromise, Promise!Spec

===============================================================================
