------------------------------ MODULE BrowserProofs ------------------------------
(***************************************************************************)
(* Proofs about Browser, for any providers, paths, broken links and        *)
(* messages under way.  What becomes of a subscription is said by the last *)
(* message under way that is about its path: one for the path itself, or   *)
(* an OpenProvider, which forgets all of them.  The second part is about   *)
(* Serve, which lets browsers in.                                          *)
(***************************************************************************)
EXTENDS Browser, Serve, FiniteSetTheorems, SequenceTheorems, TLAPS

Watches == {"Subscribe", "Unsubscribe"}

\* m decides about the subscription of the path x.
About(m, x) == m.type = "OpenProvider" \/ (m.type \in Watches /\ m.path = x)

\* up[i] is the last message of up about x.
LastAbout(i, x) ==
    /\ About(up[i], x)
    /\ \A j \in i + 1..Len(up) : ~About(up[j], x)

\* The last message about a path is for the current provider, and asks for what
\* the browser believes; without one, the handler has done so already, if its
\* lease is the current provider's.
LastWord ==
    stage \in {"auth", "open"} =>
        \A x \in Path :
            /\ \A i \in 1..Len(up) : LastAbout(i, x) =>
                  up[i].id = current /\ (x \in subscribed <=> up[i].type = "Subscribe")
            /\ lease = current /\ (\A i \in 1..Len(up) : ~About(up[i], x)) =>
                  /\ x \in subscribed => x \in wants
                  /\ current \in catalog /\ x \in wants => x \in subscribed

\* Nothing is subscribed or edited before a provider was opened.
NeedsCurrent == subscribed # {} \/ edit # NoProvider => current # NoProvider

\* The browser is told that its socket is closed when the handler is gone.
ClosedIsGone ==
    /\ closed \/ (\E i \in 1..Len(down) : down[i].type = "Closed") => stage = "gone"
    /\ ~connected => stage = "none"

BrowserInv ==
    /\ TypeOK
    /\ TreeIsCurrents
    /\ CommandsReachTheirProvider
    /\ NeedsCurrent
    /\ ClosedIsGone
    /\ LastWord

-------------------------------------------------------------------------------
(* Sequences of messages.                                                  *)

\* SetToSeq lists a finite set.
LEMMA SetToSeqFacts ==
    ASSUME NEW S, IsFiniteSet(S)
    PROVE  /\ SetToSeq(S) \in Seq(S)
           /\ \A m \in S : \E i \in 1..Len(SetToSeq(S)) : SetToSeq(S)[i] = m
<1> DEFINE n == Cardinality(S)
           Lists(f) == f \in [1..n -> S] /\ IsInjective(f)
<1>1. n \in Nat /\ IsFiniteSet(1..n) /\ Cardinality(1..n) = n
  <2>1. n \in Nat
    BY FS_CardinalityType
  <2> QED BY <2>1, FS_Interval
<1>2. \E f \in [1..n -> S] : IsInjective(f)
  <2>1. PICK f : f \in Bijection(1..n, S)
    BY FS_CardinalityType DEF ExistsBijection
  <2> QED BY <2>1 DEF Bijection, Injection, IsInjective
<1>3. SetToSeq(S) \in [1..n -> S] /\ IsInjective(SetToSeq(S))
  BY <1>2 DEF SetToSeq
<1>4. SetToSeq(S) \in Injection(1..n, S)
  BY <1>3 DEF Injection, IsInjective
<1>5. SetToSeq(S) \in Surjection(1..n, S)
  BY <1>1, <1>4, FS_Injection
<1>6. SetToSeq(S) \in Seq(S) /\ Len(SetToSeq(S)) = n
  BY <1>1, <1>3
<1> QED BY <1>5, <1>6 DEF Surjection

\* One message for each of the paths.
LEMMA EachFacts ==
    ASSUME current \in Provider, NEW type \in Watches, NEW paths \in SUBSET Path
    PROVE  /\ Each(type, paths) \in Seq(ClientMsg)
           /\ \A i \in 1..Len(Each(type, paths)) :
                 /\ Each(type, paths)[i].type = type
                 /\ Each(type, paths)[i].id = current
                 /\ Each(type, paths)[i].path \in paths
           /\ \A x \in paths : \E i \in 1..Len(Each(type, paths)) :
                 /\ Each(type, paths)[i].type = type
                 /\ Each(type, paths)[i].path = x
<1> DEFINE M(x) == [type |-> type, id |-> current, path |-> x]
           S == {[type |-> type, id |-> current, path |-> x] : x \in paths}
           f == [x \in paths |-> M(x)]
           e == Each(type, paths)
<1>1. IsFiniteSet(S)
  <2>1. IsFiniteSet(paths)
    BY BrowserAssumption, FS_Subset
  <2>2. f \in Surjection(paths, S)
    BY DEF Surjection
  <2> QED BY <2>1, <2>2, FS_Surjection
<1>2. e = SetToSeq(S)
  BY DEF Each
<1>3. e \in Seq(S) /\ \A m \in S : \E i \in 1..Len(e) : e[i] = m
  BY <1>1, <1>2, SetToSeqFacts
<1>4. \A m \in S : /\ m \in ClientMsg
                   /\ m.type = type /\ m.id = current /\ m.path \in paths
  BY DEF ClientMsg, Watches
<1>5. \A i \in 1..Len(e) : e[i] \in S
  BY <1>3
<1>6. \A x \in paths : M(x) \in S /\ M(x).type = type /\ M(x).path = x
  OBVIOUS
<1>7. e \in Seq(ClientMsg)
  BY <1>3, <1>4, <1>5
<1> HIDE DEF e, S, M
<1>8. \A x \in paths : \E i \in 1..Len(e) : e[i].type = type /\ e[i].path = x
  BY <1>3, <1>6
<1>9. \A i \in 1..Len(e) : e[i].type = type /\ e[i].id = current /\ e[i].path \in paths
  BY <1>4, <1>5
<1> QED BY <1>7, <1>8, <1>9 DEF e

LEMMA SentType ==
    ASSUME TypeOK, NEW msgs \in Seq(ClientMsg)
    PROVE  Sent(msgs) \in Seq(ClientMsg)
  BY ConcatProperties DEF Sent, TypeOK

\* What is last about a path after messages were added: one of them, or what
\* was last before when none of them is about it.
LEMMA AddedFacts ==
    ASSUME up \in Seq(ClientMsg), NEW msgs \in Seq(ClientMsg), up' = up \o msgs, NEW x
    PROVE  /\ \A i \in 1..Len(up') : LastAbout(i, x)' =>
                 \/ \E k \in 1..Len(msgs) : up'[i] = msgs[k] /\ About(msgs[k], x)
                 \/ /\ i \in 1..Len(up) /\ LastAbout(i, x) /\ up'[i] = up[i]
                    /\ \A k \in 1..Len(msgs) : ~About(msgs[k], x)
           /\ (\A i \in 1..Len(up') : ~About(up'[i], x)) =>
                 /\ \A i \in 1..Len(up) : ~About(up[i], x)
                 /\ \A k \in 1..Len(msgs) : ~About(msgs[k], x)
<1>1. /\ Len(up') = Len(up) + Len(msgs) /\ Len(up) \in Nat /\ Len(msgs) \in Nat
      /\ \A i \in 1..Len(up) : i \in 1..Len(up') /\ up'[i] = up[i]
      /\ \A k \in 1..Len(msgs) : Len(up) + k \in 1..Len(up') /\ up'[Len(up) + k] = msgs[k]
  BY ConcatProperties
<1>2. ASSUME NEW i \in 1..Len(up'), LastAbout(i, x)'
      PROVE  \/ \E k \in 1..Len(msgs) : up'[i] = msgs[k] /\ About(msgs[k], x)
             \/ /\ i \in 1..Len(up) /\ LastAbout(i, x) /\ up'[i] = up[i]
                /\ \A k \in 1..Len(msgs) : ~About(msgs[k], x)
  <2>0. About(up'[i], x) /\ \A j \in i + 1..Len(up') : ~About(up'[j], x)
    BY <1>2 DEF LastAbout
  <2>1. CASE i \in 1..Len(up)
    <3>1. \A j \in i + 1..Len(up) : j \in i + 1..Len(up') /\ up'[j] = up[j]
      BY <1>1, <2>1
    <3>2. \A k \in 1..Len(msgs) : Len(up) + k \in i + 1..Len(up')
      BY <1>1, <2>1
    <3> QED BY <1>1, <2>0, <2>1, <3>1, <3>2 DEF LastAbout
  <2>2. CASE i \notin 1..Len(up)
    <3>1. i - Len(up) \in 1..Len(msgs) /\ Len(up) + (i - Len(up)) = i
      BY <1>1, <2>2
    <3> QED BY <1>1, <2>0, <3>1
  <2> QED BY <2>1, <2>2
<1> QED BY <1>1, <1>2

\* What is last about a path after the first message was taken.
LEMMA TakenFacts ==
    ASSUME up \in Seq(ClientMsg), up # <<>>, up' = Tail(up), NEW x
    PROVE  /\ up' \in Seq(ClientMsg)
           /\ Head(up) \in ClientMsg /\ Head(up) = up[1] /\ 1 \in 1..Len(up)
           /\ \A i \in 1..Len(up') : LastAbout(i, x)' =>
                 i + 1 \in 1..Len(up) /\ LastAbout(i + 1, x) /\ up'[i] = up[i + 1]
           /\ (\A i \in 1..Len(up') : ~About(up'[i], x)) =>
                 IF About(Head(up), x)
                 THEN LastAbout(1, x)
                 ELSE \A i \in 1..Len(up) : ~About(up[i], x)
<1>1. /\ up' \in Seq(ClientMsg) /\ Len(up) \in Nat /\ Len(up') = Len(up) - 1
      /\ Head(up) \in ClientMsg /\ Head(up) = up[1] /\ 1 \in 1..Len(up)
      /\ \A i \in 1..Len(up') : i + 1 \in 1..Len(up) /\ up'[i] = up[i + 1]
  OBVIOUS
<1>2. ASSUME NEW i \in 1..Len(up'), LastAbout(i, x)'
      PROVE  LastAbout(i + 1, x)
  <2>1. \A j \in i + 2..Len(up) : j - 1 \in i + 1..Len(up') /\ up'[j - 1] = up[j]
    BY <1>1
  <2>2. (i + 1) + 1 = i + 2
    BY <1>1
  <2> QED BY <1>1, <1>2, <2>1, <2>2 DEF LastAbout
<1>3. \A j \in 2..Len(up) : j - 1 \in 1..Len(up') /\ up'[j - 1] = up[j]
  BY <1>1
<1>4. \A i \in 1..Len(up) : i = 1 \/ i \in 2..Len(up)
  BY <1>1
<1>5. ASSUME \A i \in 1..Len(up') : ~About(up'[i], x)
      PROVE  IF About(Head(up), x)
             THEN LastAbout(1, x)
             ELSE \A i \in 1..Len(up) : ~About(up[i], x)
  <2>1. \A j \in 2..Len(up) : ~About(up[j], x)
    BY <1>3, <1>5
  <2> QED BY <1>1, <1>4, <2>1 DEF LastAbout
<1> QED BY <1>1, <1>2, <1>5

\* Messages are told apart by their type.
LEMMA MsgFacts ==
    /\ \A m \in ClientMsg :
          /\ m.type \in {"OpenProvider", "SetValue"} => m.id \in Provider
          /\ m.type \in Watches => m.id \in Provider /\ m.path \in Path
    /\ \A m \in ServerMsg :
          /\ m.type = "AddressBook" => m.listed \subseteq Provider
          /\ m.type \in {"Connecting", "Document"} => m.id \in Provider
  BY DEF ClientMsg, ServerMsg, Watches

-------------------------------------------------------------------------------
(* The steps that leave what was sent alone.                               *)

\* The subscriptions and what is under way about them are as they were.
LEMMA LastWordKept ==
    ASSUME LastWord, UNCHANGED <<stage, up, subscribed, current, lease, wants>>,
           catalog' \subseteq catalog
    PROVE  LastWord'
<1>1. \A i, x : LastAbout(i, x)' <=> LastAbout(i, x)
  BY DEF LastAbout
<1> QED BY <1>1 DEF LastWord

LEMMA DownFacts ==
    ASSUME TypeOK, down # <<>>
    PROVE  /\ Head(down) \in ServerMsg /\ Head(down) = down[1] /\ 1 \in 1..Len(down)
           /\ Tail(down) \in Seq(ServerMsg)
           /\ \A i \in 1..Len(Tail(down)) : i + 1 \in 1..Len(down) /\ Tail(down)[i] = down[i + 1]
  BY DEF TypeOK

\* What a message to the browser does, but for an AuthOk.
LEMMA InboundOK ==
    ASSUME BrowserInv, Inbound, ~OnAuthOk PROVE BrowserInv'
<1>0. TypeOK /\ NeedsCurrent /\ ClosedIsGone /\ LastWord /\ TreeIsCurrents
  BY DEF BrowserInv
<1>1. /\ down # <<>> /\ down' = Tail(down)
      /\ UNCHANGED <<serverVars, up, current, subscribed, edit, connected, authed>>
  BY DEF Inbound, Inbox, OnAuthRejected, OnAddressBook, OnClosed, OnDenied, OnConnecting,
         OnDocument, shownVars, accessVars
<1>2. /\ down' \in Seq(ServerMsg)
      /\ \A i \in 1..Len(down') : i + 1 \in 1..Len(down) /\ down'[i] = down[i + 1]
      /\ Head(down) \in ServerMsg /\ Head(down) = down[1] /\ 1 \in 1..Len(down)
  BY <1>0, <1>1, DownFacts
<1>3. /\ tree' \subseteq {current} /\ tree' \subseteq Provider
      /\ closed' = closed \/ (closed' = TRUE /\ Head(down).type = "Closed")
      /\ rejected' \in BOOLEAN
      /\ listed' \subseteq Provider
  <2>1. CASE OnAuthRejected \/ OnDenied
    BY <1>0, <2>1 DEF OnAuthRejected, OnDenied, shownVars, accessVars, TypeOK, TreeIsCurrents
  <2>2. CASE OnAddressBook
    BY <1>0, <1>2, <2>2, MsgFacts DEF OnAddressBook, Inbox, shownVars, TypeOK, TreeIsCurrents
  <2>3. CASE OnClosed
    BY <1>0, <2>3 DEF OnClosed, Inbox, shownVars, TypeOK, TreeIsCurrents
  <2>4. CASE OnConnecting
    BY <1>0, <2>4 DEF OnConnecting, accessVars, TypeOK, TreeIsCurrents
  <2>5. CASE OnDocument
    <3>1. Head(down).id \in Provider
      BY <1>2, <2>5, MsgFacts DEF OnDocument, Inbox
    <3>2. tree' \subseteq tree \cup {current} /\ (tree' # tree => current \in Provider)
      BY <2>5, <3>1 DEF OnDocument
    <3> QED BY <1>0, <2>5, <3>2 DEF OnDocument, accessVars, TypeOK, TreeIsCurrents
  <2> QED BY <2>1, <2>2, <2>3, <2>4, <2>5 DEF Inbound
<1>4. TypeOK'
  BY <1>0, <1>1, <1>2, <1>3 DEF TypeOK, serverVars
<1>5. ClosedIsGone'
  BY <1>0, <1>1, <1>2, <1>3 DEF ClosedIsGone, serverVars
<1>6. LastWord'
  BY <1>0, <1>1, LastWordKept DEF serverVars
<1> QED
  BY <1>0, <1>1, <1>3, <1>4, <1>5, <1>6
  DEF BrowserInv, TreeIsCurrents, CommandsReachTheirProvider, NeedsCurrent, serverVars

\* A socket is opened: the last one's handler is gone, and its lease with it.
LEMMA ConnectOK ==
    ASSUME BrowserInv, Connect PROVE BrowserInv'
<1>0. TypeOK /\ NeedsCurrent /\ ClosedIsGone
  BY DEF BrowserInv
<1>1. /\ UNCHANGED <<catalog, readOnly, lease, wants, performed, breaks,
                     shownVars, authed, rejected, listed>>
      /\ connected' = TRUE /\ closed' = FALSE /\ stage' = "auth"
      /\ up' = <<[type |-> "Auth"]>> /\ down' = <<>>
      /\ ~connected \/ closed
  BY DEF Connect
<1>2. lease = NoProvider /\ wants = {}
  BY <1>0, <1>1 DEF ClosedIsGone, TypeOK
<1>3. [type |-> "Auth"] \in ClientMsg
  BY DEF ClientMsg
<1>4. up' \in Seq(ClientMsg) /\ down' \in Seq(ServerMsg) /\ Len(down') = 0
  BY <1>1, <1>3
<1>5. TypeOK'
  BY <1>0, <1>1, <1>2, <1>4 DEF TypeOK, shownVars
<1>6. ClosedIsGone'
  BY <1>1, <1>4 DEF ClosedIsGone
<1>7. LastWord'
  <2>1. \A i \in 1..Len(up') : up'[i].type = "Auth"
    BY <1>1
  <2>2. \A i \in 1..Len(up'), x \in Path : ~About(up'[i], x) /\ ~LastAbout(i, x)'
    BY <2>1 DEF About, Watches, LastAbout
  <2>3. lease = current => subscribed = {}
    BY <1>0, <1>2 DEF NeedsCurrent
  <2> QED BY <1>1, <1>2, <2>2, <2>3 DEF LastWord, shownVars
<1> QED
  BY <1>1, <1>5, <1>6, <1>7
  DEF BrowserInv, TreeIsCurrents, CommandsReachTheirProvider, NeedsCurrent, shownVars

\* The editor opens and closes.
LEMMA EditorOK ==
    ASSUME BrowserInv, OpenEditor \/ Cancel PROVE BrowserInv'
<1>0. TypeOK /\ NeedsCurrent /\ LastWord /\ TreeIsCurrents
  BY DEF BrowserInv
<1>1. UNCHANGED <<serverVars, up, down, current, tree, subscribed, accessVars>>
  BY DEF OpenEditor, Cancel
<1>2. edit' = NoProvider \/ (edit' = current /\ current \in Provider)
  BY <1>0 DEF OpenEditor, Cancel, Browsing, TypeOK
<1>3. TypeOK'
  BY <1>0, <1>1, <1>2 DEF TypeOK, serverVars, accessVars
<1>4. NeedsCurrent'
  BY <1>0, <1>1, <1>2, BrowserAssumption DEF NeedsCurrent
<1>5. LastWord'
  BY <1>0, <1>1, LastWordKept DEF serverVars
<1> QED
  BY <1>1, <1>3, <1>4, <1>5
  DEF BrowserInv, TreeIsCurrents, CommandsReachTheirProvider, ClosedIsGone, serverVars, accessVars

\* The handler forwards an event, the address book loses a provider.
LEMMA ForwardOK ==
    ASSUME BrowserInv, Forward PROVE BrowserInv'
<1>0. TypeOK /\ ClosedIsGone /\ LastWord
  BY DEF BrowserInv
<1>1. PICK type \in {"Connecting", "Document"} : down' = Append(down, [type |-> type, id |-> lease])
  BY DEF Forward
<1>2. /\ UNCHANGED <<serverVars, up, shownVars, accessVars>>
      /\ stage = "open" /\ lease \in Provider
  BY <1>0 DEF Forward, TypeOK
<1>3. [type |-> type, id |-> lease] \in ServerMsg
  BY <1>2 DEF ServerMsg
<1>4. /\ down' \in Seq(ServerMsg)
      /\ \A i \in 1..Len(down') : \/ (i \in 1..Len(down) /\ down'[i] = down[i])
                                 \/ down'[i].type # "Closed"
  BY <1>0, <1>1, <1>3 DEF TypeOK
<1>5. TypeOK'
  BY <1>0, <1>2, <1>4 DEF TypeOK, serverVars, shownVars, accessVars
<1>6. ClosedIsGone'
  BY <1>0, <1>2, <1>4 DEF ClosedIsGone, serverVars, accessVars
<1>7. LastWord'
  BY <1>0, <1>2, LastWordKept DEF serverVars, shownVars
<1> QED
  BY <1>2, <1>5, <1>6, <1>7
  DEF BrowserInv, TreeIsCurrents, CommandsReachTheirProvider, NeedsCurrent, serverVars, shownVars

LEMMA RemoveOK ==
    ASSUME BrowserInv, NEW p \in Provider, RemoveProvider(p) PROVE BrowserInv'
<1>1. /\ UNCHANGED <<readOnly, stage, lease, wants, performed, breaks, up, down,
                     shownVars, accessVars>>
      /\ catalog' \subseteq catalog
  BY DEF RemoveProvider
<1>2. TypeOK'
  BY <1>1 DEF BrowserInv, TypeOK, shownVars, accessVars
<1>3. LastWord'
  BY <1>1, LastWordKept DEF BrowserInv, shownVars
<1> QED
  BY <1>1, <1>2, <1>3
  DEF BrowserInv, TreeIsCurrents, CommandsReachTheirProvider, NeedsCurrent, ClosedIsGone,
      shownVars, accessVars

-------------------------------------------------------------------------------
(* The steps of the browser that send.                                     *)

\* Messages are added, and the subscriptions with them.
LEMMA SendOK ==
    ASSUME BrowserInv, NEW msgs \in Seq(ClientMsg), up' = Sent(msgs),
           UNCHANGED serverVars,
           current' \in Provider, subscribed' \subseteq Path,
           edit' \in {edit, NoProvider},
           \A x \in Path, k \in 1..Len(msgs) : About(msgs[k], x) =>
              /\ msgs[k].id = current'
              /\ x \in subscribed' <=> msgs[k].type = "Subscribe",
           \A x \in Path : (\A k \in 1..Len(msgs) : ~About(msgs[k], x)) =>
              (current' = current) /\ (x \in subscribed' <=> x \in subscribed)
    PROVE  /\ LastWord' /\ NeedsCurrent' /\ up' \in Seq(ClientMsg)
<1>0. TypeOK /\ LastWord
  BY DEF BrowserInv
<1>1. up' \in Seq(ClientMsg)
  BY <1>0, SentType
<1>2. NeedsCurrent'
  BY BrowserAssumption DEF NeedsCurrent
<1>3. LastWord'
  <2> SUFFICES ASSUME stage \in {"auth", "open"}, NEW x \in Path
               PROVE  /\ \A i \in 1..Len(up') : LastAbout(i, x)' =>
                            /\ up'[i].id = current'
                            /\ x \in subscribed' <=> up'[i].type = "Subscribe"
                      /\ lease = current' /\ (\A i \in 1..Len(up') : ~About(up'[i], x)) =>
                            /\ x \in subscribed' => x \in wants
                            /\ current' \in catalog /\ x \in wants => x \in subscribed'
    BY DEF LastWord, serverVars
  <2>1. up' = up \o msgs /\ up \in Seq(ClientMsg)
    BY <1>0 DEF Sent, TypeOK
  <2>2. ASSUME NEW i \in 1..Len(up'), LastAbout(i, x)'
        PROVE  up'[i].id = current' /\ (x \in subscribed' <=> up'[i].type = "Subscribe")
    <3>1. \/ \E k \in 1..Len(msgs) : up'[i] = msgs[k] /\ About(msgs[k], x)
          \/ /\ i \in 1..Len(up) /\ LastAbout(i, x) /\ up'[i] = up[i]
             /\ \A k \in 1..Len(msgs) : ~About(msgs[k], x)
      BY <2>1, <2>2, AddedFacts
    <3> QED BY <1>0, <3>1 DEF LastWord
  <2>3. ASSUME \A i \in 1..Len(up') : ~About(up'[i], x), lease = current'
        PROVE  /\ x \in subscribed' => x \in wants
               /\ current' \in catalog /\ x \in wants => x \in subscribed'
    <3>1. /\ \A i \in 1..Len(up) : ~About(up[i], x)
          /\ \A k \in 1..Len(msgs) : ~About(msgs[k], x)
      BY <2>1, <2>3, AddedFacts
    <3> QED BY <1>0, <2>3, <3>1 DEF LastWord
  <2> QED BY <2>2, <2>3
<1> QED BY <1>1, <1>2, <1>3

\* Opening a provider, from the list or after an AuthOk.
LEMMA OpeningFacts ==
    ASSUME BrowserInv, NEW p \in Provider, Opening(p), UNCHANGED serverVars
    PROVE  /\ LastWord' /\ NeedsCurrent' /\ up' \in Seq(ClientMsg)
           /\ current' = p /\ tree' = {} /\ subscribed' = {} /\ edit' = edit
<1> DEFINE m == [type |-> "OpenProvider", id |-> p]
           msgs == <<m>>
<1>1. m \in ClientMsg /\ m.type = "OpenProvider" /\ m.id = p
  BY DEF ClientMsg
<1>2. msgs \in Seq(ClientMsg) /\ Len(msgs) = 1 /\ msgs[1] = m
  BY <1>1
<1>3. /\ current' = p /\ tree' = {} /\ subscribed' = {} /\ edit' = edit
      /\ up' = Sent(msgs)
  BY DEF Opening
<1> HIDE DEF msgs, m
<1>4. \A x \in Path, k \in 1..Len(msgs) : About(msgs[k], x) =>
         msgs[k].id = current' /\ (x \in subscribed' <=> msgs[k].type = "Subscribe")
  BY <1>1, <1>2, <1>3
<1>5. \A x \in Path : ~(\A k \in 1..Len(msgs) : ~About(msgs[k], x))
  BY <1>1, <1>2 DEF About
<1> QED BY <1>2, <1>3, <1>4, <1>5, SendOK

LEMMA AuthOkOK ==
    ASSUME BrowserInv, OnAuthOk PROVE BrowserInv'
<1>0. TypeOK /\ NeedsCurrent /\ ClosedIsGone /\ LastWord /\ TreeIsCurrents
  BY DEF BrowserInv
<1>1. /\ down # <<>> /\ down' = Tail(down)
      /\ authed' = TRUE /\ rejected' = FALSE /\ closed' = FALSE
      /\ UNCHANGED <<serverVars, connected, listed>>
  BY DEF OnAuthOk, Inbox
<1>2. /\ down' \in Seq(ServerMsg)
      /\ \A i \in 1..Len(down') : i + 1 \in 1..Len(down) /\ down'[i] = down[i + 1]
  BY <1>0, <1>1, DownFacts
<1>3. /\ LastWord' /\ NeedsCurrent' /\ up' \in Seq(ClientMsg)
      /\ current' = current /\ tree' \subseteq tree /\ subscribed' \subseteq subscribed
      /\ edit' = edit
  <2>1. CASE current # NoProvider
    <3>1. Opening(current) /\ current \in Provider
      BY <1>0, <2>1 DEF OnAuthOk, TypeOK
    <3> QED BY <1>1, <3>1, OpeningFacts
  <2>2. CASE current = NoProvider
    <3>1. UNCHANGED <<up, shownVars>>
      BY <2>2 DEF OnAuthOk
    <3> QED BY <1>0, <1>1, <3>1, LastWordKept DEF shownVars, serverVars, NeedsCurrent, TypeOK
  <2> QED BY <2>1, <2>2
<1>4. TypeOK'
  BY <1>0, <1>1, <1>2, <1>3 DEF TypeOK, serverVars
<1>5. ClosedIsGone'
  BY <1>0, <1>1, <1>2 DEF ClosedIsGone, serverVars
<1> QED
  BY <1>0, <1>1, <1>3, <1>4, <1>5
  DEF BrowserInv, TreeIsCurrents, CommandsReachTheirProvider, serverVars

LEMMA OpenOK ==
    ASSUME BrowserInv, NEW p \in Provider, Open(p) PROVE BrowserInv'
<1>1. /\ UNCHANGED <<serverVars, down, accessVars>>
      /\ LastWord' /\ NeedsCurrent' /\ up' \in Seq(ClientMsg)
      /\ current' = p /\ tree' = {} /\ subscribed' = {} /\ edit' = edit
  BY OpeningFacts DEF Open
<1>2. TypeOK'
  BY <1>1 DEF BrowserInv, TypeOK, serverVars, accessVars
<1> QED
  BY <1>1, <1>2
  DEF BrowserInv, TreeIsCurrents, CommandsReachTheirProvider, ClosedIsGone, serverVars, accessVars

LEMMA ReconcileOK ==
    ASSUME BrowserInv, NEW visible \in SUBSET Path, Reconcile(visible) PROVE BrowserInv'
<1>0. TypeOK /\ current \in Provider
  BY DEF BrowserInv, TypeOK, Reconcile
<1> DEFINE new == Each("Subscribe", visible \ subscribed)
           old == Each("Unsubscribe", subscribed \ visible)
           msgs == new \o old
<1>1. /\ UNCHANGED <<serverVars, down, current, tree, edit, accessVars>>
      /\ up' = Sent(msgs) /\ subscribed' = visible
  BY DEF Reconcile
<1>2. /\ new \in Seq(ClientMsg)
      /\ \A k \in 1..Len(new) :
            new[k].type = "Subscribe" /\ new[k].id = current /\ new[k].path \in visible \ subscribed
      /\ \A x \in visible \ subscribed : \E k \in 1..Len(new) :
            new[k].type = "Subscribe" /\ new[k].path = x
  BY <1>0, EachFacts DEF Watches
<1>3. /\ old \in Seq(ClientMsg)
      /\ \A k \in 1..Len(old) :
            /\ old[k].type = "Unsubscribe"
            /\ old[k].id = current
            /\ old[k].path \in subscribed \ visible
      /\ \A x \in subscribed \ visible : \E k \in 1..Len(old) :
            old[k].type = "Unsubscribe" /\ old[k].path = x
  <2>1. subscribed \ visible \in SUBSET Path /\ "Unsubscribe" \in Watches
    BY <1>0 DEF Watches, TypeOK
  <2> QED BY <1>0, <2>1, EachFacts, SMTT(30)
<1> HIDE DEF new, old
<1>4. /\ msgs \in Seq(ClientMsg) /\ Len(msgs) = Len(new) + Len(old)
      /\ Len(new) \in Nat /\ Len(old) \in Nat
      /\ \A k \in 1..Len(new) : k \in 1..Len(msgs) /\ msgs[k] = new[k]
      /\ \A k \in 1..Len(old) : Len(new) + k \in 1..Len(msgs) /\ msgs[Len(new) + k] = old[k]
      /\ \A k \in 1..Len(msgs) : \/ k \in 1..Len(new)
                                \/ (k - Len(new) \in 1..Len(old) /\ msgs[k] = old[k - Len(new)])
  <2>1. Len(new) \in Nat /\ Len(old) \in Nat
    BY <1>2, <1>3
  <2>2. /\ msgs \in Seq(ClientMsg) /\ Len(msgs) = Len(new) + Len(old)
        /\ \A k \in 1..Len(new) + Len(old) :
              msgs[k] = IF k <= Len(new) THEN new[k] ELSE old[k - Len(new)]
    BY <1>2, <1>3, ConcatProperties
  <2> HIDE DEF msgs
  <2>3. \A k \in 1..Len(new) : k \in 1..Len(msgs) /\ msgs[k] = new[k]
    BY <2>1, <2>2
  <2>4. \A k \in 1..Len(old) : Len(new) + k \in 1..Len(msgs) /\ msgs[Len(new) + k] = old[k]
    <3> SUFFICES ASSUME NEW k \in 1..Len(old)
                 PROVE  Len(new) + k \in 1..Len(msgs) /\ msgs[Len(new) + k] = old[k]
      OBVIOUS
    <3>1. Len(new) + k \in 1..Len(new) + Len(old) /\ ~(Len(new) + k <= Len(new))
      BY <2>1
    <3>2. (Len(new) + k) - Len(new) = k
      BY <2>1
    <3> QED BY <2>2, <3>1, <3>2
  <2>5. \A k \in 1..Len(msgs) : \/ k \in 1..Len(new)
                              \/ (k - Len(new) \in 1..Len(old) /\ msgs[k] = old[k - Len(new)])
    <3> SUFFICES ASSUME NEW k \in 1..Len(msgs), k \notin 1..Len(new)
                 PROVE  k - Len(new) \in 1..Len(old) /\ msgs[k] = old[k - Len(new)]
      OBVIOUS
    <3>1. k \in 1..Len(new) + Len(old) /\ ~(k <= Len(new)) /\ k - Len(new) \in 1..Len(old)
      BY <2>1, <2>2
    <3> QED BY <2>2, <3>1
  <2> QED BY <2>1, <2>2, <2>3, <2>4, <2>5
<1> HIDE DEF msgs
<1>5. ASSUME NEW x \in Path, NEW k \in 1..Len(msgs), About(msgs[k], x)
      PROVE  msgs[k].id = current' /\ (x \in subscribed' <=> msgs[k].type = "Subscribe")
  <2>1. CASE k \in 1..Len(new)
    BY <1>1, <1>2, <1>4, <1>5, <2>1 DEF About
  <2>2. CASE k - Len(new) \in 1..Len(old) /\ msgs[k] = old[k - Len(new)]
    BY <1>1, <1>3, <1>5, <2>2 DEF About
  <2> QED BY <1>4, <2>1, <2>2
<1>6. ASSUME NEW x \in Path, \A k \in 1..Len(msgs) : ~About(msgs[k], x)
      PROVE  x \in subscribed' <=> x \in subscribed
  <2>1. x \notin visible \ subscribed
    BY <1>2, <1>4, <1>6 DEF About, Watches
  <2>2. x \notin subscribed \ visible
    BY <1>3, <1>4, <1>6, SMTT(30) DEF About, Watches
  <2> QED BY <1>1, <2>1, <2>2
<1>7. LastWord' /\ NeedsCurrent' /\ up' \in Seq(ClientMsg)
  BY <1>0, <1>1, <1>4, <1>5, <1>6, SendOK
<1>8. TypeOK'
  BY <1>0, <1>1, <1>7 DEF TypeOK, serverVars, accessVars
<1> QED
  BY <1>1, <1>7, <1>8
  DEF BrowserInv, TreeIsCurrents, CommandsReachTheirProvider, ClosedIsGone, serverVars, accessVars

LEMMA SetOK ==
    ASSUME BrowserInv, SetInRow \/ Apply PROVE BrowserInv'
<1>0. TypeOK /\ current \in Provider
  BY DEF BrowserInv, TypeOK, NeedsCurrent, SetInRow, Apply, Browsing
<1> DEFINE msgs == <<SetMsg>>
<1>1. /\ UNCHANGED <<serverVars, down, current, tree, subscribed, accessVars>>
      /\ up' = Sent(msgs) /\ edit' \in {edit, NoProvider}
  BY DEF SetInRow, Apply, shownVars
<1>2. SetMsg \in ClientMsg /\ SetMsg.type = "SetValue"
  BY <1>0 DEF SetMsg, ClientMsg
<1>3. msgs \in Seq(ClientMsg) /\ Len(msgs) = 1 /\ msgs[1] = SetMsg
  BY <1>2
<1>4. \A x \in Path, k \in 1..Len(msgs) : ~About(msgs[k], x)
  BY <1>2, <1>3 DEF About, Watches
<1> HIDE DEF msgs
<1>5. LastWord' /\ NeedsCurrent' /\ up' \in Seq(ClientMsg)
  BY <1>0, <1>1, <1>3, <1>4, SendOK DEF TypeOK
<1>6. TypeOK'
  BY <1>0, <1>1, <1>5 DEF TypeOK, serverVars, accessVars
<1> QED
  BY <1>1, <1>5, <1>6
  DEF BrowserInv, TreeIsCurrents, CommandsReachTheirProvider, ClosedIsGone, serverVars, accessVars

-------------------------------------------------------------------------------
(* The steps of the handler.                                               *)

\* A message that is about no path is taken.
LEMMA OthersTaken ==
    ASSUME BrowserInv, up # <<>>, up' = Tail(up),
           \A x \in Path : ~About(Head(up), x),
           stage \in {"auth", "open"},
           UNCHANGED <<catalog, lease, wants, current, subscribed>>
    PROVE  LastWord'
<1>0. up \in Seq(ClientMsg) /\ LastWord
  BY DEF BrowserInv, TypeOK
<1> SUFFICES ASSUME NEW x \in Path
             PROVE  /\ \A i \in 1..Len(up') : LastAbout(i, x)' =>
                          up'[i].id = current /\ (x \in subscribed <=> up'[i].type = "Subscribe")
                    /\ lease = current /\ (\A i \in 1..Len(up') : ~About(up'[i], x)) =>
                          /\ x \in subscribed => x \in wants
                          /\ current \in catalog /\ x \in wants => x \in subscribed
  BY DEF LastWord
<1>1. ASSUME NEW i \in 1..Len(up'), LastAbout(i, x)'
      PROVE  up'[i].id = current /\ (x \in subscribed <=> up'[i].type = "Subscribe")
  <2>1. i + 1 \in 1..Len(up) /\ LastAbout(i + 1, x) /\ up'[i] = up[i + 1]
    BY <1>0, <1>1, TakenFacts
  <2> QED BY <1>0, <2>1 DEF LastWord
<1>2. (\A i \in 1..Len(up') : ~About(up'[i], x)) => \A i \in 1..Len(up) : ~About(up[i], x)
  BY <1>0, TakenFacts
<1> QED BY <1>0, <1>1, <1>2 DEF LastWord

LEMMA TailType ==
    ASSUME TypeOK, up # <<>>
    PROVE  Tail(up) \in Seq(ClientMsg) /\ Head(up) \in ClientMsg
  BY DEF TypeOK

LEMMA AuthorizeOK ==
    ASSUME BrowserInv, Authorize PROVE BrowserInv'
<1>0. TypeOK /\ NeedsCurrent /\ ClosedIsGone /\ LastWord
  BY DEF BrowserInv
<1>1. /\ UNCHANGED <<catalog, readOnly, lease, wants, performed, breaks, shownVars, accessVars>>
      /\ up # <<>> /\ Head(up).type = "Auth" /\ up' = Tail(up) /\ stage = "auth"
  BY DEF Authorize, Arrives
<1>2. PICK a \in ServerMsg, b \in ServerMsg :
         /\ down' = down \o <<a, b>>
         /\ stage' \in {"open", "gone"}
         /\ stage' = "open" => a.type # "Closed" /\ b.type # "Closed"
  <2>1. /\ [type |-> "AuthOk"] \in ServerMsg
        /\ [type |-> "AddressBook", listed |-> catalog] \in ServerMsg
        /\ [type |-> "AuthRejected"] \in ServerMsg
        /\ [type |-> "Closed"] \in ServerMsg
    BY <1>0 DEF ServerMsg, TypeOK
  <2>2. CASE /\ stage' = "open"
             /\ down' = down \o <<[type |-> "AuthOk"],
                                  [type |-> "AddressBook", listed |-> catalog]>>
    BY <2>1, <2>2
  <2>3. CASE /\ stage' = "gone"
             /\ down' = down \o <<[type |-> "AuthRejected"], [type |-> "Closed"]>>
    BY <2>1, <2>3
  <2> QED BY <2>2, <2>3 DEF Authorize
<1>3. /\ down' \in Seq(ServerMsg)
      /\ \A i \in 1..Len(down') : \/ i \in 1..Len(down) /\ down'[i] = down[i]
                                 \/ down'[i] \in {a, b}
  <2> DEFINE ab == <<a, b>>
  <2>1. ab \in Seq(ServerMsg) /\ Len(ab) = 2 /\ ab[1] = a /\ ab[2] = b
    OBVIOUS
  <2>2. down' = down \o ab /\ down \in Seq(ServerMsg) /\ Len(down) \in Nat
    BY <1>0, <1>2 DEF TypeOK
  <2> HIDE DEF ab
  <2>3. /\ down' \in Seq(ServerMsg) /\ Len(down') = Len(down) + 2
        /\ \A i \in 1..Len(down) + 2 :
              down'[i] = IF i <= Len(down) THEN down[i] ELSE ab[i - Len(down)]
    BY <2>1, <2>2, ConcatProperties
  <2>4. \A i \in 1..Len(down) + 2 : i \in 1..Len(down) \/ i = Len(down) + 1 \/ i = Len(down) + 2
    BY <2>2
  <2>5. down'[Len(down) + 1] = a /\ down'[Len(down) + 2] = b
    BY <2>1, <2>2, <2>3
  <2>6. \A i \in 1..Len(down) : down'[i] = down[i]
    BY <2>2, <2>3
  <2> QED BY <2>3, <2>4, <2>5, <2>6
<1>4. lease = NoProvider /\ wants = {}
  BY <1>0, <1>1 DEF TypeOK
<1>5. TypeOK'
  BY <1>0, <1>1, <1>2, <1>3, <1>4, TailType DEF TypeOK, shownVars, accessVars
<1>6. ClosedIsGone'
  BY <1>0, <1>1, <1>2, <1>3 DEF ClosedIsGone, accessVars
<1>7. LastWord'
  <2>1. \A x \in Path : ~About(Head(up), x)
    BY <1>1 DEF About, Watches
  <2> QED BY <1>1, <2>1, OthersTaken DEF shownVars
<1> QED
  BY <1>1, <1>5, <1>6, <1>7
  DEF BrowserInv, TreeIsCurrents, CommandsReachTheirProvider, NeedsCurrent, shownVars

\* What the handler does with a message about paths agrees with the last word.
LEMMA HandleWatchOK ==
    ASSUME BrowserInv, HandleWatch PROVE BrowserInv'
<1>0. TypeOK /\ LastWord /\ up \in Seq(ClientMsg)
  BY DEF BrowserInv, TypeOK
<1>1. /\ UNCHANGED <<catalog, readOnly, stage, lease, performed, breaks, down,
                     shownVars, accessVars>>
      /\ up # <<>> /\ Head(up).type \in Watches /\ up' = Tail(up) /\ stage = "open"
  BY DEF HandleWatch, Arrives, Watches
<1> DEFINE m == Head(up)
<1>2. m \in ClientMsg /\ m.id \in Provider /\ m.path \in Path /\ m = up[1] /\ 1 \in 1..Len(up)
  BY <1>0, <1>1, MsgFacts
<1>3. /\ wants' \subseteq Path
      /\ \A x \in Path \ {m.path} : x \in wants' <=> x \in wants
      /\ m.id = lease => (m.path \in wants' <=> m.type = "Subscribe")
      /\ m.id # lease => wants' = wants
  BY <1>0, <1>1, <1>2 DEF HandleWatch, Addressed, TypeOK
<1>4. TypeOK'
  <2>1. wants' # {} => lease # NoProvider
    BY <1>0, <1>2, <1>3, BrowserAssumption DEF TypeOK
  <2> QED BY <1>0, <1>1, <1>3, <2>1, TailType DEF TypeOK, shownVars, accessVars
<1> HIDE DEF m
<1>5. LastWord'
  <2> SUFFICES ASSUME NEW x \in Path
               PROVE  /\ \A i \in 1..Len(up') : LastAbout(i, x)' =>
                            up'[i].id = current /\ (x \in subscribed <=> up'[i].type = "Subscribe")
                      /\ lease = current /\ (\A i \in 1..Len(up') : ~About(up'[i], x)) =>
                            /\ x \in subscribed => x \in wants'
                            /\ current \in catalog /\ x \in wants' => x \in subscribed
    BY <1>1 DEF LastWord, shownVars
  <2>1. ASSUME NEW i \in 1..Len(up'), LastAbout(i, x)'
        PROVE  up'[i].id = current /\ (x \in subscribed <=> up'[i].type = "Subscribe")
    <3>1. i + 1 \in 1..Len(up) /\ LastAbout(i + 1, x) /\ up'[i] = up[i + 1]
      BY <1>0, <1>1, <2>1, TakenFacts
    <3> QED BY <1>0, <1>1, <3>1 DEF LastWord
  <2>2. ASSUME lease = current, \A i \in 1..Len(up') : ~About(up'[i], x)
        PROVE  /\ x \in subscribed => x \in wants'
               /\ current \in catalog /\ x \in wants' => x \in subscribed
    <3>1. IF About(m, x) THEN LastAbout(1, x) ELSE \A i \in 1..Len(up) : ~About(up[i], x)
      BY <1>0, <1>1, <2>2, TakenFacts DEF m
    <3>2. CASE About(m, x)
      <4>1. m.id = current /\ (x \in subscribed <=> m.type = "Subscribe")
        BY <1>0, <1>1, <1>2, <3>1, <3>2 DEF LastWord
      <4>2. x = m.path
        BY <1>1, <3>2 DEF About, Watches, m
      <4> QED BY <1>3, <2>2, <4>1, <4>2
    <3>3. CASE ~About(m, x)
      <4>1. x # m.path
        BY <1>1, <3>3 DEF About, m
      <4> QED BY <1>0, <1>1, <1>3, <2>2, <3>1, <3>3, <4>1 DEF LastWord
    <3> QED BY <3>2, <3>3
  <2> QED BY <2>1, <2>2
<1> QED
  BY <1>1, <1>4, <1>5
  DEF BrowserInv, TreeIsCurrents, CommandsReachTheirProvider, NeedsCurrent, ClosedIsGone,
      shownVars, accessVars

\* Opening what is not in the address book any more changes nothing, not even
\* the lease; the browser has forgotten its subscriptions all the same.
LEMMA HandleOpenOK ==
    ASSUME BrowserInv, HandleOpen PROVE BrowserInv'
<1>0. TypeOK /\ LastWord /\ up \in Seq(ClientMsg)
  BY DEF BrowserInv, TypeOK
<1>1. /\ UNCHANGED <<catalog, readOnly, stage, performed, breaks, down, shownVars, accessVars>>
      /\ up # <<>> /\ Head(up).type = "OpenProvider" /\ up' = Tail(up) /\ stage = "open"
  BY DEF HandleOpen, Arrives
<1> DEFINE m == Head(up)
<1>2. m \in ClientMsg /\ m.id \in Provider /\ m = up[1] /\ 1 \in 1..Len(up)
  BY <1>0, <1>1, MsgFacts
<1>3. IF m.id \in catalog THEN lease' = m.id /\ wants' = {} ELSE UNCHANGED <<lease, wants>>
  BY DEF HandleOpen
<1>4. TypeOK'
  BY <1>0, <1>1, <1>2, <1>3, TailType DEF TypeOK, shownVars, accessVars
<1>5. \A x \in Path : About(m, x)
  BY <1>1 DEF About
<1> HIDE DEF m
<1>6. LastWord'
  <2> SUFFICES ASSUME NEW x \in Path
               PROVE  /\ \A i \in 1..Len(up') : LastAbout(i, x)' =>
                            up'[i].id = current /\ (x \in subscribed <=> up'[i].type = "Subscribe")
                      /\ lease' = current /\ (\A i \in 1..Len(up') : ~About(up'[i], x)) =>
                            /\ x \in subscribed => x \in wants'
                            /\ current \in catalog /\ x \in wants' => x \in subscribed
    BY <1>1 DEF LastWord, shownVars
  <2>1. ASSUME NEW i \in 1..Len(up'), LastAbout(i, x)'
        PROVE  up'[i].id = current /\ (x \in subscribed <=> up'[i].type = "Subscribe")
    <3>1. i + 1 \in 1..Len(up) /\ LastAbout(i + 1, x) /\ up'[i] = up[i + 1]
      BY <1>0, <1>1, <2>1, TakenFacts
    <3> QED BY <1>0, <1>1, <3>1 DEF LastWord
  <2>2. ASSUME lease' = current, \A i \in 1..Len(up') : ~About(up'[i], x)
        PROVE  /\ x \in subscribed => x \in wants'
               /\ current \in catalog /\ x \in wants' => x \in subscribed
    <3>1. LastAbout(1, x)
      BY <1>0, <1>1, <1>5, <2>2, TakenFacts DEF m
    <3>2. m.id = current /\ x \notin subscribed
      BY <1>0, <1>1, <1>2, <3>1 DEF LastWord, m
    <3> QED BY <1>3, <3>2
  <2> QED BY <2>1, <2>2
<1> QED
  BY <1>1, <1>4, <1>6
  DEF BrowserInv, TreeIsCurrents, CommandsReachTheirProvider, NeedsCurrent, ClosedIsGone,
      shownVars, accessVars

LEMMA HandleSetOK ==
    ASSUME BrowserInv, HandleSet PROVE BrowserInv'
<1>0. TypeOK /\ LastWord /\ ClosedIsGone /\ up \in Seq(ClientMsg)
  BY DEF BrowserInv, TypeOK
<1>1. /\ UNCHANGED <<catalog, readOnly, stage, lease, wants, breaks, shownVars, accessVars>>
      /\ up # <<>> /\ Head(up).type = "SetValue" /\ up' = Tail(up) /\ stage = "open"
  BY DEF HandleSet, Arrives
<1>2. Head(up).id \in Provider
  BY <1>0, <1>1, TailType, MsgFacts
<1>3. /\ down' = down \/ down' = Append(down, [type |-> "Denied"])
      /\ performed' = performed \/ (/\ lease = Head(up).id
                                   /\ performed' = {[at |-> lease, id |-> Head(up).id]})
  BY DEF HandleSet, Addressed
<1>4. /\ down' \in Seq(ServerMsg)
      /\ \A i \in 1..Len(down') : \/ (i \in 1..Len(down) /\ down'[i] = down[i])
                                 \/ down'[i].type # "Closed"
  <2>1. [type |-> "Denied"] \in ServerMsg /\ [type |-> "Denied"].type # "Closed"
    BY DEF ServerMsg
  <2>2. down \in Seq(ServerMsg)
    BY <1>0 DEF TypeOK
  <2>3. CASE down' = down
    BY <2>2, <2>3
  <2>4. CASE down' = Append(down, [type |-> "Denied"])
    <3> DEFINE d == [type |-> "Denied"]
    <3>1. d \in ServerMsg /\ d.type # "Closed" /\ down' = Append(down, d)
      BY <2>1, <2>4
    <3> HIDE DEF d
    <3> QED BY <2>2, <3>1, AppendProperties
  <2> QED BY <1>3, <2>3, <2>4
<1>5. /\ performed' \subseteq [at : Provider, id : Provider]
      /\ CommandsReachTheirProvider'
  BY <1>0, <1>2, <1>3 DEF TypeOK, BrowserInv, CommandsReachTheirProvider
<1>6. TypeOK'
  BY <1>0, <1>1, <1>4, <1>5, TailType DEF TypeOK, shownVars, accessVars
<1>7. ClosedIsGone'
  BY <1>0, <1>1, <1>4 DEF ClosedIsGone, accessVars
<1>8. LastWord'
  <2>1. \A x \in Path : ~About(Head(up), x)
    BY <1>1 DEF About, Watches
  <2> QED BY <1>1, <2>1, OthersTaken DEF shownVars
<1> QED
  BY <1>1, <1>5, <1>6, <1>7, <1>8 DEF BrowserInv, TreeIsCurrents, NeedsCurrent, shownVars

LEMMA BreakOK ==
    ASSUME BrowserInv, Break PROVE BrowserInv'
<1>0. TypeOK /\ ClosedIsGone
  BY DEF BrowserInv
<1>1. /\ UNCHANGED <<catalog, readOnly, performed, shownVars, accessVars>>
      /\ stage' = "gone" /\ lease' = NoProvider /\ wants' = {} /\ up' = <<>>
      /\ breaks < MaxBreaks /\ breaks' = breaks + 1
      /\ stage \in {"auth", "open"}
  BY DEF Break
<1>2. breaks' \in 0..MaxBreaks
  BY <1>0, <1>1, BrowserAssumption DEF TypeOK
<1>3. down' \in Seq(ServerMsg)
  <2>1. PICK n \in 0..Len(down) : down' = Append(SubSeq(down, 1, n), [type |-> "Closed"])
    BY DEF Break
  <2>2. [type |-> "Closed"] \in ServerMsg /\ down \in Seq(ServerMsg)
    BY <1>0 DEF ServerMsg, TypeOK
  <2>3. SubSeq(down, 1, n) \in Seq(ServerMsg)
    BY <2>2
  <2> QED BY <2>1, <2>2, <2>3
<1>4. up' \in Seq(ClientMsg)
  BY <1>1
<1>5. TypeOK'
  BY <1>0, <1>1, <1>2, <1>3, <1>4 DEF TypeOK, shownVars, accessVars
<1>6. ClosedIsGone'
  BY <1>0, <1>1 DEF ClosedIsGone, accessVars
<1>7. LastWord'
  BY <1>1 DEF LastWord
<1> QED
  BY <1>1, <1>5, <1>6, <1>7
  DEF BrowserInv, TreeIsCurrents, CommandsReachTheirProvider, NeedsCurrent, shownVars

-------------------------------------------------------------------------------
(* The theorems.                                                           *)

LEMMA InitBrowser == Init => BrowserInv
<1> SUFFICES ASSUME Init PROVE BrowserInv
  OBVIOUS
<1>1. /\ up \in Seq(ClientMsg) /\ down \in Seq(ServerMsg) /\ Len(up) = 0 /\ Len(down) = 0
      /\ 0 \in 0..MaxBreaks
  BY BrowserAssumption DEF Init
<1>2. TypeOK
  BY <1>1 DEF Init, TypeOK
<1>3. TreeIsCurrents /\ CommandsReachTheirProvider /\ NeedsCurrent
  BY DEF Init, TreeIsCurrents, CommandsReachTheirProvider, NeedsCurrent
<1>4. ClosedIsGone /\ LastWord
  BY <1>1 DEF Init, ClosedIsGone, LastWord
<1> QED BY <1>2, <1>3, <1>4 DEF BrowserInv

LEMMA StepBrowser == BrowserInv /\ [Next]_vars => BrowserInv'
<1> SUFFICES ASSUME BrowserInv, [Next]_vars PROVE BrowserInv'
  OBVIOUS
<1>1. CASE Connect
  BY <1>1, ConnectOK
<1>2. CASE Inbound
  BY <1>2, AuthOkOK, InboundOK
<1>3. CASE User
  BY <1>3, OpenOK, ReconcileOK, SetOK, EditorOK DEF User
<1>4. CASE Handle
  BY <1>4, AuthorizeOK, HandleOpenOK, HandleWatchOK, HandleSetOK DEF Handle
<1>5. CASE Forward
  BY <1>5, ForwardOK
<1>6. ASSUME NEW p \in Provider, RemoveProvider(p) PROVE BrowserInv'
  BY <1>6, RemoveOK
<1>7. CASE Break
  BY <1>7, BreakOK
<1>8. CASE UNCHANGED vars
  <2>1. UNCHANGED <<serverVars, up, down, shownVars, accessVars>>
    BY <1>8 DEF vars
  <2>2. LastWord'
    BY <2>1, LastWordKept DEF BrowserInv, serverVars, shownVars
  <2> QED BY <2>1, <2>2
      DEF BrowserInv, TypeOK, TreeIsCurrents, CommandsReachTheirProvider, NeedsCurrent,
          ClosedIsGone, serverVars, shownVars, accessVars
<1> QED BY <1>1, <1>2, <1>3, <1>4, <1>5, <1>6, <1>7, <1>8 DEF Next

LEMMA BrowserAlways == Spec => []BrowserInv
  BY InitBrowser, StepBrowser, PTL DEF Spec

\* Documents of a provider that was left are still under way when the browser
\* shows another, or none: the tree never takes one of them.
THEOREM TreeOfCurrent == Spec => []TreeIsCurrents
<1>1. BrowserInv => TreeIsCurrents
  BY DEF BrowserInv
<1> QED BY <1>1, BrowserAlways, PTL

\* Commands are under way when the lease of their socket changes: none is
\* performed by the hub of another provider than the one it was sent to.
THEOREM CommandsArriveHome == Spec => []CommandsReachTheirProvider
<1>1. BrowserInv => CommandsReachTheirProvider
  BY DEF BrowserInv
<1> QED BY <1>1, BrowserAlways, PTL

\* Through switches, reopens of the same provider, reconnects in which the browser
\* goes on sending before it is let in, and providers removed meanwhile: when the
\* handler has read everything, the lease has the subscriptions that the browser
\* believes to have.
THEOREM SubscriptionsTrue == Spec => []SubscriptionsAgree
<1>1. BrowserInv => SubscriptionsAgree
  <2> SUFFICES ASSUME BrowserInv, stage = "open", up = <<>>, lease = current, NEW x \in Path
               PROVE  /\ x \in subscribed => x \in wants
                      /\ current \in catalog => (x \in wants <=> x \in subscribed)
    BY DEF BrowserInv, SubscriptionsAgree, TypeOK
  <2>1. \A i \in 1..Len(up) : FALSE
    OBVIOUS
  <2> QED BY <2>1 DEF BrowserInv, LastWord
<1> QED BY <1>1, BrowserAlways, PTL

-------------------------------------------------------------------------------
(* The server that the browsers reach, for any ports, tokens, sockets and  *)
(* listeners.  Serve's invariant is inductive as it stands: what makes it  *)
(* so is that a port has one holder (ServeTypeOK), which bind sees to, not *)
(* sync_server.                                                            *)

Settings == [enabled : BOOLEAN, port : Port, token : Token \cup {Blank},
             openLan : BOOLEAN, readOnly : BOOLEAN]

Bound(c) == [state |-> "bound", cfg |-> c]

LEMMA ServeInitInv == ServeInit => OptionsAreTrue
<1> SUFFICES ASSUME ServeInit PROVE OptionsAreTrue
  OBVIOUS
<1>1. \A k \in Instance : ~Live(listener, k)
  BY DEF ServeInit, Live, Closed
<1>2. ServeTypeOK
  <2>1. settings \in Settings /\ taken \in [ports : SUBSET Port, times : 0..MaxTaken]
    BY ServeAssumption DEF ServeInit, Settings
  <2> QED BY <1>1, <2>1 DEF ServeInit, ServeTypeOK, Settings
<1>3. RunsAsTicked /\ UrlShownWorks
  BY DEF ServeInit, RunsAsTicked, UrlShownWorks
<1> QED BY <1>2, <1>3 DEF OptionsAreTrue

\* A token is generated for whoever needs one, and nothing else is changed.
LEMMA WithTokenGives ==
    ASSUME NEW s \in Settings, NEW t \in WithToken(s)
    PROVE  /\ t \in Settings
           /\ t.enabled = s.enabled
           /\ t.port = s.port
           /\ t.openLan \/ t.token # Blank
<1>1. CASE s.token = Blank /\ ~s.openLan
  <2>1. PICK u \in Token : t = [s EXCEPT !.token = u]
    BY <1>1 DEF WithToken
  <2>2. u # Blank
    BY ServeAssumption
  <2> QED BY <2>1, <2>2 DEF Settings
<1>2. CASE ~(s.token = Blank /\ ~s.openLan)
  BY <1>2 DEF WithToken
<1> QED BY <1>1, <1>2

\* A listener lives when it has a configuration.
LEMMA LiveMeans ==
    ASSUME NEW l \in [Instance -> {Closed} \cup [state : {"bound", "serving"}, cfg : Config]],
           NEW k \in Instance
    PROVE  /\ Live(l, k) => l[k] \in [state : {"bound", "serving"}, cfg : Config]
           /\ ~Live(l, k) => l[k] = Closed
  BY DEF Live, Closed

\* Started leaves the options true, whether or not the port could be bound,
\* and whichever listeners were closed before.
LEMMA StartedOK ==
    ASSUME OptionsAreTrue,
           NEW s \in Settings, s.enabled,
           NEW l \in [Instance -> {Closed} \cup [state : {"bound", "serving"}, cfg : Config]],
           \A k \in Instance : l[k] \in {Closed, listener[k]},
           Started(s, l),
           UNCHANGED <<sock, taken, acted>>
    PROVE  OptionsAreTrue'
<1> PICK t \in WithToken(s) :
        IF Held(l, t.port)
        THEN /\ settings' = [t EXCEPT !.enabled = FALSE]
             /\ server' = NoInstance
             /\ listener' = l
        ELSE \E k \in Instance :
                /\ ~Live(l, k)
                /\ settings' = t
                /\ server' = k
                /\ listener' = [l EXCEPT ![k] = Bound(ConfigOf(t))]
  BY DEF Started, Bound
<1>1. /\ t \in Settings
      /\ t.enabled
      /\ t.openLan \/ t.token # Blank
  BY WithTokenGives
<1>2. \A k \in Instance : Live(l, k) => l[k] = listener[k] /\ Live(listener, k)
  BY DEF Live, Closed
<1>3. CASE Held(l, t.port)
  <2>1. /\ settings' \in Settings /\ ~settings'.enabled
        /\ server' = NoInstance
        /\ listener' = l
    BY <1>1, <1>3 DEF Settings
  <2>2. ServeTypeOK'
    BY <1>2, <2>1 DEF OptionsAreTrue, ServeTypeOK, Settings
  <2> QED BY <2>1, <2>2 DEF OptionsAreTrue, RunsAsTicked, UrlShownWorks, Settings
<1>4. ASSUME ~Held(l, t.port),
             NEW k \in Instance,
             ~Live(l, k),
             settings' = t, server' = k,
             listener' = [l EXCEPT ![k] = Bound(ConfigOf(t))]
      PROVE  OptionsAreTrue'
  <2>1. /\ ConfigOf(t) \in Config
        /\ ConfigOf(t).port = t.port
    BY <1>1 DEF ConfigOf, Config, Settings
  <2>2. /\ listener'[k] = Bound(ConfigOf(t))
        /\ Bound(ConfigOf(t)) \in [state : {"bound", "serving"}, cfg : Config]
        /\ Bound(ConfigOf(t)).cfg = ConfigOf(t)
        /\ \A j \in Instance \ {k} : listener'[j] = l[j]
    BY <1>4, <2>1 DEF Bound
  <2>3. \A j \in Instance \ {k} : Live(listener', j) =>
            /\ Live(l, j)
            /\ Live(listener, j)
            /\ listener'[j] = listener[j]
            /\ listener'[j].cfg.port # t.port
    BY <1>2, <1>4, <2>2 DEF Live, Held
  <2>4. k # NoInstance
    BY DEF Instance, NoInstance
  <2>5. ServeTypeOK'
    <3>1. settings' \in Settings /\ server' \in Instance
      BY <1>1, <1>4
    <3>2. listener' \in [Instance -> {Closed} \cup [state : {"bound", "serving"}, cfg : Config]]
      BY <1>4, <2>2
    <3>3. \A j \in Instance : Live(listener', j) => listener'[j].cfg.port \notin taken'.ports
      BY <1>4, <2>1, <2>2, <2>3 DEF OptionsAreTrue, ServeTypeOK, Held
    <3>4. \A j, i \in Instance :
             /\ Live(listener', j) /\ Live(listener', i)
             /\ listener'[j].cfg.port = listener'[i].cfg.port
             => j = i
      BY <2>1, <2>2, <2>3 DEF OptionsAreTrue, ServeTypeOK
    <3> QED BY <3>1, <3>2, <3>3, <3>4 DEF OptionsAreTrue, ServeTypeOK, Settings
  <2>6. RunsAsTicked'
    BY <1>1, <1>4, <2>4 DEF RunsAsTicked
  <2>7. UrlShownWorks'
    <3>1. token_ok(ConfigOf(t), t.token)
      BY DEF token_ok, ConfigOf
    <3> QED BY <1>4, <2>2, <2>3, <3>1 DEF UrlShownWorks
  <2> QED BY <2>5, <2>6, <2>7 DEF OptionsAreTrue
<1> QED BY <1>3, <1>4

\* The desktop's own steps.
LEMMA SetEnabledOK ==
    ASSUME OptionsAreTrue, SetEnabled PROVE OptionsAreTrue'
<1> DEFINE s == [settings EXCEPT !.enabled = ~@]
<1>1. s \in Settings /\ s.enabled = ~settings.enabled
  BY DEF OptionsAreTrue, ServeTypeOK, Settings
<1>2. sync_server(s) /\ UNCHANGED <<sock, taken, acted>>
  BY DEF SetEnabled
<1>3. CASE s.enabled
  <2>1. Started(s, listener)
    BY <1>1, <1>2, <1>3 DEF sync_server, OptionsAreTrue, RunsAsTicked
  <2> QED BY <1>1, <1>2, <1>3, <2>1, StartedOK DEF OptionsAreTrue, ServeTypeOK
<1>4. CASE ~s.enabled
  <2>1. settings' = s /\ server' = NoInstance /\ UNCHANGED listener
    BY <1>2, <1>4 DEF sync_server
  <2>2. ServeTypeOK'
    BY <1>1, <1>2, <2>1 DEF OptionsAreTrue, ServeTypeOK, Settings, Live
  <2> QED BY <1>1, <1>4, <2>1, <2>2 DEF OptionsAreTrue, RunsAsTicked, UrlShownWorks
<1> QED BY <1>3, <1>4

LEMMA ConfigureOK ==
    ASSUME OptionsAreTrue, Configure PROVE OptionsAreTrue'
<1> PICK p \in Port, t \in Token \cup {Blank}, o \in BOOLEAN, r \in BOOLEAN :
        restart_server([settings EXCEPT !.port = p, !.token = t, !.openLan = o, !.readOnly = r])
  BY DEF Configure
<1> DEFINE s == [settings EXCEPT !.port = p, !.token = t, !.openLan = o, !.readOnly = r]
<1>1. s \in Settings /\ s.enabled = settings.enabled /\ UNCHANGED <<sock, taken, acted>>
  BY DEF OptionsAreTrue, ServeTypeOK, Settings, Configure
<1>2. CASE server # NoInstance
  <2>1. PICK l \in {listener, [listener EXCEPT ![server] = Closed]} : Started(s, l)
    BY <1>2 DEF restart_server
  <2>2. /\ l \in [Instance -> {Closed} \cup [state : {"bound", "serving"}, cfg : Config]]
        /\ \A k \in Instance : l[k] \in {Closed, listener[k]}
    BY <2>1 DEF OptionsAreTrue, ServeTypeOK
  <2>3. s.enabled
    BY <1>1, <1>2 DEF OptionsAreTrue, RunsAsTicked
  <2> QED BY <1>1, <2>1, <2>2, <2>3, StartedOK
<1>3. CASE server = NoInstance
  <2>1. settings' = s /\ UNCHANGED <<server, listener>>
    BY <1>3 DEF restart_server
  <2>2. ~settings.enabled
    BY <1>3 DEF OptionsAreTrue, RunsAsTicked
  <2>3. ServeTypeOK'
    BY <1>1, <2>1 DEF OptionsAreTrue, ServeTypeOK, Settings, Live
  <2> QED BY <1>1, <1>3, <2>1, <2>2, <2>3 DEF OptionsAreTrue, RunsAsTicked, UrlShownWorks
<1> QED BY <1>2, <1>3

LEMMA RelaunchOK ==
    ASSUME OptionsAreTrue, Relaunch PROVE OptionsAreTrue'
<1> PICK t \in WithToken(settings) :
        LET runs == t.enabled /\ t.port \notin taken.ports
        IN  /\ settings' = IF t.enabled THEN [t EXCEPT !.enabled = runs] ELSE settings
            /\ server' = IF runs THEN 1 ELSE NoInstance
            /\ listener' = [k \in Instance |->
                              IF runs /\ k = 1 THEN Bound(ConfigOf(t)) ELSE Closed]
  BY DEF Relaunch, Bound
<1>1. /\ settings \in Settings
      /\ t \in Settings
      /\ t.enabled = settings.enabled
      /\ t.openLan \/ t.token # Blank
  BY WithTokenGives DEF OptionsAreTrue, ServeTypeOK, Settings
<1>2. 1 \in Instance /\ 1 # NoInstance
  <2>1. Listeners \in Nat /\ Listeners # 0
    BY ServeAssumption
  <2> QED BY <2>1 DEF Instance, NoInstance
<1>3. sock' = [x \in Socket |-> Closed] /\ UNCHANGED <<taken, acted>>
  BY DEF Relaunch
<1>4. CASE t.enabled /\ t.port \notin taken.ports
  <2>1. /\ settings' = t
        /\ server' = 1
        /\ listener' = [k \in Instance |-> IF k = 1 THEN Bound(ConfigOf(t)) ELSE Closed]
    BY <1>1, <1>4 DEF Settings
  <2>2. ConfigOf(t) \in Config /\ ConfigOf(t).port = t.port
    BY <1>1 DEF ConfigOf, Config, Settings
  <2>3. /\ listener'[1] = Bound(ConfigOf(t))
        /\ Bound(ConfigOf(t)) \in [state : {"bound", "serving"}, cfg : Config]
        /\ Bound(ConfigOf(t)).cfg = ConfigOf(t)
        /\ \A j \in Instance \ {1} : listener'[j] = Closed /\ ~Live(listener', j)
    BY <1>2, <2>1, <2>2 DEF Bound, Live, Closed
  <2>4. listener' \in [Instance -> {Closed} \cup [state : {"bound", "serving"}, cfg : Config]]
    BY <2>1, <2>3
  <2>5. ServeTypeOK'
    BY <1>1, <1>2, <1>3, <1>4, <2>1, <2>2, <2>3, <2>4 DEF OptionsAreTrue, ServeTypeOK, Settings
  <2>6. RunsAsTicked'
    BY <1>1, <1>2, <1>4, <2>1 DEF RunsAsTicked
  <2>7. UrlShownWorks'
    BY <2>1, <2>2, <2>3 DEF UrlShownWorks, token_ok, ConfigOf
  <2> QED BY <2>5, <2>6, <2>7 DEF OptionsAreTrue
<1>5. CASE ~(t.enabled /\ t.port \notin taken.ports)
  <2>1. /\ settings' \in Settings /\ ~settings'.enabled
        /\ server' = NoInstance
        /\ listener' = [k \in Instance |-> Closed]
    BY <1>1, <1>5 DEF Settings
  <2>2. \A k \in Instance : ~Live(listener', k)
    BY <2>1 DEF Live, Closed
  <2>3. ServeTypeOK'
    BY <1>3, <2>1, <2>2 DEF OptionsAreTrue, ServeTypeOK, Settings
  <2> QED BY <2>1, <2>3 DEF OptionsAreTrue, RunsAsTicked, UrlShownWorks
<1> QED BY <1>4, <1>5

\* The listeners' own steps: one that lives after them lived before, unchanged
\* but for its stage, and so holds the port it held.
LEMMA RuntimeOK ==
    ASSUME OptionsAreTrue, NEW k \in Instance, Runtime(k) PROVE OptionsAreTrue'
<1>1. UNCHANGED <<settings, server, sock, taken, acted>>
  BY DEF Runtime, Adopt, AdoptFails, WindDown
<1>2. /\ listener' \in [Instance -> {Closed} \cup [state : {"bound", "serving"}, cfg : Config]]
      /\ \A j \in Instance : Live(listener', j) =>
            Live(listener, j) /\ listener'[j].cfg = listener[j].cfg
  <2>1. CASE Adopt(k)
    <3>1. listener[k] \in [state : {"bound", "serving"}, cfg : Config]
      BY <2>1 DEF Adopt, OptionsAreTrue, ServeTypeOK, Closed
    <3>2. listener'[k] = [listener[k] EXCEPT !.state = "serving"]
          /\ \A j \in Instance \ {k} : listener'[j] = listener[j]
      BY <2>1 DEF Adopt, OptionsAreTrue, ServeTypeOK
    <3>3. /\ listener'[k] \in [state : {"bound", "serving"}, cfg : Config]
          /\ listener'[k].cfg = listener[k].cfg
          /\ Live(listener, k)
      BY <3>1, <3>2 DEF Live
    <3>4. listener' \in [Instance -> {Closed} \cup [state : {"bound", "serving"}, cfg : Config]]
      BY <2>1, <3>2, <3>3 DEF Adopt, OptionsAreTrue, ServeTypeOK
    <3> QED BY <3>2, <3>3, <3>4 DEF Live
  <2>2. CASE AdoptFails(k) \/ WindDown(k)
    <3>1. listener' = [listener EXCEPT ![k] = Closed]
      BY <2>2 DEF AdoptFails, WindDown
    <3> QED BY <3>1 DEF OptionsAreTrue, ServeTypeOK, Live, Closed
  <2> QED BY <2>1, <2>2 DEF Runtime
<1>3. ServeTypeOK'
  BY <1>1, <1>2 DEF OptionsAreTrue, ServeTypeOK
<1> QED BY <1>1, <1>2, <1>3 DEF OptionsAreTrue, RunsAsTicked, UrlShownWorks

\* The sockets' steps.
LEMMA SocketOK ==
    ASSUME OptionsAreTrue, NEW s \in Socket,
           \/ \E k \in Instance : Accept(s, k)
           \/ Leave(s) \/ Command(s)
           \/ \E t \in Token \cup {Blank} : Auth(s, t)
    PROVE  OptionsAreTrue'
<1>1. UNCHANGED <<settings, server, listener, taken>>
  BY DEF Accept, Leave, Command, Auth
<1>2. acted' \in BOOLEAN
  BY DEF Accept, Leave, Command, Auth, OptionsAreTrue, ServeTypeOK
<1>3. sock' \in [Socket -> {Closed}
                             \cup [state : {"new"}, policy : {Policy(c) : c \in Config}]
                             \cup [state : {"in"}, readOnly : BOOLEAN]]
  <2>1. ASSUME NEW k \in Instance, Accept(s, k)
        PROVE  sock'[s] \in [state : {"new"}, policy : {Policy(c) : c \in Config}]
    <3>1. listener[k] \in [state : {"bound", "serving"}, cfg : Config]
      BY <2>1 DEF Accept, OptionsAreTrue, ServeTypeOK, Closed
    <3> QED BY <2>1, <3>1 DEF Accept, OptionsAreTrue, ServeTypeOK
  <2>2. ASSUME NEW t \in Token \cup {Blank}, Auth(s, t)
        PROVE  sock'[s] \in {Closed} \cup [state : {"in"}, readOnly : BOOLEAN]
    <3>1. sock[s] \in [state : {"new"}, policy : {Policy(c) : c \in Config}]
      BY <2>2 DEF Auth, OptionsAreTrue, ServeTypeOK, Closed
    <3>2. sock[s].policy.readOnly \in BOOLEAN
      BY <3>1 DEF Policy, Config
    <3> QED BY <2>2, <3>2 DEF Auth, OptionsAreTrue, ServeTypeOK
  <2>3. ASSUME Leave(s) PROVE sock'[s] = Closed
    BY <2>3 DEF Leave, OptionsAreTrue, ServeTypeOK
  <2>4. /\ DOMAIN sock' = Socket
        /\ sock' = [x \in Socket |-> sock'[x]]
        /\ \A x \in Socket \ {s} : sock'[x] = sock[x]
    BY DEF Accept, Leave, Command, Auth, OptionsAreTrue, ServeTypeOK
  <2>5. CASE Command(s)
    BY <2>5 DEF Command, OptionsAreTrue, ServeTypeOK
  <2> QED BY <2>1, <2>2, <2>3, <2>4, <2>5 DEF OptionsAreTrue, ServeTypeOK
<1>4. ServeTypeOK'
  BY <1>1, <1>2, <1>3 DEF OptionsAreTrue, ServeTypeOK, Live
<1> QED BY <1>1, <1>4 DEF OptionsAreTrue, RunsAsTicked, UrlShownWorks, Live

\* The other programs' steps.
LEMMA PortOK ==
    ASSUME OptionsAreTrue, NEW p \in Port, TakePort(p) \/ FreePort(p)
    PROVE  OptionsAreTrue'
<1>1. UNCHANGED <<settings, server, listener, sock, acted>>
  BY DEF TakePort, FreePort
<1>2. /\ taken' \in [ports : SUBSET Port, times : 0..MaxTaken]
      /\ taken'.ports \subseteq taken.ports \cup {p}
      /\ Held(listener, p) => taken'.ports \subseteq taken.ports
  <2>1. CASE TakePort(p)
    <3>1. MaxTaken \in Nat /\ taken.times \in 0..MaxTaken /\ taken.times < MaxTaken
      BY <2>1, ServeAssumption DEF TakePort, OptionsAreTrue, ServeTypeOK
    <3>2. taken.times + 1 \in 0..MaxTaken
      BY <3>1
    <3> QED BY <2>1, <3>2 DEF TakePort, OptionsAreTrue, ServeTypeOK
  <2>2. CASE FreePort(p)
    BY <2>2 DEF FreePort, OptionsAreTrue, ServeTypeOK
  <2> QED BY <2>1, <2>2
<1>3. ServeTypeOK'
  BY <1>1, <1>2 DEF OptionsAreTrue, ServeTypeOK, Live, Held
<1> QED BY <1>1, <1>3 DEF OptionsAreTrue, RunsAsTicked, UrlShownWorks, Live

LEMMA StepInv == OptionsAreTrue /\ [ServeNext]_serveVars => OptionsAreTrue'
<1> SUFFICES ASSUME OptionsAreTrue, [ServeNext]_serveVars PROVE OptionsAreTrue'
  OBVIOUS
<1>1. CASE SetEnabled
  BY <1>1, SetEnabledOK
<1>2. CASE Configure
  BY <1>2, ConfigureOK
<1>3. CASE Relaunch
  BY <1>3, RelaunchOK
<1>4. ASSUME NEW k \in Instance, Runtime(k) PROVE OptionsAreTrue'
  BY <1>4, RuntimeOK
<1>5. ASSUME NEW s \in Socket,
             \/ \E k \in Instance : Accept(s, k)
             \/ Leave(s) \/ Command(s)
             \/ \E t \in Token \cup {Blank} : Auth(s, t)
      PROVE  OptionsAreTrue'
  BY <1>5, SocketOK
<1>6. ASSUME NEW p \in Port, TakePort(p) \/ FreePort(p) PROVE OptionsAreTrue'
  BY <1>6, PortOK
<1>7. CASE UNCHANGED serveVars
  BY <1>7 DEF serveVars, OptionsAreTrue, ServeTypeOK, RunsAsTicked, UrlShownWorks, Live
<1> QED BY <1>1, <1>2, <1>3, <1>4, <1>5, <1>6, <1>7 DEF ServeNext

\* Whatever the user changes in the options, whichever listeners are still
\* winding down, and whatever other programs take: a ticked box means a running
\* server, it has a token when it asks for one, and the address shown leads to it
\* and to nothing older.
THEOREM OptionsTrue == ServeSpec => []OptionsAreTrue
  BY ServeInitInv, StepInv, PTL DEF ServeSpec

-------------------------------------------------------------------------------
(* How a running server may be lost.                                       *)

LEMMA LostStep ==
    ASSUME OptionsAreTrue, ServeNext, server # NoInstance, server' = NoInstance
    PROVE  \/ settings' = [settings EXCEPT !.enabled = FALSE]
           \/ Held(listener, settings'.port)
<1>0. settings.enabled /\ settings \in Settings
  BY DEF OptionsAreTrue, RunsAsTicked, ServeTypeOK, Settings
<1>1. CASE SetEnabled
  BY <1>0, <1>1 DEF SetEnabled, sync_server, Settings
<1>2. CASE Configure
  <2>1. PICK p \in Port, t \in Token \cup {Blank}, o \in BOOLEAN, r \in BOOLEAN :
           restart_server([settings EXCEPT !.port = p, !.token = t, !.openLan = o,
                                           !.readOnly = r])
    BY <1>2 DEF Configure
  <2> DEFINE s == [settings EXCEPT !.port = p, !.token = t, !.openLan = o, !.readOnly = r]
  <2>2. s \in Settings
    BY <1>0 DEF Settings
  <2>3. PICK l \in {listener, [listener EXCEPT ![server] = Closed]} : Started(s, l)
    BY <2>1 DEF restart_server
  <2>4. PICK u \in WithToken(s) : Held(l, u.port) /\ settings' = [u EXCEPT !.enabled = FALSE]
    BY <2>3 DEF Started, NoInstance, Instance
  <2>5. settings'.port = u.port
    BY <2>2, <2>4, WithTokenGives DEF Settings
  <2>6. \A k \in Instance : Live(l, k) => Live(listener, k) /\ l[k] = listener[k]
    BY <2>3 DEF OptionsAreTrue, ServeTypeOK, Live, Closed
  <2> QED BY <2>4, <2>5, <2>6 DEF Held
<1>3. CASE Relaunch
  <2>1. PICK t \in WithToken(settings) :
           LET runs == t.enabled /\ t.port \notin taken.ports
           IN  /\ settings' = IF t.enabled THEN [t EXCEPT !.enabled = runs] ELSE settings
               /\ server' = IF runs THEN 1 ELSE NoInstance
    BY <1>3 DEF Relaunch
  <2>2. t.enabled /\ t \in Settings
    BY <1>0, <2>1, WithTokenGives
  <2>3. t.port \in taken.ports
    BY <2>1, <2>2 DEF NoInstance
  <2>4. settings'.port = t.port
    BY <2>1, <2>2 DEF Settings
  <2> QED BY <2>3, <2>4 DEF Held
<1>4. ASSUME UNCHANGED server PROVE FALSE
  BY <1>4
<1> QED
  BY <1>1, <1>2, <1>3, <1>4
  DEF ServeNext, Runtime, Adopt, AdoptFails, WindDown, Accept, Leave, Command, Auth, TakePort,
      FreePort

\* A change of the configuration ends a running server only when bind finds its
\* port held, by another program or by a listener not closed yet: restart_server
\* never loses one otherwise, and unticking the box is the only other way.
THEOREM OnlyToClash == ServeSpec => LostOnlyToClash
<1>1. OptionsAreTrue /\ [ServeNext]_serveVars =>
         [server # NoInstance /\ server' = NoInstance =>
            \/ settings' = [settings EXCEPT !.enabled = FALSE]
            \/ Held(listener, settings'.port)]_serveVars
  BY LostStep DEF serveVars
<1> QED BY <1>1, OptionsTrue, PTL DEF ServeSpec, LostOnlyToClash

===============================================================================
