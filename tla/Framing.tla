-------------------------------- MODULE Framing --------------------------------
(***************************************************************************)
(* S101 framing (ember-proto/src/s101.rs) and the read half of a           *)
(* connection (ember-net/src/connection.rs): a device writes frames to a   *)
(* byte stream, some of them damaged; the reader takes the stream in       *)
(* chunks of any size through a FrameDecoder and hands out what it finds.  *)
(*                                                                         *)
(* A message keeps its command and, for Ember packages, its flags and      *)
(* payload; header bytes that never vary are left out.  The CRC is a sum:  *)
(* all that matters is that a damaged message does not match it and that   *)
(* its value may be a byte that must be escaped.                           *)
(***************************************************************************)
EXTENDS Naturals, Sequences, SequencesExt

CONSTANTS
    Payload,        \* what the device may send: sequences of bytes
    MaxPackage,     \* MAX_PACKAGE_PAYLOAD
    MaxFrame,       \* MAX_FRAME_BYTES
    MaxReassembly,  \* MAX_REASSEMBLY_BYTES
    MaxSends,       \* bound: payloads and other messages sent
    MaxDamage,      \* bound: frames damaged
    ReadBuf         \* the length of read_buf

ASSUME FramingAssumption ==
    /\ Payload \subseteq Seq(0..255)
    /\ {MaxPackage, ReadBuf} \subseteq Nat \ {0}
    /\ {MaxFrame, MaxReassembly, MaxSends, MaxDamage} \subseteq Nat

\* A package fits a frame, every byte of it escaped: "Frames on the wire are at most ~2x
\* [`MAX_PACKAGE_PAYLOAD`] plus header/CRC" (s101.rs, MAX_FRAME_BYTES).
ASSUME FrameAssumption == MaxFrame >= 2 * MaxPackage + 4

VARIABLES
    \* the device
    doing,      \* the payload under way
    todo,       \* the packages of it not written yet
    whole,      \* it can still arrive
    sent,       \* what should arrive, in order
    broken,     \* a package of a longer payload was damaged
    sends,
    damage,
    \* the stream and the reader
    wire,       \* bytes not read yet
    decoder,    \* a FrameDecoder
    pending,    \* decoded and not yet delivered
    got         \* delivered

deviceVars == <<doing, todo, whole, sent, broken, sends, damage>>
vars == <<deviceVars, wire, decoder, pending, got>>

BOF == 254
EOF == 255
CE == 253
INVALID == 248

FIRST == 128
LAST == 64
EMPTY == 32

Ember == 0
KeepAliveRequest == 1
KeepAliveResponse == 2
ProviderState == 3
Command == {Ember, KeepAliveRequest, KeepAliveResponse, ProviderState}

Set(flags, flag) == (flags \div flag) % 2 = 1

\* b ^ XOR
Flipped(b) == IF Set(b, 32) THEN b - 32 ELSE b + 32

Crc(message) ==
    LET sum[n \in 0..Len(message)] ==
            IF n = 0 THEN 7 ELSE (sum[n - 1] + message[n]) % 256
    IN  sum[Len(message)]

-------------------------------------------------------------------------------
(* Encoding.                                                               *)

\* push_escaped
Escaped(b) == IF b >= INVALID THEN <<CE, Flipped(b)>> ELSE <<b>>

\* The bytes of a message, each escaped if it must be.
Body(message) ==
    LET after[n \in 0..Len(message)] ==
            IF n = 0 THEN <<>> ELSE after[n - 1] \o Escaped(message[n])
    IN  after[Len(message)]

FrameMessage(message) ==
    <<BOF>> \o Body(Append(message, Crc(message))) \o <<EOF>>

\* encode_ember's chunks, each with its flags.
Packages(payload) ==
    LET n == IF payload = <<>> THEN 1
             ELSE (Len(payload) + MaxPackage - 1) \div MaxPackage
        flags(i) == (IF i = 1 THEN FIRST ELSE 0) + (IF i = n THEN LAST ELSE 0)
        chunk(i) == SubSeq(payload, (i - 1) * MaxPackage + 1,
                                  IF i = n THEN Len(payload) ELSE i * MaxPackage)
    IN [i \in 1..n |-> <<Ember, flags(i)>> \o chunk(i)]

-------------------------------------------------------------------------------
(* The decoder.                                                            *)

Error == [type |-> "Error"]
Item(type) == [type |-> type]
Document(bytes) == [type |-> "EmberPayload", bytes |-> bytes]

NewDecoder ==
    [inFrame |-> FALSE, frame |-> <<>>, reassembly |-> <<>>, out |-> <<>>]

Yield(d, item) == [d EXCEPT !.out = Append(@, item)]

UnescapeByte(u, b) ==
    IF u.dangling THEN [bytes |-> Append(u.bytes, Flipped(b)), dangling |-> FALSE]
    ELSE IF b = CE THEN [u EXCEPT !.dangling = TRUE]
    ELSE [u EXCEPT !.bytes = Append(@, b)]

\* What unescape returns; dangling is its error.
Unescape(raw) ==
    LET after[n \in 0..Len(raw)] ==
            IF n = 0 THEN [bytes |-> <<>>, dangling |-> FALSE]
            ELSE UnescapeByte(after[n - 1], raw[n])
    IN  after[Len(raw)]

\* (Faulty: a FIRST package does not discard what an unfinished run left.)
ParseEmberAppending(d, flags, payload) ==
    LET all == d.reassembly \o (IF Set(flags, EMPTY) THEN <<>> ELSE payload)
    IN IF Len(all) > MaxReassembly
       THEN Yield([d EXCEPT !.reassembly = <<>>], Error)
       ELSE IF Set(flags, LAST)
            THEN Yield([d EXCEPT !.reassembly = <<>>], Document(all))
            ELSE [d EXCEPT !.reassembly = all]

\* A package joins the run; LAST completes it.
ParseEmber(d, flags, payload) ==
    LET run == IF Set(flags, FIRST) THEN <<>> ELSE d.reassembly
        all == run \o (IF Set(flags, EMPTY) THEN <<>> ELSE payload)
    IN IF Len(all) > MaxReassembly
       THEN Yield([d EXCEPT !.reassembly = <<>>], Error)
       ELSE IF Set(flags, LAST)
            THEN Yield([d EXCEPT !.reassembly = <<>>], Document(all))
            ELSE [d EXCEPT !.reassembly = all]

ParseMessage(d, message) ==
    IF message = <<>> \/ Head(message) \notin Command THEN Yield(d, Error)
    ELSE CASE Head(message) = KeepAliveRequest -> Yield(d, Item("KeepAliveRequest"))
           [] Head(message) = KeepAliveResponse -> Yield(d, Item("KeepAliveResponse"))
           [] Head(message) = ProviderState -> Yield(d, Item("ProviderState"))
           [] Head(message) = Ember ->
                IF Len(message) < 2
                THEN Yield(d, Error)
                ELSE ParseEmber(d, message[2], SubSeq(message, 3, Len(message)))

\* (Faulty: the CRC is not compared.)
ProcessRawTrusting(d, raw) ==
    LET u == Unescape(raw)
    IN IF u.dangling \/ u.bytes = <<>>
       THEN Yield(d, Error)
       ELSE ParseMessage(d, Front(u.bytes))

ProcessRaw(d, raw) ==
    LET u == Unescape(raw)
    IN IF u.dangling \/ u.bytes = <<>> \/ Crc(Front(u.bytes)) # Last(u.bytes)
       THEN Yield(d, Error)
       ELSE ParseMessage(d, Front(u.bytes))

\* (Faulty: one byte too many is kept.)
PushByteLate(d, b) ==
    IF b = BOF THEN [d EXCEPT !.inFrame = TRUE, !.frame = <<>>]
    ELSE IF ~d.inFrame THEN d
    ELSE IF b = EOF
         THEN ProcessRaw([d EXCEPT !.inFrame = FALSE, !.frame = <<>>], d.frame)
    ELSE IF Len(d.frame) > MaxFrame
         THEN Yield([d EXCEPT !.inFrame = FALSE, !.frame = <<>>], Error)
    ELSE [d EXCEPT !.frame = Append(@, b)]

PushByte(d, b) ==
    IF b = BOF THEN [d EXCEPT !.inFrame = TRUE, !.frame = <<>>]
    ELSE IF ~d.inFrame THEN d
    ELSE IF b = EOF
         THEN ProcessRaw([d EXCEPT !.inFrame = FALSE, !.frame = <<>>], d.frame)
    ELSE IF Len(d.frame) >= MaxFrame
         THEN Yield([d EXCEPT !.inFrame = FALSE, !.frame = <<>>], Error)
    ELSE [d EXCEPT !.frame = Append(@, b)]

\* FrameDecoder::push; its results are added to out.
Push(d, bytes) ==
    LET after[n \in 0..Len(bytes)] ==
            IF n = 0 THEN d ELSE PushByte(after[n - 1], bytes[n])
    IN  after[Len(bytes)]

-------------------------------------------------------------------------------
(* The device.                                                             *)

Init ==
    /\ doing = <<>>
    /\ todo = <<>>
    /\ whole = FALSE
    /\ sent = <<>>
    /\ broken = FALSE
    /\ sends = 0
    /\ damage = 0
    /\ wire = <<>>
    /\ decoder = NewDecoder
    /\ pending = <<>>
    /\ got = <<>>

\* The device has a payload to send, with encode_ember.
Begin(payload) ==
    /\ todo = <<>>
    /\ sends < MaxSends
    /\ sends' = sends + 1
    /\ doing' = payload
    /\ todo' = Packages(payload)
    /\ whole' = (Len(payload) <= MaxReassembly)
    /\ broken' = (broken \/ Len(payload) > MaxReassembly)
    /\ UNCHANGED <<sent, damage, wire, decoder, pending, got>>

\* decode_roots finds a document in every payload a device means to send,
\* unless it is empty.
Means(payload) == payload # <<>>

WritePackage ==
    /\ todo # <<>>
    /\ todo' = Tail(todo)
    /\ wire' = wire \o FrameMessage(Head(todo))
    /\ sent' = IF Len(todo) = 1 /\ whole /\ Means(doing)
               THEN Append(sent, Document(doing))
               ELSE sent
    /\ UNCHANGED <<doing, whole, broken, sends, damage, decoder, pending, got>>

Expected(message) ==
    CASE message = <<KeepAliveRequest>> -> <<Item("KeepAliveRequest")>>
      [] message = <<KeepAliveResponse>> -> <<Item("KeepAliveResponse")>>
      [] OTHER -> <<>>

\* Also between two packages: the other commands, and messages that parse as
\* nothing (no command, an unknown one, an Ember header cut short).
Others == {<<KeepAliveRequest>>, <<KeepAliveResponse>>, <<ProviderState>>,
           <<>>, <<9>>, <<Ember>>}

WriteOther(message) ==
    /\ sends < MaxSends
    /\ sends' = sends + 1
    /\ wire' = wire \o FrameMessage(message)
    /\ sent' = sent \o Expected(message)
    /\ UNCHANGED <<doing, todo, whole, broken, damage, decoder, pending, got>>

\* What a frame may be damaged to: a byte changed, its end missing, its end
\* after an escape, and a frame that never ends.
Damaged(frame) ==
    { [frame EXCEPT ![2] = @ + 1],
      Front(frame),
      Front(frame) \o <<CE, EOF>>,
      <<BOF>> \o [i \in 1..(MaxFrame + 1) |-> 1] }

WriteDamaged ==
    /\ todo # <<>>
    /\ damage < MaxDamage
    /\ damage' = damage + 1
    /\ todo' = Tail(todo)
    /\ whole' = FALSE
    /\ broken' = (broken \/ Len(Packages(doing)) > 1)
    /\ \E bytes \in Damaged(FrameMessage(Head(todo))) : wire' = wire \o bytes
    /\ UNCHANGED <<doing, sent, sends, decoder, pending, got>>

-------------------------------------------------------------------------------
(* The reader: ProviderReader::recv.                                       *)

\* The socket is read, by any number of bytes, when nothing is left over.
Read ==
    /\ pending = <<>>
    /\ \E n \in 1..ReadBuf :
        /\ n <= Len(wire)
        /\ LET d == Push(decoder, SubSeq(wire, 1, n))
           IN /\ decoder' = [d EXCEPT !.out = <<>>]
              /\ pending' = d.out
        /\ wire' = SubSeq(wire, n + 1, Len(wire))
    /\ UNCHANGED <<deviceVars, got>>

\* Delivered or dropped: errors, provider states and payloads in which nothing
\* decodes.  A payload nobody sent may decode to something.
Deliver ==
    /\ pending # <<>>
    /\ pending' = Tail(pending)
    /\ LET item == Head(pending)
       IN CASE item.type \in {"Error", "ProviderState"} -> got' = got
            [] item.type = "EmberPayload" ->
                 IF item.bytes \in Payload
                 THEN got' = IF Means(item.bytes) THEN Append(got, item) ELSE got
                 ELSE got' \in {got, Append(got, item)}
            [] OTHER -> got' = Append(got, item)
    /\ UNCHANGED <<deviceVars, wire, decoder>>

Device ==
    \/ \E payload \in Payload : Begin(payload)
    \/ WritePackage
    \/ \E message \in Others : WriteOther(message)
    \/ WriteDamaged

Next == Device \/ Read \/ Deliver

Spec == Init /\ [][Next]_vars

-------------------------------------------------------------------------------
(* Properties.                                                             *)

Byte == 0..255

\* Types, and the memory a peer can make the decoder hold: a frame and a run
\* within their caps whatever arrives.
TypeOK ==
    /\ doing \in Payload \cup {<<>>}
    /\ todo \in Seq(Seq(Byte))
    /\ whole \in BOOLEAN
    /\ broken \in BOOLEAN
    /\ sends \in 0..MaxSends
    /\ damage \in 0..MaxDamage
    /\ wire \in Seq(Byte)
    /\ decoder.inFrame \in BOOLEAN
    /\ decoder.frame \in Seq(Byte \ {BOF, EOF})
    /\ Len(decoder.frame) <= MaxFrame
    /\ decoder.reassembly \in Seq(Byte)
    /\ Len(decoder.reassembly) <= MaxReassembly

Subsequence(s, t) ==
    \E f \in [1..Len(s) -> 1..Len(t)] :
        /\ \A i \in 1..Len(s) : t[f[i]] = s[i]
        /\ \A i, j \in 1..Len(s) : i < j => f[i] < f[j]

AllRead == wire = <<>> /\ pending = <<>>

\* "A CRC or framing error on one frame is surfaced but does not poison the
\* decoder - subsequent frames still decode": every message sent whole is
\* delivered, in order, whatever was damaged around it, wherever the stream is
\* cut into reads and whatever comes between the packages of a payload.
StillDecodes == AllRead => Subsequence(sent, got)

\* As long as no payload of several packages was damaged, nothing else is
\* delivered: damaged frames yield no message, late or early.
NothingInvented == ~broken => IsPrefix(got, sent)

\* The comment in parse_ember: "Discard the run and resync at the next FIRST
\* package" - what is left of a payload that was discarded is not delivered.
ResyncsAtFirst ==
    damage = 0 => \A i \in 1..Len(pending) :
        pending[i].type = "EmberPayload" => pending[i].bytes \in Payload

===============================================================================
