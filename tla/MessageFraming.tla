---------------------------- MODULE MessageFraming ----------------------------
(***************************************************************************)
(* Messages split into packets and put together again:                     *)
(* OutgoingMessageStream (src/src/outgoing-message-stream.ts) on one side  *)
(* of the wire, IncomingMessageStream (src/src/incoming-message-stream.ts) *)
(* on the other, as MessageIO (src/src/message-io.ts) sets them up.        *)
(*                                                                         *)
(* A Message is a PassThrough stream; streams are modelled by what they    *)
(* hold and by when they ask their source to wait.  Bytes of a message are *)
(* numbered; a header is HeaderLength bytes, of which the first stands for *)
(* its fields.  An action is one callback, except that the loop of         *)
(* processBufferedData takes a step for each packet, before anything else  *)
(* happens at that side (waiting = "busy").                                *)
(***************************************************************************)
EXTENDS Integers, Sequences, FiniteSets

CONSTANTS
    NumMessages,        \* bound: the messages submitted
    MaxBytes,           \* bound: the bytes of a message
    HeaderLength,       \* HEADER_LENGTH
    PacketSizes,        \* packet sizes the peers agree on
    Reset,              \* messages with resetConnection
    OutHighWaterMark,   \* packets the outgoing stream holds before it says to wait
    InHighWaterMark     \* bytes an incoming message holds before it does

ASSUME SizeAssumption ==
    /\ NumMessages \in Nat /\ MaxBytes \in Nat /\ HeaderLength \in Nat \ {0}
    /\ PacketSizes \subseteq Nat /\ \A s \in PacketSizes : s > HeaderLength
    /\ OutHighWaterMark \in Nat \ {0} /\ InHighWaterMark \in Nat \ {0}
    /\ Reset \subseteq Nat

\* in the order in which they are submitted
Messages == 1..NumMessages

VARIABLES
    \* each outgoing Message: bytes written to it, bytes it has emitted, whether
    \* it has been ended, its ignore flag
    written, emitted, ended, ignore,
    \* OutgoingMessageStream
    packetSize,
    currentMessage,     \* 0 for undefined
    paused,             \* currentMessage is paused
    length,             \* of _write: the data of a packet
    packetNumber, bl,
    packets,            \* history: the packets pushed
    piped,              \* how many of them have been read
    \* the wire, and IncomingMessageStream
    wire, chunks,       \* bytes under way; this.bl of the incoming stream
    waiting,            \* what processBufferedData waits for
    incoming,           \* currentMessage: 0 for undefined
    \* the messages it has pushed: bytes buffered, read by the consumer, end()
    \* called, and 'end' emitted
    inBuffer, got, complete, over

outVars == <<written, emitted, ended, ignore, packetSize, currentMessage, paused,
             length, packetNumber, bl, packets, piped>>
inVars  == <<chunks, waiting, incoming, inBuffer, got, complete, over>>
vars    == <<outVars, wire, inVars>>

Waits == {"chunk", "busy", "end", "drain", "failed"}

TypeOK ==
    /\ written \in [Messages -> 0..MaxBytes] /\ emitted \in [Messages -> 0..MaxBytes]
    /\ ended \subseteq Messages /\ ignore \subseteq Messages
    /\ packetSize \in PacketSizes /\ length \in Nat
    /\ currentMessage \in Messages \cup {0} /\ incoming \in Messages \cup {0}
    /\ paused \in BOOLEAN /\ waiting \in Waits
    /\ packetNumber \in Nat /\ piped \in 0..Len(packets)
    /\ \A k \in DOMAIN bl : bl[k] \in 1..MaxBytes
    /\ inBuffer \in [Messages -> Seq(1..MaxBytes)] /\ got \in [Messages -> Seq(1..MaxBytes)]
    /\ complete \subseteq Messages /\ over \subseteq complete

Init ==
    /\ written = [m \in Messages |-> 0] /\ emitted = written
    /\ ended = {} /\ ignore = {}
    /\ packetSize \in PacketSizes /\ currentMessage = 0 /\ paused = FALSE
    /\ length = 0 /\ packetNumber = 0 /\ bl = <<>> /\ packets = <<>> /\ piped = 0
    /\ wire = <<>> /\ chunks = <<>> /\ waiting = "chunk" /\ incoming = 0
    /\ inBuffer = [m \in Messages |-> <<>>] /\ got = inBuffer
    /\ complete = {} /\ over = {}

-----------------------------------------------------------------------------
(* The program writes messages *)

\* Messages whose last packet has been pushed
Sent == {packets[k].message : k \in {j \in DOMAIN packets : packets[j].last}}

\* Payload is written to a message, at any time until it ends.
WriteData(m) ==
    /\ m \notin ended
    /\ \E n \in written[m]..MaxBytes :
          n > written[m] /\ written' = [written EXCEPT ![m] = n]
    /\ UNCHANGED <<emitted, ended, ignore, packetSize, currentMessage, paused, length,
                   packetNumber, bl, packets, piped, wire, inVars>>

EndMessage(m) ==
    /\ m \notin ended
    /\ ended' = ended \cup {m}
    /\ UNCHANGED <<written, emitted, ignore, packetSize, currentMessage, paused, length,
                   packetNumber, bl, packets, piped, wire, inVars>>

\* A cancel or a failing payload: the ignore bit is set and the message ended.
IgnoreMessage(m) ==
    /\ m \notin ignore \cup Sent
    /\ ignore' = ignore \cup {m} /\ ended' = ended \cup {m}
    /\ UNCHANGED <<written, emitted, packetSize, currentMessage, paused, length,
                   packetNumber, bl, packets, piped, wire, inVars>>

\* An environment change announces a packet size.
PacketSize(s) ==
    /\ packetSize' = s /\ s # packetSize
    /\ UNCHANGED <<written, emitted, ended, ignore, currentMessage, paused, length,
                   packetNumber, bl, packets, piped, wire, inVars>>

-----------------------------------------------------------------------------
(* OutgoingMessageStream *)

Packet(m, number, last, data) ==
    [message |-> m, id |-> number % 256, last |-> last, ignore |-> last /\ m \in ignore,
     reset |-> m \in Reset, data |-> data, limit |-> length]

\* _write is given the next message once the one before has called back.
Write(m) ==
    /\ currentMessage = 0
    /\ m \notin Sent /\ \A k \in Messages : k < m => k \in Sent
    /\ currentMessage' = m /\ paused' = FALSE
    /\ length' = packetSize - HeaderLength
    /\ packetNumber' = 0
    /\ UNCHANGED <<written, emitted, ended, ignore, packetSize, bl, packets, piped, wire,
                   inVars>>

\* How many packets the bytes buffered make: a full rest is kept for the last.
FullPacketsEager(bytes) == bytes \div length            \* fault: none is kept
FullPackets(bytes) == IF bytes = 0 THEN 0 ELSE (bytes - 1) \div length

\* Whether push says to wait, with n packets more
PushSaysWait(n) == Len(packets) + n - piped >= OutHighWaterMark

\* 'data' of the current message: n of its bytes, dropped if it is ignored
Data(m, n) == IF m \in ignore THEN <<>> ELSE [k \in 1..n |-> emitted[m] + k]

MessageData(n) ==
    LET m    == currentMessage
        all  == bl \o Data(m, n)
        full == FullPackets(Len(all))
    IN  /\ m # 0 /\ ~paused /\ n \in 1..(written[m] - emitted[m])
        /\ emitted' = [emitted EXCEPT ![m] = @ + n]
        /\ packets' = packets \o [k \in 1..full |->
                          Packet(m, packetNumber + k, FALSE,
                                 SubSeq(all, (k - 1) * length + 1, k * length))]
        /\ packetNumber' = packetNumber + full
        /\ bl' = SubSeq(all, full * length + 1, Len(all))
        /\ paused' = (full > 0 /\ PushSaysWait(full))
        /\ UNCHANGED <<written, ended, ignore, packetSize, currentMessage, length, piped,
                       wire, inVars>>

\* 'end' of the current message: the last packet takes what is left.
LastPacketUnmarked(m, data) ==                          \* fault: no ignore bit
    [Packet(m, packetNumber + 1, TRUE, data) EXCEPT !.ignore = FALSE]
LastPacket(m, data) == Packet(m, packetNumber + 1, TRUE, data)

BufferOnceSentKept == bl                                \* fault: not consumed
BufferOnceSent == <<>>

MessageEnd ==
    /\ currentMessage # 0 /\ ~paused
    /\ currentMessage \in ended /\ emitted[currentMessage] = written[currentMessage]
    /\ packets' = Append(packets, LastPacket(currentMessage, bl))
    /\ packetNumber' = packetNumber + 1
    /\ bl' = BufferOnceSent /\ currentMessage' = 0
    /\ UNCHANGED <<written, emitted, ended, ignore, packetSize, paused, length, piped,
                   wire, inVars>>

\* The socket reads a packet; with room again, _read resumes the message.
ReadResumesNot == paused                                \* fault: it does not
ReadResumes == IF PushSaysWait(-1) THEN paused ELSE FALSE

\* length of the header; a broken one is shorter than a header.
HeaderBytes(p, len) ==
    [k \in 1..HeaderLength |-> [length |-> len, last |-> p.last, part |-> k]]

Pipe(broken) ==
    LET p == packets[piped + 1]
    IN  /\ piped < Len(packets)
        /\ piped' = piped + 1
        /\ paused' = ReadResumes
        /\ wire' = wire \o HeaderBytes(p, IF broken THEN HeaderLength - 1
                                          ELSE HeaderLength + Len(p.data)) \o p.data
        /\ UNCHANGED <<written, emitted, ended, ignore, packetSize, currentMessage,
                       length, packetNumber, bl, packets, inVars>>

-----------------------------------------------------------------------------
(* IncomingMessageStream *)

\* _transform: any number of the bytes under way arrive in one chunk.
Transform(n) ==
    /\ waiting = "chunk" /\ n \in 1..Len(wire)
    /\ chunks' = chunks \o SubSeq(wire, 1, n)
    /\ wire' = SubSeq(wire, n + 1, Len(wire))
    /\ waiting' = "busy"
    /\ UNCHANGED <<outVars, incoming, inBuffer, got, complete, over>>

\* processBufferedData calls back: too little for a packet, or no packet.
HaveHeader == Len(chunks) >= HeaderLength
HavePacket == HaveHeader /\ Len(chunks) >= chunks[1].length

CallBack ==
    /\ waiting = "busy"
    /\ IF HaveHeader /\ chunks[1].length < HeaderLength
       THEN waiting' = "failed"
       ELSE ~HavePacket /\ waiting' = "chunk"
    /\ UNCHANGED <<outVars, wire, chunks, incoming, inBuffer, got, complete, over>>

\* The message a packet belongs to: the current one, or the next.
Target == IF incoming # 0 THEN incoming ELSE Cardinality(complete) + 1

\* What follows a packet: wait for its message to be read, or to be drained,
\* or go on.
AfterPacket(header, held) ==
    CASE header.last -> "end"
      [] ~header.last /\ held >= InHighWaterMark -> "drain"
      [] OTHER -> "busy"

ProcessPacket ==
    LET header == chunks[1]
        data   == SubSeq(chunks, HeaderLength + 1, header.length)
    IN  /\ waiting = "busy" /\ HavePacket /\ header.length >= HeaderLength
        /\ chunks' = SubSeq(chunks, header.length + 1, Len(chunks))
        /\ incoming' = Target
        /\ inBuffer' = [inBuffer EXCEPT ![Target] = @ \o data]
        /\ complete' = IF header.last THEN complete \cup {Target} ELSE complete
        /\ waiting' = AfterPacket(header, Len(inBuffer[Target]) + Len(data))
        /\ UNCHANGED <<outVars, wire, got, over>>

\* The consumer reads what a message holds, which drains it.
AfterDrainFlowing ==                                    \* fault: no such state
    IF waiting = "drain" THEN "flowing" ELSE waiting
AfterDrain == IF waiting = "drain" THEN "busy" ELSE waiting

ReadData(m) ==
    /\ waiting # "busy" /\ inBuffer[m] # <<>>
    /\ got' = [got EXCEPT ![m] = @ \o inBuffer[m]]
    /\ inBuffer' = [inBuffer EXCEPT ![m] = <<>>]
    /\ waiting' = AfterDrain
    /\ UNCHANGED <<outVars, wire, chunks, incoming, complete, over>>

\* 'end' of a message that has been read: the next may begin.
IncomingEnd(m) ==
    /\ waiting # "busy" /\ m \in complete \ over /\ inBuffer[m] = <<>>
    /\ over' = over \cup {m}
    /\ incoming' = 0
    /\ waiting' = IF waiting = "end" THEN "busy" ELSE waiting
    /\ UNCHANGED <<outVars, wire, chunks, inBuffer, got, complete>>

-----------------------------------------------------------------------------
Outgoing ==
    \/ \E m \in Messages : Write(m)
    \/ \E n \in 1..MaxBytes : MessageData(n)
    \/ MessageEnd

Next ==
    \/ \E m \in Messages : WriteData(m) \/ EndMessage(m) \/ IgnoreMessage(m)
    \/ \E s \in PacketSizes : PacketSize(s)
    \/ Outgoing
    \/ \E broken \in BOOLEAN : Pipe(broken)
    \/ \E n \in 1..Len(wire) : Transform(n)
    \/ CallBack \/ ProcessPacket
    \/ \E m \in Messages : ReadData(m) \/ IncomingEnd(m)

Spec == Init /\ [][Next]_vars

\* Node.js calls back, the socket takes packets and delivers bytes, and the
\* consumer of a message reads it.  The program need not write or end anything.
Fairness ==
    /\ WF_vars(Outgoing) /\ WF_vars(Pipe(FALSE))
    /\ WF_vars(\E n \in 1..Len(wire) : Transform(n))
    /\ WF_vars(CallBack \/ ProcessPacket)
    /\ \A m \in Messages : WF_vars(ReadData(m) \/ IncomingEnd(m))

FairSpec == Spec /\ Fairness

-----------------------------------------------------------------------------
(* Properties *)

Channel == INSTANCE MessageChannel WITH ignored <- ignore

\* However a message is written, split, delayed and cut into chunks, and
\* whatever follows it on the wire, its reader gets the bytes written to it, in
\* order, and the next message only after it; nothing but an ignored message
\* is cut short.
ImplementsChannel == Channel!Spec

\* A message whose payload did not reach the wire in full says so in its last
\* packet: the server would otherwise execute half a request
\* (OutgoingMessageStream drops data once message.ignore is set).
BytesOf(m) ==
    {k \in 1..MaxBytes : \E j \in DOMAIN packets :
        packets[j].message = m /\ \E d \in DOMAIN packets[j].data : packets[j].data[d] = k}
TruncatedIsMarked ==
    \A j \in DOMAIN packets :
        packets[j].last /\ BytesOf(packets[j].message) # 1..written[packets[j].message]
            => packets[j].ignore

\* The packets of a message are consecutive, numbered from 1, all full but the
\* last, which is empty only if the message is; no other bears the last bit.
\* A packet size that is agreed on meanwhile is for the next message.
WellPacked ==
    \A j \in DOMAIN packets :
        LET p == packets[j]
            first == j = 1 \/ packets[j - 1].last
        IN  /\ p.id = IF first THEN 1 ELSE (packets[j - 1].id + 1) % 256
            /\ ~first => /\ packets[j - 1].message = p.message
                         /\ packets[j - 1].limit = p.limit
                         /\ packets[j - 1].reset = p.reset
            /\ ~p.last => Len(p.data) = p.limit
            /\ p.last => Len(p.data) <= p.limit
            /\ p.last /\ ~first => p.data # <<>>

\* A message that is complete arrives, unless one before it is not complete
\* or the stream fails: no pause is left without a resume, no wait without the
\* event that ends it.
Arrives ==
    \A m \in Messages :
        1..m \subseteq ended ~> m \in over \/ waiting = "failed"

=============================================================================
