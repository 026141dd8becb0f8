--------------------------- MODULE DecoderProofs ----------------------------
(* Proofs about the decoders, for datagrams of any length, any sets,       *)
(* templates and samples in them and any header fields.                    *)
EXTENDS Decoders, Integers, Sequences, TLAPS

-----------------------------------------------------------------------------
(* sFlow. *)

(* The packet decoder ends well, with an error, or in a panic. *)
Ends == {"ok", "error", "panic"}
PacketType == [data : Int, layers : SUBSET {"L2", "L3", "L4"}, ether : S!EtherTypes \cup {"none"}, end : Ends]

(* A layer that is decoded takes its bytes; one that is too short fails. *)
LEMMA LayerType ==
    ASSUME NEW p \in PacketType, NEW name \in {"L2", "L3", "L4"}, NEW least \in Int, NEW hlen \in Int
    PROVE  S!Layer(p, name, least, hlen) \in PacketType
<1>1. CASE p.end # "ok" \/ p.data < least
    BY <1>1 DEF S!Layer, PacketType, Ends
<1>2. CASE ~(p.end # "ok" \/ p.data < least)
    <2> DEFINE d == p.data - hlen
               y == p.layers \cup {name}
    <2>1. d \in Int /\ y \in SUBSET {"L2", "L3", "L4"}
        BY DEF PacketType
    <2>2. S!Layer(p, name, least, hlen) = [p EXCEPT !.data = d, !.layers = y]
        BY Zenon, <1>2 DEF S!Layer
    <2> HIDE DEF d, y
    <2>3. [p EXCEPT !.data = d, !.layers = y] \in PacketType
        BY Zenon, <2>1 DEF PacketType
    <2>4. QED
        BY Zenon, <2>2, <2>3
<1> QED
    BY Zenon, <1>1, <1>2

(* What a layer without a decoder leaves. *)
LEMMA NoLayerType ==
    ASSUME NEW p \in PacketType
    PROVE  [p EXCEPT !.end = IF p.end = "ok" THEN "error" ELSE p.end] \in PacketType
BY DEF PacketType, Ends

(* The network layer, and the transport layer behind it. *)
LEMMA NetworkType ==
    ASSUME NEW p \in PacketType, NEW ether, NEW prot
    PROVE  S!Network(p, ether, prot) \in PacketType
<1>1. S!decodeIPv4Header(p) \in PacketType /\ S!decodeIPv6Header(p) \in PacketType
    BY LayerType DEF S!decodeIPv4Header, S!decodeIPv6Header
<1>2. ASSUME NEW q \in PacketType PROVE S!decodeNextLayer(q, prot) \in PacketType
    <2>1. S!decodeICMP(q) \in PacketType /\ S!decodeTCP(q) \in PacketType /\ S!decodeUDP(q) \in PacketType
        BY <1>2, LayerType DEF S!decodeICMP, S!decodeTCP, S!decodeUDP
    <2>2. QED
        BY <1>2, <2>1, NoLayerType DEF S!decodeNextLayer
<1> QED
    BY <1>1, <1>2, NoLayerType DEF S!Network

(* The decoder of a sampled packet ends in one of these ways. *)
LEMMA DecoderEnds ==
    ASSUME NEW n \in Int, NEW protocol, NEW frame \in S!Frames
    PROVE  S!Decoder(n, protocol, frame).end \in Ends
<1>1. S!NewPacket(n) \in PacketType
    BY DEF S!NewPacket, PacketType, Ends
<1>2. S!decodeEthernet(S!NewPacket(n), frame) \in PacketType
    <2> DEFINE p == S!NewPacket(n)
    <2>1. p \in PacketType
        BY <1>1
    <2> HIDE DEF p
    <2>2. frame.ether \in S!EtherTypes /\ frame.inner \in S!EtherTypes
        BY DEF S!Frames
    <2>3. [p EXCEPT !.end = "panic"] \in PacketType /\ [p EXCEPT !.data = p.data - 4] \in PacketType
        <3>1. p.data - 4 \in Int
            BY <2>1 DEF PacketType
        <3>2. \A d \in Int : [p EXCEPT !.data = d] \in PacketType
            BY <2>1 DEF PacketType
        <3>3. [p EXCEPT !.end = "panic"] \in PacketType
            BY Zenon, <2>1 DEF PacketType, Ends
        <3>4. QED
            BY Zenon, <3>1, <3>2, <3>3
    <2>4. \A q \in PacketType, e \in S!EtherTypes : [q EXCEPT !.ether = e] \in PacketType
        BY DEF PacketType
    <2>5. S!Layer([p EXCEPT !.data = p.data - 4], "L2", 14, 14) \in PacketType /\ S!Layer(p, "L2", 14, 14) \in PacketType
        <3>1. \A q \in PacketType : S!Layer(q, "L2", 14, 14) \in PacketType
            BY LayerType
        <3>2. QED
            BY Zenon, <2>1, <2>3, <3>1
    <2>6. S!decodeEthernet(p, frame) \in PacketType
        BY <2>2, <2>3, <2>4, <2>5 DEF S!decodeEthernet
    <2>7. QED
        BY <2>6 DEF p
<1>3. S!Decoder(n, protocol, frame) \in PacketType
    BY Zenon, <1>1, <1>2, NetworkType DEF S!Decoder
<1> QED
    BY <1>3 DEF PacketType

(* The numbers of the sFlow decoder.  left counts the samples to come,     *)
(* unless there are too many of them.                                      *)
SFlowType ==
    /\ stotal \in Int /\ pos \in Int /\ end \in Int /\ declared \in Int
    /\ left \in Int /\ Samples \in Int /\ Counters \in Int /\ skipped \in Int /\ counted \in Int

(* The samples met and those to come are what the header says. *)
SamplesAddUp ==
    /\ spc = "header" => Samples = 0 /\ Counters = 0 /\ skipped = 0
    /\ spc = "decoded" => left = 0
    /\ \/ left = S!Many /\ counted = S!Many
       \/ left < S!Many /\ left + (Samples + Counters + skipped) = counted

(* With true lengths the decoder is where the exporter's lengths say,      *)
(* until the datagram ends or an expanded flow sample is decoded.          *)
Followed ==
    /\ spc = "sample" /\ honest /\ ~expanded => pos = end \/ pos >= stotal
    /\ spc = "record" /\ honest /\ ~expanded => pos = declared \/ pos >= stotal

SFlowInv == SFlowType /\ SamplesAddUp /\ Followed

(* Initially nothing is read. *)
LEMMA SFlowInit == S!Init => SFlowInv
BY DecodersAssumption DEF S!Init, S!SFlowAssumption, S!Many, SFlowInv, SFlowType, SamplesAddUp, Followed

(* The header, and the ends of the loops. *)
LEMMA SFlowHeader == SFlowInv /\ S!sfHeaderDecode => SFlowInv'
<1> SUFFICES ASSUME SFlowInv, S!sfHeaderDecode PROVE SFlowInv'
    OBVIOUS
<1>1. PICK ipLen \in {4, 16}, n \in SampleCounts \cup {S!Many} :
         pos' = 24 + ipLen /\ left' = n /\ counted' = n /\ S!Follow(24 + ipLen, 0, TRUE)
    BY Zenon DEF S!sfHeaderDecode
<1>2. spc = "header" /\ spc' = "sample" /\ UNCHANGED <<stotal, Samples, Counters, skipped>>
    BY Zenon DEF S!sfHeaderDecode
<1>3. n \in Int /\ (n = S!Many \/ n < S!Many) /\ pos' = end'
    BY <1>1, DecodersAssumption DEF S!SFlowAssumption, S!Many, S!Follow
<1>4. SFlowType'
    BY <1>1, <1>2, <1>3 DEF SFlowInv, SFlowType, S!Follow
<1>5. SamplesAddUp'
    BY <1>1, <1>2, <1>3 DEF SFlowInv, SFlowType, SamplesAddUp
<1>6. Followed'
    BY Zenon, <1>2, <1>3 DEF Followed
<1> QED
    BY Zenon, <1>4, <1>5, <1>6 DEF SFlowInv

(* An error, the end of the samples and the worker's step leave it. *)
LEMMA SFlowStops ==
    SFlowInv /\ (S!sfHeaderFails \/ S!Done \/ S!SampleFails \/ S!RecordFails \/ S!Publish) => SFlowInv'
<1> SUFFICES ASSUME SFlowInv, S!sfHeaderFails \/ S!Done \/ S!SampleFails \/ S!RecordFails \/ S!Publish
             PROVE  SFlowInv'
    OBVIOUS
<1>1. /\ spc' \notin {"header", "sample", "record"} /\ (spc' = "decoded" => left = 0)
      /\ UNCHANGED <<stotal, pos, end, declared, left, Samples, Counters, skipped, counted, honest,
                     expanded>>
    BY DEF S!sfHeaderFails, S!Done, S!SampleFails, S!RecordFails, S!Publish, S!Fail, S!loopVars, S!ghosts
<1> QED
    BY Zenon, <1>1 DEF SFlowInv, SFlowType, SamplesAddUp, Followed

(* One sample fewer is to come. *)
LEMMA OneSampleLess ==
    ASSUME SFlowInv, left' = S!Less(left), spc' = "sample", UNCHANGED counted,
           Samples' \in Int, Counters' \in Int, skipped' \in Int,
           Samples' + Counters' + skipped' = Samples + Counters + skipped + 1
    PROVE  SamplesAddUp' /\ left' \in Int
<1> DEFINE x == Samples + Counters + skipped
           y == Samples' + Counters' + skipped'
<1>1. left \in Int /\ counted \in Int /\ x \in Int
    BY DEF SFlowInv, SFlowType
<1>2. y = x + 1
    OBVIOUS
<1>3. (left = S!Many /\ counted = S!Many) \/ (left < S!Many /\ left + x = counted)
    BY Zenon DEF SFlowInv, SamplesAddUp
<1> HIDE DEF x, y
<1>4. /\ left' \in Int
      /\ ((left' = S!Many /\ counted = S!Many) \/ (left' < S!Many /\ left' + y = counted))
    BY <1>1, <1>2, <1>3 DEF S!Less, S!Many
<1> QED
    BY Zenon, <1>4 DEF SamplesAddUp, y

(* A sample is skipped by its length. *)
LEMMA SFlowSkipped ==
    ASSUME SFlowInv, NEW f, NEW l \in SampleLengths, S!SampleSkipped(f, l)
    PROVE  SFlowInv'
<1>1. /\ spc = "sample" /\ left # 0 /\ pos' = pos + 8 + l /\ S!Follow(pos + 8 + l, 0, honest)
      /\ left' = S!Less(left) /\ skipped' = skipped + 1
      /\ UNCHANGED <<stotal, spc, counted, Samples, Counters>>
    BY Zenon DEF S!SampleSkipped
<1>2. l \in Int
    BY DecodersAssumption DEF S!SFlowAssumption
<1>3. SamplesAddUp' /\ left' \in Int
    BY <1>1, OneSampleLess DEF SFlowInv, SFlowType
<1>4. SFlowType'
    BY <1>1, <1>2, <1>3 DEF SFlowInv, SFlowType, S!Follow
<1>5. Followed'
    BY Zenon, <1>1 DEF Followed, S!Follow
<1> QED
    BY Zenon, <1>3, <1>4, <1>5 DEF SFlowInv

(* A sample begins: its records follow its fixed part. *)
LEMMA SFlowBegins ==
    ASSUME SFlowInv, NEW f, NEW l \in SampleLengths, S!SampleBegins(f, l)
    PROVE  SFlowInv'
<1>1. /\ spc = "sample" /\ spc' = "record" /\ left # 0 /\ f \in DOMAIN S!SampleHeader
      /\ pos' = pos + 8 + S!SampleHeader[f]
      /\ S!Follow(pos + 8 + l, pos + 8 + S!WireHeader[f], honest /\ l >= S!WireHeader[f])
      /\ expanded' = (expanded \/ f = S!ExpandedFlowSample)
      /\ UNCHANGED <<stotal, left, counted, Samples, Counters, skipped>>
    BY Zenon DEF S!SampleBegins, S!loopVars
<1>2. /\ l \in Int /\ S!SampleHeader[f] \in Int /\ S!WireHeader[f] \in Int
      /\ f # S!ExpandedFlowSample => S!WireHeader[f] = S!SampleHeader[f]
    BY <1>1, DecodersAssumption
    DEF S!SFlowAssumption, S!SampleHeader, S!FlowSampleHeader, S!CounterSampleHeader,
        S!ExpandedFlowSampleHeader, S!WireHeader, S!ExpandedFlowSample
<1>3. SFlowType'
    BY <1>1, <1>2 DEF SFlowInv, SFlowType, S!Follow
<1>4. SamplesAddUp'
    BY Zenon, <1>1 DEF SFlowInv, SamplesAddUp
<1>5. Followed'
    <2>1. CASE f = S!ExpandedFlowSample
        BY Zenon, <1>1, <2>1 DEF Followed
    <2>2. CASE f # S!ExpandedFlowSample
        BY Zenon, <1>1, <1>2, <2>2 DEF Followed, S!Follow
    <2>3. QED
        BY Zenon, <2>1, <2>2
<1> QED
    BY Zenon, <1>3, <1>4, <1>5 DEF SFlowInv

(* A sample ends: the next one begins where it ends. *)
LEMMA SFlowEnds == SFlowInv /\ S!SampleEnds => SFlowInv'
<1> SUFFICES ASSUME SFlowInv, S!SampleEnds PROVE SFlowInv'
    OBVIOUS
<1>1. /\ spc = "record" /\ spc' = "sample" /\ left' = S!Less(left)
      /\ \/ Counters' = Counters + 1 /\ UNCHANGED Samples
         \/ Samples' = Samples + 1 /\ UNCHANGED Counters
      /\ S!Follow(end, 0, honest /\ declared = end)
      /\ UNCHANGED <<stotal, pos, counted, skipped, expanded>>
    BY Zenon DEF S!SampleEnds
<1>2. /\ Samples' \in Int /\ Counters' \in Int /\ skipped' \in Int
      /\ Samples' + Counters' + skipped' = Samples + Counters + skipped + 1
    BY <1>1 DEF SFlowInv, SFlowType
<1>3. SamplesAddUp' /\ left' \in Int
    BY Zenon, <1>1, <1>2, OneSampleLess
<1>4. SFlowType'
    BY <1>1, <1>2, <1>3 DEF SFlowInv, SFlowType, S!Follow
<1>5. Followed'
    BY Zenon, <1>1 DEF SFlowInv, Followed, S!Follow
<1> QED
    BY Zenon, <1>3, <1>4, <1>5 DEF SFlowInv

(* A record of which n bytes are read: those that its length says, or all  *)
(* that are left of the datagram.                                          *)
LEMMA SFlowRecord ==
    ASSUME SFlowInv, NEW l \in RecordLengths, NEW n \in Int, NEW wire \in Int,
           S!Unread >= 8, n = wire \/ pos + 8 + n >= stotal,
           S!Record(l, n, wire), spc' \in {"record", "error", "panic"}
    PROVE  SFlowInv'
<1>1. /\ spc = "record" /\ pos' = pos + 8 + n
      /\ S!Follow(end, declared + 8 + l, honest /\ l = wire /\ declared + 8 + l <= end)
      /\ UNCHANGED <<stotal, left, counted, Samples, Counters, skipped, expanded>>
    BY Zenon DEF S!Record, S!loopVars
<1>2. l \in Int
    BY DecodersAssumption DEF S!SFlowAssumption
<1>3. SFlowType'
    BY <1>1, <1>2 DEF SFlowInv, SFlowType, S!Follow
<1>4. SamplesAddUp'
    BY Zenon, <1>1 DEF SFlowInv, SamplesAddUp
<1>5. Followed'
    <2>1. CASE honest' = FALSE \/ expanded
        BY Zenon, <1>1, <2>1 DEF Followed
    <2>2. CASE honest' # FALSE /\ ~expanded
        <3>1. honest /\ l = wire /\ declared' = declared + 8 + l
            BY Zenon, <1>1, <2>2 DEF S!Follow
        <3>2. pos = declared \/ pos >= stotal
            BY Zenon, <1>1, <2>2, <3>1 DEF SFlowInv, Followed
        <3>3. pos \in Int /\ stotal \in Int /\ declared \in Int /\ stotal - pos >= 8
            BY Zenon DEF SFlowInv, SFlowType, S!Unread
        <3>4. pos' = declared' \/ pos' >= stotal'
            BY <1>1, <3>1, <3>2, <3>3
        <3>5. QED
            BY Zenon, <1>1, <3>4 DEF Followed
    <2>3. QED
        BY Zenon, <2>1, <2>2
<1> QED
    BY Zenon, <1>3, <1>4, <1>5 DEF SFlowInv

(* Every kind of record is such a record. *)
LEMMA SFlowRecords ==
    ASSUME SFlowInv, NEW l \in RecordLengths,
           \/ S!UnknownRecord(l) \/ S!ExtRouter(l)
           \/ \E c \in DOMAIN S!CounterSizes : S!CounterRecord(c, l)
           \/ \E out \in {1, 2} : S!ExtSwitch(l, out)
    PROVE  SFlowInv'
<1>1. l \in Nat /\ stotal \in Int /\ pos \in Int
    BY DecodersAssumption DEF S!SFlowAssumption, SFlowInv, SFlowType
<1>2. ASSUME NEW n \in Nat, S!Decoded(l, n) PROVE SFlowInv'
    <2>1. S!Record(l, n, n) /\ spc' = spc /\ S!Unread >= 8 + n
        BY Zenon, <1>2 DEF S!Decoded
    <2>2. S!Unread >= 8 /\ n \in Int /\ spc = "record"
        BY <1>1, <2>1 DEF S!Unread, S!Record
    <2>3. QED
        BY Zenon, <2>1, <2>2, SFlowRecord
<1>3. CASE S!UnknownRecord(l)
    <2>1. S!Record(l, l, l) /\ spc' = spc /\ S!Unread >= 8 /\ l \in Int /\ spc = "record"
        BY <1>1, <1>3 DEF S!UnknownRecord, S!Record
    <2>2. QED
        BY Zenon, <2>1, SFlowRecord
<1>4. CASE S!ExtRouter(l)
    <2>1. CASE l \in 8..11
        <3>1. S!Unread >= l /\ S!Record(l, l - 8, 16) /\ spc' = "panic" /\ spc = "record"
            BY Zenon, <1>4, <2>1 DEF S!ExtRouter, S!Record
        <3>2. /\ pos' = pos + 8 + (l - 8)
              /\ S!Follow(end, declared + 8 + l, honest /\ l = 16 /\ declared + 8 + l <= end)
              /\ UNCHANGED <<stotal, left, counted, Samples, Counters, skipped>>
            BY Zenon, <3>1 DEF S!Record, S!loopVars
        <3>3. SFlowType'
            BY <1>1, <3>2 DEF SFlowInv, SFlowType, S!Follow
        <3>4. SamplesAddUp' /\ Followed'
            BY Zenon, <3>1, <3>2 DEF SFlowInv, SamplesAddUp, Followed
        <3>5. QED
            BY Zenon, <3>3, <3>4 DEF SFlowInv
    <2>2. CASE l \notin 8..11
        <3>1. l >= 12 /\ S!Unread >= 8 + l /\ S!Record(l, l, l) /\ spc' = spc /\ spc = "record"
            BY Zenon, <1>4, <2>2 DEF S!ExtRouter, S!Record
        <3>2. S!Unread >= 8 /\ l \in Int
            BY <1>1, <3>1 DEF S!Unread
        <3>3. QED
            BY Zenon, <3>1, <3>2, SFlowRecord
    <2>3. QED
        BY Zenon, <2>1, <2>2
<1>5. ASSUME NEW c \in DOMAIN S!CounterSizes, S!CounterRecord(c, l) PROVE SFlowInv'
    <2>1. S!CounterSizes[c] \in Nat
        BY DEF S!CounterSizes, S!decodeGenericIntCounters, S!decodeEthIntCounters,
               S!decodeTokenRingCounters, S!decodeVGCounters, S!decodeVlanCounters,
               S!decodedProcessorCounters
    <2>2. QED
        BY Zenon, <1>2, <1>5, <2>1 DEF S!CounterRecord
<1>6. ASSUME NEW out \in {1, 2}, S!ExtSwitch(l, out) PROVE SFlowInv'
    <2>1. 16 \in Nat
        OBVIOUS
    <2>2. QED
        BY Zenon, <1>2, <1>6, <2>1 DEF S!ExtSwitch
<1> QED
    BY Zenon, <1>3, <1>4, <1>5, <1>6

(* The header of a sampled packet, which the datagram may cut short, is    *)
(* such a record, too.                                                     *)
LEMMA RawHeaderRead ==
    ASSUME SFlowInv, NEW l \in RecordLengths, NEW n \in HeaderLengths,
           NEW protocol \in S!HeaderProtocols, NEW frame \in SampledFrames,
           S!RawHeader(l, n, protocol, frame)
    PROVE  /\ S!Unread >= 8 /\ spc' \in {"record", "error", "panic"}
           /\ \E m, w \in Int : m >= 0 /\ S!Record(l, m, w) /\ (m = w \/ pos + 8 + m >= stotal)
<1> DEFINE wire == 16 + n + ((4 - n) % 4)
           read == IF 16 + S!Padded(n) <= S!Unread - 8 THEN 16 + S!Padded(n) ELSE S!Unread - 8
<1>1. S!Unread > 24 /\ S!Record(l, read, wire)
    BY ZenonT(60) DEF S!RawHeader
<1>2. n \in Nat /\ n \in Int /\ frame \in S!Frames /\ pos \in Int /\ stotal \in Int
    <2>1. HeaderLengths \subseteq Nat /\ SampledFrames \subseteq S!Frames
        BY Zenon, DecodersAssumption DEF S!SFlowAssumption
    <2>2. pos \in Int /\ stotal \in Int /\ frame \in S!Frames /\ n \in Nat
        BY Zenon, <2>1 DEF SFlowInv, SFlowType
    <2>3. QED
        BY <2>2
<1>3. spc' \in {"record", "error", "panic"}
    <2> DEFINE ends == S!Decoder(n, protocol, frame).end
    <2>1. ends \in Ends
        BY Zenon, <1>2, DecoderEnds
    <2>2. spc' = IF ends = "ok" THEN "record" ELSE ends
        BY DEF S!RawHeader
    <2> HIDE DEF ends
    <2>3. QED
        BY Zenon, <2>1, <2>2 DEF Ends
<1>4. wire \in Int /\ read \in Int /\ read >= 0 /\ (read = wire \/ pos + 8 + read >= stotal) /\ S!Unread >= 8
    BY <1>1, <1>2 DEF S!Padded, S!Unread
<1> HIDE DEF read, wire
<1> QED
    BY Zenon, <1>1, <1>3, <1>4

(* It keeps the invariant. *)
LEMMA SFlowRawHeader ==
    ASSUME SFlowInv, NEW l \in RecordLengths, NEW n \in HeaderLengths,
           NEW protocol \in S!HeaderProtocols, NEW frame \in SampledFrames,
           S!RawHeader(l, n, protocol, frame)
    PROVE  SFlowInv'
BY Zenon, RawHeaderRead, SFlowRecord

(* Every step of SFDecode. *)
LEMMA SFlowStep == SFlowInv /\ S!Next => SFlowInv'
BY Zenon, SFlowHeader, SFlowStops, SFlowSkipped, SFlowBegins, SFlowEnds, SFlowRecords, SFlowRawHeader DEF S!Next

(* What is left of n bytes. *)
Rest(n) == IF n > 0 THEN n ELSE 0

(* What makes the loops of SFDecode end: a rank of two numbers, of which   *)
(* every step makes the first smaller, or keeps it and makes the second    *)
(* smaller.  The samples and records to come are no part of it: the        *)
(* numbers of them in the datagram may be any.  The first is the bytes     *)
(* ahead, the second tells the ways out of the loops apart.                *)
SFlowAhead ==
    CASE spc = "header" -> Rest(stotal)
      [] spc \in {"sample", "record"} -> Rest(stotal - pos)
      [] OTHER -> 0

SFlowStage ==
    CASE spc = "header" -> 4
      [] spc = "record" -> 3
      [] spc = "sample" -> 2
      [] spc = "decoded" -> 1
      [] OTHER -> 0

SFlowProgress ==
    /\ SFlowAhead \in Nat /\ SFlowStage \in Nat
    /\ SFlowAhead' < SFlowAhead \/ (SFlowAhead' = SFlowAhead /\ SFlowStage' < SFlowStage)

(* Bytes are read, or SFDecode leaves a loop. *)
LEMMA SamplesTaken ==
    ASSUME SFlowType, stotal' = stotal, pos' \in Int,
           \/ spc = "header" /\ spc' = "sample" /\ pos' >= 24
           \/ /\ spc \in {"sample", "record"} /\ S!Unread >= 8 /\ pos' >= pos + 8
              /\ spc' \in {"sample", "record", "error", "panic"}
           \/ spc \in {"header", "sample", "record"} /\ spc' = "error"
           \/ spc = "sample" /\ spc' = "decoded"
           \/ spc = "record" /\ spc' = "sample" /\ pos' = pos
           \/ spc = "decoded" /\ spc' = "end"
    PROVE  SFlowProgress
<1>1. stotal \in Int /\ pos \in Int
    BY Zenon DEF SFlowType
<1>2. SFlowAhead \in Nat /\ SFlowStage \in Nat
    BY <1>1 DEF SFlowAhead, SFlowStage, Rest
<1>3. CASE spc = "header" /\ spc' = "sample" /\ pos' >= 24
    BY <1>1, <1>2, <1>3 DEF SFlowProgress, SFlowAhead, SFlowStage, Rest
<1>4. CASE /\ spc \in {"sample", "record"} /\ S!Unread >= 8 /\ pos' >= pos + 8
           /\ spc' \in {"sample", "record", "error", "panic"}
    BY <1>1, <1>2, <1>4 DEF SFlowProgress, SFlowAhead, S!Unread, Rest
<1>5. CASE spc \in {"header", "sample", "record"} /\ spc' = "error"
    BY <1>1, <1>2, <1>5 DEF SFlowProgress, SFlowAhead, SFlowStage, Rest
<1>6. CASE spc = "sample" /\ spc' = "decoded"
    BY <1>1, <1>2, <1>6 DEF SFlowProgress, SFlowAhead, SFlowStage, Rest
<1>7. CASE spc = "record" /\ spc' = "sample" /\ pos' = pos
    BY <1>1, <1>2, <1>7 DEF SFlowProgress, SFlowAhead, SFlowStage, Rest
<1>8. CASE spc = "decoded" /\ spc' = "end"
    BY <1>1, <1>2, <1>8 DEF SFlowProgress, SFlowAhead, SFlowStage, Rest
<1> QED
    BY Zenon, <1>3, <1>4, <1>5, <1>6, <1>7, <1>8

(* Every record takes at least its type and its length. *)
LEMMA RecordsTaken ==
    ASSUME SFlowInv, NEW l \in RecordLengths,
           \/ S!UnknownRecord(l) \/ S!ExtRouter(l)
           \/ \E c \in DOMAIN S!CounterSizes : S!CounterRecord(c, l)
           \/ \E out \in {1, 2} : S!ExtSwitch(l, out)
           \/ \E n \in HeaderLengths, protocol \in S!HeaderProtocols, frame \in SampledFrames :
                S!RawHeader(l, n, protocol, frame)
    PROVE  /\ spc = "record" /\ spc' \in {"record", "error", "panic"} /\ stotal' = stotal
           /\ S!Unread >= 8 /\ pos' >= pos + 8
<1>1. l \in Nat /\ stotal \in Int /\ pos \in Int
    BY DecodersAssumption DEF S!SFlowAssumption, SFlowInv, SFlowType
<1>2. ASSUME NEW n \in Int, NEW wire, S!Record(l, n, wire), n >= 0
      PROVE  spc = "record" /\ stotal' = stotal /\ pos' >= pos + 8
    <2>1. spc = "record" /\ stotal' = stotal /\ pos' = pos + 8 + n
        BY Zenon, <1>2 DEF S!Record
    <2>2. QED
        BY <1>1, <1>2, <2>1
<1>3. ASSUME NEW n \in Nat, S!Decoded(l, n)
      PROVE  spc = "record" /\ spc' = "record" /\ stotal' = stotal /\ S!Unread >= 8 /\ pos' >= pos + 8
    <2>1. S!Record(l, n, n) /\ spc' = spc /\ S!Unread >= 8 + n
        BY Zenon, <1>3 DEF S!Decoded
    <2>2. n \in Int /\ n >= 0 /\ S!Unread >= 8
        BY <1>1, <2>1 DEF S!Unread
    <2>3. QED
        BY Zenon, <1>2, <2>1, <2>2
<1>4. CASE S!UnknownRecord(l)
    <2>1. S!Record(l, l, l) /\ spc' = spc /\ S!Unread >= 8 /\ l \in Int /\ l >= 0
        BY <1>1, <1>4 DEF S!UnknownRecord
    <2>2. QED
        BY Zenon, <1>2, <2>1
<1>5. CASE S!ExtRouter(l)
    <2>1. \/ l \in 8..11 /\ S!Unread >= l /\ S!Record(l, l - 8, 16) /\ spc' = "panic"
          \/ l >= 12 /\ S!Unread >= 8 + l /\ S!Record(l, l, l) /\ spc' = spc
        BY Zenon, <1>5 DEF S!ExtRouter
    <2>2. /\ S!Unread >= 8 /\ l \in Int /\ l - 8 \in Int
          /\ l >= 0 /\ l - 8 >= 0
        BY <1>1, <2>1 DEF S!Unread
    <2>3. QED
        BY Zenon, <1>2, <2>1, <2>2
<1>6. ASSUME NEW c \in DOMAIN S!CounterSizes, S!CounterRecord(c, l)
      PROVE  spc = "record" /\ spc' = "record" /\ stotal' = stotal /\ S!Unread >= 8 /\ pos' >= pos + 8
    <2>1. S!CounterSizes[c] \in Nat
        BY SMTT(30) DEF S!CounterSizes, S!decodeGenericIntCounters, S!decodeEthIntCounters,
               S!decodeTokenRingCounters, S!decodeVGCounters, S!decodeVlanCounters,
               S!decodedProcessorCounters
    <2>2. QED
        BY ZenonT(60), <1>3, <1>6, <2>1 DEF S!CounterRecord
<1>7. ASSUME NEW out \in {1, 2}, S!ExtSwitch(l, out)
      PROVE  spc = "record" /\ spc' = "record" /\ stotal' = stotal /\ S!Unread >= 8 /\ pos' >= pos + 8
    <2>1. 16 \in Nat
        OBVIOUS
    <2>2. QED
        BY Zenon, <1>3, <1>7, <2>1 DEF S!ExtSwitch
<1>8. ASSUME NEW n \in HeaderLengths, NEW protocol \in S!HeaderProtocols, NEW frame \in SampledFrames,
             S!RawHeader(l, n, protocol, frame)
      PROVE  /\ spc = "record" /\ spc' \in {"record", "error", "panic"} /\ stotal' = stotal
             /\ S!Unread >= 8 /\ pos' >= pos + 8
    <2>1. /\ S!Unread >= 8 /\ spc' \in {"record", "error", "panic"}
          /\ \E m, w \in Int : m >= 0 /\ S!Record(l, m, w)
        BY Zenon, <1>8, RawHeaderRead
    <2>2. QED
        BY Zenon, <1>2, <2>1
<1> QED
    BY Zenon, <1>4, <1>5, <1>6, <1>7, <1>8

(* sFlow. *)
LEMMA SFlowProgresses ==
    ASSUME SFlowInv, S!Next
    PROVE  SFlowProgress
<1>1. SFlowType /\ stotal \in Int /\ pos \in Int /\ pos' \in Int
    BY Zenon, SFlowStep DEF SFlowInv, SFlowType
<1>2. CASE S!sfHeaderDecode
    <2>1. PICK ipLen \in {4, 16} : pos' = 24 + ipLen
        BY Zenon, <1>2 DEF S!sfHeaderDecode
    <2>2. spc = "header" /\ spc' = "sample" /\ stotal' = stotal
        BY Zenon, <1>2 DEF S!sfHeaderDecode
    <2>3. pos' >= 24
        BY <2>1
    <2>4. QED
        BY Zenon, <1>1, <2>2, <2>3, SamplesTaken
<1>3. CASE S!sfHeaderFails \/ S!Done \/ S!SampleFails \/ S!SampleEnds \/ S!RecordFails \/ S!Publish
    <2>1. /\ UNCHANGED <<stotal, pos>>
          /\ \/ spc \in {"header", "sample", "record"} /\ spc' = "error"
             \/ spc = "sample" /\ spc' = "decoded"
             \/ spc = "record" /\ spc' = "sample"
             \/ spc = "decoded" /\ spc' = "end"
        BY Zenon, <1>3 DEF S!sfHeaderFails, S!Done, S!SampleFails, S!SampleEnds, S!RecordFails, S!Publish, S!Fail
    <2>2. QED
        BY Zenon, <1>1, <2>1, SamplesTaken
<1>4. ASSUME NEW f \in S!Formats, NEW l \in SampleLengths, S!SampleSkipped(f, l) \/ S!SampleBegins(f, l)
      PROVE  SFlowProgress
    <2>1. l \in Nat
        BY DecodersAssumption DEF S!SFlowAssumption
    <2>2. spc = "sample" /\ stotal' = stotal /\ spc' \in {"sample", "record"}
        BY Zenon, <1>4 DEF S!SampleSkipped, S!SampleBegins
    <2>3. \/ S!Unread >= 8 /\ pos' = pos + 8 + l
          \/ /\ f \in DOMAIN S!SampleHeader /\ S!Unread >= 8 + S!SampleHeader[f]
             /\ pos' = pos + 8 + S!SampleHeader[f]
        BY Zenon, <1>4 DEF S!SampleSkipped, S!SampleBegins
    <2>4. f \in DOMAIN S!SampleHeader => S!SampleHeader[f] \in Nat
        BY DEF S!SampleHeader, S!FlowSampleHeader, S!CounterSampleHeader, S!ExpandedFlowSampleHeader
    <2>5. S!Unread >= 8 /\ pos' >= pos + 8
        BY <1>1, <2>1, <2>3, <2>4 DEF S!Unread
    <2>6. QED
        BY Zenon, <1>1, <2>2, <2>5, SamplesTaken
<1>5. ASSUME NEW l \in RecordLengths,
             \/ S!UnknownRecord(l) \/ S!ExtRouter(l)
             \/ \E c \in DOMAIN S!CounterSizes : S!CounterRecord(c, l)
             \/ \E out \in {1, 2} : S!ExtSwitch(l, out)
             \/ \E n \in HeaderLengths, protocol \in S!HeaderProtocols, frame \in SampledFrames :
                  S!RawHeader(l, n, protocol, frame)
      PROVE  SFlowProgress
    BY Zenon, <1>1, <1>5, RecordsTaken, SamplesTaken
<1> QED
    BY Zenon, <1>2, <1>3, <1>4, <1>5 DEF S!Next

-----------------------------------------------------------------------------
(* IPFIX. *)

(* The number of fields of a template that are no scope fields. *)
Options(t) == (t.FieldCount - t.ScopeFieldCount) % I!U16

IPFIXTemplate ==
    [TemplateID : Nat, FieldCount : Nat, ScopeFieldCount : Nat,
     FieldSpecifiers : Seq(I!Specifiers), ScopeFieldSpecifiers : Seq(I!Specifiers)]

IPFIXReader ==
    /\ total \in Totals /\ total \in 0..(I!U16 - 1) /\ count \in 0..total
    /\ set \in [SetID : Int, Length : 0..(I!U16 - 1), start : Nat]
    /\ set.SetID \in SetIDs \cup {0} /\ set.Length \in SetLengths \cup {0} /\ set.start <= count

IPFIXValues ==
    /\ pc \in {"header", "sets", "set", "template", "data", "skip", "done"}
    /\ err \in {"nil", "nonfatal", "fatal"}
    /\ todo \in Nat /\ records \in 0..MaxRecords /\ decodeErrors \in BOOLEAN
    /\ rec \in [tr : IPFIXTemplate, fields : Nat] /\ tr \in IPFIXTemplate
    /\ mem \in [TemplateIDs -> IPFIXTemplate]
    /\ rpcChan \in Seq(Int) /\ Len(rpcChan) <= 1

(* Before the first set there is none. *)
IPFIXSets == (pc = "header" => set = I!NoSet) /\ I!SetsAligned

(* A template with n specifiers still to come: the scope fields come       *)
(* first, and each of them takes the place of the one before.              *)
Partial(t, n) ==
    /\ n <= t.ScopeFieldCount + Options(t)
    /\ n > Options(t) =>
         /\ t.FieldSpecifiers = <<>>
         /\ t.ScopeFieldSpecifiers = <<>> <=> n = t.ScopeFieldCount + Options(t)
    /\ n <= Options(t) =>
         /\ Len(t.FieldSpecifiers) = Options(t) - n
         /\ t.ScopeFieldSpecifiers = <<>> <=> t.ScopeFieldCount = 0

IPFIXTemplates ==
    /\ pc = "template" => tr.TemplateID \in TemplateIDs /\ Partial(tr, todo)
    /\ I!CachedWhole

(* The records of a set have the template that was retrieved for it. *)
IPFIXRecords ==
    /\ pc = "template" => I!TemplateSet
    /\ pc = "data" => ~I!TemplateSet /\ rec.tr = tr
    /\ I!TemplateSet => records = 0
    /\ records > 0 /\ pc \in {"set", "data"} => last.tr = tr

IPFIXInv == IPFIXReader /\ IPFIXValues /\ IPFIXSets /\ IPFIXTemplates /\ IPFIXRecords
(* What a read does: the reader goes on inside its datagram. *)
Advanced == total' = total /\ count' \in 0..total /\ count' >= count

(* Every way to read goes on inside the datagram. *)
LEMMA ReadsAdvance ==
    ASSUME total \in Nat, count \in 0..total, NEW n \in Nat
    PROVE  /\ I!Read(n) => Advanced
           /\ I!Uint16s(n) => Advanced
           /\ I!Uint16sFail(n) => Advanced
           /\ I!Unread \in 4..7 /\ I!advance(4) => Advanced
           /\ UNCHANGED I!reader => Advanced
<1>1. I!Read(n) => Advanced
    BY DEF I!Read, I!advance, I!Unread, Advanced
<1>2. I!Uint16s(n) => Advanced
    BY DEF I!Uint16s, I!advance, I!Unread, Advanced
<1>3. I!Uint16sFail(n) => Advanced
    BY DEF I!Uint16sFail, I!advance, I!Unread, Advanced
<1>4. I!Unread \in 4..7 /\ I!advance(4) => Advanced
    BY DEF I!advance, I!Unread, Advanced
<1>5. UNCHANGED I!reader => Advanced
    BY DEF I!reader, Advanced
<1> QED
    BY Zenon, <1>1, <1>2, <1>3, <1>4, <1>5

(* The set in hand stays where it is. *)
LEMMA IPFIXReaderMoves ==
    ASSUME IPFIXReader, Advanced, UNCHANGED set
    PROVE  IPFIXReader'
<1>1. total' = total /\ count' \in 0..total' /\ set'.start <= count'
    BY DEF IPFIXReader, Advanced
<1> QED
    BY Zenon, <1>1 DEF IPFIXReader

(* Differences in 16 bits. *)
LEMMA Modulo ==
    ASSUME NEW u \in Nat, u > 0, NEW a \in Int
    PROVE  /\ a \in 0..(u - 1) => a % u = a
           /\ a < 0 /\ a + u >= 0 => a % u = a + u
           /\ a % u \in 0..(u - 1)
OBVIOUS

(* There are numbers of 16 bits. *)
LEMMA IPFIXU16 == I!U16 \in Nat /\ I!U16 > 0
BY DEF I!U16

(* Initially there is no set, no record and no template. *)
LEMMA IPFIXInit == I!Init => IPFIXInv
<1> SUFFICES ASSUME I!Init PROVE IPFIXInv
    OBVIOUS
<1>1. IPFIXReader
    <2>1. total \in Totals /\ count = 0 /\ set = I!NoSet
        BY Zenon DEF I!Init
    <2>2. total \in 0..(I!U16 - 1)
        BY Zenon, <2>1, DecodersAssumption DEF I!DecoderAssumption
    <2>3. set = [SetID |-> 0, Length |-> 0, start |-> 0]
        BY Zenon, <2>1 DEF I!NoSet
    <2>4. QED
        BY <2>1, <2>2, <2>3, IPFIXU16 DEF IPFIXReader
<1>2. I!NoTemplate \in IPFIXTemplate
    BY DEF I!NoTemplate, IPFIXTemplate
<1>3. IPFIXValues
    <2>1. /\ pc = "header" /\ err = "nil" /\ todo = 0 /\ records = 0 /\ decodeErrors = FALSE /\ rpcChan = <<>>
          /\ tr = I!NoTemplate /\ rec = [tr |-> I!NoTemplate, fields |-> 0]
          /\ mem = [id \in TemplateIDs |-> I!NoTemplate]
        BY Zenon DEF I!Init, I!NoRecord
    <2>2. MaxRecords \in Nat
        BY Zenon, DecodersAssumption DEF I!DecoderAssumption
    <2>3. rec \in [tr : IPFIXTemplate, fields : Nat] /\ mem \in [TemplateIDs -> IPFIXTemplate]
        BY <1>2, <2>1
    <2>4. rpcChan \in Seq(Int) /\ Len(rpcChan) <= 1 /\ records \in 0..MaxRecords /\ todo \in Nat
        BY <2>1, <2>2
    <2>5. QED
        BY Zenon, <1>2, <2>1, <2>3, <2>4 DEF IPFIXValues
<1>4. IPFIXSets
    BY Zenon DEF I!Init, IPFIXSets, I!SetsAligned, I!BetweenSets
<1>5. IPFIXTemplates
    BY Zenon DEF I!Init, IPFIXTemplates, I!CachedWhole
<1>6. IPFIXRecords
    BY DEF I!Init, I!NoSet, IPFIXRecords, I!TemplateSet
<1> QED
    BY Zenon, <1>1, <1>3, <1>4, <1>5, <1>6 DEF IPFIXInv

(* Steps that only read, or leave a loop. *)
IPFIXMove ==
    \/ I!MessageHeader \/ I!MessageHeaderFails \/ I!NoMoreSets \/ I!SetEnds \/ I!TemplatePadding
    \/ I!OptionsHeaderFails \/ \E e \in BOOLEAN : I!SpecifierFails(e)

(* They keep the invariant. *)
LEMMA IPFIXMoves == IPFIXInv /\ IPFIXMove => IPFIXInv'
<1> SUFFICES ASSUME IPFIXInv, IPFIXMove PROVE IPFIXInv'
    OBVIOUS
<1>1. /\ UNCHANGED <<set, err, tr, rec, last, records, decodeErrors, mem, rpcChan>>
      /\ pc' \in {"sets", "set", "skip", "done"}
      /\ pc' \in {"sets", "done"} => pc = "header" \/ (pc = "sets" /\ UNCHANGED count)
      /\ pc' = "set" => pc \in {"set", "template"}
      /\ todo' \in {todo, 0}
    BY Zenon DEF IPFIXMove, I!MessageHeader, I!MessageHeaderFails, I!NoMoreSets, I!SetEnds, I!TemplatePadding,
                 I!OptionsHeaderFails, I!SpecifierFails, I!setVars, I!outVars, I!shared, I!reader
<1>2. Advanced
    <2>1. total \in Nat /\ count \in 0..total
        BY DEF IPFIXInv, IPFIXReader
    <2>2. \/ I!Read(16) \/ I!Uint16sFail(3) \/ I!Uint16sFail(2) \/ UNCHANGED I!reader
          \/ I!Unread \in 4..7 /\ I!advance(4)
        BY Zenon DEF IPFIXMove, I!MessageHeader, I!MessageHeaderFails, I!NoMoreSets, I!SetEnds, I!TemplatePadding,
                     I!OptionsHeaderFails, I!SpecifierFails, I!ReadFails
    <2>3. 16 \in Nat /\ 3 \in Nat /\ 2 \in Nat
        OBVIOUS
    <2>4. QED
        BY Zenon, <2>1, <2>2, <2>3, ReadsAdvance
<1>3. IPFIXReader'
    BY Zenon, <1>1, <1>2, IPFIXReaderMoves DEF IPFIXInv
<1>4. IPFIXValues'
    BY <1>1 DEF IPFIXInv, IPFIXValues
<1>5. IPFIXSets'
    BY Zenon, <1>1 DEF IPFIXInv, IPFIXSets, I!SetsAligned, I!BetweenSets
<1>6. IPFIXTemplates'
    BY Zenon, <1>1 DEF IPFIXInv, IPFIXTemplates, I!CachedWhole
<1>7. IPFIXRecords'
    BY <1>1 DEF IPFIXInv, IPFIXRecords, I!TemplateSet
<1> QED
    BY Zenon, <1>3, <1>4, <1>5, <1>6, <1>7 DEF IPFIXInv
(* A set begins, with the template it is decoded with. *)
LEMMA IPFIXSetHeader ==
    ASSUME IPFIXInv, NEW id \in SetIDs, NEW len \in SetLengths, I!SetHeader(id, len)
    PROVE  IPFIXInv'
<1>1. /\ pc = "sets" /\ I!Read(4) /\ records' = 0
      /\ set' = [SetID |-> id, Length |-> len, start |-> count]
      /\ UNCHANGED <<todo, rec, last, mem>>
    BY Zenon DEF I!SetHeader
<1>2. /\ pc' \in {"sets", "set"} /\ (pc' = "sets" => err' = "fatal") /\ err' \in {"nil", "nonfatal", "fatal"}
      /\ decodeErrors' \in {decodeErrors, TRUE}
      /\ tr' = tr \/ tr' = I!NoTemplate \/ (id \in DOMAIN mem /\ tr' = mem[id])
      /\ rpcChan' = rpcChan \/ rpcChan' = <<id>>
    BY Zenon, <1>1 DEF I!SetHeader
<1>3. id \in Int /\ len \in 0..(I!U16 - 1)
    BY DecodersAssumption, IPFIXU16 DEF I!DecoderAssumption
<1>4. IPFIXReader'
    <2>1. total \in Nat /\ count \in 0..total
        BY DEF IPFIXInv, IPFIXReader
    <2>2. Advanced
        BY <1>1, <2>1 DEF I!Read, I!advance, I!Unread, Advanced
    <2>3. /\ total' = total /\ count' \in 0..total' /\ count \in Nat /\ count <= count'
        BY <2>1, <2>2 DEF Advanced
    <2>4. /\ set' \in [SetID : Int, Length : 0..(I!U16 - 1), start : Nat]
          /\ set'.SetID = id /\ set'.Length = len /\ set'.start <= count'
        BY <1>1, <1>3, <2>3
    <2>5. QED
        BY Zenon, <2>3, <2>4 DEF IPFIXInv, IPFIXReader
<1>5. IPFIXValues'
    <2>1. tr' \in IPFIXTemplate
        <3>1. I!NoTemplate \in IPFIXTemplate
            BY DEF I!NoTemplate, IPFIXTemplate
        <3>2. tr \in IPFIXTemplate /\ mem \in [TemplateIDs -> IPFIXTemplate]
            BY Zenon DEF IPFIXInv, IPFIXValues
        <3>3. QED
            BY Zenon, <1>2, <3>1, <3>2
    <2>2. rpcChan' \in Seq(Int) /\ Len(rpcChan') <= 1
        <3>1. <<id>> \in Seq(Int) /\ Len(<<id>>) <= 1
            BY <1>3
        <3>2. QED
            BY Zenon, <1>2, <3>1 DEF IPFIXInv, IPFIXValues
    <2>3. records' \in 0..MaxRecords
        BY <1>1, DecodersAssumption DEF I!DecoderAssumption
    <2>4. QED
        BY Zenon, <1>1, <1>2, <2>1, <2>2, <2>3 DEF IPFIXInv, IPFIXValues
<1>6. IPFIXSets'
    BY Zenon, <1>2 DEF IPFIXSets, I!SetsAligned, I!BetweenSets
<1>7. IPFIXTemplates'
    BY Zenon, <1>1, <1>2 DEF IPFIXInv, IPFIXTemplates, I!CachedWhole
<1>8. IPFIXRecords'
    BY <1>1, <1>2 DEF IPFIXRecords
<1> QED
    BY Zenon, <1>4, <1>5, <1>6, <1>7, <1>8 DEF IPFIXInv

(* The rest of a set of l bytes from s, in 16 bits, when c bytes are read. *)
LEMMA Leftover ==
    ASSUME NEW t \in 0..(I!U16 - 1), NEW c \in 0..t, NEW s \in Nat, s <= c, NEW l \in 0..(I!U16 - 1)
    PROVE  /\ (l - (c - s)) % I!U16 \in Nat
           /\ c + ((l - (c - s)) % I!U16) <= t => c + ((l - (c - s)) % I!U16) = s + l
<1> DEFINE d == l - (c - s)
           n == d % I!U16
<1>1. t \in Int /\ c \in Int /\ c <= t /\ t < I!U16 /\ l \in Int /\ d \in Int /\ d + I!U16 >= 0 /\ d <= I!U16 - 1
    BY IPFIXU16
<1>2. c + d = s + l
    BY <1>1
<1> HIDE DEF d
<1>3. /\ d \in 0..(I!U16 - 1) => n = d
      /\ d < 0 /\ d + I!U16 >= 0 => n = d + I!U16
      /\ n \in 0..(I!U16 - 1)
    BY Zenon, <1>1, Modulo, IPFIXU16
<1> HIDE DEF n
<1>4. n \in Nat /\ (d >= 0 => n = d) /\ (d < 0 => n = d + I!U16)
    BY <1>1, <1>3, IPFIXU16
<1>5. d < 0 => c + n = s + l + I!U16
    BY <1>1, <1>2, <1>4, IPFIXU16
<1>6. c + n <= t => c + n = s + l
    BY <1>1, <1>2, <1>4, <1>5, IPFIXU16
<1> QED
    BY <1>4, <1>6 DEF n, d

(* The rest of a set is skipped: what leftoverBytes asks for ends where    *)
(* the set does, or is more than there is.                                 *)
LEMMA IPFIXSkipRest == IPFIXInv /\ I!SkipRest => IPFIXInv'
<1> SUFFICES ASSUME IPFIXInv, I!SkipRest PROVE IPFIXInv'
    OBVIOUS
<1> DEFINE n == I!leftoverBytes
<1>1. /\ pc = "skip" /\ pc' = "sets"
      /\ (I!Read(n) /\ UNCHANGED err) \/ (UNCHANGED I!reader /\ err' = "fatal")
      /\ UNCHANGED <<set, tr, todo, rec, last, records, mem, rpcChan>>
      /\ decodeErrors' \in BOOLEAN
    BY Zenon DEF I!SkipRest, I!outVars, I!shared, I!ReadFails
<1>2. /\ total \in 0..(I!U16 - 1) /\ count \in 0..total /\ set.start \in Nat /\ set.start <= count
      /\ set.Length \in 0..(I!U16 - 1)
    BY DEF IPFIXInv, IPFIXReader
<1>3. n \in Nat /\ (count + n <= total => count + n = set.start + set.Length)
    BY Zenon, <1>2, Leftover DEF I!leftoverBytes
<1> HIDE DEF n
<1>4. I!Read(n) => Advanced /\ count' = set.start + set.Length
    BY <1>2, <1>3 DEF I!Read, I!advance, I!Unread, Advanced
<1>5. Advanced
    BY <1>1, <1>2, <1>4, IPFIXU16 DEF I!reader, Advanced
<1>6. IPFIXReader'
    BY Zenon, <1>1, <1>5, IPFIXReaderMoves DEF IPFIXInv
<1>7. IPFIXValues'
    BY Zenon, <1>1 DEF IPFIXInv, IPFIXValues
<1>8. IPFIXSets'
    BY Zenon, <1>1, <1>4 DEF IPFIXSets, I!SetsAligned
<1>9. IPFIXTemplates' /\ IPFIXRecords'
    BY Zenon, <1>1 DEF IPFIXInv, IPFIXTemplates, I!CachedWhole, IPFIXRecords, I!TemplateSet
<1> QED
    BY Zenon, <1>6, <1>7, <1>8, <1>9 DEF IPFIXInv
(* A template of which the header is read. *)
Fresh(id, n, s) ==
    [TemplateID |-> id, FieldCount |-> n, ScopeFieldCount |-> s,
     FieldSpecifiers |-> <<>>, ScopeFieldSpecifiers |-> <<>>]

(* All its specifiers are to come. *)
LEMMA NewTemplate ==
    ASSUME NEW id \in Nat, NEW n \in 0..(I!U16 - 1), NEW s \in 0..(I!U16 - 1), NEW t,
           t = Fresh(id, n, s)
    PROVE  t \in IPFIXTemplate /\ Partial(t, s + ((n - s) % I!U16))
<1>1. n \in Nat /\ s \in Nat /\ n - s \in Int
    BY IPFIXU16
<1>2. t \in IPFIXTemplate
    BY <1>1 DEF Fresh, IPFIXTemplate
<1> DEFINE o == (n - s) % I!U16
<1>3. o \in Nat
    <2>1. o \in 0..(I!U16 - 1)
        BY Zenon, <1>1, IPFIXU16, Modulo
    <2>2. QED
        BY <2>1, IPFIXU16
<1>4. /\ Options(t) = o /\ t.ScopeFieldCount = s
      /\ t.FieldSpecifiers = <<>> /\ t.ScopeFieldSpecifiers = <<>>
    BY DEF Fresh, Options
<1> HIDE DEF o
<1>5. Partial(t, s + o)
    BY <1>1, <1>3, <1>4 DEF Partial
<1> QED
    BY Zenon, <1>2, <1>5 DEF o

(* A specifier more is read. *)
LEMMA MorePartial ==
    ASSUME NEW t \in IPFIXTemplate, NEW n \in Nat, n > 0, Partial(t, n), NEW spec \in I!Specifiers, NEW u,
           u = IF n > Options(t)
               THEN [t EXCEPT !.ScopeFieldSpecifiers = Append(t.FieldSpecifiers, spec)]
               ELSE [t EXCEPT !.FieldSpecifiers = Append(t.FieldSpecifiers, spec)]
    PROVE  u \in IPFIXTemplate /\ u.TemplateID = t.TemplateID /\ Partial(u, n - 1)
<1>1. /\ t.FieldSpecifiers \in Seq(I!Specifiers) /\ t.ScopeFieldSpecifiers \in Seq(I!Specifiers)
      /\ t.FieldCount \in Nat /\ t.ScopeFieldCount \in Nat
    BY DEF IPFIXTemplate
<1>2. Options(t) \in Nat
    <2>1. Options(t) \in 0..(I!U16 - 1)
        BY SMTT(60), <1>1, IPFIXU16, Modulo DEF Options
    <2>2. QED
        BY <2>1, IPFIXU16
<1> DEFINE f == Append(t.FieldSpecifiers, spec)
<1>3. f \in Seq(I!Specifiers) /\ Len(f) = Len(t.FieldSpecifiers) + 1 /\ f # <<>>
    BY SMTT(60), <1>1
<1> HIDE DEF f
<1>4. CASE n > Options(t)
    <2>1. u = [t EXCEPT !.ScopeFieldSpecifiers = f]
        BY Zenon, <1>4 DEF f
    <2>2. /\ u \in IPFIXTemplate /\ u.TemplateID = t.TemplateID /\ u.ScopeFieldSpecifiers = f
          /\ u.FieldSpecifiers = t.FieldSpecifiers /\ u.ScopeFieldCount = t.ScopeFieldCount
          /\ u.FieldCount = t.FieldCount
        BY Zenon, <1>3, <2>1 DEF IPFIXTemplate
    <2>3. Options(u) = Options(t)
        BY Zenon, <2>2 DEF Options
    <2>4. t.FieldSpecifiers = <<>> /\ n <= t.ScopeFieldCount + Options(t)
        BY Zenon, <1>4 DEF Partial
    <2>5. /\ n - 1 <= t.ScopeFieldCount + Options(t) /\ n - 1 # t.ScopeFieldCount + Options(t)
          /\ (n - 1 <= Options(t) => t.ScopeFieldCount # 0 /\ 0 = Options(t) - (n - 1))
        BY <1>1, <1>2, <1>4, <2>4
    <2>6. Len(<<>>) = 0
        OBVIOUS
    <2>7. Partial(u, n - 1)
        BY Zenon, <1>3, <2>2, <2>3, <2>4, <2>5, <2>6 DEF Partial
    <2>8. QED
        BY Zenon, <2>2, <2>7
<1>5. CASE ~(n > Options(t))
    <2>1. u = [t EXCEPT !.FieldSpecifiers = f]
        BY Zenon, <1>5 DEF f
    <2>2. /\ u \in IPFIXTemplate /\ u.TemplateID = t.TemplateID /\ u.FieldSpecifiers = f
          /\ u.ScopeFieldSpecifiers = t.ScopeFieldSpecifiers /\ u.ScopeFieldCount = t.ScopeFieldCount
          /\ u.FieldCount = t.FieldCount
        BY Zenon, <1>3, <2>1 DEF IPFIXTemplate
    <2>3. Options(u) = Options(t)
        BY Zenon, <2>2 DEF Options
    <2>4. n <= Options(t)
        BY <1>2, <1>5
    <2>5. /\ Len(t.FieldSpecifiers) = Options(t) - n /\ n <= t.ScopeFieldCount + Options(t)
          /\ t.ScopeFieldSpecifiers = <<>> <=> t.ScopeFieldCount = 0
        BY Zenon, <2>4 DEF Partial
    <2>6. /\ n - 1 <= t.ScopeFieldCount + Options(t) /\ ~(n - 1 > Options(t))
          /\ Len(f) = Options(t) - (n - 1)
        BY <1>1, <1>2, <1>3, <2>4, <2>5
    <2>7. Partial(u, n - 1)
        BY Zenon, <2>2, <2>3, <2>5, <2>6 DEF Partial
    <2>8. QED
        BY Zenon, <2>2, <2>7
<1> QED
    BY Zenon, <1>4, <1>5

(* A template record that has begun. *)
Begun == tr \in IPFIXTemplate /\ todo \in Nat /\ tr.TemplateID \in TemplateIDs /\ Partial(tr, todo)

(* A template record begins, and goes on. *)
LEMMA IPFIXTemplateSteps ==
    ASSUME IPFIXInv,
           \/ \E id \in TemplateIDs, n \in FieldCounts :
                 I!TemplateHeader(id, n) \/ \E s \in ScopeCounts : I!OptionsHeader(id, n, s)
           \/ \E spec \in I!Specifiers, e \in BOOLEAN : I!Specifier(spec, e)
    PROVE  IPFIXInv'
<1>1. /\ pc' = "template" /\ I!TemplateSet
      /\ UNCHANGED <<set, err, rec, last, records, decodeErrors, mem, rpcChan>>
    <2>1. pc = "template" => I!TemplateSet
        BY Zenon DEF IPFIXInv, IPFIXRecords
    <2>2. set.SetID \in {2, 3} \/ pc = "template"
        BY Zenon DEF I!TemplateHeader, I!OptionsHeader, I!Specifier
    <2>3. QED
        BY Zenon, <2>1, <2>2
        DEF I!TemplateSet, I!TemplateHeader, I!OptionsHeader, I!Specifier, I!setVars, I!outVars, I!shared
<1>2. Advanced
    <2>1. total \in Nat /\ count \in 0..total
        BY DEF IPFIXInv, IPFIXReader
    <2>2. I!Uint16s(2) \/ I!Uint16s(3) \/ I!Read(8) \/ I!Read(4)
        BY Zenon DEF I!TemplateHeader, I!OptionsHeader, I!Specifier
    <2>3. 2 \in Nat /\ 3 \in Nat /\ 8 \in Nat /\ 4 \in Nat
        OBVIOUS
    <2>4. QED
        BY Zenon, <2>1, <2>2, <2>3, ReadsAdvance
<1>3. Begun'
    <2>1. ASSUME NEW id \in TemplateIDs, NEW n \in FieldCounts, NEW s \in ScopeCounts \cup {0},
                 tr' = Fresh(id, n, s), todo' = s + ((n - s) % I!U16)
          PROVE  Begun'
        <3>1. id \in Nat /\ n \in 0..(I!U16 - 1) /\ s \in 0..(I!U16 - 1)
            BY DecodersAssumption, IPFIXU16 DEF I!DecoderAssumption
        <3>2. tr' \in IPFIXTemplate /\ Partial(tr', todo')
            BY Zenon, <2>1, <3>1, NewTemplate
        <3>3. tr'.TemplateID = id
            BY Zenon, <2>1 DEF Fresh
        <3>4. todo' \in Nat
            <4>1. n - s \in Int /\ s \in Nat
                BY <3>1, IPFIXU16
            <4>2. (n - s) % I!U16 \in 0..(I!U16 - 1)
                BY Zenon, <4>1, IPFIXU16, Modulo
            <4>3. QED
                BY <2>1, <4>1, <4>2, IPFIXU16
        <3>5. QED
            BY Zenon, <3>2, <3>3, <3>4 DEF Begun
    <2>2. ASSUME NEW id \in TemplateIDs, NEW n \in FieldCounts, I!TemplateHeader(id, n)
          PROVE  Begun'
        <3>1. tr' = Fresh(id, n, 0)
            BY Zenon, <2>2 DEF I!TemplateHeader, I!NoTemplate, Fresh
        <3>2. n \in 0..(I!U16 - 1)
            BY Zenon, DecodersAssumption DEF I!DecoderAssumption
        <3>3. n - 0 = n /\ 0 + n = n /\ n \in Int
            BY <3>2, IPFIXU16
        <3>4. n % I!U16 = n
            BY Zenon, <3>2, <3>3, IPFIXU16, Modulo
        <3>5. todo' = n
            BY Zenon, <2>2 DEF I!TemplateHeader
        <3>6. todo' = 0 + ((n - 0) % I!U16)
            BY Zenon, <3>3, <3>4, <3>5
        <3>7. QED
            BY Zenon, <2>1, <3>1, <3>6
    <2>3. ASSUME NEW id \in TemplateIDs, NEW n \in FieldCounts, NEW s \in ScopeCounts, I!OptionsHeader(id, n, s)
          PROVE  Begun'
        <3>1. tr' = Fresh(id, n, s)
            BY Zenon, <2>3 DEF I!OptionsHeader, I!NoTemplate, Fresh
        <3>2. todo' = s + ((n - s) % I!U16)
            BY Zenon, <2>3 DEF I!OptionsHeader
        <3>3. QED
            BY Zenon, <2>1, <3>1, <3>2
    <2>4. ASSUME NEW spec \in I!Specifiers, NEW e \in BOOLEAN, I!Specifier(spec, e)
          PROVE  Begun'
        <3>1. /\ pc = "template" /\ todo > 0 /\ todo' = todo - 1
              /\ tr' = IF todo > Options(tr)
                       THEN [tr EXCEPT !.ScopeFieldSpecifiers = Append(tr.FieldSpecifiers, spec)]
                       ELSE [tr EXCEPT !.FieldSpecifiers = Append(tr.FieldSpecifiers, spec)]
            BY Zenon, <2>4 DEF I!Specifier, Options
        <3>2. tr \in IPFIXTemplate /\ todo \in Nat /\ Partial(tr, todo) /\ tr.TemplateID \in TemplateIDs
            BY Zenon, <3>1 DEF IPFIXInv, IPFIXValues, IPFIXTemplates
        <3>3. tr' \in IPFIXTemplate /\ tr'.TemplateID = tr.TemplateID /\ Partial(tr', todo - 1)
            BY Zenon, <3>1, <3>2, MorePartial
        <3>4. todo' \in Nat
            BY <3>1, <3>2
        <3>5. QED
            BY Zenon, <3>1, <3>2, <3>3, <3>4 DEF Begun
    <2>5. QED
        BY Zenon, <2>2, <2>3, <2>4
<1>4. IPFIXReader'
    BY Zenon, <1>1, <1>2, IPFIXReaderMoves DEF IPFIXInv
<1>5. IPFIXValues'
    BY Zenon, <1>1, <1>3 DEF Begun, IPFIXInv, IPFIXValues
<1>6. IPFIXSets'
    BY Zenon, <1>1 DEF IPFIXSets, I!SetsAligned, I!BetweenSets
<1>7. IPFIXTemplates'
    BY Zenon, <1>1, <1>3 DEF Begun, IPFIXInv, IPFIXTemplates, I!CachedWhole
<1>8. IPFIXRecords'
    BY Zenon, <1>1 DEF IPFIXInv, IPFIXRecords, I!TemplateSet
<1> QED
    BY Zenon, <1>4, <1>5, <1>6, <1>7, <1>8 DEF IPFIXInv
(* A template in the cache. *)
IPFIXWhole(id, t) ==
    /\ t.TemplateID = id
    /\ Len(t.FieldSpecifiers) = Options(t)
    /\ (t.ScopeFieldSpecifiers = <<>>) = (t.ScopeFieldCount = 0)

(* A whole template is cached, by this worker or by another. *)
LEMMA IPFIXCached ==
    ASSUME IPFIXInv, NEW id \in TemplateIDs, NEW t \in IPFIXTemplate, IPFIXWhole(id, t),
           mem' = [mem EXCEPT ![id] = t], (pc = "template" /\ pc' = "set") \/ UNCHANGED pc,
           UNCHANGED <<total, count, set, err, tr, todo, rec, last, records, decodeErrors, rpcChan>>
    PROVE  IPFIXInv'
<1>1. IPFIXReader'
    BY Zenon DEF IPFIXInv, IPFIXReader
<1>2. mem \in [TemplateIDs -> IPFIXTemplate]
    BY Zenon DEF IPFIXInv, IPFIXValues
<1>3. mem' \in [TemplateIDs -> IPFIXTemplate]
    BY Zenon, <1>2
<1>4. IPFIXValues'
    BY Zenon, <1>3 DEF IPFIXInv, IPFIXValues
<1>5. IPFIXSets'
    BY Zenon DEF IPFIXInv, IPFIXSets, I!SetsAligned, I!BetweenSets
<1>6. I!CachedWhole'
    <2>1. ASSUME NEW k \in TemplateIDs, mem'[k] # I!NoTemplate PROVE IPFIXWhole(k, mem'[k])
        <3>1. CASE k = id
            BY Zenon, <1>2, <3>1
        <3>2. CASE k # id
            <4>1. mem'[k] = mem[k]
                BY Zenon, <1>2, <3>2
            <4>2. QED
                BY Zenon, <1>2, <2>1, <4>1 DEF IPFIXInv, IPFIXTemplates, I!CachedWhole, IPFIXWhole, Options
        <3>3. QED
            BY Zenon, <3>1, <3>2
    <2>2. DOMAIN mem' = TemplateIDs
        BY Zenon, <1>3
    <2>3. QED
        BY Zenon, <2>1, <2>2 DEF I!CachedWhole, IPFIXWhole, Options
<1>7. IPFIXTemplates'
    BY Zenon, <1>6 DEF IPFIXInv, IPFIXTemplates
<1>8. IPFIXRecords'
    BY DEF IPFIXInv, IPFIXRecords, I!TemplateSet
<1> QED
    BY Zenon, <1>1, <1>4, <1>5, <1>7, <1>8 DEF IPFIXInv

(* This worker has read a template to its end. *)
LEMMA IPFIXInsert == IPFIXInv /\ I!Insert => IPFIXInv'
<1> SUFFICES ASSUME IPFIXInv, I!Insert PROVE IPFIXInv'
    OBVIOUS
<1>1. /\ pc = "template" /\ todo = 0 /\ mem' = [mem EXCEPT ![tr.TemplateID] = tr] /\ pc' = "set"
      /\ UNCHANGED <<total, count, set, err, tr, todo, rec, last, records, decodeErrors, rpcChan>>
    BY Zenon DEF I!Insert, I!reader, I!setVars, I!outVars
<1>2. tr \in IPFIXTemplate /\ Partial(tr, 0) /\ tr.TemplateID \in TemplateIDs
    BY Zenon, <1>1 DEF IPFIXInv, IPFIXValues, IPFIXTemplates
<1>3. Options(tr) \in Nat
    <2>1. tr.FieldCount - tr.ScopeFieldCount \in Int
        BY <1>2 DEF IPFIXTemplate
    <2>2. Options(tr) \in 0..(I!U16 - 1)
        BY Zenon, <2>1, IPFIXU16, Modulo DEF Options
    <2>3. QED
        BY <2>2, IPFIXU16
<1>4. 0 <= Options(tr) /\ Options(tr) - 0 = Options(tr)
    BY <1>3
<1>5. IPFIXWhole(tr.TemplateID, tr)
    BY Zenon, <1>2, <1>4 DEF Partial, IPFIXWhole
<1> QED
    BY Zenon, <1>1, <1>2, <1>5, IPFIXCached

(* Others insert templates, and the RPC takes requests. *)
LEMMA IPFIXOthers ==
    ASSUME IPFIXInv,
           \/ \E id \in TemplateIDs \ {0} : \E t \in I!OtherTemplates(id) : I!OtherInsert(id, t)
           \/ I!TakeRequest
    PROVE  IPFIXInv'
<1>1. ASSUME NEW id \in TemplateIDs \ {0}, NEW t \in I!OtherTemplates(id), I!OtherInsert(id, t)
      PROVE  IPFIXInv'
    <2>1. /\ mem' = [mem EXCEPT ![id] = t]
          /\ UNCHANGED <<pc, total, count, set, err, tr, todo, rec, last, records, decodeErrors, rpcChan>>
        BY Zenon, <1>1 DEF I!OtherInsert, I!reader, I!setVars, I!outVars
    <2>2. PICK spec \in I!Specifiers :
             t = [TemplateID |-> id, FieldCount |-> 1, ScopeFieldCount |-> 0,
                  FieldSpecifiers |-> <<spec>>, ScopeFieldSpecifiers |-> <<>>]
        BY Zenon DEF I!OtherTemplates
    <2>3. id \in Nat
        BY DecodersAssumption, IPFIXU16 DEF I!DecoderAssumption
    <2>4. t \in IPFIXTemplate
        BY <2>2, <2>3 DEF IPFIXTemplate
    <2>5. 1 - 0 = 1 /\ 1 % I!U16 = 1
        BY DEF I!U16
    <2>6. Options(t) = 1
        <3>1. t.FieldCount = 1 /\ t.ScopeFieldCount = 0
            BY Zenon, <2>2
        <3>2. QED
            BY Zenon, <2>5, <3>1 DEF Options
    <2>7. t.TemplateID = id /\ Len(t.FieldSpecifiers) = 1 /\ t.ScopeFieldSpecifiers = <<>> /\ t.ScopeFieldCount = 0
        BY <2>2
    <2>8. IPFIXWhole(id, t)
        BY Zenon, <2>6, <2>7 DEF IPFIXWhole
    <2>9. QED
        BY Zenon, <2>1, <2>4, <2>8, IPFIXCached
<1>2. CASE I!TakeRequest
    <2>1. /\ rpcChan # <<>> /\ rpcChan' = Tail(rpcChan)
          /\ UNCHANGED <<total, count, pc, set, err, tr, todo, rec, last, records, decodeErrors, mem>>
        BY Zenon, <1>2 DEF I!TakeRequest, I!reader, I!setVars, I!outVars
    <2>2. rpcChan' \in Seq(Int) /\ Len(rpcChan') <= 1
        BY <2>1 DEF IPFIXInv, IPFIXValues
    <2>3. IPFIXReader' /\ IPFIXValues'
        BY Zenon, <2>1, <2>2 DEF IPFIXInv, IPFIXReader, IPFIXValues
    <2>4. IPFIXSets'
        BY Zenon, <2>1 DEF IPFIXInv, IPFIXSets, I!SetsAligned, I!BetweenSets
    <2>5. IPFIXTemplates'
        BY Zenon, <2>1 DEF IPFIXInv, IPFIXTemplates, I!CachedWhole
    <2>6. IPFIXRecords'
        BY Zenon, <2>1 DEF IPFIXInv, IPFIXRecords, I!TemplateSet
    <2>7. QED
        BY Zenon, <2>3, <2>4, <2>5, <2>6 DEF IPFIXInv
<1> QED
    BY Zenon, <1>1, <1>2

(* An element of a sequence. *)
LEMMA SeqElement ==
    ASSUME NEW X, NEW s \in Seq(X), NEW k \in 1..Len(s)
    PROVE  s[k] \in X
OBVIOUS

(* A data record. *)
LEMMA IPFIXData == IPFIXInv /\ (I!DataRecord \/ I!DataField \/ I!DataAppend) => IPFIXInv'
<1> SUFFICES ASSUME IPFIXInv, I!DataRecord \/ I!DataField \/ I!DataAppend PROVE IPFIXInv'
    OBVIOUS
<1>1. tr \in IPFIXTemplate /\ rec \in [tr : IPFIXTemplate, fields : Nat] /\ records \in 0..MaxRecords
    BY Zenon DEF IPFIXInv, IPFIXValues
<1>2. /\ UNCHANGED <<set, tr, todo, decodeErrors, mem, rpcChan>>
      /\ pc' \in {"set", "data"} /\ ~I!TemplateSet
      /\ err' \in {err, "nonfatal", "fatal"}
      /\ UNCHANGED <<last, records>> \/ (last' = rec /\ rec.tr = tr)
    <2>1. pc = "data" => ~I!TemplateSet /\ rec.tr = tr
        BY Zenon DEF IPFIXInv, IPFIXRecords
    <2>2. QED
        BY Zenon, <2>1 DEF I!DataRecord, I!DataField, I!DataAppend, I!setVars, I!shared
<1>3. rec' \in [tr : IPFIXTemplate, fields : Nat] /\ (pc' = "data" => rec'.tr = tr)
    <2>1. CASE I!DataRecord
        <3>1. rec' = [tr |-> tr, fields |-> 0]
            BY Zenon, <2>1 DEF I!DataRecord
        <3>2. QED
            BY <1>1, <3>1
    <2>2. CASE I!DataField
        <3>1. pc = "data" /\ (rec' = rec \/ rec' = [rec EXCEPT !.fields = rec.fields + 1])
            BY Zenon, <2>2 DEF I!DataField
        <3>2. rec.tr = tr
            BY Zenon, <3>1 DEF IPFIXInv, IPFIXRecords
        <3>3. QED
            BY <1>1, <3>1, <3>2
    <2>3. CASE I!DataAppend
        BY Zenon, <1>1, <2>3 DEF I!DataAppend
    <2>4. QED
        BY Zenon, <2>1, <2>2, <2>3
<1>4. Advanced
    <2>1. total \in Nat /\ count \in 0..total
        BY DEF IPFIXInv, IPFIXReader
    <2>2. CASE I!DataField
        <3>1. I!Fields(tr) \in Seq(I!Specifiers)
            BY <1>1 DEF I!Fields, IPFIXTemplate
        <3>2. rec.fields \in Nat /\ rec.fields < Len(I!Fields(tr))
            BY <1>1, <2>2 DEF I!DataField
        <3> DEFINE spec == I!Fields(tr)[rec.fields + 1]
        <3>3. spec \in I!Specifiers
            <4>1. rec.fields + 1 \in 1..Len(I!Fields(tr))
                BY <3>1, <3>2
            <4>2. QED
                BY Zenon, <3>1, <4>1, SeqElement
        <3>4. I!Read(spec.Length) \/ UNCHANGED I!reader
            BY Zenon, <2>2 DEF I!DataField, I!ReadFails
        <3> HIDE DEF spec
        <3>5. spec.Length \in Nat
            <4>1. spec.Length \in FieldLengths
                BY Zenon, <3>3 DEF I!Specifiers
            <4>2. FieldLengths \subseteq 0..(I!U16 - 1)
                BY Zenon, DecodersAssumption DEF I!DecoderAssumption
            <4>3. spec.Length \in 0..(I!U16 - 1)
                BY Zenon, <4>1, <4>2
            <4>4. QED
                BY <4>3, IPFIXU16
        <3>6. QED
            BY Zenon, <2>1, <3>4, <3>5, ReadsAdvance
    <2>3. CASE ~I!DataField
        <3>1. UNCHANGED I!reader
            BY Zenon, <2>3 DEF I!DataRecord, I!DataAppend
        <3>2. 0 \in Nat
            OBVIOUS
        <3>3. QED
            BY Zenon, <2>1, <3>1, <3>2, ReadsAdvance
    <2>4. QED
        BY Zenon, <2>2, <2>3
<1>5. records' \in 0..MaxRecords
    <2>1. records' = records \/ records' = IF records < MaxRecords THEN records + 1 ELSE records
        BY Zenon DEF I!DataRecord, I!DataField, I!DataAppend
    <2>2. MaxRecords \in Nat
        BY Zenon, DecodersAssumption DEF I!DecoderAssumption
    <2>3. QED
        BY <1>1, <2>1, <2>2
<1>6. IPFIXReader'
    BY Zenon, <1>2, <1>4, IPFIXReaderMoves DEF IPFIXInv
<1>7. IPFIXValues'
    BY Zenon, <1>2, <1>3, <1>5 DEF IPFIXInv, IPFIXValues
<1>8. IPFIXSets'
    BY Zenon, <1>2 DEF IPFIXSets, I!SetsAligned, I!BetweenSets
<1>9. IPFIXTemplates'
    BY Zenon, <1>2 DEF IPFIXInv, IPFIXTemplates, I!CachedWhole
<1>10. IPFIXRecords'
    <2>1. pc \in {"set", "data"}
        BY Zenon DEF I!DataRecord, I!DataField, I!DataAppend
    <2>2. QED
        BY Zenon, <1>2, <1>3, <2>1 DEF IPFIXInv, IPFIXRecords, I!TemplateSet
<1> QED
    BY Zenon, <1>6, <1>7, <1>8, <1>9, <1>10 DEF IPFIXInv

(* Every step of Decode and of the others. *)
LEMMA IPFIXStep == IPFIXInv /\ I!Next => IPFIXInv'
BY Zenon, IPFIXMoves, IPFIXSetHeader, IPFIXSkipRest, IPFIXTemplateSteps, IPFIXInsert, IPFIXOthers, IPFIXData
DEF I!Next, I!decodeStep, IPFIXMove
-----------------------------------------------------------------------------
(* NetFlow v9. *)

NF9Template ==
    [TemplateID : Nat, FieldCount : Nat,
     FieldSpecifiers : Seq(N!Specifiers), ScopeFieldSpecifiers : Seq(N!Specifiers)]

NF9Reader ==
    /\ total \in Totals9 /\ total \in Nat /\ count \in 0..total
    /\ set \in [FlowSetID : Int, Length : Nat, start : Nat]
    /\ set.FlowSetID \in SetIDs9 \cup {0} /\ set.Length \in SetLengths \cup {0}

NF9Values ==
    /\ pc \in {"header", "sets", "set", "template", "data", "skip", "done"}
    /\ err \in {"nil", "nonfatal", "fatal"}
    /\ todo \in [scope : Nat, option : Nat] /\ records \in 0..MaxRecords
    /\ decodeErrors \in BOOLEAN /\ failed \in BOOLEAN
    /\ rec \in [tr : NF9Template, fields : Nat] /\ tr \in NF9Template
    /\ mem \in [TemplateIDs9 -> NF9Template]

(* A template with todo specifiers still to come. *)
NF9Partial(t, n) == t.FieldCount > 0 => n.scope = 0 /\ Len(t.FieldSpecifiers) + n.option = t.FieldCount

(* A template record that has an error is on its way to the report. *)
NF9Reports ==
    failed \/ ~N!Whole(TemplaRecord) => decodeErrors \/ (err # "nil" /\ pc \in {"set", "skip"})

NF9Cache == \A id \in DOMAIN mem : mem[id] # N!NoTemplate => mem[id].TemplateID = id /\ N!Whole(mem[id])

NF9Templates ==
    /\ pc = "template" => tr.TemplateID \in TemplateIDs9 /\ NF9Partial(tr, todo)
    /\ NF9Cache
    /\ NF9Reports

NF9Records ==
    /\ pc = "template" => set.FlowSetID \in {0, 1}
    /\ pc = "data" => set.FlowSetID \notin {0, 1} /\ rec.tr = tr
    /\ set.FlowSetID \in {0, 1} => records = 0
    /\ records > 0 /\ pc \in {"set", "data"} => last.tr = tr

NF9Inv == NF9Reader /\ NF9Values /\ NF9Templates /\ NF9Records
(* What a read does, as in IPFIX. *)
LEMMA NF9ReadsAdvance ==
    ASSUME total \in Nat, count \in 0..total, NEW n \in Nat
    PROVE  /\ N!Read(n) => Advanced
           /\ N!Uint16s(n) => Advanced
           /\ N!Uint16sFail(n) => Advanced
           /\ UNCHANGED N!reader => Advanced
<1>1. N!Read(n) => Advanced
    BY DEF N!Read, N!advance, N!Unread, Advanced
<1>2. N!Uint16s(n) => Advanced
    BY DEF N!Uint16s, N!advance, N!Unread, Advanced
<1>3. N!Uint16sFail(n) => Advanced
    BY DEF N!Uint16sFail, N!advance, N!Unread, Advanced
<1>4. UNCHANGED N!reader => Advanced
    BY DEF N!reader, Advanced
<1> QED
    BY Zenon, <1>1, <1>2, <1>3, <1>4

(* The set in hand stays where it is. *)
LEMMA NF9ReaderMoves ==
    ASSUME NF9Reader, Advanced, UNCHANGED set
    PROVE  NF9Reader'
BY Zenon DEF NF9Reader, Advanced

(* There are numbers of 16 bits. *)
LEMMA NF9U16 == N!U16 \in Nat
BY DEF N!U16

(* The fields of the headers are numbers. *)
LEMMA NF9Numbers ==
    /\ Totals9 \subseteq Nat /\ SetIDs9 \subseteq Nat /\ SetLengths \subseteq Nat /\ TemplateIDs9 \subseteq Nat
    /\ FieldCounts \subseteq Nat /\ OptionLengths \subseteq Nat /\ FieldLengths9 \subseteq Nat /\ MaxRecords \in Nat
<1>1. 0..(N!U16 - 1) \subseteq Nat
    BY NF9U16
<1>2. /\ MaxRecords \in Nat
      /\ \A c \in {Totals9, SetIDs9, SetLengths, TemplateIDs9, FieldCounts, OptionLengths, FieldLengths9} :
           c \subseteq 0..(N!U16 - 1)
    BY Zenon, DecodersAssumption DEF N!NF9DecoderAssumption
<1> HIDE DecodersAssumption
<1>3. \A c : c \subseteq 0..(N!U16 - 1) => c \subseteq Nat
    BY Zenon, <1>1
<1> QED
    BY Zenon, <1>2, <1>3

(* Initially there is no set, no record and no template. *)
LEMMA NF9Init == N!Init => NF9Inv
<1> SUFFICES ASSUME N!Init PROVE NF9Inv
    OBVIOUS
<1>1. N!NoTemplate \in NF9Template /\ N!Whole(N!NoTemplate)
    BY DEF N!NoTemplate, NF9Template, N!Whole
<1>2. NF9Reader
    <2>1. total \in Totals9 /\ count = 0 /\ set = [FlowSetID |-> 0, Length |-> 0, start |-> 0]
        BY Zenon DEF N!Init, N!NoSet
    <2>2. QED
        BY <2>1, NF9Numbers DEF NF9Reader
<1>3. NF9Values
    <2>1. /\ pc = "header" /\ err = "nil" /\ todo = [scope |-> 0, option |-> 0] /\ records = 0
          /\ decodeErrors = FALSE /\ failed = FALSE
          /\ tr = N!NoTemplate /\ rec = [tr |-> N!NoTemplate, fields |-> 0]
          /\ mem = [id \in TemplateIDs9 |-> N!NoTemplate]
        BY Zenon DEF N!Init, N!NoRecord, N!NoTodo
    <2>2. rec \in [tr : NF9Template, fields : Nat] /\ mem \in [TemplateIDs9 -> NF9Template]
        BY <1>1, <2>1
    <2>3. records \in 0..MaxRecords /\ todo \in [scope : Nat, option : Nat]
        BY <2>1, NF9Numbers
    <2>4. QED
        BY Zenon, <1>1, <2>1, <2>2, <2>3 DEF NF9Values
<1>4. NF9Templates
    BY Zenon, <1>1 DEF N!Init, NF9Templates, NF9Cache, NF9Reports
<1>5. NF9Records
    BY DEF N!Init, N!NoSet, NF9Records
<1> QED
    BY Zenon, <1>2, <1>3, <1>4, <1>5 DEF NF9Inv

(* Steps that only read, or leave a loop. *)
NF9Move == N!PacketHeader \/ N!NoMoreSets \/ N!SetEnds

(* They keep the invariant. *)
LEMMA NF9Moves == NF9Inv /\ NF9Move => NF9Inv'
<1> SUFFICES ASSUME NF9Inv, NF9Move PROVE NF9Inv'
    OBVIOUS
<1>1. /\ UNCHANGED <<set, err, tr, todo, rec, last, records, TemplaRecord, decodeErrors, failed, mem>>
      /\ pc' \in {"sets", "skip", "done"} /\ (pc \in {"set", "skip"} => pc' = "skip")
    BY Zenon DEF NF9Move, N!PacketHeader, N!NoMoreSets, N!SetEnds, N!setVars, N!outVars, N!reports
<1>2. Advanced
    <2>1. total \in Nat /\ count \in 0..total
        BY Zenon DEF NF9Inv, NF9Reader
    <2>2. N!Read(20) \/ UNCHANGED N!reader
        BY Zenon DEF NF9Move, N!PacketHeader, N!NoMoreSets, N!SetEnds, N!ReadFails
    <2>3. 20 \in Nat
        OBVIOUS
    <2>4. QED
        BY Zenon, <2>1, <2>2, <2>3, NF9ReadsAdvance
<1>3. NF9Reader'
    BY Zenon, <1>1, <1>2, NF9ReaderMoves DEF NF9Inv
<1>4. NF9Values'
    BY Zenon, <1>1 DEF NF9Inv, NF9Values
<1>5. NF9Templates'
    BY Zenon, <1>1 DEF NF9Inv, NF9Templates, NF9Cache, NF9Reports, N!Whole
<1>6. NF9Records'
    BY Zenon, <1>1 DEF NF9Inv, NF9Records
<1> QED
    BY Zenon, <1>3, <1>4, <1>5, <1>6 DEF NF9Inv
(* A set begins, with the template it is decoded with. *)
LEMMA NF9SetHeader ==
    ASSUME NF9Inv, NEW id \in SetIDs9, NEW len \in SetLengths, N!SetHeader(id, len)
    PROVE  NF9Inv'
<1>1. /\ pc = "sets" /\ N!Read(4) /\ records' = 0
      /\ set' = [FlowSetID |-> id, Length |-> len, start |-> count]
      /\ UNCHANGED <<todo, rec, last, TemplaRecord, failed, mem>>
    BY Zenon DEF N!SetHeader
<1>2. /\ pc' \in {"sets", "set"} /\ err' \in {"nil", "nonfatal", "fatal"}
      /\ decodeErrors' \in {decodeErrors, TRUE}
      /\ tr' = tr \/ tr' = N!NoTemplate \/ (id \in DOMAIN mem /\ tr' = mem[id])
    BY Zenon, <1>1 DEF N!SetHeader, N!Known
<1>3. id \in Int /\ len \in Nat /\ 0 \in 0..MaxRecords
    BY NF9Numbers
<1>4. NF9Reader'
    <2>1. total \in Nat /\ count \in 0..total /\ 4 \in Nat
        BY DEF NF9Inv, NF9Reader
    <2>2. Advanced
        BY Zenon, <1>1, <2>1, NF9ReadsAdvance
    <2>3. /\ set' \in [FlowSetID : Int, Length : Nat, start : Nat]
          /\ set'.FlowSetID = id /\ set'.Length = len
        BY <1>1, <1>3, <2>1
    <2>4. QED
        BY Zenon, <2>2, <2>3 DEF NF9Inv, NF9Reader, Advanced
<1>5. NF9Values'
    <2>1. tr' \in NF9Template
        <3>1. N!NoTemplate \in NF9Template
            BY DEF N!NoTemplate, NF9Template
        <3>2. tr \in NF9Template /\ mem \in [TemplateIDs9 -> NF9Template]
            BY Zenon DEF NF9Inv, NF9Values
        <3>3. QED
            BY ZenonT(60), <1>2, <3>1, <3>2
    <2>2. QED
        BY Zenon, <1>1, <1>2, <1>3, <2>1 DEF NF9Inv, NF9Values
<1>6. NF9Templates'
    <2>1. NF9Cache' /\ pc' # "template"
        BY Zenon, <1>1, <1>2 DEF NF9Inv, NF9Templates, NF9Cache, N!Whole
    <2>2. NF9Reports'
        <3>1. failed \/ ~N!Whole(TemplaRecord) => decodeErrors
            BY Zenon, <1>1 DEF NF9Inv, NF9Templates, NF9Reports
        <3>2. decodeErrors => decodeErrors'
            <4>1. CASE decodeErrors' = TRUE
                BY Zenon, <4>1
            <4>2. CASE decodeErrors' = decodeErrors
                BY Zenon, <4>2
            <4>3. QED
                BY Zenon, <1>2, <4>1, <4>2
        <3>3. N!Whole(TemplaRecord)' <=> N!Whole(TemplaRecord)
            BY Zenon, <1>1 DEF N!Whole
        <3>4. failed' <=> failed
            BY ZenonT(60), <1>1
        <3>5. QED
            BY Zenon, <3>1, <3>2, <3>3, <3>4 DEF NF9Reports
    <2>3. QED
        BY Zenon, <2>1, <2>2 DEF NF9Templates
<1>7. NF9Records'
    BY SMTT(30), <1>1, <1>2 DEF NF9Records
<1> QED
    BY Zenon, <1>4, <1>5, <1>6, <1>7 DEF NF9Inv

(* The rest of a set is skipped, and its error is reported. *)
LEMMA NF9SkipRest == NF9Inv /\ N!SkipRest => NF9Inv'
<1> SUFFICES ASSUME NF9Inv, N!SkipRest PROVE NF9Inv'
    OBVIOUS
<1>1. /\ pc = "skip" /\ pc' = "sets" /\ err' \in {err, "fatal"}
      /\ decodeErrors' = (decodeErrors \/ err' # "nil")
      /\ UNCHANGED <<set, tr, todo, rec, last, records, TemplaRecord, failed, mem>>
      /\ UNCHANGED N!reader \/ (N!leftoverBytes > 0 /\ N!Read(N!leftoverBytes))
    BY Zenon DEF N!SkipRest, N!outVars, N!ReadFails
<1>2. total \in Nat /\ count \in 0..total /\ set \in [FlowSetID : Int, Length : Nat, start : Nat] /\ 0 \in Nat
    BY DEF NF9Inv, NF9Reader
<1>3. N!leftoverBytes > 0 => N!leftoverBytes \in Nat
    BY <1>2 DEF N!leftoverBytes
<1>4. Advanced
    BY Zenon, <1>1, <1>2, <1>3, NF9ReadsAdvance
<1>5. NF9Reader'
    BY Zenon, <1>1, <1>4, NF9ReaderMoves DEF NF9Inv
<1>6. NF9Values'
    BY Zenon, <1>1 DEF NF9Inv, NF9Values
<1>7. NF9Cache'
    BY Zenon, <1>1 DEF NF9Inv, NF9Templates, NF9Cache, N!Whole
<1>8. NF9Reports'
    <2>1. failed \/ ~N!Whole(TemplaRecord) => decodeErrors \/ err # "nil"
        BY Zenon DEF NF9Inv, NF9Templates, NF9Reports
    <2>2. err # "nil" => err' # "nil"
        BY Zenon, <1>1
    <2>3. QED
        BY Zenon, <1>1, <2>1, <2>2 DEF NF9Reports, N!Whole
<1>9. NF9Templates' /\ NF9Records'
    BY Zenon, <1>1, <1>7, <1>8 DEF NF9Inv, NF9Templates, NF9Records
<1> QED
    BY Zenon, <1>5, <1>6, <1>9 DEF NF9Inv

(* A template record that has begun. *)
NF9Begun ==
    /\ tr \in NF9Template /\ todo \in [scope : Nat, option : Nat]
    /\ tr.TemplateID \in TemplateIDs9 /\ NF9Partial(tr, todo)

(* A template record begins. *)
LEMMA NF9Begins ==
    ASSUME NF9Inv,
           \/ \E id \in TemplateIDs9, n \in FieldCounts : N!TemplateHeader(id, n)
           \/ \E id \in TemplateIDs9, s, o \in OptionLengths : N!OptionsHeader(id, s, o)
    PROVE  NF9Begun'
<1>1. ASSUME NEW id \in TemplateIDs9, NEW n \in Nat, NEW s \in Nat, NEW o \in Nat, n > 0 => s = 0 /\ o = n,
             tr' = [TemplateID |-> id, FieldCount |-> n, FieldSpecifiers |-> <<>>, ScopeFieldSpecifiers |-> <<>>],
             todo' = [scope |-> s, option |-> o]
      PROVE  NF9Begun'
    <2>1. id \in Nat
        BY SMTT(30), NF9Numbers
    <2>2. tr' \in NF9Template /\ tr'.TemplateID = id /\ todo' \in [scope : Nat, option : Nat]
        BY SMTT(60), <1>1, <2>1 DEF NF9Template
    <2>3. NF9Partial(tr', todo')
        BY <1>1 DEF NF9Partial
    <2>4. QED
        BY Zenon, <2>2, <2>3 DEF NF9Begun
<1>2. ASSUME NEW id \in TemplateIDs9, NEW n \in FieldCounts, N!TemplateHeader(id, n)
      PROVE  NF9Begun'
    <2>1. /\ tr' = [TemplateID |-> id, FieldCount |-> n, FieldSpecifiers |-> <<>>, ScopeFieldSpecifiers |-> <<>>]
          /\ todo' = [scope |-> 0, option |-> n]
        BY Zenon, <1>2 DEF N!TemplateHeader, N!NoTemplate
    <2>2. n \in Nat /\ 0 \in Nat
        BY NF9Numbers
    <2>3. QED
        BY Zenon, <1>1, <2>1, <2>2
<1>3. ASSUME NEW id \in TemplateIDs9, NEW s \in OptionLengths, NEW o \in OptionLengths, N!OptionsHeader(id, s, o)
      PROVE  NF9Begun'
    <2>1. /\ tr' = [TemplateID |-> id, FieldCount |-> 0, FieldSpecifiers |-> <<>>, ScopeFieldSpecifiers |-> <<>>]
          /\ todo' = [scope |-> s \div 4, option |-> o \div 4]
        BY Zenon, <1>3 DEF N!OptionsHeader, N!NoTemplate
    <2>2. s \div 4 \in Nat /\ o \div 4 \in Nat /\ 0 \in Nat /\ ~(0 > 0)
        BY NF9Numbers
    <2>3. QED
        BY Zenon, <1>1, <2>1, <2>2
<1> QED
    BY Zenon, <1>2, <1>3

(* A specifier more is read. *)
LEMMA NF9Continues ==
    ASSUME NF9Inv, NEW spec \in N!Specifiers, N!Specifier(spec)
    PROVE  NF9Begun'
<1>1. pc = "template" /\ todo # [scope |-> 0, option |-> 0]
    BY Zenon DEF N!Specifier, N!NoTodo
<1>2. /\ tr \in NF9Template /\ todo \in [scope : Nat, option : Nat]
      /\ tr.TemplateID \in TemplateIDs9 /\ NF9Partial(tr, todo)
    BY Zenon, <1>1 DEF NF9Inv, NF9Values, NF9Templates
<1>3. tr.FieldSpecifiers \in Seq(N!Specifiers) /\ tr.FieldCount \in Nat
    BY <1>2 DEF NF9Template
<1> DEFINE f == Append(tr.FieldSpecifiers, spec)
<1>4. f \in Seq(N!Specifiers) /\ Len(f) = Len(tr.FieldSpecifiers) + 1 /\ Len(tr.FieldSpecifiers) \in Nat
    BY <1>3
<1>5. CASE todo.scope > 0
    <2>1. todo' = [todo EXCEPT !.scope = todo.scope - 1] /\ tr' = [tr EXCEPT !.ScopeFieldSpecifiers = f]
        BY Zenon, <1>5 DEF N!Specifier
    <2> HIDE DEF f
    <2>2. tr' \in NF9Template /\ tr'.TemplateID = tr.TemplateID /\ tr'.FieldCount = tr.FieldCount
        BY Zenon, <1>2, <1>4, <2>1 DEF NF9Template
    <2>3. todo' \in [scope : Nat, option : Nat] /\ ~(tr.FieldCount > 0)
        BY <1>2, <1>3, <1>5, <2>1 DEF NF9Partial
    <2>4. QED
        BY Zenon, <1>2, <2>2, <2>3 DEF NF9Partial, NF9Begun
<1>6. CASE ~(todo.scope > 0)
    <2>1. todo' = [todo EXCEPT !.option = todo.option - 1] /\ tr' = [tr EXCEPT !.FieldSpecifiers = f]
        BY Zenon, <1>6 DEF N!Specifier
    <2> HIDE DEF f
    <2>2. /\ tr' \in NF9Template /\ tr'.TemplateID = tr.TemplateID /\ tr'.FieldCount = tr.FieldCount
          /\ tr'.FieldSpecifiers = f
        BY Zenon, <1>2, <1>4, <2>1 DEF NF9Template
    <2>3. todo.option \in Nat /\ todo.option > 0 /\ todo.scope = 0
        BY <1>1, <1>2, <1>6
    <2>4. todo' \in [scope : Nat, option : Nat] /\ todo'.scope = todo.scope /\ todo'.option = todo.option - 1
        BY <1>2, <2>1, <2>3
    <2>5. NF9Partial(tr', todo')
        BY <1>2, <1>3, <1>4, <2>2, <2>3, <2>4 DEF NF9Partial
    <2>6. QED
        BY Zenon, <1>2, <2>2, <2>4, <2>5 DEF NF9Begun
<1> QED
    BY Zenon, <1>5, <1>6
(* A template record begins, and goes on. *)
LEMMA NF9TemplateSteps ==
    ASSUME NF9Inv,
           \/ \E id \in TemplateIDs9, n \in FieldCounts : N!TemplateHeader(id, n)
           \/ \E id \in TemplateIDs9, s, o \in OptionLengths : N!OptionsHeader(id, s, o)
           \/ \E spec \in N!Specifiers : N!Specifier(spec)
    PROVE  NF9Inv'
<1>1. NF9Begun'
    BY Zenon, NF9Begins, NF9Continues
<1>2. /\ pc' = "template" /\ set.FlowSetID \in {0, 1}
      /\ pc = "template" \/ (pc = "set" /\ err = "nil")
      /\ UNCHANGED <<set, err, rec, last, records, TemplaRecord, decodeErrors, failed, mem>>
    <2>1. pc = "template" => set.FlowSetID \in {0, 1}
        BY Zenon DEF NF9Inv, NF9Records
    <2>2. QED
        BY Zenon, <2>1 DEF N!TemplateHeader, N!OptionsHeader, N!Specifier, N!MoreRecords, N!setVars, N!outVars, N!reports
<1>3. Advanced
    <2>1. total \in Nat /\ count \in 0..total
        BY Zenon DEF NF9Inv, NF9Reader
    <2>2. N!Uint16s(2) \/ N!Uint16s(3)
        BY Zenon DEF N!TemplateHeader, N!OptionsHeader, N!Specifier
    <2>3. 2 \in Nat /\ 3 \in Nat
        OBVIOUS
    <2>4. QED
        BY Zenon, <2>1, <2>2, <2>3, NF9ReadsAdvance
<1>4. NF9Reader'
    BY Zenon, <1>2, <1>3, NF9ReaderMoves DEF NF9Inv
<1>5. NF9Values'
    BY Zenon, <1>1, <1>2 DEF NF9Inv, NF9Values, NF9Begun
<1>6. NF9Templates'
    BY Zenon, <1>1, <1>2 DEF NF9Inv, NF9Templates, NF9Cache, NF9Reports, N!Whole, NF9Begun
<1>7. NF9Records'
    BY Zenon, <1>2 DEF NF9Inv, NF9Records
<1> QED
    BY Zenon, <1>4, <1>5, <1>6, <1>7 DEF NF9Inv

(* A template record that cannot be read. *)
LEMMA NF9Fails == NF9Inv /\ (N!OptionsHeaderFails \/ N!SpecifierFails) => NF9Inv'
<1> SUFFICES ASSUME NF9Inv, N!OptionsHeaderFails \/ N!SpecifierFails PROVE NF9Inv'
    OBVIOUS
<1>1. /\ pc' = "set" /\ err' = "fatal" /\ failed' = TRUE /\ todo' \in {todo, [scope |-> 0, option |-> 0]}
      /\ set.FlowSetID \in {0, 1}
      /\ UNCHANGED <<set, tr, rec, last, records, decodeErrors, mem>>
      /\ N!Uint16sFail(2) \/ N!Uint16sFail(3)
    <2>1. pc = "template" => set.FlowSetID \in {0, 1}
        BY Zenon DEF NF9Inv, NF9Records
    <2>2. QED
        BY Zenon, <2>1 DEF N!OptionsHeaderFails, N!SpecifierFails, N!TemplateFails, N!NoTodo
<1>2. Advanced
    <2>1. total \in Nat /\ count \in 0..total
        BY Zenon DEF NF9Inv, NF9Reader
    <2>2. 2 \in Nat /\ 3 \in Nat
        OBVIOUS
    <2>3. QED
        BY Zenon, <1>1, <2>1, <2>2, NF9ReadsAdvance
<1>3. NF9Reader'
    BY Zenon, <1>1, <1>2, NF9ReaderMoves DEF NF9Inv
<1>4. NF9Values'
    <2>1. [scope |-> 0, option |-> 0] \in [scope : Nat, option : Nat]
        OBVIOUS
    <2>2. QED
        BY Zenon, <1>1, <2>1 DEF NF9Inv, NF9Values
<1>5. NF9Templates'
    BY Zenon, <1>1 DEF NF9Inv, NF9Templates, NF9Cache, NF9Reports, N!Whole
<1>6. NF9Records'
    <2>1. records = 0
        BY Zenon, <1>1 DEF NF9Inv, NF9Records
    <2>2. QED
        BY <1>1, <2>1 DEF NF9Records
<1> QED
    BY Zenon, <1>3, <1>4, <1>5, <1>6 DEF NF9Inv

(* A whole template is cached, by this worker or by another. *)
LEMMA NF9Cached ==
    ASSUME NF9Inv, NEW id \in TemplateIDs9, NEW t \in NF9Template, t.TemplateID = id, N!Whole(t),
           mem' = [mem EXCEPT ![id] = t],
           (pc = "template" /\ pc' = "set" /\ TemplaRecord' = t) \/ UNCHANGED <<pc, TemplaRecord>>,
           UNCHANGED <<total, count, set, err, tr, todo, rec, last, records, decodeErrors, failed>>
    PROVE  NF9Inv'
<1>1. NF9Reader'
    BY Zenon DEF NF9Inv, NF9Reader
<1>2. mem \in [TemplateIDs9 -> NF9Template]
    BY Zenon DEF NF9Inv, NF9Values
<1>3. mem' \in [TemplateIDs9 -> NF9Template]
    BY Zenon, <1>2
<1>4. NF9Values'
    BY Zenon, <1>3 DEF NF9Inv, NF9Values
<1>5. NF9Cache'
    <2>1. ASSUME NEW k \in TemplateIDs9, mem'[k] # N!NoTemplate
          PROVE  mem'[k].TemplateID = k /\ N!Whole(mem'[k])
        <3>1. CASE k = id
            BY Zenon, <1>2, <3>1
        <3>2. CASE k # id
            <4>1. mem'[k] = mem[k]
                BY Zenon, <1>2, <3>2
            <4>2. QED
                BY Zenon, <1>2, <2>1, <4>1 DEF NF9Inv, NF9Templates, NF9Cache
        <3>3. QED
            BY Zenon, <3>1, <3>2
    <2>2. DOMAIN mem' = TemplateIDs9
        BY Zenon, <1>3
    <2>3. QED
        BY Zenon, <2>1, <2>2 DEF NF9Cache, N!Whole
<1>6. NF9Reports'
    <2>1. CASE pc = "template" /\ pc' = "set" /\ TemplaRecord' = t
        <3>1. failed => decodeErrors
            BY Zenon, <2>1 DEF NF9Inv, NF9Templates, NF9Reports
        <3>2. N!Whole(TemplaRecord)'
            BY Zenon, <2>1 DEF N!Whole
        <3>3. QED
            BY Zenon, <3>1, <3>2 DEF NF9Reports
    <2>2. CASE UNCHANGED <<pc, TemplaRecord>>
        BY Zenon, <2>2 DEF NF9Inv, NF9Templates, NF9Reports, N!Whole
    <2>3. QED
        BY Zenon, <2>1, <2>2
<1>7. NF9Templates'
    BY Zenon, <1>5, <1>6 DEF NF9Inv, NF9Templates
<1>8. NF9Records'
    BY DEF NF9Inv, NF9Records
<1> QED
    BY Zenon, <1>1, <1>4, <1>7, <1>8 DEF NF9Inv
(* This worker has read a template to its end, or another worker has. *)
LEMMA NF9Inserts ==
    ASSUME NF9Inv,
           N!Insert \/ \E id \in TemplateIDs9, spec \in N!Specifiers : N!OtherInsert(id, spec)
    PROVE  NF9Inv'
<1>1. CASE N!Insert
    <2>1. /\ pc = "template" /\ todo = [scope |-> 0, option |-> 0] /\ pc' = "set" /\ TemplaRecord' = tr
          /\ mem' = [mem EXCEPT ![tr.TemplateID] = tr]
          /\ UNCHANGED <<total, count, set, err, tr, todo, rec, last, records, decodeErrors, failed>>
        BY Zenon, <1>1 DEF N!Insert, N!NoTodo, N!reader, N!setVars, N!reports
    <2>2. tr \in NF9Template /\ NF9Partial(tr, todo) /\ tr.TemplateID \in TemplateIDs9
        BY Zenon, <2>1 DEF NF9Inv, NF9Values, NF9Templates
    <2>3. N!Whole(tr)
        <3>1. tr.FieldSpecifiers \in Seq(N!Specifiers) /\ Len(tr.FieldSpecifiers) \in Nat /\ todo.option = 0
            BY <2>1, <2>2 DEF NF9Template
        <3>2. QED
            BY <2>2, <3>1 DEF NF9Partial, N!Whole
    <2>4. QED
        BY Zenon, <2>1, <2>2, <2>3, NF9Cached
<1>2. ASSUME NEW id \in TemplateIDs9, NEW spec \in N!Specifiers, N!OtherInsert(id, spec)
      PROVE  NF9Inv'
    <2> DEFINE t == [N!NoTemplate EXCEPT !.TemplateID = id, !.FieldCount = 1, !.FieldSpecifiers = <<spec>>]
    <2>1. /\ mem' = [mem EXCEPT ![id] = t]
          /\ UNCHANGED <<pc, total, count, set, err, tr, todo, rec, last, records, TemplaRecord, decodeErrors, failed>>
        BY Zenon, <1>2 DEF N!OtherInsert, N!reader, N!setVars, N!outVars, N!reports
    <2>2. id \in Nat /\ 1 \in Nat /\ <<spec>> \in Seq(N!Specifiers) /\ Len(<<spec>>) = 1
        BY NF9Numbers
    <2>3. /\ t \in NF9Template
          /\ t.TemplateID = id /\ t.FieldCount = 1 /\ t.FieldSpecifiers = <<spec>>
        <3>1. N!NoTemplate \in NF9Template
            BY DEF N!NoTemplate, NF9Template
        <3>2. QED
            BY Zenon, <2>2, <3>1 DEF NF9Template
    <2>4. N!Whole(t)
        BY Zenon, <2>2, <2>3 DEF N!Whole
    <2> HIDE DEF t
    <2>5. QED
        BY Zenon, <2>1, <2>3, <2>4, NF9Cached
<1> QED
    BY Zenon, <1>1, <1>2

(* A data record. *)
LEMMA NF9Data == NF9Inv /\ (N!DataRecord \/ N!DataField \/ N!DataAppend) => NF9Inv'
<1> SUFFICES ASSUME NF9Inv, N!DataRecord \/ N!DataField \/ N!DataAppend PROVE NF9Inv'
    OBVIOUS
<1>1. tr \in NF9Template /\ rec \in [tr : NF9Template, fields : Nat] /\ records \in 0..MaxRecords
    BY Zenon DEF NF9Inv, NF9Values
<1>2. /\ UNCHANGED <<set, tr, todo, TemplaRecord, decodeErrors, failed, mem>>
      /\ pc' \in {"set", "data"} /\ set.FlowSetID \notin {0, 1}
      /\ pc = "data" \/ (pc = "set" /\ err = "nil")
      /\ err' \in {err, "nonfatal", "fatal"}
      /\ UNCHANGED <<last, records>> \/ (last' = rec /\ rec.tr = tr)
    <2>1. pc = "data" => set.FlowSetID \notin {0, 1} /\ rec.tr = tr
        BY Zenon DEF NF9Inv, NF9Records
    <2>2. QED
        BY Zenon, <2>1 DEF N!DataRecord, N!DataField, N!DataAppend, N!MoreRecords, N!setVars, N!reports
<1>3. rec' \in [tr : NF9Template, fields : Nat] /\ (pc' = "data" => rec'.tr = tr)
    <2>1. CASE N!DataRecord
        <3>1. rec' = [tr |-> tr, fields |-> 0]
            BY Zenon, <2>1 DEF N!DataRecord
        <3>2. QED
            BY <1>1, <3>1
    <2>2. CASE N!DataField
        <3>1. pc = "data" /\ (rec' = rec \/ rec' = [rec EXCEPT !.fields = rec.fields + 1])
            BY Zenon, <2>2 DEF N!DataField
        <3>2. rec.tr = tr
            BY Zenon, <3>1 DEF NF9Inv, NF9Records
        <3>3. QED
            BY <1>1, <3>1, <3>2
    <2>3. CASE N!DataAppend
        BY Zenon, <1>1, <2>3 DEF N!DataAppend
    <2>4. QED
        BY Zenon, <2>1, <2>2, <2>3
<1>4. Advanced
    <2>1. total \in Nat /\ count \in 0..total
        BY Zenon DEF NF9Inv, NF9Reader
    <2>2. CASE N!DataField
        <3>1. N!Fields(tr) \in Seq(N!Specifiers)
            BY <1>1 DEF N!Fields, NF9Template
        <3>2. rec.fields \in Nat /\ rec.fields < Len(N!Fields(tr))
            BY <1>1, <2>2 DEF N!DataField
        <3> DEFINE spec == N!Fields(tr)[rec.fields + 1]
        <3>3. spec \in N!Specifiers
            <4>1. rec.fields + 1 \in 1..Len(N!Fields(tr))
                BY <3>1, <3>2
            <4>2. QED
                BY Zenon, <3>1, <4>1, SeqElement
        <3>4. N!Read(spec.Length) \/ UNCHANGED N!reader
            BY Zenon, <2>2 DEF N!DataField, N!ReadFails
        <3> HIDE DEF spec
        <3>5. spec.Length \in Nat
            BY Zenon, <3>3, NF9Numbers DEF N!Specifiers
        <3>6. QED
            BY Zenon, <2>1, <3>4, <3>5, NF9ReadsAdvance
    <2>3. CASE ~N!DataField
        <3>1. UNCHANGED N!reader
            BY Zenon, <2>3 DEF N!DataRecord, N!DataAppend
        <3>2. 0 \in Nat
            OBVIOUS
        <3>3. QED
            BY Zenon, <2>1, <3>1, <3>2, NF9ReadsAdvance
    <2>4. QED
        BY Zenon, <2>2, <2>3
<1>5. records' \in 0..MaxRecords
    <2>1. records' = records \/ records' = IF records < MaxRecords THEN records + 1 ELSE records
        BY Zenon DEF N!DataRecord, N!DataField, N!DataAppend
    <2>2. QED
        BY <1>1, <2>1, NF9Numbers
<1>6. NF9Reader'
    BY Zenon, <1>2, <1>4, NF9ReaderMoves DEF NF9Inv
<1>7. NF9Values'
    BY Zenon, <1>2, <1>3, <1>5 DEF NF9Inv, NF9Values
<1>8. NF9Templates'
    BY Zenon, <1>2 DEF NF9Inv, NF9Templates, NF9Cache, NF9Reports, N!Whole
<1>9. NF9Records'
    <2>1. pc \in {"set", "data"}
        BY Zenon, <1>2
    <2>2. QED
        BY Zenon, <1>2, <1>3, <2>1 DEF NF9Inv, NF9Records
<1> QED
    BY Zenon, <1>6, <1>7, <1>8, <1>9 DEF NF9Inv

(* Every step of Decode and of the others. *)
LEMMA NF9Step == NF9Inv /\ N!Next => NF9Inv'
BY Zenon, NF9Moves, NF9SetHeader, NF9SkipRest, NF9TemplateSteps, NF9Fails, NF9Inserts, NF9Data
DEF N!Next, N!decodeStep, NF9Move
-----------------------------------------------------------------------------
(* The three decoders. *)

DecodersInv ==
    /\ proto = "ipfix" => IPFIXInv
    /\ proto # "ipfix" => NF9Inv
    /\ SFlowInv

(* A worker's datagram is of its own protocol. *)
LEMMA DecodersStart == Init => DecodersInv
BY Zenon, IPFIXInit, NF9Init, SFlowInit DEF Init, DecodersInv

(* A step of one decoder leaves the others alone: IPFIX ... *)
LEMMA IPFIXKept == IPFIXInv /\ UNCHANGED ipfix9 => IPFIXInv'
<1> SUFFICES ASSUME IPFIXInv, UNCHANGED ipfix9 PROVE IPFIXInv'
    OBVIOUS
<1>1. UNCHANGED <<total, count, pc, set, err, tr, todo, rec, last, records, decodeErrors, mem, rpcChan>>
    BY Zenon DEF ipfix9
<1>2. IPFIXReader' /\ IPFIXValues'
    BY Zenon, <1>1 DEF IPFIXInv, IPFIXReader, IPFIXValues
<1>3. IPFIXSets' /\ IPFIXTemplates'
    BY Zenon, <1>1 DEF IPFIXInv, IPFIXSets, I!SetsAligned, I!BetweenSets, IPFIXTemplates, I!CachedWhole
<1>4. IPFIXRecords'
    BY Zenon, <1>1 DEF IPFIXInv, IPFIXRecords, I!TemplateSet
<1> QED
    BY Zenon, <1>2, <1>3, <1>4 DEF IPFIXInv

(* NetFlow v9 likewise. *)
LEMMA NF9Kept == NF9Inv /\ UNCHANGED ipfix9 => NF9Inv'
<1> SUFFICES ASSUME NF9Inv, UNCHANGED ipfix9 PROVE NF9Inv'
    OBVIOUS
<1>1. UNCHANGED <<total, count, pc, set, err, tr, todo, rec, last, records, TemplaRecord, decodeErrors, failed, mem>>
    BY Zenon DEF ipfix9
<1>2. NF9Reader' /\ NF9Values'
    BY Zenon, <1>1 DEF NF9Inv, NF9Reader, NF9Values
<1>3. NF9Templates'
    BY Zenon, <1>1 DEF NF9Inv, NF9Templates, NF9Cache, NF9Reports, N!Whole
<1>4. NF9Records'
    BY Zenon, <1>1 DEF NF9Inv, NF9Records
<1> QED
    BY Zenon, <1>2, <1>3, <1>4 DEF NF9Inv

(* And sFlow. *)
LEMMA SFlowKept == SFlowInv /\ UNCHANGED sflow => SFlowInv'
<1> SUFFICES ASSUME SFlowInv, UNCHANGED sflow PROVE SFlowInv'
    OBVIOUS
<1>1. UNCHANGED <<stotal, pos, spc, left, Samples, Counters, skipped, counted, end, declared, honest,
                 expanded>>
    BY Zenon DEF sflow
<1>2. SFlowType' /\ SamplesAddUp'
    BY Zenon, <1>1 DEF SFlowInv, SFlowType, SamplesAddUp
<1>3. Followed'
    BY Zenon, <1>1 DEF SFlowInv, Followed
<1> QED
    BY Zenon, <1>2, <1>3 DEF SFlowInv

(* The invariant is inductive. *)
LEMMA DecodersStep == DecodersInv /\ [Next]_vars => DecodersInv'
<1> SUFFICES ASSUME DecodersInv, [Next]_vars PROVE DecodersInv'
    OBVIOUS
<1>1. CASE IPFIX /\ I!Next
    BY Zenon, <1>1, IPFIXStep, SFlowKept DEF IPFIX, DecodersInv
<1>2. CASE NetflowV9 /\ N!Next
    <2>1. proto # "ipfix" /\ proto' # "ipfix"
        BY <1>2 DEF NetflowV9
    <2>2. QED
        BY Zenon, <1>2, <2>1, NF9Step, SFlowKept DEF NetflowV9, DecodersInv
<1>3. CASE SFlow /\ S!Next
    BY Zenon, <1>3, SFlowStep, NF9Kept, IPFIXKept DEF SFlow, DecodersInv
<1>4. CASE UNCHANGED vars
    BY Zenon, <1>4, SFlowKept, NF9Kept, IPFIXKept DEF vars, DecodersInv
<1> QED
    BY Zenon, <1>1, <1>2, <1>3, <1>4 DEF Next

(* It holds of every datagram. *)
LEMMA DecodersInvariant == Spec => []DecodersInv
<1>1. Init => DecodersInv
    BY DecodersStart
<1>2. DecodersInv /\ [Next]_vars => DecodersInv'
    BY DecodersStep
<1> QED
    BY <1>1, <1>2, PTL DEF Spec

(* What the invariant says of where the readers are. *)
LEMMA InPlace == DecodersInv => ReadInPlace
<1> SUFFICES ASSUME DecodersInv PROVE ReadInPlace
    OBVIOUS
<1>1. proto = "ipfix" => I!TypeOK /\ I!SetsAligned
    <2>1. SUFFICES ASSUME IPFIXReader, IPFIXValues, IPFIXSets PROVE I!TypeOK /\ I!SetsAligned
        BY Zenon DEF DecodersInv, IPFIXInv
    <2>2. set.start \in 0..count
        BY <2>1 DEF IPFIXReader
    <2>3. QED
        BY Zenon, <2>1, <2>2 DEF IPFIXReader, IPFIXValues, IPFIXSets, I!TypeOK
<1>2. proto # "ipfix" => N!TypeOK
    <2>1. SUFFICES ASSUME NF9Reader, NF9Values PROVE N!TypeOK
        BY Zenon DEF DecodersInv, NF9Inv
    <2>2. todo.scope \in Nat /\ todo.option \in Nat
        BY Zenon, <2>1 DEF NF9Values
    <2>3. QED
        BY Zenon, <2>1, <2>2 DEF NF9Reader, NF9Values, N!TypeOK
<1>3. S!SamplesAligned
    BY DEF DecodersInv, SFlowInv, SFlowType, Followed, S!SamplesAligned
<1>4. S!SamplesComplete
    <2> DEFINE x == Samples + Counters + skipped
    <2>1. left \in Int /\ counted \in Int /\ x \in Int
        BY DEF DecodersInv, SFlowInv, SFlowType
    <2>2. /\ spc = "decoded" => left = 0
          /\ (left = S!Many /\ counted = S!Many) \/ (left < S!Many /\ left + x = counted)
        BY Zenon DEF DecodersInv, SFlowInv, SamplesAddUp
    <2> HIDE DEF x
    <2>3. spc = "decoded" => x = counted
        BY <2>1, <2>2 DEF S!Many
    <2>4. QED
        BY Zenon, <2>3 DEF x, S!SamplesComplete
<1> QED
    BY Zenon, <1>1, <1>2, <1>3, <1>4 DEF ReadInPlace

(* The decoders read sets and samples from where the sender put them,      *)
(* whatever the datagram holds: leftoverBytes of decodeSet, a difference   *)
(* in 16 bits, ends where the set does or cannot be read, and SFDecode     *)
(* meets every sample the header counts, where the exporter's lengths put  *)
(* it if they are true.                                                    *)
THEOREM SetsAndSamplesInPlace == Spec => []ReadInPlace
<1>1. DecodersInv => ReadInPlace
    BY InPlace
<1> QED
    BY <1>1, DecodersInvariant, PTL

(* Only templates that were read to their last specifier are in the cache, *)
(* under their own id, also when the counts of a record wrap around or the *)
(* datagram ends early, and while other workers insert theirs; a NetFlow   *)
(* v9 record that was not read to the end is reported.                     *)
THEOREM OnlyWholeTemplates == Spec => []TemplatesWhole
<1>1. DecodersInv => TemplatesWhole
    <2> SUFFICES ASSUME DecodersInv PROVE TemplatesWhole
        OBVIOUS
    <2>1. proto = "ipfix" => I!CachedWhole
        BY Zenon DEF DecodersInv, IPFIXInv, IPFIXTemplates
    <2>2. ASSUME proto = "netflow9" PROVE N!TemplatesWhole /\ N!TemplateErrorsReported
        <3>1. proto # "ipfix"
            BY <2>2
        <3>2. NF9Cache /\ NF9Reports
            BY Zenon, <3>1 DEF DecodersInv, NF9Inv, NF9Templates
        <3>3. N!BetweenSets => ~(pc \in {"set", "skip"})
            BY Zenon DEF N!BetweenSets
        <3>4. QED
            BY Zenon, <3>2, <3>3 DEF NF9Cache, NF9Reports, N!TemplatesWhole, N!TemplateErrorsReported
    <2>3. QED
        BY Zenon, <2>1, <2>2 DEF TemplatesWhole
<1> QED
    BY <1>1, DecodersInvariant, PTL

(* The records of a set grow by DataAppend alone. *)
LEMMA RecordsGrow == DecodersInv /\ Next => I!SameTemplate
<1> SUFFICES ASSUME DecodersInv, Next, records > 0, records' > records PROVE last'.tr = last.tr
    BY Zenon DEF I!SameTemplate
<1>1. records \in Int
    BY DEF DecodersInv, IPFIXInv, IPFIXValues, NF9Inv, NF9Values
<1>2. records' # records /\ records' # 0
    BY <1>1
<1>3. CASE IPFIX /\ I!Next
    <2>1. I!DataAppend
        BY Zenon, <1>2, <1>3
        DEF I!Next, I!decodeStep, I!MessageHeader, I!MessageHeaderFails, I!NoMoreSets, I!SetHeader, I!SetEnds,
            I!TemplatePadding, I!TemplateHeader, I!OptionsHeader, I!OptionsHeaderFails, I!Specifier,
            I!SpecifierFails, I!Insert, I!DataRecord, I!DataField, I!SkipRest, I!OtherInsert, I!TakeRequest, I!outVars
    <2>2. IPFIXRecords
        BY Zenon, <1>3 DEF IPFIX, DecodersInv, IPFIXInv
    <2>3. QED
        BY Zenon, <2>1, <2>2 DEF I!DataAppend, IPFIXRecords
<1>4. CASE NetflowV9 /\ N!Next
    <2>1. N!DataAppend
        BY Zenon, <1>2, <1>4
        DEF N!Next, N!decodeStep, N!PacketHeader, N!NoMoreSets, N!SetHeader, N!SetEnds, N!TemplateHeader,
            N!OptionsHeader, N!OptionsHeaderFails, N!Specifier, N!SpecifierFails, N!TemplateFails, N!Insert,
            N!DataRecord, N!DataField, N!SkipRest, N!OtherInsert, N!outVars
    <2>2. proto # "ipfix"
        BY <1>4 DEF NetflowV9
    <2>3. NF9Records
        BY Zenon, <2>2 DEF DecodersInv, NF9Inv
    <2>4. QED
        BY Zenon, <2>1, <2>3 DEF N!DataAppend, NF9Records
<1>5. CASE SFlow /\ S!Next
    BY Zenon, <1>2, <1>5 DEF SFlow, ipfix9
<1> QED
    BY Zenon, <1>3, <1>4, <1>5 DEF Next

(* The records of one set are decoded with the template that decodeSet     *)
(* retrieved before its loop, though others replace it in the cache.       *)
THEOREM OneTemplateForASet == Spec => OneTemplatePerSet
<1>1. DecodersInv /\ [Next]_vars => [I!SameTemplate]_vars
    BY Zenon, RecordsGrow
<1> QED
    BY <1>1, DecodersInvariant, PTL DEF Spec, OneTemplatePerSet

-----------------------------------------------------------------------------
(* The records of a data set. *)

(* Multiples of d keep the order. *)
LEMMA Multiples ==
    ASSUME NEW a \in Int, NEW b \in Int, NEW d \in Nat, a <= b
    PROVE  a * d <= b * d
<1>1. (b - a) * d >= 0 /\ (b - a) * d = b * d - a * d
    OBVIOUS
<1> QED
    BY <1>1

(* One multiple more. *)
LEMMA NextMultiple ==
    ASSUME NEW a \in Int, NEW d \in Nat
    PROVE  a * d \in Int /\ (a + 1) * d = a * d + d /\ (a - 1) * d = a * d - d
OBVIOUS

(* Quotient and remainder are what the equation says. *)
LEMMA Quotient ==
    ASSUME NEW a \in Int, NEW d \in Nat, NEW q \in Int, NEW r \in 0..(d - 1), a = q * d + r
    PROVE  a \div d = q /\ a % d = r
<1> DEFINE p == a \div d
           s == a % d
<1>1. p \in Int /\ s \in 0..(d - 1) /\ a = p * d + s
    OBVIOUS
<1> HIDE DEF p, s
<1>2. ~(p <= q - 1)
    <2> SUFFICES ASSUME p <= q - 1 PROVE FALSE
        OBVIOUS
    <2>1. p * d <= (q - 1) * d
        BY <1>1, Multiples
    <2>2. QED
        BY <1>1, <2>1, NextMultiple
<1>3. ~(q <= p - 1)
    <2> SUFFICES ASSUME q <= p - 1 PROVE FALSE
        OBVIOUS
    <2>1. q * d <= (p - 1) * d
        BY <1>1, Multiples
    <2>2. QED
        BY <1>1, <2>1, NextMultiple
<1>4. p = q
    BY <1>1, <1>2, <1>3
<1>5. s = r
    BY <1>1, <1>4, NextMultiple
<1> QED
    BY <1>4, <1>5 DEF p, s

(* Specifiers with lengths. *)
Measured(s) == Len(s) \in Nat /\ \A k \in 1..Len(s) : s[k].Length \in Nat

(* FieldEnds adds the lengths up. *)
AddsUp(s) ==
    /\ I!FieldEnds(s) \in [0..Len(s) -> Nat] /\ I!FieldEnds(s)[0] = 0
    /\ \A k \in 1..Len(s) : I!FieldEnds(s)[k] = I!FieldEnds(s)[k - 1] + s[k].Length

(* However many there are. *)
EndsLaw == \A s : Measured(s) => AddsUp(s)

(* The fields of a template have lengths. *)
LEMMA IPFIXMeasured ==
    ASSUME NEW t \in IPFIXTemplate
    PROVE  Measured(I!Fields(t))
<1> DEFINE s == I!Fields(t)
<1>1. s \in Seq(I!Specifiers)
    BY DEF I!Fields, IPFIXTemplate
<1> HIDE DEF s
<1>2. Len(s) \in Nat
    BY <1>1
<1>3. ASSUME NEW k \in 1..Len(s) PROVE s[k].Length \in Nat
    <2>1. s[k].Length \in FieldLengths
        <3>1. s[k] \in I!Specifiers
            BY Zenon, <1>1, SeqElement
        <3>2. QED
            BY Zenon, <3>1 DEF I!Specifiers
    <2>2. FieldLengths \subseteq 0..(I!U16 - 1)
        BY Zenon, DecodersAssumption DEF I!DecoderAssumption
    <2>3. s[k].Length \in 0..(I!U16 - 1)
        BY Zenon, <2>1, <2>2
    <2>4. QED
        BY <2>3, IPFIXU16
<1> QED
    BY Zenon, <1>2, <1>3 DEF s, Measured

(* The size of a template is where its last field ends. *)
LEMMA Sizes ==
    ASSUME EndsLaw, NEW t, Measured(I!Fields(t))
    PROVE  I!Size(t) \in Nat
<1>1. AddsUp(I!Fields(t)) /\ Len(I!Fields(t)) \in 0..Len(I!Fields(t))
    BY DEF EndsLaw, Measured
<1> QED
    BY Zenon, <1>1 DEF AddsUp, I!Size

-----------------------------------------------------------------------------
(* The records of a data set are counted. *)
Reading == pc \in {"set", "data", "skip"} /\ err = "nil" /\ records < MaxRecords

(* The bytes of the record in hand that are read. *)
InRecord == IF pc = "data" THEN I!FieldEnds(I!Fields(tr))[rec.fields] ELSE 0

(* The reader is behind the records that were appended, and in the one in  *)
(* hand.                                                                   *)
BehindRecords ==
    /\ pc = "data" => rec.fields <= Len(I!Fields(tr))
    /\ count = set.start + 4 + records * I!Size(tr) + InRecord

IPFIXCount == Reading /\ set.SetID > 255 => BehindRecords /\ (pc = "skip" => ~I!MoreRecords)

(* A record begins: nothing of it is read. *)
LEMMA RecordBegins ==
    ASSUME EndsLaw, Measured(I!Fields(tr)),
           BehindRecords, pc = "set", pc' = "data", rec'.fields = 0, UNCHANGED <<total, count, set, tr, records>>
    PROVE  BehindRecords'
<1>1. AddsUp(I!Fields(tr)) /\ 0 <= Len(I!Fields(tr))
    BY DEF EndsLaw, Measured
<1>2. InRecord = 0 /\ InRecord' = 0
    <2>1. pc # "data" /\ I!FieldEnds(I!Fields(tr'))[rec'.fields] = 0
        BY Zenon, <1>1 DEF AddsUp
    <2>2. QED
        BY Zenon, <2>1 DEF InRecord
<1> QED
    BY Zenon, <1>1, <1>2 DEF BehindRecords

(* A field of it is read. *)
LEMMA FieldRead ==
    ASSUME EndsLaw, Measured(I!Fields(tr)), rec.fields \in Nat, rec.fields < Len(I!Fields(tr)),
           BehindRecords, pc = "data", pc' = "data", rec'.fields = rec.fields + 1,
           count \in Nat, count' = count + I!Fields(tr)[rec.fields + 1].Length,
           UNCHANGED <<set, tr, records>>, records \in Nat, set.start \in Nat
    PROVE  BehindRecords'
<1> DEFINE s == I!Fields(tr)
           k == rec.fields + 1
           e == I!FieldEnds(s)
           behind == set.start + 4 + records * I!Size(tr)
<1>1. AddsUp(s) /\ s[k].Length \in Nat /\ Len(s) \in Nat /\ k \in 1..Len(s) /\ k - 1 = rec.fields /\ k - 1 \in 0..Len(s)
    <2>1. Len(s) \in Nat
        BY Zenon DEF Measured
    <2> HIDE DEF s
    <2>2. k \in 1..Len(s) /\ k - 1 = rec.fields /\ k - 1 \in 0..Len(s)
        BY <2>1 DEF s
    <2> HIDE DEF k
    <2>3. s[k].Length \in Nat
        BY Zenon, <2>2 DEF Measured, s
    <2>4. AddsUp(s)
        BY Zenon DEF s, EndsLaw
    <2>5. QED
        BY Zenon, <2>1, <2>2, <2>3, <2>4
<1>2. e[k] = e[k - 1] + s[k].Length /\ e[k - 1] \in Nat
    <2> HIDE DEF s, k
    <2>1. QED
        BY Zenon, <1>1 DEF AddsUp
<1>3. InRecord = e[k - 1] /\ InRecord' = e[k]
    <2>1. I!FieldEnds(I!Fields(tr'))[rec'.fields] = e[k]
        BY Zenon
    <2>2. e[rec.fields] = e[k - 1]
        BY Zenon, <1>1
    <2>3. QED
        BY Zenon, <2>1, <2>2 DEF InRecord
<1>4. behind \in Int
    BY Sizes
<1>5. count = behind + InRecord /\ behind' = behind
    BY Zenon DEF BehindRecords
<1>6. count' = behind' + InRecord'
    <2>1. count' = count + s[k].Length
        BY Zenon
    <2> HIDE DEF behind, s, k, e
    <2>2. QED
        BY SMTT(60), <1>1, <1>2, <1>3, <1>4, <1>5, <2>1
<1>7. rec'.fields <= Len(I!Fields(tr)')
    <2>1. k <= Len(s)
        BY <1>1
    <2>2. QED
        BY Zenon, <2>1
<1> QED
    BY Zenon, <1>6, <1>7 DEF BehindRecords

(* It is appended when its last field is read. *)
LEMMA RecordAppended ==
    ASSUME EndsLaw, Measured(I!Fields(tr)), rec.fields = Len(I!Fields(tr)),
           BehindRecords, pc = "data", pc' = "set", records \in Nat, records' = records + 1,
           UNCHANGED <<count, set, tr>>, set.start \in Nat
    PROVE  BehindRecords'
<1> DEFINE z == I!Size(tr)
<1>1. z \in Nat /\ z' = z
    BY Zenon, Sizes
<1>2. InRecord = z /\ InRecord' = 0 /\ pc' # "data"
    <2>1. pc' # "data"
        BY Zenon
    <2>2. InRecord = z
        BY Zenon DEF InRecord, I!Size
    <2>3. QED
        BY Zenon, <2>1, <2>2 DEF InRecord
<1>3. count = set.start + 4 + records * z + InRecord
    BY Zenon DEF BehindRecords
<1> HIDE DEF z
<1>4. records * z \in Int /\ (records + 1) * z = records * z + z
    BY <1>1, NextMultiple
<1>5. count' = set'.start + 4 + records' * z' + InRecord'
    BY <1>1, <1>2, <1>3, <1>4
<1> QED
    BY Zenon, <1>2, <1>5 DEF BehindRecords, z

IPFIXCounted == IPFIXCount /\ I!RecordsCounted

(* Before the first set, and in a set of templates, nothing is counted. *)
LEMMA IPFIXNotCounted ==
    ASSUME IPFIXInv, UNCHANGED set,
           \/ pc = "header" /\ pc' \in {"sets", "done"}
           \/ I!TemplateSet /\ pc' \in {"set", "template", "skip"}
    PROVE  IPFIXCounted'
<1>1. CASE pc = "header" /\ pc' \in {"sets", "done"}
    <2>1. set' = I!NoSet
        BY Zenon, <1>1 DEF IPFIXInv, IPFIXSets
    <2>2. ~Reading' /\ ~I!BetweenSets'
        BY Zenon, <1>1, <2>1 DEF Reading, I!BetweenSets, I!NoSet
    <2>3. QED
        BY Zenon, <2>2 DEF IPFIXCounted, IPFIXCount, I!RecordsCounted
<1>2. CASE I!TemplateSet /\ pc' \in {"set", "template", "skip"}
    <2>1. ~(set'.SetID > 255)
        BY <1>2 DEF I!TemplateSet
    <2>2. QED
        BY Zenon, <2>1 DEF IPFIXCounted, IPFIXCount, I!RecordsCounted
<1> QED
    BY Zenon, <1>1, <1>2

(* What is counted stays so. *)
LEMMA IPFIXCountKept ==
    ASSUME IPFIXCounted, UNCHANGED <<total, count, set, err, tr, rec, records>>,
           pc' = pc \/ (pc = "sets" /\ pc' = "done")
    PROVE  IPFIXCounted'
<1>1. IPFIXCount'
    BY Zenon DEF IPFIXCounted, IPFIXCount, Reading, BehindRecords, InRecord, I!MoreRecords, I!Unread
<1>2. I!BetweenSets' => I!BetweenSets
    BY Zenon DEF I!BetweenSets
<1>3. I!RecordsCounted'
    BY Zenon, <1>2 DEF IPFIXCounted, I!RecordsCounted
<1> QED
    BY Zenon, <1>1, <1>3 DEF IPFIXCounted

(* A set begins behind its header. *)
LEMMA IPFIXCountBegins ==
    ASSUME EndsLaw, IPFIXInv, IPFIXInv', NEW id \in SetIDs, NEW len \in SetLengths, I!SetHeader(id, len)
    PROVE  IPFIXCounted'
<1>1. /\ count' = count + 4 /\ set'.start = count /\ records' = 0
      /\ pc' = "set" \/ (pc' = "sets" /\ err' = "fatal")
    BY Zenon DEF I!SetHeader, I!Read, I!advance
<1>2. I!Size(tr') \in Nat
    <2>1. tr' \in IPFIXTemplate
        BY Zenon DEF IPFIXInv, IPFIXValues
    <2>2. QED
        BY Zenon, <2>1, IPFIXMeasured, Sizes
<1>3. Reading' => BehindRecords' /\ pc' # "skip"
    <2> SUFFICES ASSUME Reading' PROVE BehindRecords' /\ pc' # "skip"
        OBVIOUS
    <2>1. pc' = "set"
        BY Zenon, <1>1 DEF Reading
    <2>2. InRecord' = 0 /\ pc' # "data" /\ pc' # "skip"
        BY <2>1 DEF InRecord
    <2>3. count \in Nat /\ 0 * I!Size(tr') = 0
        BY <1>2 DEF IPFIXInv, IPFIXReader
    <2>4. count' = set'.start + 4 + records' * I!Size(tr') + InRecord'
        BY <1>1, <2>2, <2>3
    <2>5. QED
        BY Zenon, <2>2, <2>4 DEF BehindRecords
<1>4. ~(I!BetweenSets' /\ err' = "nil")
    BY Zenon, <1>1 DEF I!BetweenSets
<1> QED
    BY Zenon, <1>3, <1>4 DEF IPFIXCounted, IPFIXCount, I!RecordsCounted

(* The loop over the records ends. *)
LEMMA IPFIXCountEnds ==
    ASSUME IPFIXInv, IPFIXCounted, I!SetEnds
    PROVE  IPFIXCounted'
<1>1. /\ pc = "set" /\ pc' = "skip" /\ (~I!MoreRecords \/ I!Reserved)
      /\ UNCHANGED <<total, count, set, err, tr, rec, records>>
    BY Zenon DEF I!SetEnds, I!reader, I!setVars, I!outVars
<1>2. ASSUME Reading', set'.SetID > 255 PROVE BehindRecords' /\ ~I!MoreRecords'
    <2>1. Reading /\ set.SetID > 255
        BY Zenon, <1>1, <1>2 DEF Reading
    <2>2. ~I!Reserved
        BY <2>1 DEF I!Reserved
    <2>3. I!MoreRecords' <=> I!MoreRecords
        BY Zenon, <1>1 DEF I!MoreRecords, I!Unread
    <2>4. BehindRecords
        BY Zenon, <2>1 DEF IPFIXCounted, IPFIXCount
    <2>5. QED
        BY Zenon, <1>1, <2>2, <2>3, <2>4 DEF BehindRecords, InRecord
<1>3. ~I!BetweenSets'
    BY Zenon, <1>1 DEF I!BetweenSets
<1> QED
    BY Zenon, <1>2, <1>3 DEF IPFIXCounted, IPFIXCount, I!RecordsCounted

(* The fields of a record, and the record. *)
LEMMA IPFIXCountData ==
    ASSUME EndsLaw, IPFIXInv, IPFIXCounted, I!DataRecord \/ I!DataField \/ I!DataAppend
    PROVE  IPFIXCounted'
<1>1. Measured(I!Fields(tr)) /\ rec.fields \in Nat /\ records \in Nat
    <2>1. tr \in IPFIXTemplate /\ rec \in [tr : IPFIXTemplate, fields : Nat] /\ records \in 0..MaxRecords
        BY Zenon DEF IPFIXInv, IPFIXValues
    <2>2. MaxRecords \in Nat
        BY Zenon, DecodersAssumption DEF I!DecoderAssumption
    <2>3. records \in Nat
        BY <2>1, <2>2
    <2>4. QED
        BY Zenon, <2>1, <2>3, IPFIXMeasured
<1>2. count \in Nat /\ set.start \in Nat
    BY DEF IPFIXInv, IPFIXReader
<1>3. /\ UNCHANGED <<set, tr>> /\ pc \in {"set", "data"} /\ pc' \in {"set", "data"}
      /\ err' \in {err, "nonfatal", "fatal"}
      /\ records' = records \/ (records < MaxRecords /\ records' = records + 1)
    BY Zenon DEF I!DataRecord, I!DataField, I!DataAppend, I!setVars
<1>4. ASSUME Reading', set'.SetID > 255 PROVE BehindRecords'
    <2>1. records < MaxRecords /\ err = "nil"
        <3>1. records < MaxRecords
            BY Zenon, <1>3, <1>4 DEF Reading
        <3>2. QED
            BY <1>3, <1>4, <3>1 DEF Reading
    <2>2. BehindRecords
        BY Zenon, <1>3, <1>4, <2>1 DEF Reading, IPFIXCounted, IPFIXCount
    <2>3. CASE I!DataRecord
        <3>1. rec'.fields = 0 /\ pc = "set" /\ pc' = "data" /\ UNCHANGED <<total, count, set, tr, records>>
            BY Zenon, <2>3 DEF I!DataRecord, I!reader, I!setVars
        <3>2. QED
            BY Zenon, <1>1, <2>2, <3>1, RecordBegins
    <2>4. CASE I!DataField
        <3>1. err' = "nil"
            BY Zenon, <1>4 DEF Reading
        <3>2. /\ pc = "data" /\ pc' = "data" /\ rec.fields < Len(I!Fields(tr))
              /\ rec' = [rec EXCEPT !.fields = rec.fields + 1]
              /\ count' = count + I!Fields(tr)[rec.fields + 1].Length
              /\ UNCHANGED <<set, tr, records>>
            BY <2>4, <3>1 DEF I!DataField, I!Read, I!advance
        <3>3. rec'.fields = rec.fields + 1
            <4>1. rec \in [tr : IPFIXTemplate, fields : Nat]
                BY Zenon DEF IPFIXInv, IPFIXValues
            <4>2. QED
                BY Zenon, <3>2, <4>1
        <3>4. QED
            BY Zenon, <1>1, <1>2, <2>2, <3>2, <3>3, FieldRead
    <2>5. CASE I!DataAppend
        <3>1. /\ pc = "data" /\ pc' = "set" /\ rec.fields = Len(I!Fields(tr)) /\ records' = records + 1
              /\ UNCHANGED <<count, set, tr>>
            BY Zenon, <2>1, <2>5 DEF I!DataAppend, I!reader, I!setVars
        <3>2. QED
            BY Zenon, <1>1, <1>2, <2>2, <3>1, RecordAppended
    <2>6. QED
        BY Zenon, <2>3, <2>4, <2>5
<1>5. pc' # "skip" /\ ~I!BetweenSets'
    BY Zenon, <1>3 DEF I!BetweenSets
<1> QED
    BY Zenon, <1>4, <1>5 DEF IPFIXCounted, IPFIXCount, I!RecordsCounted

(* A set of l bytes of which r records of z bytes are read, when no more   *)
(* is left than could be padding.                                          *)
LEMMA RecordsFit ==
    ASSUME NEW z \in Nat, z > 4, NEW r \in Nat, NEW l \in Int, NEW rest \in 0..4, l - 4 = r * z + rest
    PROVE  r = (l - 4) \div z /\ (l - 4) % z = rest
<1>1. rest \in 0..(z - 1) /\ l - 4 \in Int
    OBVIOUS
<1> QED
    BY <1>1, Quotient

(* The rest is padding. *)
LEMMA IPFIXCountSkips ==
    ASSUME EndsLaw, IPFIXInv, IPFIXInv', IPFIXCounted, I!SkipRest
    PROVE  IPFIXCounted'
<1> DEFINE n == I!leftoverBytes
           z == I!Size(tr)
<1>1. /\ pc = "skip" /\ pc' = "sets"
      /\ (I!Read(n) /\ UNCHANGED err) \/ err' = "fatal"
      /\ UNCHANGED <<set, tr, records>>
    BY Zenon DEF I!SkipRest, I!outVars
<1>2. ~Reading'
    BY Zenon, <1>1 DEF Reading
<1>3. SUFFICES ASSUME I!BetweenSets', err' = "nil", set'.SetID > 255, I!Size(tr)' > 4, records' < MaxRecords
               PROVE  records' = (set'.Length - 4) \div I!Size(tr)'
    BY Zenon, <1>2 DEF IPFIXCounted, IPFIXCount, I!RecordsCounted
<1>4. err = "nil" /\ I!Read(n)
    BY Zenon, <1>1, <1>3
<1>5. Reading /\ set.SetID > 255
    BY Zenon, <1>1, <1>3, <1>4 DEF Reading
<1>6. BehindRecords /\ ~I!MoreRecords
    BY Zenon, <1>1, <1>5 DEF IPFIXCounted, IPFIXCount
<1>7. /\ total \in 0..(I!U16 - 1) /\ count \in 0..total /\ set.start \in Nat /\ set.start <= count
      /\ set.Length \in 0..(I!U16 - 1)
    BY DEF IPFIXInv, IPFIXReader
<1>8. records \in Nat /\ z \in Nat /\ z > 4
    <2>1. tr \in IPFIXTemplate /\ records \in 0..MaxRecords /\ MaxRecords \in Nat
        BY Zenon, DecodersAssumption DEF IPFIXInv, IPFIXValues, I!DecoderAssumption
    <2>2. records \in Nat
        BY <2>1
    <2>3. QED
        BY Zenon, <1>1, <1>3, <2>1, <2>2, IPFIXMeasured, Sizes
<1>9. n \in Nat /\ (count + n <= total => count + n = set.start + set.Length)
    BY Zenon, <1>7, Leftover DEF I!leftoverBytes
<1>10. count = set.start + 4 + records * z
    <2>1. InRecord = 0
        BY <1>1 DEF InRecord
    <2>2. records * z \in Int
        BY <1>8, NextMultiple
    <2> HIDE DEF z
    <2>3. count = set.start + 4 + records * z + InRecord
        BY Zenon, <1>6 DEF BehindRecords, z
    <2>4. QED
        BY SMTT(30), <1>7, <2>1, <2>2, <2>3
<1> HIDE DEF n, z
<1>11. n <= total - count
    BY Zenon, <1>4 DEF I!Read, I!Unread
<1>12. set.Length <= count - set.start \/ total - count <= 4
    <2>1. (count - set.start) % I!U16 = count - set.start
        <3>1. count - set.start \in 0..(I!U16 - 1) /\ count - set.start \in Int
            BY <1>7, IPFIXU16
        <3>2. QED
            BY Zenon, <3>1, Modulo, IPFIXU16
    <2>2. ~(set.Length > count - set.start) \/ ~(total - count > 4)
        BY Zenon, <1>4, <1>6, <2>1 DEF I!MoreRecords, I!Unread
    <2>3. QED
        BY <1>7, <2>2, IPFIXU16
<1>13. n \in 0..4 /\ set.Length - 4 = records * z + n
    <2>1. records * z \in Int
        BY <1>8, NextMultiple
    <2>2. count + n = set.start + set.Length
        BY <1>7, <1>9, <1>11, IPFIXU16
    <2>3. QED
        BY SMTT(30), <1>7, <1>9, <1>10, <1>11, <1>12, <2>1, <2>2, IPFIXU16
<1>14. records = (set.Length - 4) \div z
    <2>1. set.Length \in Int
        BY <1>7, IPFIXU16
    <2>2. QED
        BY Zenon, <1>8, <1>13, <2>1, RecordsFit
<1> QED
    BY Zenon, <1>1, <1>14 DEF z

(* Every step. *)
LEMMA IPFIXCountStep ==
    ASSUME EndsLaw, IPFIXInv, IPFIXInv', IPFIXCounted, I!Next
    PROVE  IPFIXCounted'
<1>1. CASE I!MessageHeader \/ I!MessageHeaderFails
    BY Zenon, <1>1, IPFIXNotCounted DEF I!MessageHeader, I!MessageHeaderFails, I!setVars
<1>2. CASE \/ \E id \in TemplateIDs, n \in FieldCounts :
               \/ I!TemplateHeader(id, n)
               \/ \E s \in ScopeCounts : I!OptionsHeader(id, n, s)
           \/ I!TemplatePadding \/ I!OptionsHeaderFails
    <2>1. /\ UNCHANGED set /\ pc' \in {"set", "template", "skip"}
          /\ I!TemplateSet
        BY Zenon, <1>2 DEF I!TemplateHeader, I!OptionsHeader, I!TemplatePadding, I!OptionsHeaderFails, I!setVars, I!TemplateSet
    <2>2. QED
        BY Zenon, <2>1, IPFIXNotCounted
<1>3. CASE \/ \E spec \in I!Specifiers, e \in BOOLEAN : I!Specifier(spec, e)
           \/ \E e \in BOOLEAN : I!SpecifierFails(e)
           \/ I!Insert
    <2>1. UNCHANGED set /\ pc = "template" /\ pc' \in {"set", "template", "skip"}
        BY Zenon, <1>3 DEF I!Specifier, I!SpecifierFails, I!Insert, I!setVars
    <2>2. QED
        BY Zenon, <2>1, IPFIXNotCounted DEF IPFIXInv, IPFIXRecords
<1>4. CASE \/ I!NoMoreSets \/ I!TakeRequest
           \/ \E id \in TemplateIDs \ {0} : \E t \in I!OtherTemplates(id) : I!OtherInsert(id, t)
    <2>1. UNCHANGED <<total, count, set, err, tr, rec, records>> /\ (pc' = pc \/ (pc = "sets" /\ pc' = "done"))
        BY Zenon, <1>4 DEF I!NoMoreSets, I!OtherInsert, I!TakeRequest, I!reader, I!setVars, I!outVars
    <2>2. QED
        BY Zenon, <2>1, IPFIXCountKept
<1> QED
    BY Zenon, <1>1, <1>2, <1>3, <1>4, IPFIXCountBegins, IPFIXCountEnds, IPFIXCountData, IPFIXCountSkips
    DEF I!Next, I!decodeStep

(* NetFlow v9 has the same order of fields. *)
LEMMA SameFields == \A t : N!Fields(t) = I!Fields(t) /\ N!Size(t) = I!Size(t)
BY Zenon DEF N!Size, N!Fields, N!FieldEnds, I!Size, I!Fields, I!FieldEnds

(* The fields of a template have lengths. *)
LEMMA NF9Measured ==
    ASSUME NEW t \in NF9Template
    PROVE  Measured(I!Fields(t))
<1> DEFINE s == I!Fields(t)
<1>1. s \in Seq(N!Specifiers)
    BY DEF I!Fields, NF9Template
<1> HIDE DEF s
<1>2. Len(s) \in Nat
    BY <1>1
<1>3. ASSUME NEW k \in 1..Len(s) PROVE s[k].Length \in Nat
    <2>1. s[k] \in N!Specifiers
        BY Zenon, <1>1, SeqElement
    <2>2. QED
        BY Zenon, <2>1, NF9Numbers DEF N!Specifiers
<1> QED
    BY Zenon, <1>2, <1>3 DEF s, Measured

(* A record was begun only when more than padding was left. *)
RecordsBegun ==
    /\ set.Length >= 4
    /\ pc = "data" => set.Length - 4 - records * I!Size(tr) > 4
    /\ records > 0 => set.Length - 4 - (records - 1) * I!Size(tr) > 4

NF9Count ==
    Reading /\ set.FlowSetID > 255 => BehindRecords /\ RecordsBegun /\ (pc = "skip" => ~N!MoreRecords)

NF9Counted == NF9Count /\ (pc = "header" => set = N!NoSet) /\ N!PaddedSetRead

(* Before the first set, and in a set of templates, nothing is counted. *)
LEMMA NF9NotCounted ==
    ASSUME NF9Counted, UNCHANGED set,
           \/ pc = "header" /\ pc' \in {"sets", "done"}
           \/ set.FlowSetID \in {0, 1} /\ pc' \in {"set", "template", "skip"}
    PROVE  NF9Counted'
<1>1. CASE pc = "header" /\ pc' \in {"sets", "done"}
    <2>1. set' = N!NoSet
        BY Zenon, <1>1 DEF NF9Counted
    <2>2. ~Reading' /\ ~N!BetweenSets'
        BY Zenon, <1>1, <2>1 DEF Reading, N!BetweenSets, N!NoSet
    <2>3. QED
        BY Zenon, <2>1, <2>2 DEF NF9Counted, NF9Count, N!PaddedSetRead
<1>2. CASE set.FlowSetID \in {0, 1} /\ pc' \in {"set", "template", "skip"}
    <2>1. ~(set'.FlowSetID > 255)
        BY <1>2
    <2>2. pc' # "header"
        BY Zenon, <1>2
    <2>3. QED
        BY Zenon, <2>1, <2>2 DEF NF9Counted, NF9Count, N!PaddedSetRead
<1> QED
    BY Zenon, <1>1, <1>2

(* What is counted stays so. *)
LEMMA NF9CountKept ==
    ASSUME NF9Counted, UNCHANGED <<total, count, set, err, tr, rec, records>>,
           pc' = pc \/ (pc = "sets" /\ pc' = "done")
    PROVE  NF9Counted'
<1>1. NF9Count'
    BY ZenonT(60) DEF NF9Counted, NF9Count, Reading, BehindRecords, RecordsBegun, InRecord, N!MoreRecords,
                 N!leftoverBytes, N!Unread
<1>2. N!BetweenSets' => N!BetweenSets
    BY Zenon DEF N!BetweenSets
<1>3. N!PaddedSetRead'
    BY Zenon, <1>2 DEF NF9Counted, N!PaddedSetRead
<1> QED
    BY Zenon, <1>1, <1>3 DEF NF9Counted

(* A set begins behind its header. *)
LEMMA NF9CountBegins ==
    ASSUME EndsLaw, NF9Inv, NF9Inv', NEW id \in SetIDs9, NEW len \in SetLengths, N!SetHeader(id, len)
    PROVE  NF9Counted'
<1>1. /\ count' = count + 4 /\ set'.start = count /\ records' = 0 /\ set'.Length = len
      /\ (pc' = "set" /\ len >= 4) \/ (pc' = "sets" /\ err' = "fatal")
    BY Zenon DEF N!SetHeader, N!Read, N!advance
<1>2. I!Size(tr') \in Nat
    <2>1. tr' \in NF9Template
        BY Zenon DEF NF9Inv, NF9Values
    <2>2. QED
        BY Zenon, <2>1, NF9Measured, Sizes
<1>3. Reading' => BehindRecords' /\ RecordsBegun' /\ pc' # "skip"
    <2> SUFFICES ASSUME Reading' PROVE BehindRecords' /\ RecordsBegun' /\ pc' # "skip"
        OBVIOUS
    <2>1. pc' = "set" /\ len >= 4
        BY ZenonT(60), <1>1 DEF Reading
    <2>2. InRecord' = 0 /\ pc' # "data" /\ pc' # "skip" /\ ~(records' > 0)
        BY SMTT(30), <1>1, <2>1 DEF InRecord
    <2>3. count \in Nat /\ 0 * I!Size(tr') = 0
        BY <1>2 DEF NF9Inv, NF9Reader
    <2>4. count' = set'.start + 4 + records' * I!Size(tr') + InRecord'
        BY <1>1, <2>2, <2>3
    <2>5. QED
        BY Zenon, <1>1, <2>1, <2>2, <2>4 DEF BehindRecords, RecordsBegun
<1>4. ~(N!BetweenSets' /\ err' = "nil") /\ pc' # "header"
    BY Zenon, <1>1 DEF N!BetweenSets
<1> QED
    BY Zenon, <1>3, <1>4 DEF NF9Counted, NF9Count, N!PaddedSetRead

(* The loop over the records ends. *)
LEMMA NF9CountEnds ==
    ASSUME NF9Inv, NF9Counted, N!SetEnds
    PROVE  NF9Counted'
<1>1. /\ pc = "set" /\ pc' = "skip" /\ (~N!MoreRecords \/ N!Reserved)
      /\ UNCHANGED <<total, count, set, err, tr, rec, records>>
    BY Zenon DEF N!SetEnds, N!reader, N!setVars, N!outVars
<1>2. ASSUME Reading', set'.FlowSetID > 255 PROVE BehindRecords' /\ RecordsBegun' /\ ~N!MoreRecords'
    <2>1. Reading /\ set.FlowSetID > 255
        BY Zenon, <1>1, <1>2 DEF Reading
    <2>2. ~N!Reserved
        BY <2>1 DEF N!Reserved
    <2>3. N!MoreRecords' <=> N!MoreRecords
        BY Zenon, <1>1 DEF N!MoreRecords, N!leftoverBytes, N!Unread
    <2>4. BehindRecords /\ RecordsBegun
        BY Zenon, <2>1 DEF NF9Counted, NF9Count
    <2>5. QED
        BY Zenon, <1>1, <2>2, <2>3, <2>4 DEF BehindRecords, RecordsBegun, InRecord
<1>3. ~N!BetweenSets' /\ pc' # "header"
    BY Zenon, <1>1 DEF N!BetweenSets
<1> QED
    BY Zenon, <1>2, <1>3 DEF NF9Counted, NF9Count, N!PaddedSetRead

(* The fields of a record, and the record. *)
LEMMA NF9CountData ==
    ASSUME EndsLaw, NF9Inv, NF9Counted, N!DataRecord \/ N!DataField \/ N!DataAppend
    PROVE  NF9Counted'
<1>1. Measured(I!Fields(tr)) /\ rec.fields \in Nat /\ records \in Nat
    <2>1. tr \in NF9Template /\ rec \in [tr : NF9Template, fields : Nat] /\ records \in 0..MaxRecords
        BY Zenon DEF NF9Inv, NF9Values
    <2>2. records \in Nat
        BY <2>1, NF9Numbers
    <2>3. QED
        BY Zenon, <2>1, <2>2, NF9Measured
<1>2. count \in Nat /\ set.start \in Nat /\ set.Length \in Nat
    BY DEF NF9Inv, NF9Reader
<1>3. /\ UNCHANGED <<set, tr>> /\ pc \in {"set", "data"} /\ pc' \in {"set", "data"}
      /\ err' \in {err, "nonfatal", "fatal"}
      /\ records' = records \/ (records < MaxRecords /\ records' = records + 1)
    BY Zenon DEF N!DataRecord, N!DataField, N!DataAppend, N!setVars
<1>4. ASSUME Reading', set'.FlowSetID > 255 PROVE BehindRecords' /\ RecordsBegun'
    <2>1. records < MaxRecords /\ err = "nil"
        <3>1. records < MaxRecords
            BY Zenon, <1>3, <1>4 DEF Reading
        <3>2. QED
            BY <1>3, <1>4, <3>1 DEF Reading
    <2>2. BehindRecords /\ RecordsBegun
        BY Zenon, <1>3, <1>4, <2>1 DEF Reading, NF9Counted, NF9Count
    <2>3. CASE N!DataRecord
        <3>1. /\ rec'.fields = 0 /\ pc = "set" /\ pc' = "data" /\ UNCHANGED <<total, count, set, tr, records>>
              /\ N!leftoverBytes > 4
            BY Zenon, <2>3 DEF N!DataRecord, N!MoreRecords, N!reader, N!setVars
        <3>2. BehindRecords'
            BY Zenon, <1>1, <2>2, <3>1, RecordBegins
        <3>3. set.Length - 4 - records * I!Size(tr) > 4
            <4>1. InRecord = 0
                BY <3>1 DEF InRecord
            <4>2. count = set.start + 4 + records * I!Size(tr) + InRecord
                BY Zenon, <2>2 DEF BehindRecords
            <4> DEFINE z == records * I!Size(tr)
            <4>3. z \in Int
                BY <1>1, Sizes
            <4> HIDE DEF z
            <4>4. count = set.start + 4 + z + InRecord /\ set.Length - (count - set.start) > 4
                BY Zenon, <3>1, <4>2 DEF z, N!leftoverBytes
            <4>5. set.Length - 4 - z > 4
                BY <1>2, <4>1, <4>3, <4>4
            <4>6. QED
                BY Zenon, <4>5 DEF z
        <3>4. QED
            BY Zenon, <2>2, <3>1, <3>2, <3>3 DEF RecordsBegun
    <2>4. CASE N!DataField
        <3>1. err' = "nil"
            BY Zenon, <1>4 DEF Reading
        <3>2. /\ pc = "data" /\ pc' = "data" /\ rec.fields < Len(N!Fields(tr))
              /\ rec' = [rec EXCEPT !.fields = rec.fields + 1]
              /\ count' = count + N!Fields(tr)[rec.fields + 1].Length
              /\ UNCHANGED <<set, tr, records>>
            BY SMTT(30), <2>4, <3>1 DEF N!DataField, N!Read, N!advance
        <3>3. rec'.fields = rec.fields + 1
            <4>1. rec \in [tr : NF9Template, fields : Nat]
                BY Zenon DEF NF9Inv, NF9Values
            <4>2. QED
                BY Zenon, <3>2, <4>1
        <3>4. /\ rec.fields < Len(I!Fields(tr))
              /\ count' = count + I!Fields(tr)[rec.fields + 1].Length
            BY Zenon, <3>2, SameFields
        <3>5. BehindRecords'
            BY Zenon, <1>1, <1>2, <2>2, <3>2, <3>3, <3>4, FieldRead
        <3>6. QED
            BY Zenon, <2>2, <3>2, <3>5 DEF RecordsBegun
    <2>5. CASE N!DataAppend
        <3>1. /\ pc = "data" /\ pc' = "set" /\ rec.fields = Len(N!Fields(tr)) /\ records' = records + 1
              /\ UNCHANGED <<count, set, tr>>
            BY Zenon, <2>1, <2>5 DEF N!DataAppend, N!reader, N!setVars
        <3>2. rec.fields = Len(I!Fields(tr))
            BY Zenon, <3>1, SameFields
        <3>3. BehindRecords'
            BY Zenon, <1>1, <1>2, <2>2, <3>1, <3>2, RecordAppended
        <3>4. records' - 1 = records /\ pc' # "data"
            BY <1>1, <3>1
        <3>5. QED
            BY Zenon, <2>2, <3>1, <3>3, <3>4 DEF RecordsBegun
    <2>6. QED
        BY Zenon, <2>3, <2>4, <2>5
<1>5. pc' # "skip" /\ pc' # "header" /\ ~N!BetweenSets'
    BY Zenon, <1>3 DEF N!BetweenSets
<1> QED
    BY Zenon, <1>4, <1>5 DEF NF9Counted, NF9Count, N!PaddedSetRead

(* When the last record runs over the end of a set of l bytes, the set     *)
(* holds it: what remains of l - 4 bytes for it is padding or a record.    *)
LEMMA RecordsOver ==
    ASSUME NEW z \in Nat, z > 4, NEW r \in Nat, NEW l \in Int, l >= 4, l - 4 - r * z <= 0,
           r > 0 => l - 4 - (r - 1) * z > 4, (l - 4) % z <= 4
    PROVE  r = (l - 4) \div z /\ l - 4 = r * z
<1> DEFINE p == r * z
           a == l - 4
<1>1. p \in Int /\ (r - 1) * z = p - z /\ a \in Int
    BY NextMultiple
<1>2. r = 0 => p = 0
    OBVIOUS
<1>3. a - p <= 0 /\ a >= 0 /\ (r > 0 => a - p + z > 4)
    <2>1. r > 0 => a - (p - z) > 4
        BY Zenon, <1>1
    <2> HIDE DEF p
    <2>2. QED
        BY <1>1, <2>1 DEF p
<1>4. ~(a - p < 0)
    <2> SUFFICES ASSUME a - p < 0 PROVE FALSE
        OBVIOUS
    <2> HIDE DEF p, a
    <2>1. r > 0
        BY SMTT(30), <1>1, <1>2, <1>3
    <2> DEFINE s == a - p + z
    <2>2. s \in 0..(z - 1) /\ s > 4 /\ a = (p - z) + s /\ r - 1 \in Int
        BY <1>1, <1>3, <2>1
    <2> HIDE DEF s
    <2>3. a % z = s
        <3>1. a = (r - 1) * z + s
            BY Zenon, <1>1, <2>2
        <3>2. QED
            BY ZenonT(60), <1>1, <2>2, <3>1, Quotient
    <2>4. QED
        BY <2>2, <2>3 DEF a
<1>5. a = p + 0 /\ 0 \in 0..(z - 1)
    <2> HIDE DEF p, a
    <2>1. QED
        BY <1>1, <1>3, <1>4
<1>6. a \div z = r
    <2> HIDE DEF a
    <2>1. QED
        BY <1>1, <1>5, Quotient
<1>7. a = p
    <2> HIDE DEF p, a
    <2>1. QED
        BY <1>1, <1>5
<1> QED
    BY Zenon, <1>6, <1>7

(* The rest is padding, or the last record was the rest. *)
LEMMA NF9CountSkips ==
    ASSUME EndsLaw, NF9Inv, NF9Counted, N!SkipRest
    PROVE  NF9Counted'
<1> DEFINE n == N!leftoverBytes
           z == I!Size(tr)
           p == records * z
<1>1. /\ pc = "skip" /\ pc' = "sets"
      /\ \/ UNCHANGED err /\ n <= 0 /\ UNCHANGED count
         \/ UNCHANGED err /\ n > 0 /\ N!Read(n)
         \/ err' = "fatal"
      /\ UNCHANGED <<set, tr, records>>
    BY Zenon DEF N!SkipRest, N!outVars, N!reader
<1>2. ~Reading' /\ pc' # "header"
    BY Zenon, <1>1 DEF Reading
<1>3. SUFFICES ASSUME N!BetweenSets', err' = "nil", set'.FlowSetID > 255, N!Size(tr)' > 4,
                      (set'.Length - 4) % N!Size(tr)' <= 4, records' < MaxRecords
               PROVE  records' = (set'.Length - 4) \div N!Size(tr)' /\ count' = set'.start + set'.Length
    BY Zenon, <1>2 DEF NF9Counted, NF9Count, N!PaddedSetRead
<1>4. err = "nil" /\ ((n <= 0 /\ UNCHANGED count) \/ (n > 0 /\ N!Read(n)))
    BY Zenon, <1>1, <1>3
<1>5. Reading /\ set.FlowSetID > 255
    BY Zenon, <1>1, <1>3, <1>4 DEF Reading
<1>6. BehindRecords /\ RecordsBegun /\ ~N!MoreRecords
    BY Zenon, <1>1, <1>5 DEF NF9Counted, NF9Count
<1>7. total \in Nat /\ count \in 0..total /\ set.start \in Nat /\ set.Length \in Nat
    BY DEF NF9Inv, NF9Reader
<1>8. records \in Nat /\ z \in Nat /\ z > 4 /\ (set.Length - 4) % z <= 4
    <2>1. tr \in NF9Template /\ records \in 0..MaxRecords
        BY Zenon DEF NF9Inv, NF9Values
    <2>2. records \in Nat
        BY <2>1, NF9Numbers
    <2>3. QED
        BY Zenon, <1>1, <1>3, <2>1, <2>2, NF9Measured, Sizes, SameFields
<1>9. p \in Int
    BY <1>8, NextMultiple
<1>10. count = set.start + 4 + p + InRecord /\ InRecord = 0
    <2>1. InRecord = 0
        BY <1>1 DEF InRecord
    <2>2. QED
        BY Zenon, <1>6, <2>1 DEF BehindRecords
<1>11. n = set.Length - (count - set.start)
    BY Zenon DEF N!leftoverBytes
<1>12. ~(n > 4) \/ ~(total - count > 4)
    BY Zenon, <1>5, <1>6 DEF N!MoreRecords, N!Unread, Reading
<1>13. n > 0 /\ N!Read(n) => n <= total - count /\ count' = count + n
    <2>1. n \in Int
        BY SMTT(30), <1>7, <1>11
    <2> HIDE DEF n
    <2>2. QED
        BY <1>7, <2>1 DEF N!Read, N!advance, N!Unread
<1> HIDE DEF n
<1>14. n \in Int /\ set.Length - 4 = p + n /\ count + n = set.start + set.Length /\ set.Length - 4 - p = n
    <2> HIDE DEF p
    <2>1. QED
        BY <1>7, <1>9, <1>10, <1>11
<1>15. ASSUME n > 0, N!Read(n) PROVE records = (set.Length - 4) \div z /\ count' = set.start + set.Length
    <2> HIDE DEF p
    <2>1. n \in 0..4
        BY SMTT(30), <1>7, <1>12, <1>13, <1>14, <1>15
    <2>2. set.Length - 4 = records * z + n /\ set.Length \in Int
        BY <1>7, <1>14 DEF p
    <2> HIDE DEF z
    <2>3. records = (set.Length - 4) \div z
        BY Zenon, <1>8, <2>1, <2>2, RecordsFit
    <2>4. QED
        BY Zenon, <1>13, <1>14, <1>15, <2>3
<1>16. ASSUME n <= 0, UNCHANGED count PROVE records = (set.Length - 4) \div z /\ count' = set.start + set.Length
    <2>1. set.Length >= 4 /\ (records > 0 => set.Length - 4 - (records - 1) * z > 4)
        BY Zenon, <1>6 DEF RecordsBegun
    <2>2. set.Length - 4 - records * z <= 0 /\ set.Length \in Int
        <3>1. set.Length - 4 - p <= 0
            BY Zenon, <1>14, <1>16
        <3>2. QED
            BY <1>7, <3>1
    <2> HIDE DEF z
    <2>3. records = (set.Length - 4) \div z /\ set.Length - 4 = p
        BY Zenon, <1>8, <2>1, <2>2, RecordsOver
    <2> HIDE DEF p
    <2>4. n = 0
        BY SMTT(30), <1>9, <1>14, <2>3
    <2>5. count = set.start + set.Length
        BY <1>7, <1>14, <2>4
    <2>6. QED
        BY Zenon, <1>16, <2>3, <2>5
<1> QED
    BY Zenon, <1>1, <1>4, <1>15, <1>16, SameFields DEF z

(* Every step. *)
LEMMA NF9CountStep ==
    ASSUME EndsLaw, NF9Inv, NF9Inv', NF9Counted, N!Next
    PROVE  NF9Counted'
<1>1. CASE N!PacketHeader
    BY Zenon, <1>1, NF9NotCounted DEF N!PacketHeader, N!setVars
<1>2. CASE \/ \E id \in TemplateIDs9, n \in FieldCounts : N!TemplateHeader(id, n)
           \/ \E id \in TemplateIDs9, s, o \in OptionLengths : N!OptionsHeader(id, s, o)
           \/ N!OptionsHeaderFails
    <2>1. UNCHANGED set /\ pc' \in {"set", "template", "skip"} /\ set.FlowSetID \in {0, 1}
        BY Zenon, <1>2 DEF N!TemplateHeader, N!OptionsHeader, N!OptionsHeaderFails, N!TemplateFails, N!setVars
    <2>2. QED
        BY Zenon, <2>1, NF9NotCounted
<1>3. CASE (\E spec \in N!Specifiers : N!Specifier(spec)) \/ N!SpecifierFails \/ N!Insert
    <2>1. UNCHANGED set /\ pc = "template" /\ pc' \in {"set", "template", "skip"}
        BY Zenon, <1>3 DEF N!Specifier, N!SpecifierFails, N!TemplateFails, N!Insert, N!setVars
    <2>2. QED
        BY Zenon, <2>1, NF9NotCounted DEF NF9Inv, NF9Records
<1>4. CASE N!NoMoreSets \/ \E id \in TemplateIDs9, spec \in N!Specifiers : spec.known /\ N!OtherInsert(id, spec)
    <2>1. UNCHANGED <<total, count, set, err, tr, rec, records>> /\ (pc' = pc \/ (pc = "sets" /\ pc' = "done"))
        BY Zenon, <1>4 DEF N!NoMoreSets, N!OtherInsert, N!reader, N!setVars, N!outVars
    <2>2. QED
        BY Zenon, <2>1, NF9CountKept
<1> QED
    BY ZenonT(60), <1>1, <1>2, <1>3, <1>4, NF9CountBegins, NF9CountEnds, NF9CountData, NF9CountSkips
    DEF N!Next, N!decodeStep

-----------------------------------------------------------------------------
(* The records of both decoders. *)
RecordsInv == (proto = "ipfix" => IPFIXCounted) /\ (proto # "ipfix" => NF9Counted)

(* Initially there is no set. *)
LEMMA RecordsStart == Init => RecordsInv
<1> SUFFICES ASSUME Init PROVE RecordsInv
    OBVIOUS
<1>1. pc = "header"
    BY Zenon DEF Init, I!Init, N!Init
<1>2. ~Reading /\ ~I!BetweenSets /\ ~N!BetweenSets
    BY Zenon, <1>1 DEF Reading, I!BetweenSets, N!BetweenSets
<1>3. proto # "ipfix" => set = N!NoSet
    BY Zenon DEF Init, N!Init
<1> QED
    BY Zenon, <1>2, <1>3
    DEF RecordsInv, IPFIXCounted, IPFIXCount, I!RecordsCounted, NF9Counted, NF9Count, N!PaddedSetRead

(* Every step of every decoder. *)
LEMMA RecordsStep == EndsLaw /\ DecodersInv /\ DecodersInv' /\ RecordsInv /\ [Next]_vars => RecordsInv'
<1> SUFFICES ASSUME EndsLaw, DecodersInv, DecodersInv', RecordsInv, [Next]_vars PROVE RecordsInv'
    OBVIOUS
<1>1. CASE IPFIX /\ I!Next
    BY Zenon, <1>1, IPFIXCountStep DEF IPFIX, DecodersInv, RecordsInv
<1>2. CASE NetflowV9 /\ N!Next
    <2>1. proto # "ipfix" /\ proto' # "ipfix"
        BY <1>2 DEF NetflowV9
    <2>2. QED
        BY Zenon, <1>2, <2>1, NF9CountStep DEF DecodersInv, RecordsInv
<1>3. CASE (SFlow /\ S!Next) \/ UNCHANGED vars
    <2>1. UNCHANGED <<proto, total, count, set, err, tr, rec, records, pc>>
        BY Zenon, <1>3 DEF SFlow, vars, ipfix9
    <2>2. QED
        BY Zenon, <2>1, IPFIXCountKept, NF9CountKept DEF RecordsInv
<1> QED
    BY Zenon, <1>1, <1>2, <1>3 DEF Next

-----------------------------------------------------------------------------
(* What makes the loops of Decode end, a rank as for SFDecode. *)

(* The bytes from the start of the record in hand on, and one more for a   *)
(* template in hand, which is still to be inserted.                        *)
Ahead == I!Unread + InRecord + (IF pc = "template" THEN 1 ELSE 0)

(* How much Decode has to do before more bytes are read: the fields of the *)
(* record in hand, the end of the set, the end of the datagram.            *)
Stage ==
    CASE pc \in {"header", "sets"} -> 1
      [] pc = "skip" -> 2
      [] pc = "set" -> IF err = "nil" THEN 5 + Len(I!Fields(tr)) ELSE 3
      [] pc = "data" -> 4 + Len(I!Fields(tr)) - rec.fields
      [] OTHER -> 0

(* Fewer bytes are ahead, or as many and Decode has less to do. *)
Progress ==
    /\ Ahead \in Nat /\ Stage \in Nat
    /\ Ahead' < Ahead \/ (Ahead' = Ahead /\ Stage' < Stage)

(* The places of a decoder that is not in a record. *)
Places == {"header", "sets", "set", "skip", "done"}

(* The stages of those. *)
LEMMA Stages ==
    ASSUME Len(I!Fields(tr)) \in Nat
    PROVE  /\ pc \in {"header", "sets"} => Stage = 1
           /\ pc = "skip" => Stage = 2
           /\ pc = "set" /\ err # "nil" => Stage = 3
           /\ pc = "set" /\ err = "nil" => Stage = 5 + Len(I!Fields(tr))
           /\ pc \in {"template", "done"} => Stage = 0
           /\ pc = "data" => Stage = 4 + Len(I!Fields(tr)) - rec.fields
           /\ pc \in Places \cup {"template"} => Stage \in Nat
<1>1. /\ pc \in {"header", "sets"} => Stage = 1
      /\ pc = "skip" => Stage = 2
      /\ pc = "set" /\ err # "nil" => Stage = 3
      /\ pc = "set" /\ err = "nil" => Stage = 5 + Len(I!Fields(tr))
      /\ pc \in {"template", "done"} => Stage = 0
      /\ pc = "data" => Stage = 4 + Len(I!Fields(tr)) - rec.fields
    BY DEF Stage
<1>2. pc \in Places \cup {"template"} => Stage \in Nat
    BY SMTT(30), <1>1 DEF Places
<1> QED
    BY Zenon, <1>1, <1>2

(* What is ahead. *)
LEMMA AheadIs ==
    ASSUME total \in Nat, count \in 0..total
    PROVE  /\ pc \in Places => Ahead = total - count
           /\ pc = "template" => Ahead = total - count + 1
           /\ pc \in Places \cup {"template"} => Ahead \in Nat /\ Ahead >= total - count
BY DEF Ahead, InRecord, I!Unread, Places

(* Bytes are read. *)
LEMMA BytesTaken ==
    ASSUME total \in Nat, count \in 0..total, Len(I!Fields(tr)) \in Nat, Advanced, count' >= count + 2,
           pc \in Places \cup {"template"}, pc' \in Places \cup {"template"}
    PROVE  Progress
<1>1. Ahead \in Nat /\ Ahead >= total - count
    BY Zenon, AheadIs
<1>2. Stage \in Nat
    BY ZenonT(60), Stages
<1>3. Ahead' \in Int /\ Ahead' <= total - count' + 1
    BY DEF Ahead, InRecord, I!Unread, Places, Advanced
<1>4. count \in Int /\ count' \in Int /\ total \in Int
    BY DEF Advanced
<1>5. Ahead' < Ahead
    <2> DEFINE a == Ahead
               b == Ahead'
               d == count'
    <2>1. a \in Nat /\ a >= total - count /\ b \in Int /\ b <= total - d + 1 /\ d \in Int /\ d >= count + 2
        BY Zenon, <1>1, <1>3, <1>4
    <2> HIDE DEF a, b, d
    <2>2. b < a
        BY <1>4, <2>1
    <2>3. QED
        BY Zenon, <2>2 DEF a, b
<1> QED
    BY Zenon, <1>1, <1>2, <1>5 DEF Progress

(* Decode goes on without reading a record. *)
LEMMA PlaceLeft ==
    ASSUME total \in Nat, count \in 0..total, Len(I!Fields(tr)) \in Nat, Advanced,
           \/ pc \in Places /\ pc' \in Places /\ Stage' < Stage
           \/ pc = "template" /\ pc' = "set"
    PROVE  Progress
<1>1. /\ Ahead \in Nat
      /\ pc \in Places => Ahead = total - count
      /\ pc = "template" => Ahead = total - count + 1
    BY Zenon, AheadIs DEF Places
<1>2. Stage \in Nat
    BY Zenon, Stages
<1>3. Ahead' = total - count'
    BY DEF Ahead, InRecord, I!Unread, Places, Advanced
<1>4. count \in Int /\ count' \in Int /\ total \in Int /\ count' >= count
    BY DEF Advanced
<1>5. /\ pc \in Places => Ahead' < Ahead \/ Ahead' = Ahead
      /\ pc = "template" => Ahead' < Ahead
    <2> DEFINE a == Ahead
               b == Ahead'
               d == count'
    <2>1. /\ b = total - d /\ d \in Int /\ d >= count
          /\ pc \in Places => a = total - count
          /\ pc = "template" => a = total - count + 1
        BY Zenon, <1>1, <1>3, <1>4
    <2> HIDE DEF a, b, d
    <2>2. (pc \in Places => b < a \/ b = a) /\ (pc = "template" => b < a)
        BY <1>4, <2>1
    <2>3. QED
        BY Zenon, <2>2 DEF a, b
<1> QED
    BY Zenon, <1>1, <1>2, <1>5 DEF Progress

(* The ways out of the loops go to a lower place. *)
LEMMA LowerPlace ==
    ASSUME Len(I!Fields(tr)) \in Nat,
           \/ pc \in {"header", "sets"} /\ pc' = "done"
           \/ pc = "set" /\ pc' = "skip"
           \/ pc = "skip" /\ pc' = "sets"
    PROVE  pc \in Places /\ pc' \in Places /\ Stage' < Stage
<1>1. /\ pc' = "done" => Stage' = 0
      /\ pc' = "skip" => Stage' = 2
      /\ pc' = "sets" => Stage' = 1
    BY DEF Stage
<1>2. /\ pc \in {"header", "sets"} => Stage = 1
      /\ pc = "skip" => Stage = 2
      /\ pc = "set" => Stage = 3 \/ Stage = 5 + Len(I!Fields(tr))
    BY Zenon, Stages
<1>3. Stage' < Stage
    BY <1>1, <1>2
<1> QED
    BY Zenon, <1>3 DEF Places

(* A record begins. *)
LEMMA RecordTaken ==
    ASSUME EndsLaw, Measured(I!Fields(tr)), total \in Nat, count \in 0..total,
           pc = "set", err = "nil", pc' = "data", rec'.fields = 0, UNCHANGED <<total, count, tr>>
    PROVE  Progress
<1>1. AddsUp(I!Fields(tr)) /\ Len(I!Fields(tr)) \in Nat
    BY Zenon DEF EndsLaw, Measured
<1>2. InRecord' = 0
    <2>1. I!FieldEnds(I!Fields(tr'))[rec'.fields] = 0
        BY Zenon, <1>1 DEF AddsUp
    <2>2. QED
        BY Zenon, <2>1 DEF InRecord
<1>3. Ahead \in Nat /\ Ahead = total - count
    BY Zenon, AheadIs DEF Places
<1>4. Ahead' = Ahead
    <2>1. Ahead' = total - count + 0 + 0
        BY Zenon, <1>2 DEF Ahead, I!Unread
    <2>2. QED
        BY <1>3, <2>1
<1>5. Stage = 5 + Len(I!Fields(tr))
    BY Zenon, <1>1, Stages
<1>6. Stage' = 4 + Len(I!Fields(tr)) - 0
    BY DEF Stage
<1>7. Stage \in Nat /\ Stage' < Stage
    BY <1>1, <1>5, <1>6
<1> QED
    BY Zenon, <1>3, <1>4, <1>7 DEF Progress

(* What is ahead in a record of which k fields are read. *)
LEMMA InField ==
    ASSUME EndsLaw, Measured(I!Fields(tr)), total \in Nat, count \in 0..total,
           pc = "data", rec.fields \in 0..Len(I!Fields(tr))
    PROVE  /\ InRecord = I!FieldEnds(I!Fields(tr))[rec.fields] /\ InRecord \in Nat
           /\ Ahead = total - count + InRecord /\ Ahead \in Nat
           /\ Stage = 4 + Len(I!Fields(tr)) - rec.fields /\ Stage \in Nat /\ Stage > 3
<1>1. AddsUp(I!Fields(tr)) /\ Len(I!Fields(tr)) \in Nat
    BY Zenon DEF EndsLaw, Measured
<1>2. InRecord = I!FieldEnds(I!Fields(tr))[rec.fields] /\ InRecord \in Nat
    BY Zenon, <1>1 DEF InRecord, AddsUp
<1>3. Ahead = total - count + InRecord /\ Ahead \in Nat
    <2>1. Ahead = total - count + InRecord + 0
        BY Zenon DEF Ahead, I!Unread
    <2>2. QED
        BY <1>2, <2>1
<1>4. Stage = 4 + Len(I!Fields(tr)) - rec.fields
    BY Zenon, <1>1, Stages
<1>5. Stage \in Nat /\ Stage > 3
    BY <1>1, <1>4
<1> QED
    BY Zenon, <1>2, <1>3, <1>4, <1>5

(* A field of it is read. *)
LEMMA FieldTaken ==
    ASSUME EndsLaw, Measured(I!Fields(tr)), total \in Nat, count \in 0..total,
           rec.fields \in Nat, rec.fields < Len(I!Fields(tr)),
           pc = "data", pc' = "data", rec'.fields = rec.fields + 1,
           count' = count + I!Fields(tr)[rec.fields + 1].Length, UNCHANGED <<total, tr>>
    PROVE  Progress
<1> DEFINE s == I!Fields(tr)
           k == rec.fields + 1
           e == I!FieldEnds(s)
<1>1. AddsUp(s) /\ Len(s) \in Nat /\ \A i \in 1..Len(s) : s[i].Length \in Nat
    BY ZenonT(60) DEF EndsLaw, Measured
<1>2. k \in 1..Len(s) /\ k - 1 = rec.fields /\ rec.fields \in 0..Len(s)
    <2> HIDE DEF s
    <2>1. QED
        BY <1>1 DEF s
<1>3. /\ InRecord = e[rec.fields] /\ InRecord \in Nat /\ Ahead = total - count + InRecord /\ Ahead \in Nat
      /\ Stage = 4 + Len(s) - rec.fields /\ Stage \in Nat
    BY Zenon, <1>2, InField
<1>4. e[k] = InRecord + s[k].Length /\ s[k].Length \in Nat
    <2> HIDE DEF k, s
    <2>1. e[k] = e[k - 1] + s[k].Length /\ s[k].Length \in Nat
        BY Zenon, <1>1, <1>2 DEF AddsUp
    <2>2. QED
        BY Zenon, <1>2, <1>3, <2>1
<1>5. Ahead' = total - count' + e[k] + 0
    BY Zenon DEF Ahead, I!Unread, InRecord
<1>6. Stage' = 4 + Len(s) - k
    BY DEF Stage
<1>7. count' = count + s[k].Length
    BY Zenon
<1>8. Ahead' = Ahead
    <2> DEFINE l == s[k].Length
               f == e[k]
               c == count'
    <2>1. l \in Nat /\ f = InRecord + l /\ c = count + l
        BY Zenon, <1>4, <1>7
    <2>2. Ahead' = total - c + f + 0
        BY ZenonT(60), <1>5
    <2> HIDE DEF l, f, c
    <2>3. total - c + f + 0 = total - count + InRecord
        BY SMTT(30), <1>3, <2>1
    <2>4. QED
        BY Zenon, <1>3, <2>2, <2>3
<1>9. Stage' < Stage
    <2> DEFINE n == Len(s)
    <2>1. n \in Nat /\ k \in 1..n /\ Stage = 4 + n - rec.fields /\ Stage' = 4 + n - k
        BY ZenonT(60), <1>1, <1>2, <1>3, <1>6
    <2> HIDE DEF n
    <2>2. 4 + n - k < 4 + n - rec.fields
        BY <2>1
    <2>3. QED
        BY Zenon, <2>1, <2>2
<1> QED
    BY Zenon, <1>3, <1>8, <1>9 DEF Progress

(* A field of it cannot be read, or is of no known kind. *)
LEMMA FieldRefused ==
    ASSUME EndsLaw, Measured(I!Fields(tr)), total \in Nat, count \in 0..total, Advanced,
           rec.fields \in Nat, rec.fields < Len(I!Fields(tr)),
           pc = "data", pc' = "set", err' # "nil"
    PROVE  Progress
<1>1. rec.fields \in 0..Len(I!Fields(tr))
    BY DEF Measured
<1>2. InRecord \in Nat /\ Ahead = total - count + InRecord /\ Ahead \in Nat /\ Stage \in Nat /\ Stage > 3
    BY Zenon, <1>1, InField
<1>3. Ahead' = total - count'
    BY DEF Ahead, I!Unread, InRecord, Advanced
<1>4. Stage' = 3
    BY DEF Stage
<1>5. Ahead' < Ahead \/ Ahead' = Ahead
    <2> DEFINE b == Ahead'
               d == count'
    <2>1. b = total - d /\ d \in Int /\ d >= count /\ count \in Int
        BY SMTT(30), <1>3 DEF Advanced
    <2> HIDE DEF b, d
    <2>2. b < Ahead \/ b = Ahead
        BY SMTT(30), <1>2, <2>1
    <2>3. QED
        BY Zenon, <2>2 DEF b
<1>6. Stage' < Stage
    BY <1>2, <1>4
<1> QED
    BY Zenon, <1>2, <1>5, <1>6 DEF Progress

(* It is appended. *)
LEMMA RecordDone ==
    ASSUME EndsLaw, Measured(I!Fields(tr)), total \in Nat, count \in 0..total, I!Size(tr) > 0,
           rec.fields = Len(I!Fields(tr)), pc = "data", pc' = "set", UNCHANGED <<total, count>>
    PROVE  Progress
<1>1. rec.fields \in 0..Len(I!Fields(tr))
    BY DEF Measured
<1>2. /\ InRecord = I!FieldEnds(I!Fields(tr))[rec.fields] /\ InRecord \in Nat
      /\ Ahead = total - count + InRecord /\ Ahead \in Nat /\ Stage \in Nat
    BY Zenon, <1>1, InField
<1>3. InRecord > 0
    BY Zenon, <1>2 DEF I!Size
<1>4. Ahead' = total - count + 0 + 0
    BY Zenon DEF Ahead, I!Unread, InRecord
<1>5. Ahead' < Ahead
    BY <1>2, <1>3, <1>4
<1> QED
    BY Zenon, <1>2, <1>5 DEF Progress

(* A field of a record: in both decoders the same. *)
LEMMA RecordProgress ==
    ASSUME EndsLaw, Measured(I!Fields(tr)), total \in Nat, count \in 0..total, rec.fields \in Nat,
           pc = "data" => I!Size(tr) > 0, tr' = tr,
           \/ pc = "set" /\ err = "nil" /\ pc' = "data" /\ rec'.fields = 0 /\ UNCHANGED <<total, count>>
           \/ /\ pc = "data" /\ rec.fields < Len(I!Fields(tr))
              /\ \/ /\ I!Read(I!Fields(tr)[rec.fields + 1].Length)
                    /\ pc' = "data" /\ rec'.fields = rec.fields + 1
                 \/ Advanced /\ pc' = "set" /\ err' # "nil"
           \/ pc = "data" /\ rec.fields = Len(I!Fields(tr)) /\ pc' = "set" /\ UNCHANGED <<total, count>>
    PROVE  Progress
<1>1. CASE pc = "set" /\ err = "nil" /\ pc' = "data" /\ rec'.fields = 0 /\ UNCHANGED <<total, count>>
    BY Zenon, <1>1, RecordTaken
<1>2. CASE /\ pc = "data" /\ rec.fields < Len(I!Fields(tr))
           /\ I!Read(I!Fields(tr)[rec.fields + 1].Length) /\ pc' = "data" /\ rec'.fields = rec.fields + 1
    BY Zenon, <1>2, FieldTaken DEF I!Read, I!advance
<1>3. CASE pc = "data" /\ rec.fields < Len(I!Fields(tr)) /\ Advanced /\ pc' = "set" /\ err' # "nil"
    BY Zenon, <1>3, FieldRefused
<1>4. CASE pc = "data" /\ rec.fields = Len(I!Fields(tr)) /\ pc' = "set" /\ UNCHANGED <<total, count>>
    BY Zenon, <1>4, RecordDone
<1> QED
    BY Zenon, <1>1, <1>2, <1>3, <1>4

(* The reads that fail half way have read something, when there was enough *)
(* for half.                                                               *)
LEMMA SomeRead ==
    ASSUME total \in Nat, count \in 0..total
    PROVE  /\ I!Read(16) \/ I!Read(20) \/ I!Read(4) \/ I!Read(8) \/ I!Uint16s(2) \/ I!Uint16s(3) =>
                Advanced /\ count' >= count + 2
           /\ I!Unread > 4 /\ I!Uint16sFail(3) => Advanced /\ count' >= count + 2
<1>1. I!Read(16) \/ I!Read(20) \/ I!Read(4) \/ I!Read(8) => Advanced /\ count' >= count + 2
    BY DEF I!Read, I!advance, I!Unread, Advanced
<1>2. I!Uint16s(2) \/ I!Uint16s(3) => Advanced /\ count' >= count + 2
    BY DEF I!Uint16s, I!advance, I!Unread, Advanced
<1>3. I!Unread > 4 /\ I!Uint16sFail(3) => Advanced /\ count' >= count + 2
    <2> SUFFICES ASSUME I!Unread > 4, I!Uint16sFail(3) PROVE Advanced /\ count' >= count + 2
        OBVIOUS
    <2>1. total - count = 5 /\ count' = count + 2 * ((total - count) \div 2) /\ total' = total
        BY DEF I!Uint16sFail, I!advance, I!Unread
    <2>2. count' = count + 4
        BY <2>1
    <2>3. QED
        BY <2>1, <2>2 DEF Advanced
<1> QED
    BY Zenon, <1>1, <1>2, <1>3

(* IPFIX. *)
LEMMA IPFIXProgress ==
    ASSUME EndsLaw, IPFIXInv, I!decodeStep, pc = "data" => I!Size(tr) > 0
    PROVE  Progress
<1>1. total \in Nat /\ count \in 0..total
    BY DEF IPFIXInv, IPFIXReader
<1>2. Measured(I!Fields(tr)) /\ Len(I!Fields(tr)) \in Nat /\ rec.fields \in Nat
    <2>1. tr \in IPFIXTemplate /\ rec \in [tr : IPFIXTemplate, fields : Nat]
        BY Zenon DEF IPFIXInv, IPFIXValues
    <2>2. QED
        BY Zenon, <2>1, IPFIXMeasured DEF Measured
<1>3. CASE \/ I!MessageHeader
           \/ \E id \in SetIDs, len \in SetLengths : I!SetHeader(id, len)
           \/ \E id \in TemplateIDs, n \in FieldCounts :
                \/ I!TemplateHeader(id, n)
                \/ \E s \in ScopeCounts : I!OptionsHeader(id, n, s)
           \/ I!OptionsHeaderFails
           \/ \E spec \in I!Specifiers, e \in BOOLEAN : I!Specifier(spec, e)
    <2>1. /\ pc \in Places \cup {"template"} /\ pc' \in Places \cup {"template"}
          /\ \/ I!Read(16) \/ I!Read(4) \/ I!Read(8) \/ I!Uint16s(2) \/ I!Uint16s(3)
             \/ I!Unread > 4 /\ I!Uint16sFail(3)
        BY Zenon, <1>3 DEF I!MessageHeader, I!SetHeader, I!TemplateHeader, I!OptionsHeader, I!OptionsHeaderFails,
                           I!Specifier, I!MoreRecords, Places
    <2>2. Advanced /\ count' >= count + 2
        BY Zenon, <1>1, <2>1, SomeRead
    <2>3. QED
        BY ZenonT(60), <1>1, <1>2, <2>1, <2>2, BytesTaken
<1>4. CASE I!MessageHeaderFails \/ I!NoMoreSets \/ I!SetEnds \/ I!TemplatePadding \/ I!SkipRest
    <2>1. /\ \/ pc \in {"header", "sets"} /\ pc' = "done"
             \/ pc = "set" /\ pc' = "skip"
             \/ pc = "skip" /\ pc' = "sets"
          /\ UNCHANGED I!reader \/ I!Read(I!leftoverBytes)
        BY Zenon, <1>4 DEF I!MessageHeaderFails, I!NoMoreSets, I!SetEnds, I!TemplatePadding, I!SkipRest, I!ReadFails
    <2>2. Advanced
        <3>1. I!leftoverBytes \in Nat
            BY Zenon, Leftover DEF I!leftoverBytes, IPFIXInv, IPFIXReader
        <3>2. QED
            BY Zenon, <1>1, <2>1, <3>1, ReadsAdvance
    <2>3. QED
        BY Zenon, <1>1, <1>2, <2>1, <2>2, LowerPlace, PlaceLeft
<1>5. CASE I!Insert \/ \E e \in BOOLEAN : I!SpecifierFails(e)
    <2>1. /\ pc = "template" /\ pc' = "set"
          /\ UNCHANGED I!reader \/ I!Uint16sFail(2) \/ (I!Unread \in 4..7 /\ I!advance(4))
        BY Zenon, <1>5 DEF I!Insert, I!SpecifierFails
    <2>2. 2 \in Nat
        OBVIOUS
    <2>3. QED
        BY Zenon, <1>1, <1>2, <2>1, <2>2, ReadsAdvance, PlaceLeft
<1>6. CASE I!DataRecord \/ I!DataField \/ I!DataAppend
    <2>1. CASE I!DataRecord
        BY Zenon, <1>1, <1>2, <2>1, RecordProgress DEF I!DataRecord, I!MoreRecords, I!reader
    <2>2. CASE I!DataField
        <3> DEFINE l == I!Fields(tr)[rec.fields + 1].Length
        <3>1. /\ pc = "data" /\ rec.fields < Len(I!Fields(tr)) /\ tr' = tr
              /\ \/ I!Read(l) /\ pc' = "data" /\ rec' = [rec EXCEPT !.fields = rec.fields + 1]
                 \/ (I!Read(l) \/ UNCHANGED I!reader) /\ pc' = "set" /\ err' \in {"nonfatal", "fatal"}
            BY Zenon, <2>2 DEF I!DataField, I!ReadFails
        <3>2. l \in Nat
            <4>1. rec.fields + 1 \in 1..Len(I!Fields(tr))
                BY <1>2, <3>1
            <4>2. QED
                BY Zenon, <1>2, <4>1 DEF Measured
        <3>3. [rec EXCEPT !.fields = rec.fields + 1].fields = rec.fields + 1
            BY Zenon DEF IPFIXInv, IPFIXValues
        <3>4. I!Read(l) \/ UNCHANGED I!reader => Advanced
            BY Zenon, <1>1, <3>2, ReadsAdvance
        <3>5. err' \in {"nonfatal", "fatal"} => err' # "nil"
            OBVIOUS
        <3>6. QED
            BY Zenon, <1>1, <1>2, <3>1, <3>3, <3>4, <3>5, RecordProgress
    <2>3. CASE I!DataAppend
        BY Zenon, <1>1, <1>2, <2>3, RecordProgress DEF I!DataAppend, I!reader
    <2>4. QED
        BY Zenon, <1>6, <2>1, <2>2, <2>3
<1> QED
    BY ZenonT(60), <1>3, <1>4, <1>5, <1>6 DEF I!decodeStep

(* NetFlow v9 has the same reader. *)
LEMMA SameReader ==
    /\ \A n : (N!Read(n) <=> I!Read(n)) /\ (N!Uint16s(n) <=> I!Uint16s(n)) /\ (N!Uint16sFail(n) <=> I!Uint16sFail(n))
    /\ N!reader = I!reader /\ N!reader' = I!reader' /\ N!Unread = I!Unread
BY Zenon DEF N!Read, N!Uint16s, N!Uint16sFail, N!advance, N!Unread, N!reader,
             I!Read, I!Uint16s, I!Uint16sFail, I!advance, I!Unread, I!reader

(* NetFlow v9. *)
LEMMA NF9Progress ==
    ASSUME EndsLaw, NF9Inv, N!decodeStep, pc = "data" => I!Size(tr) > 0
    PROVE  Progress
<1>1. total \in Nat /\ count \in 0..total
    BY Zenon DEF NF9Inv, NF9Reader
<1>2. Measured(I!Fields(tr)) /\ Len(I!Fields(tr)) \in Nat /\ rec.fields \in Nat
    <2>1. tr \in NF9Template /\ rec \in [tr : NF9Template, fields : Nat]
        BY Zenon DEF NF9Inv, NF9Values
    <2>2. QED
        BY Zenon, <2>1, NF9Measured DEF Measured
<1>3. CASE \/ N!PacketHeader /\ N!Read(20)
           \/ \E id \in SetIDs9, len \in SetLengths : N!SetHeader(id, len)
           \/ \E id \in TemplateIDs9, n \in FieldCounts : N!TemplateHeader(id, n)
           \/ \E id \in TemplateIDs9, s, o \in OptionLengths : N!OptionsHeader(id, s, o)
           \/ N!OptionsHeaderFails
           \/ \E spec \in N!Specifiers : N!Specifier(spec)
    <2>1. /\ pc \in Places \cup {"template"} /\ pc' \in Places \cup {"template"}
          /\ \/ N!Read(20) \/ N!Read(4) \/ N!Uint16s(2) \/ N!Uint16s(3)
             \/ N!Unread > 4 /\ N!Uint16sFail(3)
        BY Zenon, <1>3 DEF N!PacketHeader, N!SetHeader, N!TemplateHeader, N!OptionsHeader, N!OptionsHeaderFails,
                           N!TemplateFails, N!Specifier, N!MoreRecords, Places
    <2>2. Advanced /\ count' >= count + 2
        BY Zenon, <1>1, <2>1, SameReader, SomeRead
    <2>3. QED
        BY Zenon, <1>1, <1>2, <2>1, <2>2, BytesTaken
<1>4. CASE (N!PacketHeader /\ ~N!Read(20)) \/ N!NoMoreSets \/ N!SetEnds \/ N!SkipRest
    <2>1. /\ \/ pc \in {"header", "sets"} /\ pc' = "done"
             \/ pc = "set" /\ pc' = "skip"
             \/ pc = "skip" /\ pc' = "sets"
          /\ UNCHANGED N!reader \/ (N!leftoverBytes > 0 /\ N!Read(N!leftoverBytes))
        BY Zenon, <1>4 DEF N!PacketHeader, N!NoMoreSets, N!SetEnds, N!SkipRest, N!ReadFails
    <2>2. Advanced
        <3>1. N!leftoverBytes > 0 => N!leftoverBytes \in Nat
            BY <1>1 DEF N!leftoverBytes, NF9Inv, NF9Reader
        <3>2. QED
            BY ZenonT(60), <1>1, <2>1, <3>1, NF9ReadsAdvance
    <2>3. QED
        BY Zenon, <1>1, <1>2, <2>1, <2>2, LowerPlace, PlaceLeft
<1>5. CASE N!Insert \/ N!SpecifierFails
    <2>1. pc = "template" /\ pc' = "set" /\ (UNCHANGED N!reader \/ N!Uint16sFail(2))
        BY Zenon, <1>5 DEF N!Insert, N!SpecifierFails, N!TemplateFails
    <2>2. 2 \in Nat
        OBVIOUS
    <2>3. QED
        BY Zenon, <1>1, <1>2, <2>1, <2>2, NF9ReadsAdvance, PlaceLeft
<1>6. CASE N!DataRecord \/ N!DataField \/ N!DataAppend
    <2>1. CASE N!DataRecord
        BY Zenon, <1>1, <1>2, <2>1, RecordProgress DEF N!DataRecord, N!MoreRecords, N!reader
    <2>2. CASE N!DataField
        <3> DEFINE l == I!Fields(tr)[rec.fields + 1].Length
        <3>1. /\ pc = "data" /\ rec.fields < Len(I!Fields(tr)) /\ tr' = tr
              /\ \/ I!Read(l) /\ pc' = "data" /\ rec' = [rec EXCEPT !.fields = rec.fields + 1]
                 \/ (I!Read(l) \/ UNCHANGED I!reader) /\ pc' = "set" /\ err' \in {"nonfatal", "fatal"}
            <4>1. N!Fields(tr) = I!Fields(tr)
                BY Zenon, SameFields
            <4>2. QED
                BY Zenon, <2>2, <4>1, SameReader DEF N!DataField, N!ReadFails
        <3>2. l \in Nat
            <4>1. rec.fields + 1 \in 1..Len(I!Fields(tr))
                BY <1>2, <3>1
            <4>2. QED
                BY Zenon, <1>2, <4>1 DEF Measured
        <3>3. [rec EXCEPT !.fields = rec.fields + 1].fields = rec.fields + 1
            BY Zenon DEF NF9Inv, NF9Values
        <3>4. I!Read(l) \/ UNCHANGED I!reader => Advanced
            BY Zenon, <1>1, <3>2, ReadsAdvance
        <3>5. err' \in {"nonfatal", "fatal"} => err' # "nil"
            OBVIOUS
        <3>6. QED
            BY Zenon, <1>1, <1>2, <3>1, <3>3, <3>4, <3>5, RecordProgress
    <2>3. CASE N!DataAppend
        BY Zenon, <1>1, <1>2, <2>3, SameFields, RecordProgress DEF N!DataAppend, N!reader
    <2>4. QED
        BY Zenon, <1>6, <2>1, <2>2, <2>3
<1> QED
    BY Zenon, <1>3, <1>4, <1>5, <1>6 DEF N!decodeStep

(* Every step of a decoder makes its rank smaller, unless it is in a       *)
(* record that takes no bytes.                                             *)
DecoderProgress ==
    /\ (IPFIX /\ I!decodeStep) \/ (NetflowV9 /\ N!decodeStep) =>
         Progress \/ (pc = "data" /\ I!Size(tr) = 0)
    /\ SFlow /\ S!Next => SFlowProgress

(* The three decoders. *)
LEMMA DecodersProgress == EndsLaw /\ DecodersInv => DecoderProgress
<1> SUFFICES ASSUME EndsLaw, DecodersInv PROVE DecoderProgress
    OBVIOUS
<1>1. ASSUME IPFIX /\ I!decodeStep, ~(pc = "data" /\ I!Size(tr) = 0) PROVE Progress
    <2>1. IPFIXInv
        BY Zenon, <1>1 DEF IPFIX, DecodersInv
    <2>2. I!Size(tr) \in Nat
        BY Zenon, <2>1, IPFIXMeasured, Sizes DEF IPFIXInv, IPFIXValues
    <2>3. pc = "data" => I!Size(tr) > 0
        BY <1>1, <2>2
    <2>4. QED
        BY Zenon, <1>1, <2>1, <2>3, IPFIXProgress
<1>2. ASSUME NetflowV9 /\ N!decodeStep, ~(pc = "data" /\ I!Size(tr) = 0) PROVE Progress
    <2>1. proto # "ipfix"
        BY <1>2 DEF NetflowV9
    <2>2. NF9Inv
        BY Zenon, <2>1 DEF DecodersInv
    <2>3. I!Size(tr) \in Nat
        BY Zenon, <2>2, NF9Measured, Sizes DEF NF9Inv, NF9Values
    <2>4. pc = "data" => I!Size(tr) > 0
        BY SMTT(30), <1>2, <2>3
    <2>5. QED
        BY Zenon, <1>2, <2>2, <2>4, NF9Progress
<1>3. ASSUME SFlow, S!Next PROVE SFlowProgress
    BY Zenon, <1>3, SFlowProgresses DEF DecodersInv
<1> QED
    BY Zenon, <1>1, <1>2, <1>3 DEF DecoderProgress

-----------------------------------------------------------------------------
(* The ends of fields by induction over their number. *)

D == INSTANCE Induction

(* The ends of any number of fields are defined. *)
LEMMA EndsOfFields == EndsLaw
<1> SUFFICES ASSUME NEW s, Measured(s)
             PROVE  AddsUp(s)
    BY Zenon DEF EndsLaw
<1> DEFINE n == Len(s)
           a(k) == s[k].Length
           g == [p \in (1..n) \X Nat |-> p[2] + a(p[1])]
           Body(f) == [k \in 0..n |-> IF k = 0 THEN 0 ELSE f[k - 1] + a(k)]
<1>1. I!FieldEnds(s) = CHOOSE f : f = Body(f)
    BY Zenon DEF I!FieldEnds
<1>2. n \in Nat /\ \A k \in 1..n : a(k) \in Nat
    BY Zenon DEF Measured
<1> HIDE DEF n, a
<1>3. 0 \in Nat /\ g \in [(1..n) \X Nat -> Nat]
    <2>1. ASSUME NEW p \in (1..n) \X Nat PROVE p[2] + a(p[1]) \in Nat
        <3>1. p[1] \in 1..n /\ p[2] \in Nat
            OBVIOUS
        <3>2. a(p[1]) \in Nat
            BY Zenon, <1>2, <3>1
        <3>3. QED
            BY SMTT(30), <3>1, <3>2
    <2>2. QED
        BY Zenon, <2>1
<1>4. PICK f : D!Recursive(f, n, Nat, 0, g)
    <2> HIDE DEF g
    <2>1. QED
        BY ZenonT(60), <1>2, <1>3, D!Recursion
<1>5. \A k \in 0..n : k # 0 => k \in 1..n /\ k - 1 \in 0..n
    BY SMTT(30), <1>2
<1>6. ASSUME NEW k \in 1..n PROVE f[k] = f[k - 1] + a(k)
    <2>1. k \in 0..n /\ k # 0
        BY <1>2
    <2>2. f[k - 1] \in Nat
        BY Zenon, <1>4, <1>5, <2>1 DEF D!Recursive
    <2>3. <<k, f[k - 1]>> \in (1..n) \X Nat
        BY Zenon, <2>2
    <2>4. g[<<k, f[k - 1]>>] = f[k - 1] + a(k)
        BY Zenon, <2>3
    <2>5. QED
        BY ZenonT(60), <1>4, <2>4 DEF D!Recursive
<1>7. f = Body(f)
    <2>1. \A k \in 0..n : f[k] = IF k = 0 THEN 0 ELSE f[k - 1] + a(k)
        BY ZenonT(60), <1>4, <1>5, <1>6 DEF D!Recursive
    <2>2. QED
        BY ZenonT(60), <1>4, <2>1 DEF D!Recursive
<1>8. I!FieldEnds(s) = Body(I!FieldEnds(s))
    <2> HIDE DEF Body
    <2>1. QED
        BY ZenonT(60), <1>1, <1>7
<1> DEFINE e == I!FieldEnds(s)
           Q == {k \in 0..n : e[k] = f[k]}
<1>9. 0 \in 0..n /\ \A k \in 1..n : k \in 0..n /\ k # 0
    BY <1>2
<1>10. e[0] = 0 /\ \A k \in 1..n : e[k] = e[k - 1] + a(k)
    BY Zenon, <1>8, <1>9
<1> HIDE DEF e
<1>11. 0 \in Q /\ \A k \in 1..n : k - 1 \in Q => k \in Q
    <2>1. e[0] = f[0]
        BY Zenon, <1>4, <1>10 DEF D!Recursive
    <2>2. ASSUME NEW k \in 1..n, e[k - 1] = f[k - 1] PROVE e[k] = f[k]
        BY Zenon, <1>6, <1>10, <2>2
    <2>3. QED
        BY ZenonT(60), <1>9, <2>1, <2>2
<1>12. \A k \in 0..n : k \in Q
    <2> HIDE DEF Q
    <2>1. QED
        BY Zenon, <1>2, <1>11, D!BoundedInduction
<1>13. e = [k \in 0..n |-> e[k]]
    BY Zenon, <1>8 DEF e
<1>14. e \in [0..n -> Nat]
    BY Zenon, <1>4, <1>12, <1>13 DEF D!Recursive
<1> QED
    BY Zenon, <1>10, <1>14 DEF e, n, a, AddsUp

(* No record that was sent is missing and none is made up: the loops of    *)
(* decodeSet give as many records as fit between the header of a data set  *)
(* and its Length, whatever the template the set is decoded with.          *)
THEOREM NoRecordMissing == Spec => []NothingMissing
<1>1. Init => RecordsInv
    BY RecordsStart
<1>2. DecodersInv /\ DecodersInv' /\ RecordsInv /\ [Next]_vars => RecordsInv'
    BY Zenon, RecordsStep, EndsOfFields
<1>3. RecordsInv => NothingMissing
    <2>1. proto = "netflow9" => proto # "ipfix"
        OBVIOUS
    <2>2. QED
        BY Zenon, <2>1 DEF RecordsInv, IPFIXCounted, NF9Counted, NothingMissing
<1> QED
    BY <1>1, <1>2, <1>3, DecodersInvariant, PTL DEF Spec

(* The loops of the decoders come to an end: every step of Decode (IPFIX,  *)
(* NetFlow v9) and of SFDecode makes a rank in Nat \X Nat smaller, in the  *)
(* order in which nothing gets smaller for ever, whatever lengths, counts  *)
(* and templates it meets.  The one exception is Decode in a record        *)
(* without bytes, the case that DecodeEnds sets apart too.                 *)
THEOREM EveryStepProgresses == Spec => [][DecoderProgress]_vars
<1>1. DecodersInv /\ [Next]_vars => [DecoderProgress]_vars
    BY Zenon, DecodersProgress, EndsOfFields
<1> QED
    BY <1>1, DecodersInvariant, PTL DEF Spec
=============================================================================
