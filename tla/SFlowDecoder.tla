---------------------------- MODULE SFlowDecoder ----------------------------
(***************************************************************************)
(* SFDecode (sflow/*.go) and what the sFlow worker does with its result    *)
(* (vflow/sflow.go).  The datagram has total bytes and is read from pos;   *)
(* Seek may leave pos beyond total.  The numbers read are chosen when they *)
(* are read.  end and declared follow the exporter's own lengths for as    *)
(* long as these describe its samples and records truly (honest); expanded *)
(* tells whether an expanded flow sample was decoded, which is misread.    *)
(***************************************************************************)
EXTENDS Packet

CONSTANTS
    Totals,         \* lengths of datagrams
    SampleCounts,   \* values of SamplesNo and RecordsNo below Many
    SampleLengths,  \* values of sfDataLength
    RecordLengths,  \* values of rTypeLength
    HeaderLengths,  \* values of HeaderLength
    SampledFrames,  \* frames behind a raw header
    Filters         \* values of sflow-type-filter

Many == 99

SFlowAssumption ==
    /\ Totals \cup SampleLengths \cup RecordLengths \cup HeaderLengths \subseteq Nat
    /\ SampleCounts \subseteq 0..(Many - 1)
    /\ SampledFrames \subseteq Frames

VARIABLES
    total, pos, pc,
    filter,
    left,       \* samples still to come; Many stands for more than fit
    sample,     \* the sample being decoded
    recordsLeft,
    Samples, Counters, skipped,
    es,         \* the priorities in the last ExtSwitchData decoded
    counted,    \* SamplesNo
    end, declared, honest, expanded,   \* history
    published

loopVars == <<left, filter, counted, Samples, Counters, skipped>>
ghosts == <<end, declared, honest, expanded>>
vars == <<total, pos, pc, loopVars, sample, recordsLeft, es, ghosts, published>>

Formats == 1..4     \* flow, counter, expanded flow, another
CounterSample == 2
ExpandedFlowSample == 3

(* Bytes that unmarshal reads of the fixed part of a sample, SequenceNo to *)
(* RecordsNo.                                                              *)
FlowSampleHeader == 8 * 4
CounterSampleHeader == 3 * 4
ExpandedFlowSampleHeader == 10 * 4
SampleHeader == <<FlowSampleHeader, CounterSampleHeader, ExpandedFlowSampleHeader>>

(* Bytes that it has by the format: the source of an expanded flow sample  *)
(* is two words, a type and an index, of which unmarshal reads one.        *)
WireHeader == [SampleHeader EXCEPT ![ExpandedFlowSample] = @ + 4]

(* Bytes that unmarshal reads of a counter record: its numbers of four     *)
(* bytes and of eight.                                                     *)
decodeGenericIntCounters == 16 * 4 + 3 * 8
decodeEthIntCounters == 13 * 4
decodeTokenRingCounters == 18 * 4
decodeVGCounters == 8 * 4 + 6 * 8
decodeVlanCounters == 5 * 4 + 8
decodedProcessorCounters == 3 * 4 + 2 * 8

CounterSizes ==
    [GenInt |-> decodeGenericIntCounters, EthInt |-> decodeEthIntCounters,
     TRInt |-> decodeTokenRingCounters, VGInt |-> decodeVGCounters,
     Vlan |-> decodeVlanCounters, Proc |-> decodedProcessorCounters]

NoSwitch == [SrcPriority |-> 0, DstPriority |-> 0]
Less(n) == IF n = Many THEN Many ELSE n - 1
Unread == total - pos

Init ==
    /\ total \in Totals
    /\ filter \in Filters
    /\ pos = 0 /\ pc = "header" /\ left = 0 /\ counted = 0
    /\ sample = 0 /\ recordsLeft = 0 /\ es = NoSwitch
    /\ Samples = 0 /\ Counters = 0 /\ skipped = 0
    /\ end = 0 /\ declared = 0 /\ honest = TRUE /\ expanded = FALSE
    /\ published = FALSE

(* Where the exporter says the sample ends and the record begins. *)
Follow(e, d, h) ==
    /\ honest' = h
    /\ end' = IF h THEN e ELSE 0
    /\ declared' = IF h THEN d ELSE 0

Fail ==
    /\ pc' = "error"
    /\ UNCHANGED <<total, pos, loopVars, sample, recordsLeft, es, ghosts, published>>

(* sfHeaderDecode: version, address of 4 or 16 bytes, four numbers.  A     *)
(* short address is no error, but nothing is left after it.                *)
sfHeaderDecode ==
    /\ pc = "header"
    /\ \E ipLen \in {4, 16}, n \in SampleCounts \cup {Many} :
          /\ Unread >= 24 + ipLen
          /\ pos' = 24 + ipLen
          /\ left' = n
          /\ counted' = n
          /\ Follow(24 + ipLen, 0, TRUE)
    /\ pc' = "sample"
    /\ UNCHANGED <<total, filter, Samples, Counters, skipped, sample, recordsLeft, es, expanded,
                   published>>

(* A header cut short, or another version. *)
sfHeaderFails == pc = "header" /\ Fail

Done ==
    /\ pc = "sample" /\ left = 0
    /\ pc' = "decoded"
    /\ UNCHANGED <<total, pos, loopVars, sample, recordsLeft, es, ghosts, published>>

isFilterMatch(f) == f \in filter

(* Mutant: a filtered sample ends the loop. *)
SampleSkippedStops(f, l) ==
    /\ pc = "sample" /\ left # 0 /\ Unread >= 8
    /\ isFilterMatch(f) \/ f \notin DOMAIN SampleHeader
    /\ pos' = pos + 8 + l
    /\ Follow(pos + 8 + l, 0, honest)
    /\ pc' = "decoded"
    /\ skipped' = skipped + 1
    /\ UNCHANGED <<total, left, filter, counted, Samples, Counters, sample, recordsLeft, es,
                   expanded, published>>

(* A sample whose type is filtered or not known is skipped by its length. *)
SampleSkipped(f, l) ==
    /\ pc = "sample" /\ left # 0 /\ Unread >= 8
    /\ isFilterMatch(f) \/ f \notin DOMAIN SampleHeader
    /\ pos' = pos + 8 + l
    /\ Follow(pos + 8 + l, 0, honest)
    /\ left' = Less(left)
    /\ skipped' = skipped + 1
    /\ UNCHANGED <<total, pc, filter, counted, Samples, Counters, sample, recordsLeft, es,
                   expanded, published>>

(* getSampleInfo and the fixed part of a sample that is decoded. *)
SampleBegins(f, l) ==
    /\ pc = "sample" /\ left # 0
    /\ ~isFilterMatch(f) /\ f \in DOMAIN SampleHeader
    /\ Unread >= 8 + SampleHeader[f]
    /\ pos' = pos + 8 + SampleHeader[f]
    /\ sample' = f
    /\ recordsLeft' \in SampleCounts \cup {Many}
    /\ Follow(pos + 8 + l, pos + 8 + WireHeader[f], honest /\ l >= WireHeader[f])
    /\ expanded' = (expanded \/ f = ExpandedFlowSample)
    /\ es' = NoSwitch
    /\ pc' = "record"
    /\ UNCHANGED <<total, loopVars, published>>

(* A sample cut short in its fixed part, or one of another enterprise, is  *)
(* an error: whatever the datagram holds, one of the two is possible.      *)
SampleFails == pc = "sample" /\ left # 0 /\ Fail

(* The record loop is over: the sample joins the datagram. *)
SampleEnds ==
    /\ pc = "record" /\ recordsLeft = 0
    /\ IF sample = CounterSample
           THEN Counters' = Counters + 1 /\ UNCHANGED Samples
           ELSE Samples' = Samples + 1 /\ UNCHANGED Counters
    /\ left' = Less(left)
    /\ Follow(end, 0, honest /\ declared = end)
    /\ pc' = "sample"
    /\ UNCHANGED <<total, pos, filter, counted, skipped, sample, recordsLeft, es, expanded, published>>

(* The type and length of a record, then n bytes of it.  wire is what the  *)
(* record takes by its format.                                             *)
Record(l, n, wire) ==
    /\ pc = "record" /\ recordsLeft # 0
    /\ pos' = pos + 8 + n
    /\ recordsLeft' = Less(recordsLeft)
    /\ Follow(end, declared + 8 + l, honest /\ l = wire /\ declared + 8 + l <= end)
    /\ UNCHANGED <<total, loopVars, sample, expanded, published>>

Decoded(l, n) == Unread >= 8 + n /\ Record(l, n, n) /\ UNCHANGED pc

UnknownRecord(l) == Unread >= 8 /\ Record(l, l, l) /\ UNCHANGED <<pc, es>>

CounterRecord(c, l) ==
    sample = CounterSample /\ Decoded(l, CounterSizes[c]) /\ UNCHANGED es

(* Mutant: the remainder is added, not what is missing. *)
PaddedMore(n) == n + (n % 4)

(* SampledHeader.unmarshal rounds the header up to a multiple of four. *)
Padded(n) == n + ((4 - n) % 4)

(* decodeSampledHeader: four numbers and the header, which may be cut      *)
(* short but not missing, then the packet decoder.  An unknown protocol or *)
(* a frame that is too short is an error of the whole datagram.            *)
RawHeader(l, n, protocol, frame) ==
    LET p == Decoder(n, protocol, frame) IN
    /\ sample # CounterSample
    /\ Unread > 24 /\ n <= 1500
    /\ Record(l, IF 16 + Padded(n) <= Unread - 8 THEN 16 + Padded(n) ELSE Unread - 8, 16 + n + ((4 - n) % 4))
    /\ pc' = IF p.end = "ok" THEN "record" ELSE p.end
    /\ UNCHANGED es

(* ExtSwitchData.unmarshal reads the fourth number into SrcPriority too,   *)
(* over the priority of the incoming frame.                                *)
ExtSwitch(l, outgoing) ==
    /\ sample # CounterSample
    /\ Decoded(l, 16)
    /\ es' = [SrcPriority |-> outgoing, DstPriority |-> 0]

(* ExtRouterData: l - 8 bytes, of which those after the fourth are the     *)
(* next hop, and two masks.  Below 8 the size of the buffer wraps around.  *)
ExtRouter(l) ==
    /\ sample # CounterSample
    /\ IF l \in 8..11
           THEN /\ Unread >= l
                /\ Record(l, l - 8, 16)
                /\ pc' = "panic"
           ELSE /\ l >= 12
                /\ Unread >= 8 + l
                /\ Record(l, l, l)
                /\ UNCHANGED pc
    /\ UNCHANGED es

(* Mutant: the error of the read is not looked at. *)
RecordFailsIgnored ==
    /\ pc = "record" /\ recordsLeft # 0
    /\ recordsLeft' = Less(recordsLeft)
    /\ UNCHANGED <<total, pos, pc, loopVars, sample, es, ghosts, published>>

(* A record cut short, a raw header above 1500 bytes. *)
RecordFails == pc = "record" /\ recordsLeft # 0 /\ Fail

(* The worker: a datagram without flow samples goes no further. *)
Publish ==
    /\ pc = "decoded"
    /\ published' = (Samples >= 1)
    /\ pc' = "end"
    /\ UNCHANGED <<total, pos, loopVars, sample, recordsLeft, es, ghosts>>

Next ==
    \/ sfHeaderDecode \/ sfHeaderFails \/ Done
    \/ \E f \in Formats, l \in SampleLengths : SampleSkipped(f, l) \/ SampleBegins(f, l)
    \/ SampleFails \/ SampleEnds \/ RecordFails \/ Publish
    \/ \E l \in RecordLengths :
          \/ UnknownRecord(l)
          \/ ExtRouter(l)
          \/ \E c \in DOMAIN CounterSizes : CounterRecord(c, l)
          \/ \E out \in {1, 2} : ExtSwitch(l, out)
          \/ \E n \in HeaderLengths, protocol \in HeaderProtocols, frame \in SampledFrames :
                RawHeader(l, n, protocol, frame)

(* SFDecode has met an ExtRouter record of 8 to 11 bytes or a tagged frame *)
(* that was cut before its type; nothing recovers.                         *)
Panics == pc = "panic"

Spec == Init /\ [][Next]_vars /\ WF_vars(Next)
-----------------------------------------------------------------------------
(* With an exporter whose lengths are true, the loop of SFDecode comes to  *)
(* every sample where the exporter put it, whichever samples were skipped, *)
(* filtered or decoded before, until the datagram ends or an expanded flow *)
(* sample is decoded, four bytes of which unmarshal leaves to the records. *)
SamplesAligned == pc = "sample" /\ honest /\ ~expanded /\ pos < total => pos = end

(* A datagram decoded without an error has all the samples its header      *)
(* counts, decoded or skipped.                                             *)
SamplesComplete == pc = "decoded" => Samples + Counters + skipped = counted

(* SFDecode returns, whatever number of samples and records is announced,  *)
(* or panics, and the process ends.                                        *)
DecodeEnds == <>(pc \in {"end", "error"}) \/ <>Panics
=============================================================================
