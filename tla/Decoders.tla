------------------------------ MODULE Decoders ------------------------------
(* The decoders of the three collectors.  proto says whose worker decodes; *)
(* IPFIX and NetFlow v9 decoders have their state in common.               *)
EXTENDS Naturals

CONSTANTS SetLengths, FieldCounts, MaxRecords                            \* IPFIX and NetFlow v9
CONSTANTS Totals, SetIDs, TemplateIDs, ScopeCounts, FieldLengths         \* IPFIX
CONSTANTS Totals9, SetIDs9, TemplateIDs9, OptionLengths, FieldLengths9   \* NetFlow v9
CONSTANTS SFlowTotals, SampleCounts, SampleLengths, RecordLengths, HeaderLengths, SampledFrames,
          Filters                                                        \* sFlow

VARIABLES proto
VARIABLES total, count, pc, set, err, tr, todo, rec, last, records, decodeErrors, mem
VARIABLES rpcChan                \* IPFIX
VARIABLES TemplaRecord, failed   \* NetFlow v9
VARIABLES stotal, pos, spc, filter, left, sample, recordsLeft, Samples, Counters, skipped, es,
          counted, end, declared, honest, expanded, published   \* sFlow

I == INSTANCE IPFIXDecoder

N == INSTANCE NetflowV9Decoder WITH
        Totals <- Totals9, SetIDs <- SetIDs9, TemplateIDs <- TemplateIDs9, FieldLengths <- FieldLengths9

S == INSTANCE SFlowDecoder WITH
        total <- stotal, pc <- spc, Totals <- SFlowTotals

ASSUME DecodersAssumption == I!DecoderAssumption /\ N!NF9DecoderAssumption /\ S!SFlowAssumption

ipfix9 == <<total, count, pc, set, err, tr, todo, rec, last, records, decodeErrors, mem, rpcChan,
            TemplaRecord, failed>>
sflow == <<stotal, pos, spc, filter, left, sample, recordsLeft, Samples, Counters, skipped, es,
           counted, end, declared, honest, expanded, published>>
vars == <<proto, ipfix9, sflow>>

Init ==
    /\ \/ proto = "ipfix" /\ I!Init /\ TemplaRecord = N!NoTemplate /\ failed = FALSE
       \/ proto \in {"netflow9", "sflow"} /\ N!Init /\ rpcChan = <<>>
    /\ S!Init

IPFIX == proto = "ipfix" /\ UNCHANGED <<proto, TemplaRecord, failed, sflow>>
NetflowV9 == proto = "netflow9" /\ UNCHANGED <<proto, rpcChan, sflow>>
SFlow == proto = "sflow" /\ UNCHANGED <<proto, ipfix9>>

Next ==
    \/ IPFIX /\ I!Next
    \/ NetflowV9 /\ N!Next
    \/ SFlow /\ S!Next

(* A worker that can run does run. *)
Fairness ==
    WF_vars(IPFIX /\ I!decodeStep) /\ WF_vars(NetflowV9 /\ N!decodeStep) /\ WF_vars(SFlow /\ S!Next)

Spec == Init /\ [][Next]_vars /\ Fairness
-----------------------------------------------------------------------------
(* Sets and samples are read from where the sender put them: an IPFIX set  *)
(* without an error ends where its Length says, an sFlow sample begins     *)
(* where the one before it ends, unless an expanded flow sample was        *)
(* decoded before, and a decoded sFlow datagram has all its samples.  The  *)
(* IPFIX and NetFlow v9 readers stay inside their datagram.                *)
ReadInPlace ==
    /\ proto = "ipfix" => I!TypeOK /\ I!SetsAligned
    /\ proto # "ipfix" => N!TypeOK
    /\ S!SamplesAligned /\ S!SamplesComplete

(* No record that was sent is missing: a data set without an error gives   *)
(* the records that fit (NetFlow v9: if padded only a little, and then it  *)
(* ends where its Length says).                                            *)
NothingMissing ==
    /\ proto = "ipfix" => I!RecordsCounted
    /\ proto = "netflow9" => N!PaddedSetRead

(* Only templates that were read to the end are cached; with NetFlow v9    *)
(* the one in the message is whole, too, or its error is reported.         *)
TemplatesWhole ==
    /\ proto = "ipfix" => I!CachedWhole
    /\ proto = "netflow9" => N!TemplatesWhole /\ N!TemplateErrorsReported

(* IPFIX and NetFlow v9: one template for the records of one set. *)
OneTemplatePerSet == [][I!SameTemplate]_vars

(* Every decoder returns, whatever the datagram holds, with two exceptions *)
(* in which it never does: IPFIX or NetFlow v9 has come to a set whose     *)
(* records take no bytes, and goes on in it for ever; sFlow has panicked   *)
(* over a short ExtRouter record or tagged frame, which ends the process.  *)
DecodeEnds ==
    \/ <>(pc = "done" \/ spc \in {"end", "error"})
    \/ <>[](\/ proto = "ipfix" /\ I!EmptyRecords
            \/ proto = "netflow9" /\ N!EmptyRecords
            \/ proto = "sflow" /\ S!Panics)
=============================================================================
