----------------------------- MODULE Collectors -----------------------------
(* The three collectors, one at a time; proto says which. *)
EXTENDS IPFIXCollector, NetflowV9Collector, SFlowCollector

VARIABLE proto

collectorsVars == <<ipfixVars, proto>>

NoMirror == ipfixMirrorEnabled = FALSE /\ mCh = <<>> /\ mirrorHeld = {}

CollectorsInit ==
    \/ proto = "ipfix" /\ IPFIXInit
    \/ proto = "netflow9" /\ Init /\ NoMirror
    \/ proto = "sflow" /\ Init /\ NoMirror

CollectorsNext ==
    /\ \/ proto = "ipfix" /\ IPFIXNext
       \/ proto = "netflow9" /\ NF9Next /\ UNCHANGED mirrorVars
       \/ proto = "sflow" /\ SFNext /\ UNCHANGED mirrorVars
    /\ UNCHANGED proto

CollectorsSpec == CollectorsInit /\ [][CollectorsNext]_collectorsVars
-----------------------------------------------------------------------------
(* No byte slice of a collector's sync.Pool ever has two users, whatever   *)
(* path reader, workers and mirror take to Get and Put, and the variables  *)
(* are of their types.                                                     *)
SlicesOwned ==
    /\ proto = "ipfix" => IPFIXTypeOK /\ BufferOwnership
    /\ proto = "netflow9" => NF9TypeOK /\ NF9BufferOwnership
    /\ proto = "sflow" => SFTypeOK /\ SFBufferOwnership

(* What is decoded, produced and mirrored is what arrived. *)
BytesIntact ==
    /\ proto = "ipfix" => PayloadIntact
    /\ proto = "netflow9" => NF9PayloadIntact
    /\ proto = "sflow" => SFPayloadIntact

(* Every datagram that the reader counted is in one place or finished,     *)
(* also while workers are started and retired.  DecodedCount of the status *)
(* page agrees: with sFlow it is the datagrams marshalled for the          *)
(* producer, with IPFIX and NetFlow v9 those that were decoded.            *)
NoDatagramLost ==
    /\ proto = "ipfix" => DatagramConserved /\ DecodedCounted
    /\ proto = "netflow9" => NF9DatagramConserved /\ NF9DecodedCounted
    /\ proto = "sflow" => SFDatagramConserved /\ SFDecodedCounted
=============================================================================
