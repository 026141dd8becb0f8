--------------------------- MODULE SFlowCollector ---------------------------
(***************************************************************************)
(* The sFlow collector (vflow/sflow.go).  Its worker starts without a      *)
(* buffer and puts the one of a message back at the end of each of the     *)
(* three paths through the loop body; only marshalled datagrams count as   *)
(* decoded.                                                                *)
(***************************************************************************)
EXTENDS Collector

SFStart(w) == Proceed(w, "start", "select") /\ UNCHANGED <<DecodedCount, fate>>

SFSelect(w) == Select(w, "decode")

(* SFDecode reports an error or no samples: Put, continue. *)
SFDecodeFail(w) ==
    /\ Put(w, "decode", "select")
    /\ fate' = [fate EXCEPT ![wmsg[w].id] = "undecoded"]
    /\ UNCHANGED DecodedCount

(* Mutant: the buffer is put back before the datagram is marshalled. *)
SFDecodePut(w) ==
    /\ wpc[w] = "decode"
    /\ wpc' = [wpc EXCEPT ![w] = "marshal"]
    /\ avail' = avail \cup {wmsg[w].body}
    /\ UNCHANGED <<procVars, reader, udpCh, mem, wmsg, told, mqCh, UDPCount, DecodedCount, fate>>

SFDecode(w) == Proceed(w, "decode", "marshal") /\ UNCHANGED <<DecodedCount, fate>>

(* Mutants: no continue after the Put, so that the buffer is put twice;    *)
(* the datagram counted before the test for the error.                     *)
SFMarshalFailOn(w) ==
    /\ wpc[w] = "marshal"
    /\ wpc' = [wpc EXCEPT ![w] = "put"]
    /\ avail' = avail \cup {wmsg[w].body}
    /\ fate' = [fate EXCEPT ![wmsg[w].id] = "undecoded"]
    /\ UNCHANGED <<procVars, reader, udpCh, mem, wmsg, told, mqCh, UDPCount, DecodedCount>>

SFMarshalFailCounted(w) ==
    /\ Put(w, "marshal", "select")
    /\ fate' = [fate EXCEPT ![wmsg[w].id] = "undecoded"]
    /\ DecodedCount' = DecodedCount + 1

(* json.Marshal reports an error: Put, continue. *)
SFMarshalFail(w) ==
    /\ Put(w, "marshal", "select")
    /\ fate' = [fate EXCEPT ![wmsg[w].id] = "undecoded"]
    /\ UNCHANGED DecodedCount

SFMarshalSend(w) ==
    /\ Emit(w, "marshal", "put")
    /\ DecodedCount' = DecodedCount + 1

SFPut(w) == Put(w, "put", "select") /\ UNCHANGED <<DecodedCount, fate>>

sFlowWorker(w) ==
    \/ SFStart(w)
    \/ SFSelect(w)
    \/ SFDecodeFail(w)
    \/ SFDecode(w)
    \/ SFMarshalFail(w)
    \/ SFMarshalSend(w)
    \/ SFPut(w)

(* run, shutdown and dynWorkers are those of the IPFIX collector; there is *)
(* no template cache to dump.                                              *)
SFRun == Reader
SFShutdown == Shutdown
SFDynWorkers(w) == Spawn(w) \/ Retire(w)

SFNext ==
    /\ proc = "up"
    /\ \/ SFRun
       \/ SFShutdown
       \/ Produce
       \/ \E w \in Workers : sFlowWorker(w) \/ SFDynWorkers(w)

SFSpec == Init /\ [][SFNext]_vars
-----------------------------------------------------------------------------
SFHolding == {"decode", "marshal", "put"}
SFBusy == {"decode", "marshal"}

(* The types of the variables of the common part. *)
SFTypeOK == CollectorTypeOK({"off", "start", "select", "decode", "marshal", "put"})

(* No byte slice of sFlowBuffer ever has two users, whichever of the three *)
(* Put calls of the loop is taken.                                         *)
SFBufferOwnership == ExclusiveBuffers(SFHolding)

(* What is decoded and produced is what arrived. *)
SFPayloadIntact == FaithfulBytes(SFBusy)

(* Every datagram counted by the reader is in one place or finished, also  *)
(* while dynWorkers starts and retires workers.                            *)
SFDatagramConserved == HandledOnce(SFBusy) /\ NoneLost(SFBusy)

(* The DecodedCount of the status page is the number of datagrams that     *)
(* were marshalled for the producer.                                       *)
SFDecodedCounted ==
    DecodedCount = Cardinality({d \in Datagrams : fate[d] = "decoded"})
=============================================================================
