------------------------- MODULE NetflowV9Collector -------------------------
(***************************************************************************)
(* The NetFlow v9 collector (vflow/netflow_v9.go): the worker loop of the  *)
(* IPFIX collector without the mirror.                                     *)
(***************************************************************************)
EXTENDS Collector

(* The worker starts with a buffer of its own, to be put back at the top   *)
(* of the loop.                                                            *)
NF9Start(w, b) ==
    /\ wpc[w] = "start"
    /\ b \in avail
    /\ avail' = avail \ {b}
    /\ wmsg' = [wmsg EXCEPT ![w] = [id |-> 0, body |-> b]]
    /\ wpc' = [wpc EXCEPT ![w] = "top"]
    /\ UNCHANGED <<procVars, reader, udpCh, mem, told, mqCh, UDPCount, DecodedCount, fate>>

NF9Top(w) == Put(w, "top", "select") /\ UNCHANGED <<DecodedCount, fate>>

NF9Select(w) == Select(w, "decode")

(* Mutant: Put before the continue, and again at the top of the loop. *)
NF9DecodeFailPut(w) ==
    /\ wpc[w] = "decode"
    /\ wpc' = [wpc EXCEPT ![w] = "top"]
    /\ avail' = avail \cup {wmsg[w].body}
    /\ fate' = [fate EXCEPT ![wmsg[w].id] = "undecoded"]
    /\ UNCHANGED <<procVars, reader, udpCh, mem, wmsg, told, mqCh, UDPCount, DecodedCount>>

(* Decode returns no message: the packet header could not be decoded. *)
NF9DecodeFail(w) ==
    /\ Proceed(w, "decode", "top")
    /\ fate' = [fate EXCEPT ![wmsg[w].id] = "undecoded"]
    /\ UNCHANGED DecodedCount

(* The message is counted; DataSets is nil, or there is data to marshal. *)
NF9DecodeEmpty(w) ==
    /\ Proceed(w, "decode", "top")
    /\ DecodedCount' = DecodedCount + 1
    /\ fate' = [fate EXCEPT ![wmsg[w].id] = "decoded"]

(* Mutant: the buffer is put back before the message is marshalled. *)
NF9DecodeDataPut(w) ==
    /\ wpc[w] = "decode"
    /\ wpc' = [wpc EXCEPT ![w] = "marshal"]
    /\ avail' = avail \cup {wmsg[w].body}
    /\ DecodedCount' = DecodedCount + 1
    /\ UNCHANGED <<procVars, reader, udpCh, mem, wmsg, told, mqCh, UDPCount, fate>>

NF9DecodeData(w) ==
    /\ Proceed(w, "decode", "marshal")
    /\ DecodedCount' = DecodedCount + 1
    /\ UNCHANGED fate

NF9MarshalFail(w) ==
    /\ Proceed(w, "marshal", "top")
    /\ fate' = [fate EXCEPT ![wmsg[w].id] = "decoded"]
    /\ UNCHANGED DecodedCount

NF9MarshalSend(w) == Emit(w, "marshal", "top") /\ UNCHANGED DecodedCount

netflowV9Worker(w) ==
    \/ \E b \in Buffers : NF9Start(w, b)
    \/ NF9Top(w)
    \/ NF9Select(w)
    \/ NF9DecodeFail(w)
    \/ NF9DecodeEmpty(w)
    \/ NF9DecodeData(w)
    \/ NF9MarshalFail(w)
    \/ NF9MarshalSend(w)

(* run, shutdown and dynWorkers are those of the IPFIX collector. *)
NF9Run == Reader
NF9Shutdown == Shutdown
NF9DynWorkers(w) == Spawn(w) \/ Retire(w)

NF9Next ==
    /\ proc = "up"
    /\ \/ NF9Run
       \/ NF9Shutdown
       \/ Produce
       \/ \E w \in Workers : netflowV9Worker(w) \/ NF9DynWorkers(w)

NF9Spec == Init /\ [][NF9Next]_vars
-----------------------------------------------------------------------------
NF9Holding == {"top", "decode", "marshal"}
NF9Busy == {"decode", "marshal"}

(* The types of the variables of the common part. *)
NF9TypeOK == CollectorTypeOK({"off", "start", "top", "select", "decode", "marshal"})

(* No byte slice of netflowV9Buffer ever has two users. *)
NF9BufferOwnership == ExclusiveBuffers(NF9Holding)

(* What is decoded and produced is what arrived. *)
NF9PayloadIntact == FaithfulBytes(NF9Busy)

(* Every datagram counted by the reader is in one place or finished, also  *)
(* while dynWorkers starts and retires workers.                            *)
NF9DatagramConserved == HandledOnce(NF9Busy) /\ NoneLost(NF9Busy)

(* The DecodedCount of the status page is the number of datagrams that     *)
(* were decoded: those finished and those being marshalled.                *)
NF9DecodedCounted ==
    DecodedCount = Cardinality({d \in Datagrams : fate[d] = "decoded"})
                   + Cardinality({w \in Workers : wpc[w] = "marshal"})
=============================================================================
