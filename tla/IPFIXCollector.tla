--------------------------- MODULE IPFIXCollector ---------------------------
(***************************************************************************)
(* The IPFIX collector: the worker loop of vflow/ipfix.go, which puts the  *)
(* buffer of the previous message back at the top of the loop and may copy *)
(* the message to the mirror channel, and the mirror side as the collector *)
(* sees it: something that takes messages from that channel and puts their *)
(* buffers back, in any order and at any pace, or not at all.              *)
(***************************************************************************)
EXTENDS Collector

CONSTANTS
    MCap,             \* capacity of the mirror channel ipfixMCh
    MirrorConfigured  \* opts.IPFIXMirrorAddr is set

ASSUME MirrorAssumption == MCap \in Nat /\ MirrorConfigured \in BOOLEAN

VARIABLES
    ipfixMirrorEnabled,
    mCh,         \* ipfixMCh
    mirrorHeld   \* messages the mirror side took and whose buffer it holds

mirrorVars == <<ipfixMirrorEnabled, mCh, mirrorHeld>>
ipfixVars == <<vars, mirrorVars>>

IPFIXInit ==
    /\ Init
    /\ ipfixMirrorEnabled = FALSE
    /\ mCh = <<>>
    /\ mirrorHeld = {}
-----------------------------------------------------------------------------
(* The worker starts with a buffer of its own, to be put back at the top   *)
(* of the loop.                                                            *)
WorkerStart(w, b) ==
    /\ wpc[w] = "start"
    /\ b \in avail
    /\ avail' = avail \ {b}
    /\ wmsg' = [wmsg EXCEPT ![w] = [id |-> 0, body |-> b]]
    /\ wpc' = [wpc EXCEPT ![w] = "top"]
    /\ UNCHANGED <<procVars, reader, udpCh, mem, told, mqCh, UDPCount, DecodedCount, fate, mirrorVars>>

LoopTop(w) ==
    /\ Put(w, "top", "select")
    /\ UNCHANGED <<DecodedCount, fate, mirrorVars>>

LoopSelect(w) ==
    /\ Select(w, "mirror")
    /\ UNCHANGED mirrorVars

(* Mutants: the mirror gets the buffer of the message itself, a full       *)
(* mirror channel ends the work on the message, or blocks it.              *)
MirrorNoCopy(w, b) ==
    /\ wpc[w] = "mirror"
    /\ ipfixMirrorEnabled
    /\ mCh' = IF Len(mCh) < MCap THEN Append(mCh, wmsg[w]) ELSE mCh
    /\ wpc' = [wpc EXCEPT ![w] = "decode"]
    /\ UNCHANGED <<procVars, reader, udpCh, bufVars, wmsg, told, mqCh, UDPCount, DecodedCount, fate,
                   ipfixMirrorEnabled, mirrorHeld>>

MirrorCopyOrDrop(w, b) ==
    /\ wpc[w] = "mirror"
    /\ ipfixMirrorEnabled
    /\ b \in avail
    /\ mem' = [mem EXCEPT ![b] = mem[wmsg[w].body]]
    /\ IF Len(mCh) < MCap
       THEN /\ mCh' = Append(mCh, [id |-> wmsg[w].id, body |-> b])
            /\ avail' = avail \ {b}
            /\ wpc' = [wpc EXCEPT ![w] = "decode"]
       ELSE /\ wpc' = [wpc EXCEPT ![w] = "top"]
            /\ UNCHANGED <<mCh, avail>>
    /\ UNCHANGED <<procVars, reader, udpCh, wmsg, told, mqCh, UDPCount, DecodedCount, fate,
                   ipfixMirrorEnabled, mirrorHeld>>

MirrorCopyBlocks(w, b) ==
    /\ Len(mCh) < MCap
    /\ MirrorCopyOrDrop(w, b)

(* The copy for the mirror: a buffer of its own, sent if there is room in  *)
(* the mirror channel and forgotten otherwise.                             *)
MirrorCopy(w, b) ==
    /\ wpc[w] = "mirror"
    /\ ipfixMirrorEnabled
    /\ b \in avail
    /\ mem' = [mem EXCEPT ![b] = mem[wmsg[w].body]]
    /\ \/ /\ Len(mCh) < MCap
          /\ mCh' = Append(mCh, [id |-> wmsg[w].id, body |-> b])
          /\ avail' = avail \ {b}
       \/ /\ Len(mCh) = MCap
          /\ UNCHANGED <<mCh, avail>>
    /\ wpc' = [wpc EXCEPT ![w] = "decode"]
    /\ UNCHANGED <<procVars, reader, udpCh, wmsg, told, mqCh, UDPCount, DecodedCount, fate,
                   ipfixMirrorEnabled, mirrorHeld>>

MirrorSkip(w) ==
    /\ ~ipfixMirrorEnabled
    /\ Proceed(w, "mirror", "decode")
    /\ UNCHANGED <<DecodedCount, fate, mirrorVars>>

(* Mutant: counted before the test for a message. *)
DecodeFailCounted(w) ==
    /\ Proceed(w, "decode", "top")
    /\ DecodedCount' = DecodedCount + 1
    /\ fate' = [fate EXCEPT ![wmsg[w].id] = "undecoded"]
    /\ UNCHANGED mirrorVars

(* Decode returns no message: its header could not be decoded. *)
DecodeFail(w) ==
    /\ Proceed(w, "decode", "top")
    /\ fate' = [fate EXCEPT ![wmsg[w].id] = "undecoded"]
    /\ UNCHANGED <<DecodedCount, mirrorVars>>

(* Decode returns a message, maybe together with an error; it is counted   *)
(* and there is more to do only if it has data sets.                       *)
DecodeEmpty(w) ==
    /\ Proceed(w, "decode", "top")
    /\ DecodedCount' = DecodedCount + 1
    /\ fate' = [fate EXCEPT ![wmsg[w].id] = "decoded"]
    /\ UNCHANGED mirrorVars

(* Mutant: the buffer is put back before the message is marshalled. *)
DecodeDataPut(w) ==
    /\ wpc[w] = "decode"
    /\ wpc' = [wpc EXCEPT ![w] = "marshal"]
    /\ avail' = avail \cup {wmsg[w].body}
    /\ DecodedCount' = DecodedCount + 1
    /\ UNCHANGED <<procVars, reader, udpCh, mem, wmsg, told, mqCh, UDPCount, fate, mirrorVars>>

DecodeData(w) ==
    /\ Proceed(w, "decode", "marshal")
    /\ DecodedCount' = DecodedCount + 1
    /\ UNCHANGED <<fate, mirrorVars>>

MarshalFail(w) ==
    /\ Proceed(w, "marshal", "top")
    /\ fate' = [fate EXCEPT ![wmsg[w].id] = "decoded"]
    /\ UNCHANGED <<DecodedCount, mirrorVars>>

(* The decoded fields are slices of the buffer until they are marshalled. *)
MarshalSend(w) ==
    /\ Emit(w, "marshal", "top")
    /\ UNCHANGED <<DecodedCount, mirrorVars>>

ipfixWorker(w) ==
    \/ \E b \in Buffers : WorkerStart(w, b)
    \/ LoopTop(w)
    \/ LoopSelect(w)
    \/ \E b \in Buffers : MirrorCopy(w, b)
    \/ MirrorSkip(w)
    \/ DecodeFail(w)
    \/ DecodeEmpty(w)
    \/ DecodeData(w)
    \/ MarshalFail(w)
    \/ MarshalSend(w)
-----------------------------------------------------------------------------
(* The mirror side (vflow/ipfix_unix.go). *)

MirrorEnable ==
    /\ MirrorConfigured
    /\ ~ipfixMirrorEnabled
    /\ ipfixMirrorEnabled' = TRUE
    /\ UNCHANGED <<vars, mCh, mirrorHeld>>

MirrorTake ==
    /\ mCh # <<>>
    /\ mirrorHeld' = mirrorHeld \cup {Head(mCh)}
    /\ mCh' = Tail(mCh)
    /\ UNCHANGED <<vars, ipfixMirrorEnabled>>

MirrorPut(m) ==
    /\ m \in mirrorHeld
    /\ mirrorHeld' = mirrorHeld \ {m}
    /\ avail' = avail \cup {m.body}
    /\ UNCHANGED <<procVars, reader, udpCh, mem, workVars, mqCh, UDPCount, DecodedCount, fate,
                   ipfixMirrorEnabled, mCh>>

MirrorSide == MirrorEnable \/ MirrorTake \/ \E m \in mirrorHeld : MirrorPut(m)
-----------------------------------------------------------------------------
IPFIXReader == Reader /\ UNCHANGED mirrorVars
IPFIXShutdown == Shutdown /\ UNCHANGED mirrorVars
IPFIXProduce == Produce /\ UNCHANGED mirrorVars
IPFIXPool(w) == (Spawn(w) \/ Retire(w)) /\ UNCHANGED mirrorVars

(* Nothing runs after the process ended. *)
IPFIXNext ==
    /\ proc = "up"
    /\ \/ IPFIXReader
       \/ IPFIXShutdown
       \/ IPFIXProduce
       \/ MirrorSide
       \/ \E w \in Workers : ipfixWorker(w) \/ IPFIXPool(w)

IPFIXSafety == IPFIXInit /\ [][IPFIXNext]_ipfixVars

(* The reader and every worker are scheduled, and shutdown wakes up from   *)
(* its sleep.  A worker that waits in its select takes a waiting message   *)
(* even if workers are retired again and again: dynWorkers acts at most    *)
(* once in two minutes (strong fairness).  Nothing is assumed of the       *)
(* producer, of the mirror side, of the signal or of dynWorkers.           *)
IPFIXFairness ==
    /\ WF_ipfixVars(proc = "up" /\ IPFIXReader)
    /\ WF_ipfixVars(proc = "up" /\ (Close \/ Exit) /\ UNCHANGED mirrorVars)
    /\ \A w \in Workers : WF_ipfixVars(proc = "up" /\ ipfixWorker(w))
    /\ SF_ipfixVars(proc = "up" /\ \E w \in Workers : SelectMsg(w, "mirror") /\ UNCHANGED mirrorVars)

IPFIXSpec == IPFIXSafety /\ IPFIXFairness
-----------------------------------------------------------------------------
(* Where a worker holds its buffer, works on a message, has counted it. *)
Holding == {"top", "mirror", "decode", "marshal"}
Busy == {"mirror", "decode", "marshal"}

(* The types of the variables. *)
IPFIXTypeOK ==
    /\ CollectorTypeOK({"off", "start", "top", "select", "mirror", "decode", "marshal"})
    /\ ipfixMirrorEnabled \in BOOLEAN
    /\ mCh \in Seq(Msgs) /\ Len(mCh) <= MCap
    /\ mirrorHeld \subseteq Msgs

(* A buffer in the mirror channel or with the mirror side has no other     *)
(* user either.                                                            *)
MirrorExclusive(holding) ==
    LET Mine(b) == /\ b \notin avail
                   /\ ReaderHolds => b # reader.body
                   /\ \A i \in DOMAIN udpCh : b # udpCh[i].body
                   /\ \A w \in Workers : wpc[w] \in holding => b # wmsg[w].body
    IN /\ \A i \in DOMAIN mCh :
            /\ Mine(mCh[i].body)
            /\ \A j \in DOMAIN mCh : i # j => mCh[i].body # mCh[j].body
            /\ \A m \in mirrorHeld : m.body # mCh[i].body
       /\ \A m \in mirrorHeld :
            /\ Mine(m.body)
            /\ \A k \in mirrorHeld : k # m => k.body # m.body

(* No byte slice of the collector ever has two users (ipfixBuffer.Get and  *)
(* ipfixBuffer.Put are balanced along every path of reader, worker and     *)
(* mirror).                                                                *)
BufferOwnership == ExclusiveBuffers(Holding) /\ MirrorExclusive(Holding)

(* What is decoded, produced and mirrored is what arrived. *)
PayloadIntact ==
    /\ FaithfulBytes(Busy)
    /\ \A i \in DOMAIN mCh : mem[mCh[i].body] = mCh[i].id
    /\ \A m \in mirrorHeld : mem[m.body] = m.id

(* Every datagram counted by the reader is in one place or finished. *)
DatagramConserved == HandledOnce(Busy) /\ NoneLost(Busy)

(* The DecodedCount of the status page is the number of datagrams that     *)
(* were decoded: those finished and those being marshalled.                *)
DecodedCounted ==
    DecodedCount = Cardinality({d \in Datagrams : fate[d] = "decoded"})
                   + Cardinality({w \in Workers : wpc[w] = "marshal"})
=============================================================================
