------------------------------ MODULE Collector ------------------------------
(***************************************************************************)
(* What the IPFIX, NetFlow v9 and sFlow collectors have in common: the     *)
(* goroutine that reads UDP datagrams, the channel between it and the      *)
(* decoder goroutines, the sync.Pool the datagram buffers come from, the   *)
(* channel to the message-queue producer, and the shutdown.  The three     *)
(* modules that extend this one add the body of their worker loop.         *)
(*                                                                         *)
(* A datagram is its number in order of arrival.  mem[b] is the datagram   *)
(* whose bytes are in buffer b; a message in a channel is the buffer and,  *)
(* for the length and address travelling with it, the datagram it was made *)
(* for.  Nothing but the ownership discipline of the code makes the two    *)
(* agree when a worker gets to decode the buffer.                          *)
(***************************************************************************)
EXTENDS Integers, Sequences, FiniteSets

CONSTANTS
    Buffers,         \* the byte slices of the sync.Pool
    NoBuffer,        \* no slice
    Workers,         \* decoder goroutines
    InitialWorkers,  \* the ones run starts
    UDPCap, MQCap,   \* capacities of the UDP channel and of the MQ channel
    MaxDatagrams,    \* bound: datagrams that arrive
    SleepCoversRead  \* TRUE: the second that shutdown sleeps outlasts the
                     \* one-second read deadline of the reader

ASSUME CollectorAssumption ==
    /\ NoBuffer \notin Buffers
    /\ IsFiniteSet(Workers) /\ InitialWorkers \subseteq Workers
    /\ UDPCap \in Nat /\ MQCap \in Nat
    /\ MaxDatagrams \in Nat
    /\ SleepCoversRead \in BOOLEAN

VARIABLES
    proc,         \* the process: "up", ended by "panic" or by "exit"
    down,         \* shutdown: "no", "stopping" (stop is set), "closed"
    reader,       \* the reader goroutine: where it is, and its buffer
    udpCh,        \* the UDP channel
    avail,        \* the buffers Get may return: those in the sync.Pool and
                  \* those nothing refers to, which New may allocate
    mem,          \* mem[b]: the datagram in buffer b, 0 for none
    wpc, wmsg,    \* each worker: where it is, and its msg
    told,         \* workers whose quit channel is closed
    mqCh,         \* the channel to the producer
    UDPCount, DecodedCount,
    fate          \* history: the datagrams workers are done with

procVars == <<proc, down>>
bufVars == <<avail, mem>>
workVars == <<wpc, wmsg, told>>
vars == <<proc, down, reader, udpCh, avail, mem, wpc, wmsg, told, mqCh,
          UDPCount, DecodedCount, fate>>

Datagrams == 1..MaxDatagrams
Msgs == [id : 0..MaxDatagrams, body : Buffers]
NoMsg == [id |-> 0, body |-> NoBuffer]

Fates == {"none", "undecoded", "decoded"}

Init ==
    /\ proc = "up"
    /\ down = "no"
    /\ reader = [pc |-> "loop", body |-> NoBuffer]
    /\ udpCh = <<>>
    /\ avail = Buffers
    /\ mem = [b \in Buffers |-> 0]
    /\ wpc = [w \in Workers |-> IF w \in InitialWorkers THEN "start" ELSE "off"]
    /\ wmsg = [w \in Workers |-> NoMsg]
    /\ told = {}
    /\ mqCh = <<>>
    /\ UDPCount = 0
    /\ DecodedCount = 0
    /\ fate = [d \in Datagrams |-> "none"]
-----------------------------------------------------------------------------
(* The read loop of run. *)

(* The loop condition: stop is set. *)
ReaderStop ==
    /\ reader.pc = "loop"
    /\ down # "no"
    /\ reader' = [reader EXCEPT !.pc = "done"]
    /\ UNCHANGED <<procVars, udpCh, bufVars, workVars, mqCh, UDPCount, DecodedCount, fate>>

ReaderGet(b) ==
    /\ reader.pc = "loop"
    /\ down = "no"
    /\ b \in avail
    /\ avail' = avail \ {b}
    /\ reader' = [pc |-> "read", body |-> b]
    /\ UNCHANGED <<procVars, udpCh, mem, workVars, mqCh, UDPCount, DecodedCount, fate>>

(* ReadFromUDP reports an error, the deadline for one: the buffer is not   *)
(* put back, nothing refers to it any longer.                              *)
ReadError ==
    /\ reader.pc = "read"
    /\ reader' = [pc |-> "loop", body |-> NoBuffer]
    /\ avail' = avail \cup {reader.body}
    /\ UNCHANGED <<procVars, udpCh, mem, workVars, mqCh, UDPCount, DecodedCount, fate>>

ReadFromUDP ==
    /\ reader.pc = "read"
    /\ UDPCount < MaxDatagrams
    /\ UDPCount' = UDPCount + 1
    /\ mem' = [mem EXCEPT ![reader.body] = UDPCount + 1]
    /\ reader' = [reader EXCEPT !.pc = "send"]
    /\ UNCHANGED <<procVars, udpCh, avail, workVars, mqCh, DecodedCount, fate>>

(* The send to the UDP channel waits for room ...                          *)
ReaderSend ==
    /\ reader.pc = "send"
    /\ down # "closed"
    /\ Len(udpCh) < UDPCap
    /\ udpCh' = Append(udpCh, [id |-> UDPCount, body |-> reader.body])
    /\ reader' = [pc |-> "loop", body |-> NoBuffer]
    /\ UNCHANGED <<procVars, bufVars, workVars, mqCh, UDPCount, DecodedCount, fate>>

(* ... and panics when the channel is closed, also while it waits.         *)
SendOnClosed ==
    /\ reader.pc = "send"
    /\ down = "closed"
    /\ proc' = "panic"
    /\ UNCHANGED <<down, reader, udpCh, bufVars, workVars, mqCh, UDPCount, DecodedCount, fate>>

(* Mutant: "for" without the test of stop. *)
ReaderForever ==
    \/ \E b \in avail :
         /\ reader.pc = "loop"
         /\ avail' = avail \ {b}
         /\ reader' = [pc |-> "read", body |-> b]
         /\ UNCHANGED <<procVars, udpCh, mem, workVars, mqCh, UDPCount, DecodedCount, fate>>
    \/ ReadError
    \/ ReadFromUDP
    \/ ReaderSend
    \/ SendOnClosed

Reader ==
    \/ ReaderStop
    \/ \E b \in Buffers : ReaderGet(b)
    \/ ReadError
    \/ ReadFromUDP
    \/ ReaderSend
    \/ SendOnClosed
-----------------------------------------------------------------------------
(* shutdown, started by a signal, and the end of main. *)

Stop ==
    /\ down = "no"
    /\ down' = "stopping"
    /\ UNCHANGED <<proc, reader, udpCh, bufVars, workVars, mqCh, UDPCount, DecodedCount, fate>>

(* close(UDPCh) after one second.  With SleepCoversRead the reader has     *)
(* returned from its read by then: it is done or blocked in its send.      *)
Close ==
    /\ down = "stopping"
    /\ SleepCoversRead => \/ reader.pc = "done"
                          \/ reader.pc = "send" /\ Len(udpCh) = UDPCap
    /\ down' = "closed"
    /\ UNCHANGED <<proc, reader, udpCh, bufVars, workVars, mqCh, UDPCount, DecodedCount, fate>>

(* main waits for run and shutdown, not for workers and producers. *)
Exit ==
    /\ reader.pc = "done"
    /\ down = "closed"
    /\ proc' = "exit"
    /\ UNCHANGED <<down, reader, udpCh, bufVars, workVars, mqCh, UDPCount, DecodedCount, fate>>

Shutdown == Stop \/ Close \/ Exit
-----------------------------------------------------------------------------
(* The life of a worker, up to what it does with a message. *)

Running == {w \in Workers : wpc[w] # "off"}

(* dynWorkers starts a worker ...                                          *)
Spawn(w) ==
    /\ wpc[w] = "off"
    /\ wpc' = [wpc EXCEPT ![w] = "start"]
    /\ UNCHANGED <<procVars, reader, udpCh, bufVars, wmsg, told, mqCh, UDPCount, DecodedCount, fate>>

(* Mutant: the configured number of workers is not kept. *)
RetireAny(w) ==
    /\ w \in Running \ told
    /\ told' = told \cup {w}
    /\ UNCHANGED <<procVars, reader, udpCh, bufVars, wpc, wmsg, mqCh, UDPCount, DecodedCount, fate>>

(* ... or closes the quit channel of one, keeping the configured number    *)
(* (WorkerPool!MinimumKept).                                               *)
Retire(w) ==
    /\ w \in Running \ told
    /\ Cardinality(Running \ told) > Cardinality(InitialWorkers)
    /\ told' = told \cup {w}
    /\ UNCHANGED <<procVars, reader, udpCh, bufVars, wpc, wmsg, mqCh, UDPCount, DecodedCount, fate>>

Leave(w) ==
    /\ wpc' = [wpc EXCEPT ![w] = "off"]
    /\ told' = told \ {w}
    /\ UNCHANGED <<procVars, reader, udpCh, bufVars, wmsg, mqCh, UDPCount, DecodedCount, fate>>

(* The select of the worker loop: any ready case may be taken.  A closed   *)
(* channel still delivers what it holds.                                   *)
SelectQuit(w) ==
    /\ wpc[w] = "select"
    /\ w \in told
    /\ Leave(w)

SelectClosed(w) ==
    /\ wpc[w] = "select"
    /\ down = "closed"
    /\ udpCh = <<>>
    /\ Leave(w)

(* Mutant: a worker that was told to quit does so with a message received. *)
SelectMsgThenQuit(w, next) ==
    /\ wpc[w] = "select"
    /\ udpCh # <<>>
    /\ wmsg' = [wmsg EXCEPT ![w] = IF w \in told THEN NoMsg ELSE Head(udpCh)]
    /\ udpCh' = Tail(udpCh)
    /\ wpc' = [wpc EXCEPT ![w] = IF w \in told THEN "off" ELSE next]
    /\ told' = told \ {w}
    /\ UNCHANGED <<procVars, reader, bufVars, mqCh, UDPCount, DecodedCount, fate>>

SelectMsg(w, next) ==
    /\ wpc[w] = "select"
    /\ udpCh # <<>>
    /\ wmsg' = [wmsg EXCEPT ![w] = Head(udpCh)]
    /\ udpCh' = Tail(udpCh)
    /\ wpc' = [wpc EXCEPT ![w] = next]
    /\ UNCHANGED <<procVars, reader, bufVars, told, mqCh, UDPCount, DecodedCount, fate>>

Select(w, next) == SelectQuit(w) \/ SelectClosed(w) \/ SelectMsg(w, next)

(* The worker moves on without touching a buffer. *)
Proceed(w, from, to) ==
    /\ wpc[w] = from
    /\ wpc' = [wpc EXCEPT ![w] = to]
    /\ UNCHANGED <<procVars, reader, udpCh, bufVars, wmsg, told, mqCh, UDPCount>>

(* Put: the buffer of the message goes back to the sync.Pool.  What msg    *)
(* still refers to is not used before the select assigns msg again.        *)
Put(w, from, to) ==
    /\ wpc[w] = from
    /\ wpc' = [wpc EXCEPT ![w] = to]
    /\ avail' = avail \cup {wmsg[w].body}
    /\ wmsg' = [wmsg EXCEPT ![w] = NoMsg]
    /\ UNCHANGED <<procVars, reader, udpCh, mem, told, mqCh, UDPCount>>

(* Mutant: a list without a limit in place of the channel. *)
EmitUnbounded(w, from, to) ==
    /\ wpc[w] = from
    /\ wpc' = [wpc EXCEPT ![w] = to]
    /\ fate' = [fate EXCEPT ![wmsg[w].id] = "decoded"]
    /\ mqCh' = Append(mqCh, [id |-> wmsg[w].id, data |-> mem[wmsg[w].body]])
    /\ UNCHANGED <<procVars, reader, udpCh, bufVars, wmsg, told, UDPCount>>

(* The message marshalled from the buffer, sent to the producer if there   *)
(* is room and dropped otherwise.                                          *)
Emit(w, from, to) ==
    /\ wpc[w] = from
    /\ wpc' = [wpc EXCEPT ![w] = to]
    /\ fate' = [fate EXCEPT ![wmsg[w].id] = "decoded"]
    /\ \/ /\ Len(mqCh) < MQCap
          /\ mqCh' = Append(mqCh, [id |-> wmsg[w].id, data |-> mem[wmsg[w].body]])
       \/ /\ Len(mqCh) = MQCap
          /\ UNCHANGED mqCh
    /\ UNCHANGED <<procVars, reader, udpCh, bufVars, wmsg, told, UDPCount>>

(* The producer receives from its channel. *)
Produce ==
    /\ mqCh # <<>>
    /\ mqCh' = Tail(mqCh)
    /\ UNCHANGED <<procVars, reader, udpCh, bufVars, workVars, UDPCount, DecodedCount, fate>>
-----------------------------------------------------------------------------
(* Properties of the common part.  The modules of the three collectors say *)
(* in which states of their loop a worker holds the buffer of its message  *)
(* (holding) and works on the message (busy).                              *)

(* The types of the variables, given the states of the worker loop. *)
CollectorTypeOK(states) ==
    /\ proc \in {"up", "panic", "exit"}
    /\ down \in {"no", "stopping", "closed"}
    /\ reader \in [pc : {"loop", "read", "send", "done"}, body : Buffers \cup {NoBuffer}]
    /\ udpCh \in Seq(Msgs) /\ Len(udpCh) <= UDPCap
    /\ avail \subseteq Buffers
    /\ mem \in [Buffers -> 0..MaxDatagrams]
    /\ wpc \in [Workers -> states]
    /\ wmsg \in [Workers -> Msgs \cup {NoMsg}]
    /\ told \subseteq Workers
    /\ mqCh \in Seq([id : 0..MaxDatagrams, data : 0..MaxDatagrams]) /\ Len(mqCh) <= MQCap
    /\ UDPCount \in 0..MaxDatagrams
    /\ DecodedCount \in Nat
    /\ fate \in [Datagrams -> Fates]

ReaderHolds == reader.pc \in {"read", "send"}

(* No buffer has two users: the reader, the messages in the UDP channel    *)
(* and the workers have different buffers, and none of them is in the      *)
(* sync.Pool, where the next Get would hand it to somebody else.           *)
ExclusiveBuffers(holding) ==
    /\ ReaderHolds =>
         /\ reader.body \notin avail
         /\ \A i \in DOMAIN udpCh : udpCh[i].body # reader.body
         /\ \A w \in Workers : wpc[w] \in holding => wmsg[w].body # reader.body
    /\ \A i \in DOMAIN udpCh :
         /\ udpCh[i].body \notin avail
         /\ \A j \in DOMAIN udpCh : i # j => udpCh[i].body # udpCh[j].body
         /\ \A w \in Workers : wpc[w] \in holding => wmsg[w].body # udpCh[i].body
    /\ \A w \in Workers : wpc[w] \in holding =>
         /\ wmsg[w].body \notin avail
         /\ \A v \in Workers \ {w} : wpc[v] \in holding => wmsg[v].body # wmsg[w].body

(* The bytes belong to the address and length that travel with them, from  *)
(* the read to the message for the producer: what a worker decodes and     *)
(* marshals is the datagram it received from the channel.                  *)
FaithfulBytes(busy) ==
    /\ reader.pc = "send" => mem[reader.body] = UDPCount
    /\ \A i \in DOMAIN udpCh : mem[udpCh[i].body] = udpCh[i].id
    /\ \A w \in Workers : wpc[w] \in busy => mem[wmsg[w].body] = wmsg[w].id
    /\ \A i \in DOMAIN mqCh : mqCh[i].data = mqCh[i].id

(* A datagram that was counted is in one place only and unfinished there,  *)
(* so it is decoded once and produced at most once.                        *)
HandledOnce(busy) ==
    /\ reader.pc = "send" =>
         /\ UDPCount > 0 /\ fate[UDPCount] = "none"
         /\ \A i \in DOMAIN udpCh : udpCh[i].id # UDPCount
         /\ \A w \in Workers : wpc[w] \in busy => wmsg[w].id # UDPCount
    /\ \A i \in DOMAIN udpCh :
         /\ udpCh[i].id \in 1..UDPCount /\ fate[udpCh[i].id] = "none"
         /\ \A j \in DOMAIN udpCh : i # j => udpCh[i].id # udpCh[j].id
         /\ \A w \in Workers : wpc[w] \in busy => wmsg[w].id # udpCh[i].id
    /\ \A w \in Workers : wpc[w] \in busy =>
         /\ wmsg[w].id \in 1..UDPCount /\ fate[wmsg[w].id] = "none"
         /\ \A v \in Workers \ {w} : wpc[v] \in busy => wmsg[v].id # wmsg[w].id

(* A datagram that was counted and not finished is with the reader, in the *)
(* channel or with a worker: workers that come and go lose none.           *)
NoneLost(busy) ==
    \A d \in 1..UDPCount : fate[d] = "none" =>
        \/ reader.pc = "send" /\ d = UDPCount
        \/ \E i \in DOMAIN udpCh : udpCh[i].id = d
        \/ \E w \in Workers : wpc[w] \in busy /\ wmsg[w].id = d

(* The panic of a send on a closed channel never happens: "stop reading    *)
(* from UDP listener" precedes the close.                                  *)
NoSendOnClosed == proc # "panic"

(* Every datagram that is read is decoded while the process lives, however *)
(* slow the producer and the mirror are and whichever workers are retired. *)
EveryDatagramHandled ==
    \A d \in Datagrams : UDPCount >= d ~> (fate[d] # "none" \/ proc # "up")

(* A signal ends the process, also when the reader waits on a full channel.*)
ShutdownEnds == down # "no" ~> proc # "up"
=============================================================================
