-------------------------- MODULE MirrorDispatcher --------------------------
(***************************************************************************)
(* The IPFIX replicator of vflow/ipfix_unix.go with the headers of         *)
(* mirror/: the workers' copies of datagrams go through ipfixMCh to a      *)
(* dispatcher, by it to one of two channels, and from there to senders,    *)
(* which write raw packets that bear the exporter's address.               *)
(***************************************************************************)
EXTENDS Naturals, Sequences

CONSTANTS
    Senders,    \* goroutines of mirrorIPFIX
    Buffers,    \* buffers of the pool
    Families,   \* address families of exporters: 4, 6
    Lengths,    \* lengths of datagrams
    UDPSize,    \* opts.IPFIXUDPSize
    MCap, Cap,  \* capacities of ipfixMCh, and of ch4 and ch6
    MaxMsgs     \* bound: datagrams that workers offer

UDPHLen == 8
IPHLen(fam) == IF fam = 4 THEN 20 ELSE 40

(* Lengths are written to headers with 16 bits, so that the datagram of an *)
(* IPv4 packet is at most MaxPayload long.                                 *)
Word == 256 * 256
MaxPayload == Word - 1 - IPHLen(4) - UDPHLen

MirrorAssumption ==
    /\ Families \subseteq {4, 6}
    /\ Lengths \subseteq 0..UDPSize /\ \A n \in Lengths : n <= MaxPayload
    /\ UDPSize \in Nat /\ MCap \in Nat \ {0} /\ Cap \in Nat \ {0} /\ MaxMsgs \in Nat

VARIABLES
    alive,      \* FALSE after a panic
    dst,        \* family of the mirror address; 0 when there is none
    enabled,    \* ipfixMirrorEnabled
    offered,    \* datagrams that workers have copied
    free, contents,   \* the pool; contents[b]: the datagram in buffer b
    ipfixMCh, ch,     \* ch[4] and ch[6]
    dpc, dmsg,        \* the dispatcher
    spc, smsg, packet,  \* the senders
    wire              \* what was sent

pool == <<free, contents>>
dispatcher == <<enabled, dpc, dmsg>>
senders == <<spc, smsg, packet>>
vars == <<alive, dst, offered, pool, ipfixMCh, ch, dispatcher, senders, wire>>

NoMsg == [id |-> 0, raddr |-> 0, len |-> 0, body |-> "none"]
NoPacket == [id |-> 0, src |-> 0, ipLen |-> 0, udpLen |-> 0, checksum |-> FALSE, body |-> 0, bytes |-> 0]

Init ==
    /\ alive = TRUE /\ dst \in {0} \cup Families
    /\ enabled = FALSE /\ offered = 0
    /\ free = Buffers /\ contents = [b \in Buffers |-> 0]
    /\ ipfixMCh = <<>> /\ ch = [f \in {4, 6} |-> <<>>]
    /\ dpc = "start" /\ dmsg = NoMsg
    /\ spc = [w \in Senders |-> "off"]
    /\ smsg = [w \in Senders |-> NoMsg]
    /\ packet = [w \in Senders |-> NoPacket]
    /\ wire = <<>>
-----------------------------------------------------------------------------
(* mirrorIPFIXDispatcher returns without a mirror address; otherwise it    *)
(* starts the senders and lets the workers copy.                           *)
Start ==
    /\ alive /\ dpc = "start"
    /\ IF dst = 0
       THEN dpc' = "off" /\ UNCHANGED <<enabled, spc>>
       ELSE /\ dpc' = "take" /\ enabled' = TRUE
            /\ spc' = [w \in Senders |-> "start"]
    /\ UNCHANGED <<alive, dst, offered, pool, ipfixMCh, ch, dmsg, smsg, packet, wire>>

(* A worker copies the datagram it took into a buffer of the pool and      *)
(* offers the copy; when the channel is full the copy is dropped.          *)
Offer(b, fam, len) ==
    /\ alive /\ enabled /\ offered < MaxMsgs
    /\ b \in free
    /\ offered' = offered + 1
    /\ contents' = [contents EXCEPT ![b] = offered']
    /\ IF Len(ipfixMCh) < MCap
       THEN /\ ipfixMCh' = Append(ipfixMCh, [id |-> offered', raddr |-> fam, len |-> len, body |-> b])
            /\ free' = free \ {b}
       ELSE UNCHANGED <<ipfixMCh, free>>
    /\ UNCHANGED <<alive, dst, ch, dispatcher, senders, wire>>

DispatchTake ==
    /\ alive /\ dpc = "take" /\ ipfixMCh # <<>>
    /\ dmsg' = Head(ipfixMCh) /\ ipfixMCh' = Tail(ipfixMCh)
    /\ dpc' = "send"
    /\ UNCHANGED <<alive, dst, offered, pool, ch, enabled, senders, wire>>

(* Mutant: all messages go to the senders. *)
DispatchToSenders ==
    /\ alive /\ dpc = "send"
    /\ Len(ch[dst]) < Cap
    /\ ch' = [ch EXCEPT ![dst] = Append(@, dmsg)]
    /\ dpc' = "take" /\ dmsg' = NoMsg
    /\ UNCHANGED <<alive, dst, offered, pool, ipfixMCh, enabled, senders, wire>>

(* Mutants: without the wait for room the channel is no bound, or the      *)
(* message is dropped.                                                     *)
DispatchUnbounded ==
    /\ alive /\ dpc = "send"
    /\ ch' = [ch EXCEPT ![dmsg.raddr] = Append(@, dmsg)]
    /\ dpc' = "take" /\ dmsg' = NoMsg
    /\ UNCHANGED <<alive, dst, offered, pool, ipfixMCh, enabled, senders, wire>>
DispatchDrops ==
    /\ alive /\ dpc = "send"
    /\ ch' = [ch EXCEPT ![dmsg.raddr] = IF Len(@) < Cap THEN Append(@, dmsg) ELSE @]
    /\ dpc' = "take" /\ dmsg' = NoMsg
    /\ UNCHANGED <<alive, dst, offered, pool, ipfixMCh, enabled, senders, wire>>

(* The message goes to the channel of its exporter's family, and waits for *)
(* room there.                                                             *)
Dispatch ==
    /\ alive /\ dpc = "send"
    /\ Len(ch[dmsg.raddr]) < Cap
    /\ ch' = [ch EXCEPT ![dmsg.raddr] = Append(@, dmsg)]
    /\ dpc' = "take" /\ dmsg' = NoMsg
    /\ UNCHANGED <<alive, dst, offered, pool, ipfixMCh, enabled, senders, wire>>
-----------------------------------------------------------------------------
(* NewRawConn: a sender without a socket is gone. *)
NewRawConn(w) ==
    /\ alive /\ spc[w] = "start"
    /\ \E s \in {"take", "gone"} : spc' = [spc EXCEPT ![w] = s]
    /\ UNCHANGED <<alive, dst, offered, pool, ipfixMCh, ch, dispatcher, smsg, packet, wire>>

(* Mutant: the buffer goes back to the pool before it is copied. *)
SenderTakePuts(w) ==
    /\ alive /\ spc[w] = "take" /\ ch[dst] # <<>>
    /\ smsg' = [smsg EXCEPT ![w] = Head(ch[dst])]
    /\ ch' = [ch EXCEPT ![dst] = Tail(@)]
    /\ free' = free \cup {Head(ch[dst]).body}
    /\ spc' = [spc EXCEPT ![w] = "copy"]
    /\ UNCHANGED <<alive, dst, offered, contents, ipfixMCh, dispatcher, packet, wire>>

(* All senders read the channel of the destination's family. *)
SenderTake(w) ==
    /\ alive /\ spc[w] = "take" /\ ch[dst] # <<>>
    /\ smsg' = [smsg EXCEPT ![w] = Head(ch[dst])]
    /\ ch' = [ch EXCEPT ![dst] = Tail(@)]
    /\ spc' = [spc EXCEPT ![w] = "copy"]
    /\ UNCHANGED <<alive, dst, offered, pool, ipfixMCh, dispatcher, packet, wire>>

(* Mutant: the length of the IP header is forgotten. *)
SetLenPayload(fam, n) == n

(* SetLen of IPv4 and IPv6, which both add their header. *)
SetLen(fam, n) == (IPHLen(fam) + n) % Word

(* SetChecksum is still to be written. *)
SetChecksum == FALSE

(* The headers and the body are copied, and the buffer is put back. *)
SenderCopy(w) ==
    /\ alive /\ spc[w] = "copy"
    /\ LET m == smsg[w] IN
       /\ packet' = [packet EXCEPT ![w] =
             [id |-> m.id, src |-> m.raddr,
              ipLen |-> SetLen(dst, m.len + UDPHLen), udpLen |-> UDPHLen + m.len,
              checksum |-> SetChecksum,
              body |-> contents[m.body], bytes |-> IPHLen(dst) + UDPHLen + m.len]]
       /\ free' = free \cup {m.body}
    /\ spc' = [spc EXCEPT ![w] = "send"]
    /\ UNCHANGED <<alive, dst, offered, contents, ipfixMCh, ch, dispatcher, smsg, wire>>

(* Send: the slice of the packet, which is UDPSize bytes long, panics when *)
(* the headers do not fit; a failed send ends the goroutine.               *)
Send(w) ==
    /\ alive /\ spc[w] = "send"
    /\ \/ /\ packet[w].bytes > UDPSize
          /\ alive' = FALSE
          /\ UNCHANGED <<spc, wire>>
       \/ /\ packet[w].bytes <= UDPSize
          /\ spc' = [spc EXCEPT ![w] = "take"]
          /\ wire' = Append(wire, packet[w])
          /\ UNCHANGED alive
       \/ /\ packet[w].bytes <= UDPSize
          /\ spc' = [spc EXCEPT ![w] = "gone"]
          /\ UNCHANGED <<alive, wire>>
    /\ smsg' = [smsg EXCEPT ![w] = NoMsg] /\ packet' = [packet EXCEPT ![w] = NoPacket]
    /\ UNCHANGED <<dst, offered, pool, ipfixMCh, ch, dispatcher>>

senderStep(w) == NewRawConn(w) \/ SenderTake(w) \/ SenderCopy(w) \/ Send(w)
dispatcherStep == Start \/ DispatchTake \/ Dispatch

Next ==
    \/ dispatcherStep
    \/ \E b \in Buffers, fam \in Families, len \in Lengths : Offer(b, fam, len)
    \/ \E w \in Senders : senderStep(w)

Safety == Init /\ [][Next]_vars

(* The goroutines run. *)
Spec == Safety /\ WF_vars(dispatcherStep) /\ \A w \in Senders : WF_vars(senderStep(w))
-----------------------------------------------------------------------------
Messages == [id : 1..MaxMsgs, raddr : Families, len : Lengths, body : Buffers]

(* The channels stay within their capacities, and hold messages. *)
TypeOK ==
    /\ alive \in BOOLEAN /\ dst \in {0, 4, 6} /\ offered \in 0..MaxMsgs
    /\ free \subseteq Buffers /\ contents \in [Buffers -> 0..MaxMsgs]
    /\ ipfixMCh \in Seq(Messages) /\ Len(ipfixMCh) <= MCap
    /\ \A f \in {4, 6} : ch[f] \in Seq(Messages) /\ Len(ch[f]) <= Cap
    /\ dmsg \in Messages \cup {NoMsg}
    /\ \A w \in Senders : smsg[w] \in Messages \cup {NoMsg}

(* What is sent is the datagram the worker copied, though its buffer was   *)
(* back in the pool before Send and another worker may have filled it.     *)
SentAsReceived == \A k \in DOMAIN wire : wire[k].body = wire[k].id

(* No packet bears the address of an exporter of the other family, of      *)
(* which SetAddrs would copy the wrong bytes.                              *)
SourceFits == \A k \in DOMAIN wire : wire[k].src = dst

(* The headers of an IPv4 packet say how long it is: SetLen of IP counts   *)
(* both headers, SetLen of UDP its own.                                    *)
LengthsAgree ==
    dst = 4 => \A k \in DOMAIN wire : wire[k].ipLen = wire[k].bytes /\ wire[k].udpLen = wire[k].bytes - 20

(* A datagram of the destination's family that was queued for the mirror   *)
(* is sent ("there is cloning IPFIX UDP packet feature with spoofing",     *)
(* docs/design.md:5), unless a sender lost its socket, the process         *)
(* panicked, or the channel of the other family is full: no sender reads   *)
(* that one, and the dispatcher waits for it.                              *)
Queued(n) == \E k \in DOMAIN ipfixMCh : ipfixMCh[k].id = n /\ ipfixMCh[k].raddr = dst
Mirrored ==
    \A n \in 1..MaxMsgs :
        Queued(n) ~> \/ \E k \in DOMAIN wire : wire[k].id = n
                     \/ ~alive \/ \E w \in Senders : spc[w] = "gone"
                     \/ \E f \in {4, 6} \ {dst} : Len(ch[f]) = Cap
=============================================================================
