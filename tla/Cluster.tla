------------------------------ MODULE Cluster -------------------------------
(* What a vFlow node does with other nodes: the RPC for missed templates   *)
(* and the mirror of datagrams.  They share nothing but the network; part  *)
(* says which of them runs, the other rests in an initial state.           *)
EXTENDS TemplateRPC

CONSTANTS Senders, Buffers, Families, Lengths, UDPSize, MCap, Cap, MaxMsgs   \* mirror

VARIABLE part
VARIABLES alive, dst, enabled, offered, free, contents, ipfixMCh, ch, dpc, dmsg,
          spc, smsg, packet, wire

M == INSTANCE MirrorDispatcher

ASSUME ClusterAssumption == DiscoveryAssumption /\ M!MirrorAssumption

mirror == <<alive, dst, enabled, offered, free, contents, ipfixMCh, ch, dpc, dmsg,
            spc, smsg, packet, wire>>
clusterVars == <<part, vars, mirror>>

ClusterInit ==
    /\ part \in {"rpc", "mirror"}
    /\ Init
    /\ M!Init /\ (part # "mirror" => dst = 0)

RPC == part = "rpc" /\ UNCHANGED <<part, mirror>>
Mirror == part = "mirror" /\ UNCHANGED <<part, vars>>

ClusterNext ==
    \/ RPC /\ Next
    \/ Mirror /\ M!Next

ClusterSafety == ClusterInit /\ [][ClusterNext]_clusterVars
-----------------------------------------------------------------------------
(* What a sender mirrors is the datagram a worker copied, from an address  *)
(* of its own family, and the headers of an IPv4 packet say how long it    *)
(* is; the channels stay within their capacities.                          *)
PacketsTrue == M!TypeOK /\ M!SentAsReceived /\ M!SourceFits /\ M!LengthsAgree

(* A datagram queued for the mirror is sent, or something broke. *)
Mirrored == M!Mirrored
=============================================================================
