------------------------------- MODULE Packet -------------------------------
(***************************************************************************)
(* The packet decoder of packet/*.go: layers two, three and four of a      *)
(* sampled frame.  A frame is what its bytes say of the next layer (the    *)
(* EtherType, the one behind a VLAN tag, the protocol).  p is the Packet:  *)
(* the bytes left in p.data, the layers filled in, and how it ended.       *)
(***************************************************************************)
EXTENDS Integers

EtherTypes == {"IPv4", "IPv6", "8021Q", "other"}
Protos == {"ICMP", "TCP", "UDP", "other"}
HeaderProtocols == {"Ethernet", "IPv4", "IPv6", "other"}

Frames == [ether : EtherTypes, inner : EtherTypes, proto : Protos]

NewPacket(n) == [data |-> n, layers |-> {}, ether |-> "none", end |-> "ok"]

(* One layer of hlen bytes taken from the front of p.data; at least least  *)
(* bytes must be there.                                                    *)
Layer(p, name, least, hlen) ==
    IF p.end # "ok" \/ p.data < least
        THEN [p EXCEPT !.end = IF p.end = "ok" THEN "error" ELSE p.end]
        ELSE [p EXCEPT !.data = p.data - hlen, !.layers = p.layers \cup {name}]

(* Behind the 802.1Q EtherType bytes 14 to 17 are used without a look at   *)
(* the length, then cut out.                                               *)
decodeEthernet(p, frame) ==
    IF p.data >= 14 /\ frame.ether = "8021Q"
        THEN IF p.data < 18 THEN [p EXCEPT !.end = "panic"]
             ELSE [Layer([p EXCEPT !.data = p.data - 4], "L2", 14, 14) EXCEPT !.ether = frame.inner]
        ELSE [Layer(p, "L2", 14, 14) EXCEPT !.ether = frame.ether]

decodeIPv4Header(p) == Layer(p, "L3", 20, 20)

decodeIPv6Header(p) == Layer(p, "L3", 40, 40)

decodeICMP(p) == Layer(p, "L4", 5, 4)

decodeTCP(p) == Layer(p, "L4", 20, 20)

decodeUDP(p) == Layer(p, "L4", 8, 8)

decodeNextLayer(p, proto) ==
    CASE proto = "ICMP" -> decodeICMP(p)
      [] proto = "TCP" -> decodeTCP(p)
      [] proto = "UDP" -> decodeUDP(p)
      [] OTHER -> [p EXCEPT !.end = IF p.end = "ok" THEN "error" ELSE p.end]

(* The network header named by ether and the transport header behind it. *)
Network(p, ether, proto) ==
    CASE ether = "IPv4" -> decodeNextLayer(decodeIPv4Header(p), proto)
      [] ether = "IPv6" -> decodeNextLayer(decodeIPv6Header(p), proto)
      [] OTHER -> [p EXCEPT !.end = IF p.end = "ok" THEN "error" ELSE p.end]

(* Decoder: a frame of n bytes sampled under a header protocol. *)
Decoder(n, protocol, frame) ==
    IF protocol = "Ethernet"
        THEN LET p == decodeEthernet(NewPacket(n), frame)
             IN  Network(p, p.ether, frame.proto)
        ELSE Network(NewPacket(n), protocol, frame.proto)
=============================================================================
