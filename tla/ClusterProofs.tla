--------------------------- MODULE ClusterProofs ---------------------------
(* Proofs about a node among others: the exchange of templates, for any    *)
(* number of peers, exporters and templates and any expiry, and the mirror *)
(* of datagrams, for any senders, buffers, capacities and lengths.         *)
EXTENDS Cluster, TLAPS

Asking == {"servers", "next", "call", "answer"}

(* The RPC goroutine asks nodes that were heard, and the answer it has is  *)
(* one for the request it works on.                                        *)
RPCInv ==
    /\ age \in [Peers \cup {Self} -> Int]
    /\ mem \in [Peers \cup {Self} -> [Keys -> Templates \cup {NoTemplate}]]
    /\ rpcChan \in Seq(Keys)
    /\ pc \in Asking => req \in Keys
    /\ servers \subseteq Peers \cup {Self}
    /\ target \in Peers \cup {Self, Nobody}
    /\ pc \in {"call", "answer"} => target \in Peers \cup {Self}
    /\ pc = "answer" => answer \in {NoTemplate, Template(req)}
    /\ FromItsExporter

(* Nodes returns nodes of the table. *)
LEMMA NodesHeard ==
    ASSUME age \in [Peers \cup {Self} -> Int], NEW s, Nodes(s)
    PROVE  s \subseteq Peers \cup {Self} /\ age' \in [Peers \cup {Self} -> Int]
  BY DEF Nodes, Available, NotHeard

(* The initial state satisfies the invariant. *)
LEMMA RPCInit == DiscoveryAssumption /\ Init => RPCInv
  BY DEF DiscoveryAssumption, Init, EmptyTable, NotHeard, RPCInv, Asking, FromItsExporter

(* The steps of the RPC goroutine preserve it. *)
LEMMA RPCGoroutine == DiscoveryAssumption /\ RPCInv /\ rpcStep => RPCInv'
  <1> SUFFICES ASSUME DiscoveryAssumption, RPCInv, rpcStep
               PROVE  RPCInv'
    OBVIOUS
  <1> USE DEF RPCInv, Asking, FromItsExporter
  <1>1. CASE Start
    BY <1>1 DEF Start
  <1>2. CASE TakeRequest
    <2>1. Head(rpcChan) \in Keys /\ Tail(rpcChan) \in Seq(Keys)
      BY <1>2 DEF TakeRequest
    <2>2. QED
      BY <1>2, <2>1 DEF TakeRequest
  <1>3. CASE rpcServers
    BY <1>3, NodesHeard DEF rpcServers
  <1>4. ASSUME NEW p \in servers, NewRPCClient(p) \/ DialFails(p)
        PROVE  RPCInv'
    BY <1>4 DEF NewRPCClient, DialFails
  <1>5. CASE NoMoreServers
    BY <1>5 DEF NoMoreServers
  <1>6. CASE Get
    BY <1>6 DEF Get
  <1>7. CASE GetFails
    BY <1>7 DEF GetFails
  <1>8. CASE InsertAnswer
    BY <1>8 DEF InsertAnswer, Templates
  <1>9. CASE Throttle
    BY Zenon, <1>9 DEF Throttle
  <1>10. QED
    BY <1>1, <1>2, <1>3, <1>4, <1>5, <1>6, <1>7, <1>8, <1>9 DEF rpcStep

(* So do the receiver, the workers, the other nodes and the clock. *)
LEMMA RPCStep == DiscoveryAssumption /\ RPCInv /\ [Next]_vars => RPCInv'
  <1> SUFFICES ASSUME DiscoveryAssumption, RPCInv, [Next]_vars
               PROVE  RPCInv'
    OBVIOUS
  <1> USE DEF RPCInv, Asking, FromItsExporter, rpcVars
  <1>1. CASE rpcStep
    BY <1>1, RPCGoroutine
  <1>2. CASE MakeTable
    BY <1>2 DEF MakeTable
  <1>3. ASSUME NEW n \in Peers \cup {Self}, receiverV4(n)
        PROVE  RPCInv'
    BY <1>3 DEF receiverV4, Listen
  <1>4. ASSUME NEW k \in Keys, Request(k)
        PROVE  RPCInv'
    BY <1>4 DEF Request
  <1>5. ASSUME NEW n \in Peers \cup {Self}, NEW k \in Keys, TemplateSet(n, k)
        PROVE  RPCInv'
    BY <1>5 DEF TemplateSet, Templates
  <1>6. ASSUME NEW p \in Peers, PeerStops(p) \/ PeerStarts(p) \/ PeerSilent(p)
        PROVE  RPCInv'
    <2>1. CASE mem' = mem
      BY <1>6, <2>1 DEF PeerStops, PeerStarts, PeerSilent
    <2>2. CASE mem' = [mem EXCEPT ![p] = [k \in Keys |-> NoTemplate]]
      <3>1. mem' \in [Peers \cup {Self} -> [Keys -> Templates \cup {NoTemplate}]]
        BY <2>2
      <3>2. FromItsExporter'
        BY <2>2
      <3>3. QED
        BY <1>6, <3>1, <3>2 DEF PeerStops, PeerStarts, PeerSilent
    <2>3. QED
      BY <1>6, <2>1, <2>2 DEF PeerStops, PeerStarts, PeerSilent
  <1>7. CASE Tick
    <2>1. age' \in [Peers \cup {Self} -> Int]
      BY <1>7 DEF Tick, Second, NotHeard
    <2>2. QED
      BY <1>7, <2>1 DEF Tick
  <1>8. CASE UNCHANGED vars
    BY <1>8 DEF vars
  <1>9. QED
    BY Zenon, <1>1, <1>2, <1>3, <1>4, <1>5, <1>6, <1>7, <1>8 DEF Next

(* A template in any cache was sent by the exporter of its key, however    *)
(* many nodes, exporters and requests there are: RPC stores an answer for  *)
(* the request it made.                                                    *)
THEOREM TemplatesFromExporters ==
    ASSUME DiscoveryAssumption
    PROVE  Safety => []FromItsExporter
  <1>1. Init => RPCInv
    BY RPCInit
  <1>2. RPCInv /\ [Next]_vars => RPCInv'
    BY RPCStep
  <1>3. RPCInv => FromItsExporter
    BY DEF RPCInv
  <1>4. QED
    BY <1>1, <1>2, <1>3, PTL DEF Safety

-----------------------------------------------------------------------------
(* The table of nodes keeps its ages, whatever is heard or forgotten. *)
LEMMA AgesBounded ==
    ASSUME DiscoveryAssumption, age \in [Peers \cup {Self} -> {NotHeard} \cup 0..Expiry]
    PROVE  /\ Second => age' \in [Peers \cup {Self} -> {NotHeard} \cup 0..Expiry]
           /\ \A s : Nodes(s) => age' \in [Peers \cup {Self} -> {NotHeard} \cup 0..Expiry]
           /\ \A n \in Peers \cup {Self} :
                 Listen(n) => age' \in [Peers \cup {Self} -> {NotHeard} \cup 0..Expiry]
  <1>1. Expiry \in Nat /\ 0 \in 0..Expiry
    BY DEF DiscoveryAssumption
  <1>2. \A i \in 0..(Expiry - 1) : i + 1 \in 0..Expiry
    BY <1>1
  <1>3. Second => age' \in [Peers \cup {Self} -> {NotHeard} \cup 0..Expiry]
    BY <1>2 DEF Second
  <1>4. \A s : Nodes(s) => age' \in [Peers \cup {Self} -> {NotHeard} \cup 0..Expiry]
    BY DEF Nodes
  <1>5. \A n \in Peers \cup {Self} :
           Listen(n) => age' \in [Peers \cup {Self} -> {NotHeard} \cup 0..Expiry]
    BY Zenon, <1>1 DEF Listen
  <1>6. QED
    BY <1>3, <1>4, <1>5

(* Every step keeps the types. *)
LEMMA RPCTypesStep ==
    ASSUME DiscoveryAssumption, RPCInv, TypeOK, [Next]_vars, RPCInv'
    PROVE  TypeOK'
  <1> USE DEF TypeOK
  <1>1. CASE rpcStep
    <2>1. CASE TakeRequest
      <3>1. PICK k \in Keys : rpcChan = <<k>>
        BY <2>1 DEF TakeRequest
      <3>2. Head(rpcChan) = k /\ Tail(rpcChan) = <<>>
        BY <3>1
      <3>3. QED
        BY <2>1, <3>2 DEF TakeRequest
    <2>2. CASE rpcServers
      <3>1. servers' \subseteq Peers \cup {Self}
        BY DEF RPCInv
      <3>2. QED
        BY <2>2, <3>1, AgesBounded DEF rpcServers
    <2>3. CASE Get
      <3>1. mem[target][req] \in Templates \cup {NoTemplate}
        BY <2>3 DEF Get, RPCInv, Asking
      <3>2. QED
        BY <2>3, <3>1 DEF Get
    <2>4. CASE InsertAnswer
      <3>1. mem' \in [Peers \cup {Self} -> [Keys -> Templates \cup {NoTemplate}]]
        BY Zenon DEF RPCInv
      <3>2. QED
        BY <2>4, <3>1 DEF InsertAnswer
    <2>5. CASE Start \/ NoMoreServers \/ GetFails \/ Throttle \/ \E p \in servers : NewRPCClient(p) \/ DialFails(p)
      BY Zenon, <2>5 DEF Start, NoMoreServers, GetFails, Throttle, NewRPCClient, DialFails
    <2>6. QED
      BY <1>1, <2>1, <2>2, <2>3, <2>4, <2>5 DEF rpcStep
  <1>2. CASE MakeTable
    BY ZenonT(60), <1>2 DEF MakeTable, rpcVars
  <1>3. ASSUME NEW n \in Peers \cup {Self}, receiverV4(n)
        PROVE  TypeOK'
    BY ZenonT(60), <1>3, AgesBounded DEF receiverV4, rpcVars
  <1>4. ASSUME NEW k \in Keys, Request(k)
        PROVE  TypeOK'
    BY ZenonT(60), <1>4 DEF Request, rpcVars
  <1>5. ASSUME NEW n \in Peers \cup {Self}, NEW k \in Keys, TemplateSet(n, k)
        PROVE  TypeOK'
    <2>1. mem' \in [Peers \cup {Self} -> [Keys -> Templates \cup {NoTemplate}]]
      BY Zenon DEF RPCInv
    <2>2. QED
      BY <1>5, <2>1 DEF TemplateSet, rpcVars
  <1>6. ASSUME NEW p \in Peers, PeerStops(p) \/ PeerStarts(p) \/ PeerSilent(p)
        PROVE  TypeOK'
    <2>1. mem' \in [Peers \cup {Self} -> [Keys -> Templates \cup {NoTemplate}]]
      BY Zenon DEF RPCInv
    <2>2. state' \in [Peers -> {"up", "down", "silent"}]
      BY Zenon, <1>6 DEF PeerStops, PeerStarts, PeerSilent
    <2>3. QED
      BY ZenonT(60), <1>6, <2>1, <2>2 DEF PeerStops, PeerStarts, PeerSilent, rpcVars
  <1>7. CASE Tick
    BY <1>7, AgesBounded DEF Tick, rpcVars
  <1>8. CASE UNCHANGED vars
    BY <1>8 DEF vars, rpcVars
  <1>9. QED
    BY ZenonT(60), <1>1, <1>2, <1>3, <1>4, <1>5, <1>6, <1>7, <1>8 DEF Next

(* The table, the caches and the RPC goroutine keep their types; there is   *)
(* never more than one request in rpcChan.                                  *)
THEOREM RPCTypes ==
    ASSUME DiscoveryAssumption
    PROVE  Safety => []TypeOK
  <1>1. Init => RPCInv /\ TypeOK
    BY RPCInit DEF Init, TypeOK, EmptyTable, Templates
  <1>2. RPCInv /\ TypeOK /\ [Next]_vars => RPCInv' /\ TypeOK'
    BY RPCStep, RPCTypesStep
  <1>3. QED
    BY <1>1, <1>2, PTL DEF Safety
-----------------------------------------------------------------------------
(* The mirror. *)
(* The buffers of the messages in a channel. *)
Bodies(s) == {s[k].body : k \in DOMAIN s}
Unshared(s) == \A k, l \in DOMAIN s : k # l => s[k].body # s[l].body

(* The buffers in the dispatcher's hand, and in a sender's. *)
Hand == IF dpc = "send" THEN {dmsg.body} ELSE {}
Copying(w) == IF spc[w] = "copy" THEN {smsg[w].body} ELSE {}

Packets == [id : Nat, src : Nat, ipLen : Nat, udpLen : Nat, checksum : BOOLEAN, body : Nat, bytes : Nat]

(* The variables are of their types, the senders run only if there is an   *)
(* address to mirror to, and the channels stay within their capacities.    *)
MirrorType ==
    /\ alive \in BOOLEAN /\ dst \in {0, 4, 6} /\ offered \in 0..MaxMsgs
    /\ free \subseteq Buffers /\ contents \in [Buffers -> 0..MaxMsgs]
    /\ ipfixMCh \in Seq(M!Messages) /\ Len(ipfixMCh) <= MCap
    /\ ch \in [{4, 6} -> Seq(M!Messages)] /\ \A f \in {4, 6} : Len(ch[f]) <= Cap
    /\ dmsg \in M!Messages \cup {M!NoMsg} /\ (dpc = "send" => dmsg \in M!Messages)
    /\ spc \in [Senders -> {"off", "start", "take", "copy", "send", "gone"}]
    /\ smsg \in [Senders -> M!Messages \cup {M!NoMsg}]
    /\ packet \in [Senders -> Packets] /\ wire \in Seq(Packets)
    /\ \A w \in Senders : spc[w] # "off" => dst \in {4, 6}
    /\ \A w \in Senders : spc[w] = "copy" => smsg[w] \in M!Messages

(* A buffer is free, or holds the datagram of one message that is in one   *)
(* place.                                                                  *)
BuffersApart ==
    /\ Unshared(ipfixMCh) /\ \A f \in {4, 6} : Unshared(ch[f])
    /\ free \cap (Bodies(ipfixMCh) \cup Hand) = {}
    /\ Bodies(ipfixMCh) \cap Hand = {}
    /\ Bodies(ch[4]) \cap Bodies(ch[6]) = {}
    /\ \A f \in {4, 6} : Bodies(ch[f]) \cap (free \cup Bodies(ipfixMCh) \cup Hand) = {}
    /\ \A w \in Senders :
         Copying(w) \cap (free \cup Bodies(ipfixMCh) \cup Hand \cup Bodies(ch[4]) \cup Bodies(ch[6])) = {}
    /\ \A w, v \in Senders : w # v => Copying(w) \cap Copying(v) = {}

(* The buffer of message m holds its datagram. *)
Holds(held, m) == held[m.body] = m.id

BuffersKept ==
    /\ \A k \in DOMAIN ipfixMCh : Holds(contents, ipfixMCh[k])
    /\ dpc = "send" => Holds(contents, dmsg)
    /\ \A f \in {4, 6} : \A k \in DOMAIN ch[f] : Holds(contents, ch[f][k]) /\ ch[f][k].raddr = f
    /\ \A w \in Senders : spc[w] = "copy" => Holds(contents, smsg[w]) /\ smsg[w].raddr = dst

(* The headers of a packet are those of the datagram in it. *)
Faithful(p) ==
    /\ p.body = p.id /\ p.src = dst
    /\ dst = 4 => p.ipLen = p.bytes /\ p.udpLen = p.bytes - 20
PacketsMade ==
    /\ \A w \in Senders : alive /\ spc[w] = "send" => Faithful(packet[w])
    /\ \A k \in DOMAIN wire : Faithful(wire[k])

MirrorInv == MirrorType /\ BuffersApart /\ BuffersKept /\ PacketsMade

(* Channel t is channel s with message m put at its end. *)
Added(t, s, m) ==
    /\ t \in Seq(M!Messages) /\ Len(t) = Len(s) + 1
    /\ \A k \in DOMAIN t : t[k] = m \/ (k \in DOMAIN s /\ t[k] = s[k])
    /\ Bodies(t) = Bodies(s) \cup {m.body}
    /\ Unshared(s) /\ m.body \notin Bodies(s) => Unshared(t)

(* Append adds a message. *)
LEMMA AppendAdds ==
    ASSUME NEW s \in Seq(M!Messages), NEW m \in M!Messages
    PROVE  Added(Append(s, m), s, m)
<1>1. /\ Append(s, m) \in Seq(M!Messages) /\ Len(Append(s, m)) = Len(s) + 1
      /\ DOMAIN Append(s, m) = DOMAIN s \cup {Len(s) + 1} /\ Len(s) + 1 \notin DOMAIN s
      /\ Append(s, m)[Len(s) + 1] = m /\ \A k \in DOMAIN s : Append(s, m)[k] = s[k]
    OBVIOUS
<1>2. \A k \in DOMAIN Append(s, m) : Append(s, m)[k] = m \/ (k \in DOMAIN s /\ Append(s, m)[k] = s[k])
    BY <1>1
<1>3. Bodies(Append(s, m)) = Bodies(s) \cup {m.body}
    BY <1>1 DEF Bodies
<1>4. Unshared(s) /\ m.body \notin Bodies(s) => Unshared(Append(s, m))
    BY <1>1 DEF Unshared, Bodies
<1> QED
    BY Zenon, <1>1, <1>2, <1>3, <1>4 DEF Added

(* Channel t is channel s after its first message, m, was taken. *)
Taken(t, s, m) ==
    /\ m \in M!Messages /\ t \in Seq(M!Messages) /\ Len(t) <= Len(s)
    /\ \E l \in DOMAIN s : m = s[l]
    /\ \A k \in DOMAIN t : \E l \in DOMAIN s : t[k] = s[l]
    /\ Bodies(t) \subseteq Bodies(s)
    /\ m.body \in Bodies(s) /\ m.body \notin Bodies(t)
    /\ Unshared(t)

(* Head and Tail take one, whose buffer no other message of the channel has. *)
LEMMA TailTakes ==
    ASSUME NEW s \in Seq(M!Messages), s # <<>>, Unshared(s)
    PROVE  Taken(Tail(s), s, Head(s))
<1>1. /\ Head(s) \in M!Messages /\ Tail(s) \in Seq(M!Messages) /\ Len(Tail(s)) <= Len(s)
      /\ 1 \in DOMAIN s /\ Head(s) = s[1]
      /\ \A k \in DOMAIN Tail(s) : k + 1 \in DOMAIN s /\ k + 1 # 1 /\ Tail(s)[k] = s[k + 1]
      /\ \A k, l \in DOMAIN Tail(s) : k # l => k + 1 # l + 1
    OBVIOUS
<1>2. Bodies(Tail(s)) \subseteq Bodies(s)
    BY <1>1 DEF Bodies
<1>3. Head(s).body \in Bodies(s) /\ Head(s).body \notin Bodies(Tail(s))
    BY <1>1 DEF Bodies, Unshared
<1>4. Unshared(Tail(s))
    BY <1>1 DEF Unshared
<1> QED
    BY Zenon, <1>1, <1>2, <1>3, <1>4 DEF Taken

(* The mirror begins with every buffer free. *)
LEMMA MirrorInit == M!Init => MirrorInv
<1> SUFFICES ASSUME M!Init PROVE MirrorInv
    OBVIOUS
<1> USE DEF M!Init
<1>1. MirrorType
    BY ClusterAssumption DEF MirrorType, M!MirrorAssumption, M!NoPacket, Packets
<1>2. BuffersApart
    BY DEF BuffersApart, Unshared, Bodies, Hand, Copying
<1>3. BuffersKept /\ PacketsMade
    BY DEF BuffersKept, PacketsMade
<1> QED
    BY Zenon, <1>1, <1>2, <1>3 DEF MirrorInv

(* The dispatcher starts the senders if there is an address to mirror to. *)
LEMMA MirrorStart == MirrorInv /\ M!Start => MirrorInv'
<1> SUFFICES ASSUME MirrorInv, M!Start PROVE MirrorInv'
    OBVIOUS
<1> USE DEF MirrorInv, M!Start, M!pool
<1>1. MirrorType'
    BY DEF MirrorType
<1>2. BuffersApart'
    BY DEF BuffersApart, Hand, Copying
<1>3. BuffersKept' /\ PacketsMade'
    BY DEF BuffersKept, PacketsMade, Holds, Faithful
<1> QED
    BY Zenon, <1>1, <1>2, <1>3

(* A worker offers a copy in a free buffer: the other buffers in use keep  *)
(* what they hold.                                                         *)
LEMMA MirrorOffer ==
    ASSUME MirrorInv, NEW b \in Buffers, NEW fam \in Families, NEW len \in Lengths, M!Offer(b, fam, len)
    PROVE  MirrorInv'
<1> DEFINE m == [id |-> offered + 1, raddr |-> fam, len |-> len, body |-> b]
<1>1. /\ offered' = offered + 1 /\ offered' \in 0..MaxMsgs /\ m \in M!Messages
      /\ b \in free /\ contents' = [contents EXCEPT ![b] = offered + 1]
      /\ \/ Len(ipfixMCh) < MCap /\ ipfixMCh' = Append(ipfixMCh, m) /\ free' = free \ {b}
         \/ UNCHANGED <<ipfixMCh, free>>
      /\ UNCHANGED <<alive, dst, ch, enabled, dpc, dmsg, spc, smsg, packet, wire>>
    BY ClusterAssumption
    DEF MirrorInv, MirrorType, M!Offer, M!MirrorAssumption, M!Messages, M!dispatcher, M!senders
<1>2. m.body = b /\ m.id = offered + 1
    OBVIOUS
<1>3. ipfixMCh \in Seq(M!Messages) /\ Len(ipfixMCh) <= MCap /\ Unshared(ipfixMCh)
    BY Zenon DEF MirrorInv, MirrorType, BuffersApart
<1>4. /\ \A k \in DOMAIN ipfixMCh : ipfixMCh[k].body # b /\ Holds(contents, ipfixMCh[k])
      /\ dpc = "send" => dmsg.body # b /\ Holds(contents, dmsg)
      /\ \A f \in {4, 6} : \A k \in DOMAIN ch[f] : ch[f][k].body # b
      /\ \A w \in Senders : spc[w] = "copy" => smsg[w].body # b
      /\ b \notin Bodies(ipfixMCh)
    <2>1. b \notin Bodies(ipfixMCh) /\ b \notin Hand
        BY Zenon, <1>1 DEF MirrorInv, BuffersApart
    <2>2. \A f \in {4, 6} : b \notin Bodies(ch[f])
        BY Zenon, <1>1 DEF MirrorInv, BuffersApart
    <2>3. \A w \in Senders : b \notin Copying(w)
        BY Zenon, <1>1 DEF MirrorInv, BuffersApart
    <2>4. (\A k \in DOMAIN ipfixMCh : Holds(contents, ipfixMCh[k])) /\ (dpc = "send" => Holds(contents, dmsg))
        BY Zenon DEF MirrorInv, BuffersKept
    <2>5. QED
        BY Zenon, <2>1, <2>2, <2>3, <2>4 DEF Bodies, Hand, Copying
<1>5. /\ contents' \in [Buffers -> 0..MaxMsgs] /\ contents'[b] = offered + 1
      /\ \A c \in Buffers : c # b => contents'[c] = contents[c]
    BY <1>1 DEF MirrorInv, MirrorType
<1> HIDE DEF m
<1>6. /\ ipfixMCh' \in Seq(M!Messages) /\ Len(ipfixMCh') <= MCap /\ Unshared(ipfixMCh')
      /\ free' \subseteq free /\ Bodies(ipfixMCh') \subseteq Bodies(ipfixMCh) \cup {b}
      /\ \/ b \notin free'
         \/ Bodies(ipfixMCh') = Bodies(ipfixMCh)
      /\ \A k \in DOMAIN ipfixMCh' :
            \/ ipfixMCh'[k] = m
            \/ \E l \in DOMAIN ipfixMCh : ipfixMCh'[k] = ipfixMCh[l]
    <2>1. CASE Len(ipfixMCh) < MCap /\ ipfixMCh' = Append(ipfixMCh, m) /\ free' = free \ {b}
        <3>1. Added(ipfixMCh', ipfixMCh, m)
            BY Zenon, <1>1, <1>3, <2>1, AppendAdds
        <3>2. Len(ipfixMCh') <= MCap
            BY <1>3, <2>1, <3>1, ClusterAssumption DEF Added, M!MirrorAssumption
        <3>3. QED
            BY Zenon, <1>2, <1>3, <1>4, <2>1, <3>1, <3>2 DEF Added
    <2>2. CASE UNCHANGED <<ipfixMCh, free>>
        BY Zenon, <1>3, <2>2
    <2>3. QED
        BY Zenon, <1>1, <2>1, <2>2
<1>7. MirrorType'
    BY <1>1, <1>5, <1>6 DEF MirrorInv, MirrorType
<1>8. BuffersApart'
    BY <1>1, <1>6 DEF MirrorInv, BuffersApart, Hand, Copying
<1>9. BuffersKept'
    <2>1. \A n \in M!Messages : n.body # b /\ Holds(contents, n) => Holds(contents', n)
        BY Zenon, <1>5 DEF Holds, M!Messages
    <2>2. Holds(contents', m)
        BY <1>2, <1>5 DEF Holds
    <2>3. \A k \in DOMAIN ipfixMCh : ipfixMCh[k] \in M!Messages
        BY <1>3
    <2>4. \A f \in {4, 6} : \A k \in DOMAIN ch[f] : ch[f][k] \in M!Messages
        BY DEF MirrorInv, MirrorType
    <2>5. /\ dpc = "send" => dmsg \in M!Messages
          /\ \A w \in Senders : spc[w] = "copy" => smsg[w] \in M!Messages
        BY Zenon DEF MirrorInv, MirrorType
    <2>6. \A k \in DOMAIN ipfixMCh' : Holds(contents', ipfixMCh'[k])
        BY Zenon, <1>4, <1>6, <2>1, <2>2, <2>3
    <2>7. QED
        BY Zenon, <1>1, <1>4, <2>1, <2>4, <2>5, <2>6 DEF MirrorInv, BuffersKept
<1>10. PacketsMade'
    BY Zenon, <1>1 DEF MirrorInv, PacketsMade, Faithful
<1> QED
    BY Zenon, <1>7, <1>8, <1>9, <1>10 DEF MirrorInv

(* The dispatcher takes a message into its hand. *)
LEMMA MirrorDispatchTake == MirrorInv /\ M!DispatchTake => MirrorInv'
<1> SUFFICES ASSUME MirrorInv, M!DispatchTake PROVE MirrorInv'
    OBVIOUS
<1>1. /\ dpc = "take" /\ dpc' = "send" /\ dmsg' = Head(ipfixMCh) /\ ipfixMCh' = Tail(ipfixMCh)
      /\ UNCHANGED <<alive, dst, offered, free, contents, ch, enabled, spc, smsg, packet, wire>>
    BY Zenon DEF M!DispatchTake, M!pool, M!senders
<1>2. Taken(ipfixMCh', ipfixMCh, dmsg')
    <2>1. ipfixMCh \in Seq(M!Messages) /\ ipfixMCh # <<>> /\ Unshared(ipfixMCh)
        BY Zenon DEF M!DispatchTake, MirrorInv, MirrorType, BuffersApart
    <2>2. QED
        BY Zenon, <1>1, <2>1, TailTakes
<1>3. MirrorType'
    BY <1>1, <1>2, ClusterAssumption DEF MirrorInv, MirrorType, M!MirrorAssumption, Taken
<1>4. BuffersApart'
    BY <1>1, <1>2 DEF MirrorInv, BuffersApart, Hand, Copying, Taken
<1>5. BuffersKept'
    <2>1. contents' = contents
        BY Zenon, <1>1
    <2>2. QED
        BY Zenon, <1>1, <1>2, <2>1 DEF MirrorInv, BuffersKept, Taken
<1>6. PacketsMade'
    BY Zenon, <1>1 DEF MirrorInv, PacketsMade, Faithful
<1> QED
    BY Zenon, <1>3, <1>4, <1>5, <1>6 DEF MirrorInv

(* The dispatcher puts the message in its hand into the channel of its     *)
(* family.                                                                 *)
LEMMA MirrorDispatch == MirrorInv /\ M!Dispatch => MirrorInv'
<1> SUFFICES ASSUME MirrorInv, M!Dispatch PROVE MirrorInv'
    OBVIOUS
<1> DEFINE g == dmsg.raddr
           s == Append(ch[g], dmsg)
<1>1. /\ dpc = "send" /\ dpc' = "take" /\ dmsg' = M!NoMsg /\ Len(ch[g]) < Cap
      /\ ch' = [ch EXCEPT ![g] = s]
      /\ UNCHANGED <<alive, dst, offered, free, contents, ipfixMCh, enabled, spc, smsg, packet, wire>>
    BY Zenon DEF M!Dispatch, M!pool, M!senders
<1>2. dmsg \in M!Messages /\ g \in {4, 6} /\ ch[g] \in Seq(M!Messages) /\ Unshared(ch[g])
    <2>1. dmsg \in M!Messages /\ ch \in [{4, 6} -> Seq(M!Messages)] /\ \A f \in {4, 6} : Unshared(ch[f])
        BY Zenon, <1>1 DEF MirrorInv, MirrorType, BuffersApart
    <2>2. QED
        BY Zenon, <2>1, ClusterAssumption DEF M!Messages, M!MirrorAssumption
<1>3. Added(s, ch[g], dmsg)
    BY Zenon, <1>2, AppendAdds
<1>4. /\ ch' \in [{4, 6} -> Seq(M!Messages)] /\ ch'[g] = s /\ \A f \in {4, 6} : f # g => ch'[f] = ch[f]
      /\ \A f \in {4, 6} : Len(ch'[f]) <= Cap
    <2>1. ch \in [{4, 6} -> Seq(M!Messages)] /\ \A f \in {4, 6} : Len(ch[f]) <= Cap
        BY Zenon DEF MirrorInv, MirrorType
    <2>2. s \in Seq(M!Messages) /\ Len(s) <= Cap
        BY <1>1, <1>2, <1>3, ClusterAssumption DEF M!MirrorAssumption, Added
    <2>3. ch' \in [{4, 6} -> Seq(M!Messages)] /\ ch'[g] = s /\ \A f \in {4, 6} : f # g => ch'[f] = ch[f]
        BY Zenon, <1>1, <1>2, <2>1, <2>2
    <2>4. QED
        BY Zenon, <2>1, <2>2, <2>3
<1> HIDE DEF s, g
<1>5. MirrorType'
    BY <1>1, <1>4 DEF MirrorInv, MirrorType
<1>6. BuffersApart'
    BY <1>1, <1>2, <1>3, <1>4 DEF MirrorInv, BuffersApart, Hand, Copying, Added
<1>7. BuffersKept'
    <2>1. /\ \A f \in {4, 6} : \A k \in DOMAIN ch[f] : Holds(contents, ch[f][k]) /\ ch[f][k].raddr = f
          /\ Holds(contents, dmsg) /\ dmsg.raddr = g
        BY Zenon, <1>1 DEF MirrorInv, BuffersKept, g
    <2>2. ASSUME NEW k \in DOMAIN s PROVE Holds(contents, s[k]) /\ s[k].raddr = g
        <3>1. CASE s[k] = dmsg
            BY Zenon, <2>1, <3>1
        <3>2. CASE k \in DOMAIN ch[g] /\ s[k] = ch[g][k]
            BY Zenon, <1>2, <2>1, <3>2
        <3>3. QED
            BY Zenon, <1>3, <3>1, <3>2 DEF Added
    <2>3. ASSUME NEW f \in {4, 6}, NEW k \in DOMAIN ch'[f]
          PROVE  Holds(contents, ch'[f][k]) /\ ch'[f][k].raddr = f
        <3>1. CASE f = g
            BY Zenon, <1>4, <2>2, <3>1
        <3>2. CASE f # g
            BY Zenon, <1>4, <2>1, <3>2
        <3>3. QED
            BY Zenon, <3>1, <3>2
    <2>4. QED
        BY Zenon, <1>1, <2>3 DEF MirrorInv, BuffersKept
<1>8. PacketsMade'
    BY Zenon, <1>1 DEF MirrorInv, PacketsMade, Faithful
<1> QED
    BY Zenon, <1>5, <1>6, <1>7, <1>8 DEF MirrorInv

(* A sender opens its socket, or is gone. *)
LEMMA MirrorNewRawConn == ASSUME MirrorInv, NEW w \in Senders, M!NewRawConn(w) PROVE MirrorInv'
<1>1. /\ spc[w] = "start" /\ \E p \in {"take", "gone"} : spc' = [spc EXCEPT ![w] = p]
      /\ UNCHANGED <<alive, dst, offered, free, contents, ipfixMCh, ch, enabled, dpc, dmsg, smsg, packet, wire>>
    BY Zenon DEF M!NewRawConn, M!pool, M!dispatcher
<1>2. /\ spc' \in [Senders -> {"off", "start", "take", "copy", "send", "gone"}]
      /\ \A v \in Senders : spc'[v] = spc[v] \/ (spc[v] # "off" /\ spc'[v] \notin {"copy", "send"})
    BY <1>1 DEF MirrorInv, MirrorType
<1>3. MirrorType'
    BY <1>1, <1>2 DEF MirrorInv, MirrorType
<1>4. BuffersApart'
    <2>1. \A v \in Senders : Copying(v)' \subseteq Copying(v)
        BY Zenon, <1>1, <1>2 DEF Copying
    <2>2. QED
        BY <1>1, <2>1 DEF MirrorInv, BuffersApart, Hand
<1>5. BuffersKept'
    BY Zenon, <1>1, <1>2 DEF MirrorInv, BuffersKept
<1>6. PacketsMade'
    BY Zenon, <1>1, <1>2 DEF MirrorInv, PacketsMade, Faithful
<1> QED
    BY Zenon, <1>3, <1>4, <1>5, <1>6 DEF MirrorInv

(* A sender takes a message of the family of the mirror address. *)
LEMMA MirrorSenderTake == ASSUME MirrorInv, NEW w \in Senders, M!SenderTake(w) PROVE MirrorInv'
<1> DEFINE m == Head(ch[dst])
           t == Tail(ch[dst])
<1>1. /\ spc[w] = "take" /\ ch[dst] # <<>> /\ spc' = [spc EXCEPT ![w] = "copy"]
      /\ smsg' = [smsg EXCEPT ![w] = m] /\ ch' = [ch EXCEPT ![dst] = t]
      /\ UNCHANGED <<alive, dst, offered, free, contents, ipfixMCh, enabled, dpc, dmsg, packet, wire>>
    BY Zenon DEF M!SenderTake, M!pool, M!dispatcher
<1>2. /\ dst \in {4, 6} /\ spc[w] # "off" /\ spc[w] # "copy"
      /\ ch \in [{4, 6} -> Seq(M!Messages)] /\ \A f \in {4, 6} : Unshared(ch[f])
    BY Zenon, <1>1 DEF MirrorInv, MirrorType, BuffersApart
<1>3. Taken(t, ch[dst], m)
    BY Zenon, <1>1, <1>2, TailTakes
<1> HIDE DEF m, t
<1>4. /\ ch' \in [{4, 6} -> Seq(M!Messages)] /\ ch'[dst] = t /\ \A f \in {4, 6} : f # dst => ch'[f] = ch[f]
      /\ \A f \in {4, 6} : Len(ch'[f]) <= Cap
    BY <1>1, <1>2, <1>3, ClusterAssumption DEF MirrorInv, MirrorType, M!MirrorAssumption, Taken
<1>5. /\ spc' \in [Senders -> {"off", "start", "take", "copy", "send", "gone"}] /\ spc'[w] = "copy"
      /\ smsg' \in [Senders -> M!Messages \cup {M!NoMsg}] /\ smsg'[w] = m
      /\ \A v \in Senders : v # w => spc'[v] = spc[v] /\ smsg'[v] = smsg[v]
    BY Zenon, <1>1, <1>3 DEF MirrorInv, MirrorType, Taken
<1>6. MirrorType'
    BY <1>1, <1>2, <1>3, <1>4, <1>5 DEF MirrorInv, MirrorType, Taken
<1>7. BuffersApart'
    <2>1. Copying(w) = {} /\ Copying(w)' = {m.body} /\ \A v \in Senders : v # w => Copying(v)' = Copying(v)
        BY Zenon, <1>2, <1>5 DEF Copying
    <2>2. /\ \A f \in {4, 6} : Bodies(ch'[f]) \subseteq Bodies(ch[f]) /\ m.body \notin Bodies(ch'[f])
          /\ \A f \in {4, 6} : Unshared(ch'[f])
        BY <1>2, <1>3, <1>4 DEF MirrorInv, BuffersApart, Taken
    <2>3. m.body \in Bodies(ch[4]) \cup Bodies(ch[6])
        BY <1>2, <1>3 DEF Taken
    <2>4. QED
        BY <1>1, <2>1, <2>2, <2>3 DEF MirrorInv, BuffersApart, Hand
<1>8. BuffersKept'
    <2>1. \A f \in {4, 6} : \A k \in DOMAIN ch[f] : Holds(contents, ch[f][k]) /\ ch[f][k].raddr = f
        BY Zenon DEF MirrorInv, BuffersKept
    <2>2. Holds(contents, m) /\ m.raddr = dst
        BY Zenon, <1>2, <1>3, <2>1 DEF Taken
    <2>3. ASSUME NEW f \in {4, 6}, NEW k \in DOMAIN ch'[f]
          PROVE  Holds(contents, ch'[f][k]) /\ ch'[f][k].raddr = f
        <3>1. CASE f = dst
            <4>1. \A l \in DOMAIN ch[dst] : Holds(contents, ch[dst][l]) /\ ch[dst][l].raddr = dst
                BY Zenon, <1>2, <2>1
            <4>2. \E l \in DOMAIN ch[dst] : t[k] = ch[dst][l]
                BY Zenon, <1>3, <1>4, <3>1 DEF Taken
            <4>3. QED
                BY Zenon, <1>4, <3>1, <4>1, <4>2
        <3>2. CASE f # dst
            BY Zenon, <1>4, <2>1, <3>2
        <3>3. QED
            BY Zenon, <3>1, <3>2
    <2>4. QED
        <3>1. \A v \in Senders : spc'[v] = "copy" => Holds(contents, smsg'[v]) /\ smsg'[v].raddr = dst
            BY Zenon, <1>5, <2>2 DEF MirrorInv, BuffersKept
        <3>2. QED
            BY Zenon, <1>1, <2>3, <3>1 DEF MirrorInv, BuffersKept
<1>9. PacketsMade'
    BY Zenon, <1>1, <1>5 DEF MirrorInv, PacketsMade, Faithful
<1> QED
    BY Zenon, <1>6, <1>7, <1>8, <1>9 DEF MirrorInv

(* The headers of a packet for an IPv4 address count all of it. *)
LEMMA HeadersAddUp ==
    ASSUME NEW n \in Lengths
    PROVE  /\ n \in Nat
           /\ M!SetLen(4, n + M!UDPHLen) = n + 28
           /\ M!UDPHLen + n = n + 8 /\ M!IPHLen(4) + M!UDPHLen + n = n + 28
<1> USE DEF M!UDPHLen, M!IPHLen
<1>1. n \in Nat /\ n <= M!Word - 29 /\ M!Word \in Nat
    BY ClusterAssumption DEF M!MirrorAssumption, M!MaxPayload, M!Word
<1>2. 20 + (n + 8) \in 0..(M!Word - 1)
    BY <1>1
<1>3. (20 + (n + 8)) % M!Word = 20 + (n + 8)
    BY <1>1, <1>2
<1> QED
    BY <1>1, <1>3 DEF M!SetLen

(* A sender copies the datagram and puts the buffer back, which no other   *)
(* message has.                                                            *)
LEMMA MirrorSenderCopy == ASSUME MirrorInv, NEW w \in Senders, M!SenderCopy(w) PROVE MirrorInv'
<1> DEFINE m == smsg[w]
           p == [id |-> m.id, src |-> m.raddr,
                 ipLen |-> M!SetLen(dst, m.len + M!UDPHLen), udpLen |-> M!UDPHLen + m.len,
                 checksum |-> M!SetChecksum,
                 body |-> contents[m.body], bytes |-> M!IPHLen(dst) + M!UDPHLen + m.len]
<1>1. /\ spc[w] = "copy" /\ spc' = [spc EXCEPT ![w] = "send"]
      /\ packet' = [packet EXCEPT ![w] = p] /\ free' = free \cup {m.body}
      /\ UNCHANGED <<alive, dst, offered, contents, ipfixMCh, ch, enabled, dpc, dmsg, smsg, wire>>
    BY Zenon DEF M!SenderCopy, M!dispatcher
<1>2. m \in M!Messages /\ dst \in {4, 6} /\ Holds(contents, m) /\ m.raddr = dst
    BY Zenon, <1>1 DEF MirrorInv, MirrorType, BuffersKept
<1>3. m.id \in Nat /\ m.len \in Lengths /\ m.body \in Buffers /\ contents[m.body] = m.id
    BY <1>2 DEF M!Messages, Holds
<1>4. /\ p.id = m.id /\ p.src = m.raddr /\ p.body = contents[m.body]
      /\ p.ipLen = M!SetLen(dst, m.len + M!UDPHLen) /\ p.udpLen = M!UDPHLen + m.len
      /\ p.bytes = M!IPHLen(dst) + M!UDPHLen + m.len
    BY Zenon
<1>5. p \in Packets
    <2>1. m.len \in Nat /\ dst \in Nat
        BY <1>2, <1>3, HeadersAddUp
    <2>2. M!IPHLen(dst) \in Nat /\ M!UDPHLen \in Nat /\ M!Word \in Nat \ {0}
        BY DEF M!UDPHLen, M!IPHLen, M!Word
    <2>3. /\ M!SetLen(dst, m.len + M!UDPHLen) \in Nat /\ M!UDPHLen + m.len \in Nat
          /\ M!IPHLen(dst) + M!UDPHLen + m.len \in Nat
        BY <2>1, <2>2 DEF M!SetLen
    <2>4. QED
        BY <1>2, <1>3, <2>1, <2>3 DEF Packets, M!SetChecksum
<1> HIDE DEF p
<1>6. Faithful(p)
    <2>1. CASE dst = 4
        <3>1. m.len \in Nat /\ p.ipLen = m.len + 28 /\ p.udpLen = m.len + 8 /\ p.bytes = m.len + 28
            BY Zenon, <1>3, <1>4, <2>1, HeadersAddUp
        <3>2. p.ipLen = p.bytes /\ p.udpLen = p.bytes - 20
            BY <3>1
        <3>3. QED
            BY Zenon, <1>2, <1>3, <1>4, <3>2 DEF Faithful
    <2>2. CASE dst # 4
        BY Zenon, <1>2, <1>3, <1>4, <2>2 DEF Faithful
    <2>3. QED
        BY Zenon, <2>1, <2>2
<1>7. /\ spc' \in [Senders -> {"off", "start", "take", "copy", "send", "gone"}] /\ spc'[w] = "send"
      /\ packet' \in [Senders -> Packets] /\ packet'[w] = p
      /\ \A v \in Senders : v # w => spc'[v] = spc[v] /\ packet'[v] = packet[v]
    BY Zenon, <1>1, <1>5 DEF MirrorInv, MirrorType
<1>8. MirrorType'
    BY <1>1, <1>2, <1>3, <1>7 DEF MirrorInv, MirrorType
<1>9. BuffersApart'
    <2>1. Copying(w) = {m.body} /\ Copying(w)' = {} /\ \A v \in Senders : v # w => Copying(v)' = Copying(v)
        BY Zenon, <1>1, <1>7 DEF Copying
    <2>2. QED
        BY <1>1, <2>1 DEF MirrorInv, BuffersApart, Hand
<1>10. BuffersKept'
    BY Zenon, <1>1, <1>7 DEF MirrorInv, BuffersKept
<1>11. PacketsMade'
    <2>1. (\A v \in Senders : alive /\ spc[v] = "send" => Faithful(packet[v])) /\ \A k \in DOMAIN wire : Faithful(wire[k])
        BY Zenon DEF MirrorInv, PacketsMade
    <2>2. QED
        BY Zenon, <1>1, <1>6, <1>7, <2>1 DEF PacketsMade, Faithful
<1> QED
    BY Zenon, <1>8, <1>9, <1>10, <1>11 DEF MirrorInv

(* A sender writes the packet, fails, or panics when it is too long. *)
LEMMA MirrorSend == ASSUME MirrorInv, NEW w \in Senders, M!Send(w) PROVE MirrorInv'
<1>1. /\ alive /\ spc[w] = "send"
      /\ \/ alive' = FALSE /\ UNCHANGED <<spc, wire>>
         \/ spc' = [spc EXCEPT ![w] = "take"] /\ wire' = Append(wire, packet[w]) /\ UNCHANGED alive
         \/ spc' = [spc EXCEPT ![w] = "gone"] /\ UNCHANGED <<alive, wire>>
      /\ smsg' = [smsg EXCEPT ![w] = M!NoMsg] /\ packet' = [packet EXCEPT ![w] = M!NoPacket]
      /\ UNCHANGED <<dst, offered, free, contents, ipfixMCh, ch, enabled, dpc, dmsg>>
    BY Zenon DEF M!Send, M!pool, M!dispatcher
<1>2. M!NoPacket \in Packets
    BY DEF M!NoPacket, Packets
<1>3. /\ smsg' \in [Senders -> M!Messages \cup {M!NoMsg}] /\ packet' \in [Senders -> Packets]
      /\ \A v \in Senders : v # w => smsg'[v] = smsg[v] /\ packet'[v] = packet[v]
    BY Zenon, <1>1, <1>2 DEF MirrorInv, MirrorType
<1>4. /\ spc' \in [Senders -> {"off", "start", "take", "copy", "send", "gone"}]
      /\ spc'[w] \notin {"off", "copy"} /\ (alive' => spc'[w] # "send")
      /\ \A v \in Senders : v # w => spc'[v] = spc[v]
      /\ alive' \in BOOLEAN
    BY Zenon, <1>1 DEF MirrorInv, MirrorType
<1>5. wire \in Seq(Packets) /\ packet[w] \in Packets /\ Faithful(packet[w])
    BY Zenon, <1>1 DEF MirrorInv, MirrorType, PacketsMade
<1>6. wire' \in Seq(Packets) /\ \A k \in DOMAIN wire' : wire'[k] = packet[w] \/ (k \in DOMAIN wire /\ wire'[k] = wire[k])
    <2>1. CASE wire' = Append(wire, packet[w])
        BY <1>5, <2>1
    <2>2. CASE wire' = wire
        BY Zenon, <1>5, <2>2
    <2>3. QED
        BY Zenon, <1>1, <2>1, <2>2
<1>7. MirrorType'
    BY Zenon, <1>1, <1>3, <1>4, <1>6 DEF MirrorInv, MirrorType
<1>8. BuffersApart'
    <2>1. \A v \in Senders : Copying(v)' \subseteq Copying(v)
        BY Zenon, <1>3, <1>4 DEF Copying
    <2>2. QED
        BY <1>1, <2>1 DEF MirrorInv, BuffersApart, Hand
<1>9. BuffersKept'
    <2>1. \A v \in Senders : spc'[v] = "copy" => spc[v] = "copy" /\ smsg'[v] = smsg[v]
        BY Zenon, <1>3, <1>4
    <2>2. QED
        BY Zenon, <1>1, <2>1 DEF MirrorInv, BuffersKept
<1>10. PacketsMade'
    <2>1. (\A v \in Senders : spc[v] = "send" => Faithful(packet[v])) /\ \A k \in DOMAIN wire : Faithful(wire[k])
        BY Zenon, <1>1 DEF MirrorInv, PacketsMade
    <2>2. \A v \in Senders : alive' /\ spc'[v] = "send" => Faithful(packet'[v])
        BY Zenon, <1>3, <1>4, <2>1
    <2>3. ASSUME NEW k \in DOMAIN wire' PROVE Faithful(wire'[k])
        <3>1. CASE wire'[k] = packet[w]
            BY Zenon, <1>5, <3>1
        <3>2. CASE k \in DOMAIN wire /\ wire'[k] = wire[k]
            BY Zenon, <2>1, <3>2
        <3>3. QED
            BY Zenon, <1>6, <3>1, <3>2
    <2>4. QED
        BY Zenon, <1>1, <2>2, <2>3 DEF PacketsMade, Faithful
<1> QED
    BY Zenon, <1>7, <1>8, <1>9, <1>10 DEF MirrorInv

(* No step of the mirror or of the RPC breaks the invariant. *)
LEMMA MirrorStep == MirrorInv /\ [ClusterNext]_clusterVars => MirrorInv'
<1> SUFFICES ASSUME MirrorInv, [ClusterNext]_clusterVars PROVE MirrorInv'
    OBVIOUS
<1>1. CASE UNCHANGED mirror
    <2>1. UNCHANGED <<alive, dst, enabled, offered, free, contents, ipfixMCh, ch, dpc, dmsg,
                      spc, smsg, packet, wire>>
        BY Zenon, <1>1 DEF mirror
    <2>2. MirrorType' /\ BuffersApart'
        BY Zenon, <2>1 DEF MirrorInv, MirrorType, BuffersApart, Hand, Copying
    <2>3. BuffersKept' /\ PacketsMade'
        BY Zenon, <2>1 DEF MirrorInv, BuffersKept, PacketsMade, Faithful
    <2>4. QED
        BY Zenon, <2>2, <2>3 DEF MirrorInv
<1>2. CASE M!Next
    BY Zenon, <1>2, MirrorStart, MirrorOffer, MirrorDispatchTake, MirrorDispatch, MirrorNewRawConn,
       MirrorSenderTake, MirrorSenderCopy, MirrorSend
    DEF M!Next, M!dispatcherStep, M!senderStep
<1>3. QED
    BY Zenon, <1>1, <1>2 DEF ClusterNext, clusterVars, RPC

(* What the mirror sends is the datagram that was received, from an        *)
(* address of its family, and the lengths in its headers are right, for    *)
(* any senders, buffers, capacities and lengths of datagrams: a buffer     *)
(* goes back to the pool when no message needs it, and the headers count   *)
(* each other.                                                             *)
THEOREM MirroredPacketsTrue == ClusterSafety => []PacketsTrue
<1>1. ClusterInit => MirrorInv
    BY Zenon, MirrorInit DEF ClusterInit
<1>2. MirrorInv => PacketsTrue
    <2> SUFFICES ASSUME MirrorInv PROVE PacketsTrue
        OBVIOUS
    <2>1. M!TypeOK
        BY Zenon DEF MirrorInv, MirrorType, M!TypeOK
    <2>2. M!SentAsReceived /\ M!SourceFits /\ M!LengthsAgree
        BY Zenon DEF MirrorInv, PacketsMade, Faithful, M!SentAsReceived, M!SourceFits, M!LengthsAgree
    <2>3. QED
        BY Zenon, <2>1, <2>2 DEF PacketsTrue
<1> QED
    BY <1>1, <1>2, MirrorStep, PTL DEF ClusterSafety
=============================================================================
