----------------------------- MODULE MCCluster ------------------------------
(* Cluster with two senders and two buffers, two datagrams more than       *)
(* ipfixMCh holds, one of which does not fit into the packet with its      *)
(* headers.  The RPC runs with one peer and two keys, with two peers and   *)
(* one key, or with one of each while the node also enters its own hellos, *)
(* as bound says.                                                          *)
EXTENDS Cluster

CONSTANTS p1, p2, k1, k2, s1, s2, b1, b2

MCPeers == {p1, p2}
MCKeys == {k1, k2}
MCSenders == {s1, s2}
MCBuffers == {b1, b2}
MCFamilies == {4, 6}
MCLengths == {40, 1473}

VARIABLE bound

mcVars == <<bound, clusterVars>>

(* The instances of the RPC: p2 does not exist, nothing is ever sent for   *)
(* k2, or all addresses of the node are known as local.                    *)
Instance ==
    /\ bound # "peers" => state[p2] = "up" /\ age[p2] = NotHeard /\ mem[p2] = [k \in Keys |-> NoTemplate]
    /\ bound # "keys" => rpcChan # <<k2>> /\ \A n \in Peers \cup {Self} : mem[n][k2] = NoTemplate
    /\ bound # "self" => age[Self] = NotHeard

Bounded == UNCHANGED bound /\ Instance'

MCInit == ClusterInit /\ bound \in {"keys", "peers", "self"} /\ (part = "mirror" => bound = "keys")

MCNext == ClusterNext /\ Bounded

(* The fairness of TemplateRPC and of MirrorDispatcher. *)
MCSpec ==
    /\ MCInit /\ [][MCNext]_mcVars
    /\ WF_mcVars(RPC /\ rpcStep /\ Bounded) /\ WF_mcVars(RPC /\ MakeTable /\ Bounded)
    /\ \A k \in Keys : WF_mcVars(RPC /\ Request(k) /\ Bounded)
    /\ \A p \in Peers : SF_mcVars(RPC /\ NewRPCClient(p) /\ Bounded)
    /\ SF_mcVars(RPC /\ Tick /\ Bounded)
    /\ WF_mcVars(Mirror /\ M!dispatcherStep /\ Bounded)
    /\ \A w \in Senders : WF_mcVars(Mirror /\ M!senderStep(w) /\ Bounded)
=============================================================================
