------------------------------ MODULE Discovery ------------------------------
(***************************************************************************)
(* The table of vFlow nodes that say hello (disc/disc.go; the same code is *)
(* in ipfix/memcache_rpc.go).  An entry holds the second in which its node *)
(* was heard last; here it holds how long ago that is, up to Expiry, from  *)
(* where on the ages are not told apart.                                   *)
(***************************************************************************)
EXTENDS Integers

CONSTANTS
    Peers,   \* other vFlow nodes
    Self,    \* this node, which hears its own hellos
    Expiry   \* seconds after which a silent node is forgotten; 300 in the code

DiscoveryAssumption == Expiry \in Nat \ {0} /\ Self \notin Peers

VARIABLE age   \* age[p]: of the entry of p; NotHeard when there is none

NotHeard == -1

EmptyTable == age = [p \in Peers \cup {Self} |-> NotHeard]

(* The goroutine of Listen receives a hello.  One from a local address is  *)
(* ignored, but getLocalIPs knows only those of interfaces with exactly    *)
(* the flags up, broadcast and multicast: from another one the hello of    *)
(* this node is entered like that of any other.                            *)
Listen(p) ==
    \/ p = Self /\ UNCHANGED age
    \/ age' = [age EXCEPT ![p] = 0]

(* A second passes. *)
Second == age' = [p \in DOMAIN age |-> IF age[p] \in 0..(Expiry - 1) THEN age[p] + 1 ELSE age[p]]

(* Mutants: the comparison is left out, or the wrong way round. *)
AvailableStale == {p \in DOMAIN age : age[p] # NotHeard}
AvailableOld == {p \in DOMAIN age : age[p] >= Expiry}

Available == {p \in DOMAIN age : age[p] \in 0..(Expiry - 1)}

(* Nodes returns the nodes heard lately and deletes the others. *)
Nodes(servers) ==
    /\ servers = Available
    /\ age' = [p \in DOMAIN age |-> IF p \in Available THEN age[p] ELSE NotHeard]
=============================================================================
