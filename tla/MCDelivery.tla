----------------------------- MODULE MCDelivery -----------------------------
(* Model checking of Delivery. *)
EXTENDS Delivery

CONSTANTS w1, w2, i1

(* An address, a counter with its top bit set, a flag, and an empty flag;  *)
(* two records of two fields at most.                                      *)
MCRawFields ==
    {[type |-> "Ipv4Address", len |-> 4, extreme |-> FALSE, EnterpriseNo |-> 0],
     [type |-> "Uint64", len |-> 8, extreme |-> TRUE, EnterpriseNo |-> 1],
     [type |-> "Boolean", len |-> 1, extreme |-> FALSE, EnterpriseNo |-> 0],
     [type |-> "Boolean", len |-> 0, extreme |-> FALSE, EnterpriseNo |-> 1]}

(* Two partitions of two messages, one of them no JSON, and one crash. *)
MCWorkers == {w1, w2}
MCBad == {<<w1, 1>>}
=============================================================================
