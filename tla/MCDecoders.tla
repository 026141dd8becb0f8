----------------------------- MODULE MCDecoders -----------------------------
(* Decoders on small datagrams: IPFIX and NetFlow v9 messages cut in their *)
(* headers, with one set and with several; sFlow datagrams of two samples  *)
(* with one or two records, cut short or whole.  What rests has the same   *)
(* length everywhere.                                                      *)
EXTENDS Decoders

MCFilters == {{}, {1, 2}}
MCFrames == {[ether |-> "IPv4", inner |-> "other", proto |-> "UDP"],
             [ether |-> "8021Q", inner |-> "IPv6", proto |-> "other"]}

MCInit ==
    /\ Init
    /\ proto = "sflow" => total = 47
    /\ proto # "sflow" => stotal = 20 /\ filter = {}

MCSpec == MCInit /\ [][Next]_vars /\ Fairness
=============================================================================
