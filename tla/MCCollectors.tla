---------------------------- MODULE MCCollectors ----------------------------
(* Model checking of Collectors: one worker from run and one that          *)
(* dynWorkers starts and retires; channels have one place.  No more than   *)
(* five buffers are ever in use at once, so that Get never has to wait.    *)
EXTENDS Collectors, TLC

CONSTANTS b1, b2, b3, b4, b5, w1, w2

MCBuffers == {b1, b2, b3, b4, b5}
MCWorkers == {w1, w2}
MCInitial == {w1}
Symmetry == Permutations(MCBuffers)

(* Bounds for IPFIX, where the mirror adds to the states: two datagrams,   *)
(* and dynWorkers starts a worker but retires none (MCIPFIXLive has that). *)
IPFIXBound == proto = "ipfix" => UDPCount <= 2 /\ told = {}

MCNext == CollectorsNext /\ IPFIXBound'

MCSpec == CollectorsInit /\ [][MCNext]_collectorsVars
=============================================================================
