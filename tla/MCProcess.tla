----------------------------- MODULE MCProcess ------------------------------
(* Model checking of Process with a collector that has a template cache and *)
(* one that has none: to main, netflow9 is another ipfix.                   *)
EXTENDS Process, TLC

CONSTANTS p1, p2, p3, p4, m1, m2

(* One vflow after the other, with PIDs of one digit and of two, one of    *)
(* them used twice.  Other programs may get a PID that a vflow had, and    *)
(* the one that 7 written over 41 makes.                                   *)
MCProcs == {p1, p2, p3, p4}
MCpid == (p1 :> <<4, 1>>) @@ (p2 :> <<7>>) @@ (p3 :> <<4, 1>>) @@ (p4 :> <<5, 2>>)
MCOthers == {<<4, 1>>, <<7, 1>>}

(* Two monitors share the file. *)
MCMonitors == {m1, m2}
MCBackend == (m1 :> "influxdb") @@ (m2 :> "tsdb")
=============================================================================
