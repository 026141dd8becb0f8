-------------------------------- MODULE Main --------------------------------
(***************************************************************************)
(* main (vflow/vflow.go) over the three collectors: it starts their run    *)
(* and, after a signal, their shutdown, each in a goroutine of its own,    *)
(* and returns when the wait group says that all of them are done.  Of a   *)
(* collector only the read loop, its channel being closed and the saving   *)
(* of its templates are left.                                              *)
(***************************************************************************)
EXTENDS Integers, FiniteSets

CONSTANTS
    protos,     \* sFlow, ipfix, netflow9
    Cached,     \* those with a template cache
    Faults      \* ports in use, a producer that cannot be set up

ASSUME MainAssumption == IsFiniteSet(protos) /\ Cached \subseteq protos /\ Faults \in BOOLEAN

VARIABLES
    pc,         \* main
    wg,
    enabled,    \* ipfix-enabled and the like
    rpc,        \* the goroutine of run
    spc,        \* the goroutine of shutdown
    stop, closed, saved

vars == <<pc, wg, enabled, rpc, spc, stop, closed, saved>>

Nowhere == [p \in protos |-> "none"]
NoneOf == [p \in protos |-> FALSE]

Init ==
    /\ pc = "run" /\ wg = 0
    /\ enabled \in [protos -> BOOLEAN]
    /\ rpc = Nowhere /\ spc = Nowhere
    /\ stop = NoneOf /\ closed = NoneOf /\ saved = NoneOf

(* run is past GetCache and in its read loop. *)
Serving == {"loop", "read", "send"}

Alive == pc \notin {"returned", "dead"}

(* A panic or log.Fatal ends the process and all its goroutines; what was  *)
(* saved remains.                                                          *)
Die ==
    /\ pc' = "dead" /\ wg' = 0
    /\ rpc' = Nowhere /\ spc' = Nowhere
    /\ stop' = NoneOf /\ closed' = NoneOf
    /\ UNCHANGED <<enabled, saved>>

(* The two loops over protos: wg.Add(1), then the goroutine. *)
GoRun(p) ==
    /\ pc = "run" /\ rpc[p] = "none"
    /\ wg' = wg + 1
    /\ rpc' = [rpc EXCEPT ![p] = "listen"]
    /\ UNCHANGED <<pc, enabled, spc, stop, closed, saved>>

(* Mutant: the second loop relies on the counts of the first. *)
GoShutdownUncounted(p) ==
    /\ pc = "shutdown" /\ spc[p] = "none"
    /\ spc' = [spc EXCEPT ![p] = "stop"]
    /\ UNCHANGED <<pc, wg, enabled, rpc, stop, closed, saved>>

GoShutdown(p) ==
    /\ pc = "shutdown" /\ spc[p] = "none"
    /\ wg' = wg + 1
    /\ spc' = [spc EXCEPT ![p] = "stop"]
    /\ UNCHANGED <<pc, enabled, rpc, stop, closed, saved>>

(* The statistics server is started and main waits for a signal. *)
StatsServer ==
    /\ pc = "run" /\ \A p \in protos : rpc[p] # "none"
    /\ pc' = "signalCh"
    /\ UNCHANGED <<wg, enabled, rpc, spc, stop, closed, saved>>

Signal ==
    /\ pc = "signalCh"
    /\ pc' = "shutdown"
    /\ UNCHANGED <<wg, enabled, rpc, spc, stop, closed, saved>>

Wait ==
    /\ pc = "shutdown" /\ \A p \in protos : spc[p] # "none"
    /\ pc' = "wait"
    /\ UNCHANGED <<wg, enabled, rpc, spc, stop, closed, saved>>

Return ==
    /\ pc = "wait" /\ wg = 0
    /\ pc' = "returned"
    /\ UNCHANGED <<wg, enabled, rpc, spc, stop, closed, saved>>

(* run, up to the read loop: a disabled collector is done, a port in use   *)
(* is fatal, and the templates are loaded after the port is open.          *)
Listen(p) ==
    /\ Alive /\ rpc[p] = "listen"
    /\ IF enabled[p]
           THEN rpc' = [rpc EXCEPT ![p] = "GetCache"] /\ UNCHANGED wg
           ELSE rpc' = [rpc EXCEPT ![p] = "done"] /\ wg' = wg - 1
    /\ UNCHANGED <<pc, enabled, spc, stop, closed, saved>>

ListenFatal(p) == Faults /\ Alive /\ rpc[p] = "listen" /\ enabled[p] /\ Die

GetCache(p) ==
    /\ Alive /\ rpc[p] = "GetCache"
    /\ rpc' = [rpc EXCEPT ![p] = "loop"]
    /\ UNCHANGED <<pc, wg, enabled, spc, stop, closed, saved>>

(* The read loop: the test of stop, ReadFromUDP, the send. *)
Loop(p) ==
    /\ Alive /\ rpc[p] = "loop"
    /\ IF stop[p]
           THEN rpc' = [rpc EXCEPT ![p] = "done"] /\ wg' = wg - 1
           ELSE rpc' = [rpc EXCEPT ![p] = "read"] /\ UNCHANGED wg
    /\ UNCHANGED <<pc, enabled, spc, stop, closed, saved>>

ReadFromUDP(p) ==
    /\ Alive /\ rpc[p] = "read"
    /\ \E next \in {"loop", "send"} : rpc' = [rpc EXCEPT ![p] = next]
    /\ UNCHANGED <<pc, wg, enabled, spc, stop, closed, saved>>

(* A send on the channel that shutdown has closed is a panic. *)
Send(p) ==
    /\ Alive /\ rpc[p] = "send" /\ ~closed[p]
    /\ rpc' = [rpc EXCEPT ![p] = "loop"]
    /\ UNCHANGED <<pc, wg, enabled, spc, stop, closed, saved>>

SendOnClosed(p) == Alive /\ rpc[p] = "send" /\ closed[p] /\ Die

(* The producer of a collector cannot be set up. *)
ProducerFatal(p) == Faults /\ Alive /\ rpc[p] \in Serving /\ Die

(* Mutant: a disabled collector never tells the wait group. *)
StopReadingUncounted(p) ==
    /\ Alive /\ spc[p] = "stop"
    /\ IF enabled[p] \/ p \notin Cached
           THEN stop' = [stop EXCEPT ![p] = TRUE] /\ spc' = [spc EXCEPT ![p] = "sleep"]
           ELSE spc' = [spc EXCEPT ![p] = "done"] /\ UNCHANGED stop
    /\ UNCHANGED <<pc, wg, enabled, rpc, closed, saved>>

(* shutdown: stop and a second of sleep, Dump, close.  The one of sFlow    *)
(* has no test of sflow-enabled and nothing to dump.                       *)
StopReading(p) ==
    /\ Alive /\ spc[p] = "stop"
    /\ IF enabled[p] \/ p \notin Cached
           THEN stop' = [stop EXCEPT ![p] = TRUE] /\ spc' = [spc EXCEPT ![p] = "sleep"] /\ UNCHANGED wg
           ELSE spc' = [spc EXCEPT ![p] = "done"] /\ wg' = wg - 1 /\ UNCHANGED stop
    /\ UNCHANGED <<pc, enabled, rpc, closed, saved>>

(* Mutant: it is up to the end of run to leave a cache to dump. *)
DumpWhenDone(p) ==
    /\ Alive /\ spc[p] = "sleep"
    /\ saved' = [saved EXCEPT ![p] = p \in Cached /\ rpc[p] = "done"]
    /\ spc' = [spc EXCEPT ![p] = "close"]
    /\ UNCHANGED <<pc, wg, enabled, rpc, stop, closed>>

(* What is there to dump is what GetCache made.  The second of sleep may   *)
(* end before run does: its read deadline is a second too, and a send may  *)
(* wait for room.                                                          *)
Dump(p) ==
    /\ Alive /\ spc[p] = "sleep"
    /\ saved' = [saved EXCEPT ![p] = p \in Cached /\ rpc[p] \in Serving \cup {"done"}]
    /\ spc' = [spc EXCEPT ![p] = "close"]
    /\ UNCHANGED <<pc, wg, enabled, rpc, stop, closed>>

Close(p) ==
    /\ Alive /\ spc[p] = "close"
    /\ closed' = [closed EXCEPT ![p] = TRUE]
    /\ spc' = [spc EXCEPT ![p] = "done"]
    /\ wg' = wg - 1
    /\ UNCHANGED <<pc, enabled, rpc, stop, saved>>

(* statsHTTPServer, which is started after the collectors. *)
StatsFatal == Faults /\ Alive /\ pc # "run" /\ Die

main == (\E p \in protos : GoRun(p) \/ GoShutdown(p)) \/ StatsServer \/ Wait \/ Return
run(p) == Listen(p) \/ GetCache(p) \/ Loop(p) \/ ReadFromUDP(p) \/ Send(p) \/ SendOnClosed(p)
shutdown(p) == StopReading(p) \/ Dump(p) \/ Close(p)

Next ==
    \/ main \/ Signal \/ StatsFatal
    \/ \E p \in protos : run(p) \/ shutdown(p) \/ ListenFatal(p) \/ ProducerFatal(p)

(* The scheduler runs every goroutine, a read ends with its deadline, and  *)
(* workers make room in a full channel.                                    *)
Spec ==
    /\ Init /\ [][Next]_vars
    /\ WF_vars(main) /\ \A p \in protos : WF_vars(run(p)) /\ WF_vars(shutdown(p))
-----------------------------------------------------------------------------
(* main returns only after every run and every shutdown has: no channel    *)
(* is read or closed, and no template file written, behind its back.       *)
ReturnsLast == pc = "returned" => \A p \in protos : rpc[p] = "done" /\ spc[p] = "done"

(* A signal ends the process, whatever collectors are enabled. *)
SignalEnds == pc = "shutdown" ~> ~Alive

(* When a signal finds every enabled collector serving, each of those with *)
(* a cache saves its templates, unless the process dies before: by a fault *)
(* or by the send of some run on the channel its shutdown closed.          *)
SignalSaves ==
    (pc = "shutdown" /\ \A p \in protos : spc[p] = "none" /\ (enabled[p] => rpc[p] \in Serving))
        ~> pc = "dead" \/ \A p \in Cached : enabled[p] => saved[p]
=============================================================================
