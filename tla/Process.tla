------------------------------ MODULE Process -------------------------------
(* The life of the process: its start, main with its collectors, and the   *)
(* monitors that watch it.  part says which of them runs, the others rest  *)
(* in an initial state.                                                    *)
EXTENDS Main, Sequences

CONSTANTS Procs, pid, Others, Serial             \* of Startup
CONSTANTS Monitors, Backend, MaxTime, MaxCount   \* of Monitor

VARIABLE part
VARIABLES bpc, PIDFile, others, spoilt                                        \* start
VARIABLES now, runs, StartTime, UDPCount, lastFlow, mpc, flow, last, report   \* monitor

B == INSTANCE Startup WITH pc <- bpc
M == INSTANCE Monitor WITH pc <- mpc

ASSUME ProcessAssumption == B!StartupAssumption /\ M!MonitorAssumption

start == <<bpc, PIDFile, others, spoilt>>
watch == <<now, runs, StartTime, UDPCount, lastFlow, mpc, flow, last, report>>
processVars == <<part, vars, start, watch>>

ProcessInit ==
    /\ part \in {"main", "start", "monitor"}
    /\ Init /\ (part # "main" => enabled = [p \in protos |-> TRUE])
    /\ B!Init
    /\ M!Init

InMain == part = "main" /\ UNCHANGED <<part, start, watch>>
InStart == part = "start" /\ UNCHANGED <<part, vars, watch>>
InMonitor == part = "monitor" /\ UNCHANGED <<part, vars, start>>

ProcessNext ==
    \/ InMain /\ Next
    \/ InStart /\ B!Next
    \/ InMonitor /\ M!Next

(* The fairness of Main. *)
ProcessSpec ==
    /\ ProcessInit /\ [][ProcessNext]_processVars
    /\ WF_processVars(InMain /\ main)
    /\ \A p \in protos : WF_processVars(InMain /\ run(p)) /\ WF_processVars(InMain /\ shutdown(p))
-----------------------------------------------------------------------------
(* Of the vflows whose PID was written in full at most one is past the     *)
(* check of the PID file at any time, and while it runs the file holds its *)
(* process ID, whoever came and went before and whoever has their PIDs     *)
(* now.  The file says nothing of a vflow that could not write its PID, or *)
(* wrote one with fewer digits than the file held: what is left of the     *)
(* older one then makes it another number, and a second vflow may start.   *)
OneNamedInstance == B!OneInstance /\ B!PIDFileNamesProcess

(* A rate that a monitor posts compares two answers of one run of vFlow. *)
RatesWithinRun == M!RatesWithinRun
=============================================================================
