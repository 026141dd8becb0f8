------------------------------ MODULE Monitor -------------------------------
(***************************************************************************)
(* The monitor (monitor/monitor.go, monitor/store/*.go): a program that    *)
(* cron starts, which asks vFlow for its counters, compares them with the  *)
(* ones it left in a file the last time and posts rates to a database.     *)
(* One counter stands for the UDP, decode and error counters alike; runs   *)
(* numbers the runs of vFlow.  Several monitors may share the file.        *)
(***************************************************************************)
EXTENDS Integers, FiniteSets

CONSTANTS
    Monitors,   \* one per line of the crontab
    Backend,    \* influxdb or tsdb, for each monitor
    MaxTime,    \* bound of the clock
    MaxCount    \* bound of the counter

MonitorAssumption ==
    /\ Backend \in [Monitors -> {"influxdb", "tsdb"}]
    /\ MaxTime \in Nat /\ MaxCount \in Nat

VARIABLES
    now, runs, StartTime, UDPCount,      \* vFlow and its clock
    lastFlow,                           \* the file
    pc, flow, last,                     \* the monitors
    report                              \* what each one posted, if it did

vflow == <<now, runs, StartTime, UDPCount>>
vars == <<vflow, lastFlow, pc, flow, last, report>>

NoFlow == [StartTime |-> 0, Timestamp |-> 0, UDPCount |-> 0, run |-> 0]
NoFile == [NoFlow EXCEPT !.run = -1]
Torn == [NoFlow EXCEPT !.run = -2]
NoReport == [from |-> 0, to |-> 0, metrics |-> {}]

Init ==
    /\ now = 1 /\ runs = 1 /\ StartTime = 1 /\ UDPCount = 0
    /\ lastFlow = NoFile
    /\ pc = [m \in Monitors |-> "idle"]
    /\ flow = [m \in Monitors |-> NoFlow] /\ last = [m \in Monitors |-> NoFlow]
    /\ report = [m \in Monitors |-> NoReport]

(* Datagrams arrive; vFlow restarts, not twice within a second. *)
Receive ==
    /\ UDPCount < MaxCount
    /\ UDPCount' = UDPCount + 1
    /\ UNCHANGED <<now, runs, StartTime, lastFlow, pc, flow, last, report>>

Restart ==
    /\ now > StartTime
    /\ runs' = runs + 1 /\ StartTime' = now /\ UDPCount' = 0
    /\ UNCHANGED <<now, lastFlow, pc, flow, last, report>>

Tick ==
    /\ now < MaxTime
    /\ now' = now + 1
    /\ UNCHANGED <<runs, StartTime, UDPCount, lastFlow, pc, flow, last, report>>

At(m, from, to) == pc[m] = from /\ pc' = [pc EXCEPT ![m] = to]

Exit(m, from) ==
    /\ At(m, from, "idle")
    /\ flow' = [flow EXCEPT ![m] = NoFlow]
    /\ last' = [last EXCEPT ![m] = NoFlow]
    /\ report' = [report EXCEPT ![m] = NoReport]

(* cron, or somebody, starts the monitor. *)
Cron(m) ==
    /\ At(m, "idle", "get")
    /\ UNCHANGED <<vflow, lastFlow, flow, last, report>>

(* The answer to /flow.  Its Timestamp is the monitor's own, taken once    *)
(* the answer is there.                                                    *)
StatsFlowHandler == [StartTime |-> StartTime, Timestamp |-> now, UDPCount |-> UDPCount, run |-> runs]

Get(m) ==
    /\ At(m, "get", "read")
    /\ flow' = [flow EXCEPT ![m] = StatsFlowHandler]
    /\ UNCHANGED <<vflow, lastFlow, last, report>>

GetFails(m) == At(m, "get", "system") /\ UNCHANGED <<vflow, lastFlow, flow, last, report>>

(* ReadFile and Unmarshal: without a file this answer becomes the first    *)
(* one; a file that does not parse is left as it is.                       *)
ReadLast(m) ==
    /\ IF lastFlow = NoFile THEN At(m, "read", "first")
       ELSE IF lastFlow = Torn THEN At(m, "read", "system")
       ELSE At(m, "read", "truncate")
    /\ last' = [last EXCEPT ![m] = lastFlow]
    /\ UNCHANGED <<vflow, lastFlow, flow, report>>

(* WriteFile empties the file, then fills it. *)
Truncate(m) ==
    /\ At(m, "first", "writeFirst") \/ At(m, "truncate", "write")
    /\ lastFlow' = Torn
    /\ UNCHANGED <<vflow, flow, last, report>>

(* If another monitor has filled the file since, this one writes over the  *)
(* beginning of it, and a longer text leaves a tail that does not parse.   *)
Write(m) ==
    /\ At(m, "writeFirst", "system") \/ At(m, "write", "compare")
    /\ lastFlow' \in IF lastFlow = Torn THEN {flow[m]} ELSE {flow[m], Torn}
    /\ UNCHANGED <<vflow, flow, last, report>>

(* Nobody looks at the error of WriteFile, before the file is emptied or   *)
(* after it.                                                               *)
WriteFails(m) ==
    /\ \/ At(m, "first", "system") \/ At(m, "truncate", "compare")
       \/ At(m, "writeFirst", "system") \/ At(m, "write", "compare")
    /\ UNCHANGED <<vflow, lastFlow, flow, last, report>>

Killed(m) ==
    /\ Exit(m, "writeFirst") \/ Exit(m, "write")
    /\ UNCHANGED <<vflow, lastFlow>>

(* Mutant: a restart of vFlow goes unnoticed. *)
CompareCounts(m) ==
    /\ At(m, "compare", "post")
    /\ UNCHANGED <<vflow, lastFlow, flow, last, report>>

(* The end of getFlow: os.Exit once the vFlow restarted. *)
Compare(m) ==
    /\ IF flow[m].StartTime # last[m].StartTime
           THEN Exit(m, "compare")
           ELSE At(m, "compare", "post") /\ UNCHANGED <<flow, last, report>>
    /\ UNCHANGED <<vflow, lastFlow>>

Protocols == {"ipfix", "sflow", "netflowv9"}
Rates == {"udp.rate", "decode.rate", "mq.error.rate"}

(* What Netflow of each backend posts. *)
InfluxMetrics == {<<t, k>> : t \in Protocols, k \in Rates \cup {"workers", "udp.queue", "mq.queue"}}
                 \cup {<<"ipfix", "udp.mirror.queue">>}
TSDBMetrics == {<<t, k>> : t \in {"ipfix", "sflow"}, k \in Rates \cup {"workers"}}

(* delta, the rates and abs: a panic without a difference in time, exit    *)
(* with a negative rate; / rounds towards zero.                            *)
Rate(m) ==
    LET diff == flow[m].UDPCount - last[m].UDPCount
        delta == flow[m].Timestamp - last[m].Timestamp
    IN  IF delta = 0 THEN "panic"
        ELSE IF (diff < 0) # (delta < 0) /\ (IF diff < 0 THEN -diff ELSE diff) >= (IF delta < 0 THEN -delta ELSE delta)
        THEN "exit"
        ELSE "posted"

(* The post may fail; TSDB.put does not see what the answer says. *)
Post(m, ok) ==
    /\ IF Rate(m) # "posted" THEN Exit(m, "post")
       ELSE /\ At(m, "post", "system")
            /\ report' = [report EXCEPT ![m] =
                  IF ok THEN [from |-> last[m].run, to |-> flow[m].run,
                              metrics |-> IF Backend[m] = "tsdb" THEN TSDBMetrics ELSE InfluxMetrics]
                        ELSE @]
            /\ flow' = [flow EXCEPT ![m] = NoFlow]
            /\ last' = [last EXCEPT ![m] = NoFlow]
    /\ UNCHANGED <<vflow, lastFlow>>

(* System asks for /sys and posts it: gauges, nothing is kept. *)
System(m) == Exit(m, "system") /\ UNCHANGED <<vflow, lastFlow>>

Next ==
    \/ Receive \/ Restart \/ Tick
    \/ \E m \in Monitors :
          \/ Cron(m) \/ Get(m) \/ GetFails(m) \/ ReadLast(m) \/ Truncate(m) \/ Write(m)
          \/ WriteFails(m) \/ Killed(m) \/ Compare(m) \/ Post(m, TRUE) \/ Post(m, FALSE) \/ System(m)

Spec == Init /\ [][Next]_vars
-----------------------------------------------------------------------------
(* A posted rate compares two answers of the same run of vFlow, whatever   *)
(* the other monitors do to the file in between.                           *)
RatesWithinRun == \A m \in Monitors : report[m].from = report[m].to
=============================================================================
