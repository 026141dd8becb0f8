------------------------------ MODULE Startup -------------------------------
(***************************************************************************)
(* The start of vflow (vflow/options.go, called by main): the options, the *)
(* check that no other vflow runs, the PID file and the CPU cap.  Every    *)
(* process runs once; its PID, the digits that are printed for it, is its  *)
(* own while it is alive and another's later.  The PID file outlives its   *)
(* processes.  All of them belong to one user, so that kill reaches them.  *)
(***************************************************************************)
EXTENDS Integers, Sequences, FiniteSets

CONSTANTS
    Procs,      \* processes of vflow
    pid,        \* their PIDs, sequences of digits
    Others,     \* PIDs that other programs may get
    Serial      \* a service manager starts one vflow at a time

StartupAssumption == pid \in [Procs -> Seq(0..9) \ {<<>>}] /\ Serial \in BOOLEAN

VARIABLES
    pc,         \* where each process is
    PIDFile,    \* the digits in the PID file, or NoFile
    others,     \* PIDs other programs have now
    spoilt      \* history: processes whose PID could not be written, or left
                \* digits of a longer one behind it

vars == <<pc, PIDFile, others, spoilt>>

NoFile == <<>>      \* kill takes an empty PID no better than a missing one

Alive(p) == pc[p] \notin {"off", "refused", "stopped"}
Starting(p) == Alive(p) /\ pc[p] # "running"

Init ==
    /\ pc = [p \in Procs |-> "off"]
    /\ PIDFile = NoFile
    /\ others = {}
    /\ spoilt = {}

At(p, from, to) == pc[p] = from /\ pc' = [pc EXCEPT ![p] = to]

(* Somebody starts a process. *)
Start(p) ==
    /\ At(p, "off", "options")
    /\ pid[p] \notin others /\ \A q \in Procs : Alive(q) => pid[q] # pid[p]
    /\ Serial => \A q \in Procs : ~Starting(q)
    /\ UNCHANGED <<PIDFile, others, spoilt>>

(* vFlowFlagSet and vFlowVersion: an unknown flag, a bad value or -version *)
(* ends the process; a config file that cannot be read does not.           *)
vFlowFlagSet(p) ==
    /\ At(p, "options", "check") \/ At(p, "options", "stopped")
    /\ UNCHANGED <<PIDFile, others, spoilt>>

(* kill -0 with the digits of the file, which may be the process's own. *)
Responds(digits) == digits \in others \cup {pid[q] : q \in {x \in Procs : Alive(x)}}

(* Mutant: what kill reports is not looked at. *)
vFlowIsRunningIgnored(p) == At(p, "check", "write") /\ UNCHANGED <<PIDFile, others, spoilt>>

(* vFlowIsRunning *)
vFlowIsRunning(p) ==
    /\ \/ Responds(PIDFile) /\ At(p, "check", "refused")
       \/ ~Responds(PIDFile) /\ At(p, "check", "write")
    /\ UNCHANGED <<PIDFile, others, spoilt>>

(* What is in the file once digits are written over its beginning. *)
Overwritten(file, digits) ==
    digits \o SubSeq(file, Len(digits) + 1, Len(file))

(* Mutant: the PID goes behind what is there (O_APPEND). *)
vFlowPIDWriteAppends(p) ==
    /\ At(p, "write", "cpu")
    /\ PIDFile' = PIDFile \o pid[p]
    /\ UNCHANGED <<others, spoilt>>

(* vFlowPIDWrite: the file is opened without O_TRUNC; if it cannot be      *)
(* opened or written the start goes on.                                    *)
vFlowPIDWrite(p) ==
    /\ At(p, "write", "cpu")
    /\ \/ /\ PIDFile' = Overwritten(PIDFile, pid[p])
          /\ spoilt' = IF Len(PIDFile) > Len(pid[p]) THEN spoilt \cup {p} ELSE spoilt
       \/ UNCHANGED PIDFile /\ spoilt' = spoilt \cup {p}
    /\ UNCHANGED others

(* GetCPU: an invalid cap is fatal, with the PID written. *)
GetCPU(p) ==
    /\ At(p, "cpu", "running") \/ At(p, "cpu", "stopped")
    /\ UNCHANGED <<PIDFile, others, spoilt>>

Stop(p) == At(p, "running", "stopped") /\ UNCHANGED <<PIDFile, others, spoilt>>

OtherStarts(d) ==
    /\ d \notin others /\ \A p \in Procs : Alive(p) => pid[p] # d
    /\ others' = others \cup {d}
    /\ UNCHANGED <<pc, PIDFile, spoilt>>

OtherStops(d) == d \in others /\ others' = others \ {d} /\ UNCHANGED <<pc, PIDFile, spoilt>>

Next ==
    \/ \E p \in Procs :
          \/ Start(p) \/ vFlowFlagSet(p) \/ vFlowIsRunning(p)
          \/ vFlowPIDWrite(p) \/ GetCPU(p) \/ Stop(p)
    \/ \E d \in Others : OtherStarts(d) \/ OtherStops(d)

Spec == Init /\ [][Next]_vars
-----------------------------------------------------------------------------
(* At most one vflow whose PID was written in full is past the check. *)
OneInstance ==
    \A p, q \in Procs \ spoilt : pc[p] \in {"cpu", "running"} /\ pc[q] \in {"cpu", "running"} => p = q

(* While one runs the PID file holds its process ID. *)
PIDFileNamesProcess == \A p \in Procs \ spoilt : pc[p] = "running" => PIDFile = pid[p]
=============================================================================
