---------------------------- MODULE ProcessProofs ----------------------------
(* Proofs about the life of the process: that main returns after all of its *)
(* goroutines, for any set of collectors; that the PID file admits one      *)
(* vflow, for any number of them that start one after the other, whatever   *)
(* PIDs they and other programs get; that the monitors never compare        *)
(* counters of two runs of vFlow, for any number of monitors that share the *)
(* file.                                                                    *)
EXTENDS Process, FiniteSetTheorems, SequenceTheorems, TLAPS

(* A step of the process is a step of one of its parts and leaves the two  *)
(* others alone.                                                           *)
LEMMA PartsStep ==
    [ProcessNext]_processVars => [Next]_vars /\ [B!Next]_(B!vars) /\ [M!Next]_(M!vars)
  BY Zenon DEF ProcessNext, processVars, InMain, InStart, InMonitor, start, watch, B!vars, M!vars, M!vflow

-----------------------------------------------------------------------------
Idle == {"none", "done"}

(* The goroutines that run, of those whose places f says. *)
Busy(f) == {p \in protos : f[p] \notin Idle}
Count(f) == Cardinality(Busy(f))

(* The wait group counts the goroutines of run and of shutdown that have   *)
(* been started and are not done, and main is only past a loop over protos *)
(* when it has started all of them.                                        *)
MainInv ==
    /\ rpc = [p \in protos |-> rpc[p]] /\ spc = [p \in protos |-> spc[p]]
    /\ wg = Count(rpc) + Count(spc)
    /\ pc \in {"signalCh", "shutdown", "wait", "returned"} => \A p \in protos : rpc[p] # "none"
    /\ pc \in {"wait", "returned"} => \A p \in protos : spc[p] # "none"
    /\ pc = "returned" => wg = 0

(* A count is a number, and zero when nothing runs. *)
LEMMA CountNat == \A f : IsFiniteSet(Busy(f)) /\ Count(f) \in Nat /\ (Count(f) = 0 <=> Busy(f) = {})
  <1> SUFFICES ASSUME NEW f
               PROVE  IsFiniteSet(Busy(f)) /\ Count(f) \in Nat /\ (Count(f) = 0 <=> Busy(f) = {})
    OBVIOUS
  <1>1. Busy(f) \subseteq protos /\ IsFiniteSet(protos)
    BY ZenonT(60), MainAssumption DEF Busy
  <1>2. IsFiniteSet(Busy(f))
    BY ZenonT(60), <1>1, FS_Subset
  <1>3. QED
    BY ZenonT(60), <1>2, FS_CardinalityType, FS_EmptySet DEF Count

(* How a count changes when one goroutine moves from f[p] to v. *)
LEMMA CountMoves ==
    ASSUME NEW f, f = [q \in protos |-> f[q]], NEW p \in protos, NEW v
    PROVE  LET g == [f EXCEPT ![p] = v]
           IN  /\ f[p] \in Idle /\ v \notin Idle => Count(g) = Count(f) + 1
               /\ f[p] \notin Idle /\ v \in Idle => Count(g) = Count(f) - 1
               /\ f[p] \notin Idle /\ v \notin Idle => Count(g) = Count(f)
  <1> DEFINE g == [f EXCEPT ![p] = v]
  <1>1. IsFiniteSet(Busy(f)) /\ Count(f) \in Nat
    BY ZenonT(60), CountNat
  <1>2. CASE f[p] \in Idle /\ v \notin Idle
    <2>1. Busy(g) = Busy(f) \cup {p} /\ p \notin Busy(f)
      BY ZenonT(60), <1>2 DEF Busy
    <2>2. QED
      BY Zenon, <1>1, <1>2, <2>1, FS_AddElement DEF Count
  <1>3. CASE f[p] \notin Idle /\ v \in Idle
    <2>1. Busy(g) = Busy(f) \ {p} /\ p \in Busy(f)
      BY ZenonT(60), <1>3 DEF Busy
    <2>2. QED
      BY ZenonT(60), <1>1, <1>3, <2>1, FS_RemoveElement DEF Count
  <1>4. CASE f[p] \notin Idle /\ v \notin Idle
    <2>1. Busy(g) = Busy(f)
      BY ZenonT(60), <1>4 DEF Busy
    <2>2. QED
      BY ZenonT(60), <1>4, <2>1 DEF Count
  <1>5. QED
    BY ZenonT(60), <1>2, <1>3, <1>4

(* The initial state satisfies the invariant, and so does a dead process. *)
LEMMA CountNowhere == Count(Nowhere) = 0
  <1>1. Busy(Nowhere) = {}
    BY DEF Busy, Nowhere, Idle
  <1>2. QED
    BY ZenonT(60), <1>1, CountNat

(* At the start nothing runs and nothing is counted. *)
LEMMA MainInit == Init => MainInv
  <1> SUFFICES ASSUME Init PROVE MainInv
    OBVIOUS
  <1>1. Count(rpc) = 0 /\ Count(spc) = 0
    BY ZenonT(60), CountNowhere DEF Init
  <1>2. QED
    BY <1>1 DEF Init, MainInv, Nowhere

(* A process that dies leaves nothing running. *)
LEMMA MainDies == Die => MainInv'
  <1> SUFFICES ASSUME Die PROVE MainInv'
    BY Zenon
  <1>1. Count(rpc') = 0 /\ Count(spc') = 0
    BY Zenon, CountNowhere DEF Die, Nowhere
  <1>2. Count(rpc)' = Count(rpc') /\ Count(spc)' = Count(spc')
    BY ZenonT(60) DEF Count, Busy
  <1>3. QED
    BY <1>1, <1>2 DEF Die, MainInv, Nowhere

(* Every step preserves it. *)
LEMMA MainStep == MainInv /\ [Next]_vars => MainInv'
  <1> SUFFICES ASSUME MainInv, [Next]_vars
               PROVE  MainInv'
    BY Zenon
  <1>1. Count(rpc)' = Count(rpc') /\ Count(spc)' = Count(spc')
    BY Zenon DEF Count, Busy
  <1>2. Count(rpc) \in Nat /\ Count(spc) \in Nat
    BY ZenonT(60), CountNat
  <1> USE <1>1, <1>2 DEF MainInv, Idle
  <1>3. CASE StatsServer \/ Signal \/ Wait \/ Return
    BY ZenonT(60), <1>3 DEF StatsServer, Signal, Wait, Return
  <1>4. ASSUME NEW p \in protos, GoRun(p)
        PROVE  MainInv'
    <2>1. Count(rpc') = Count(rpc) + 1
      BY ZenonT(60), <1>4, CountMoves DEF GoRun
    <2>2. QED
      BY <1>4, <2>1 DEF GoRun
  <1>5. ASSUME NEW p \in protos, GoShutdown(p)
        PROVE  MainInv'
    <2>1. Count(spc') = Count(spc) + 1
      BY ZenonT(60), <1>5, CountMoves DEF GoShutdown
    <2>2. QED
      BY <1>5, <2>1 DEF GoShutdown
  <1>6. ASSUME NEW p \in protos, run(p)
        PROVE  MainInv'
    <2>1. CASE rpc' = [rpc EXCEPT ![p] = "done"] /\ wg' = wg - 1 /\ rpc[p] \in {"listen", "loop"}
      <3>1. Count(rpc') = Count(rpc) - 1
        BY ZenonT(60), <2>1, CountMoves
      <3>2. UNCHANGED <<pc, spc>> /\ pc # "returned"
        BY Zenon, <1>6, <2>1 DEF run, Listen, GetCache, Loop, ReadFromUDP, Send, SendOnClosed, Alive
      <3>3. QED
        BY <2>1, <3>1, <3>2
    <2>2. ASSUME NEW v \in {"GetCache", "loop", "read", "send"},
                 rpc' = [rpc EXCEPT ![p] = v], wg' = wg, rpc[p] \in {"listen", "GetCache", "loop", "read", "send"},
                 UNCHANGED <<pc, spc>>
          PROVE  MainInv'
      <3>1. Count(rpc') = Count(rpc)
        BY <2>2, CountMoves
      <3>2. QED
        BY Zenon, <2>2, <3>1
    <2>3. CASE SendOnClosed(p)
      BY Zenon, <2>3, MainDies DEF SendOnClosed
    <2>4. QED
      BY ZenonT(60), <1>6, <2>1, <2>2, <2>3 DEF run, Listen, GetCache, Loop, ReadFromUDP, Send
  <1>7. ASSUME NEW p \in protos, shutdown(p)
        PROVE  MainInv'
    <2>1. CASE spc' = [spc EXCEPT ![p] = "done"] /\ wg' = wg - 1 /\ spc[p] \in {"stop", "close"}
      <3>1. Count(spc') = Count(spc) - 1
        BY ZenonT(60), <2>1, CountMoves
      <3>2. UNCHANGED <<pc, rpc>> /\ pc # "returned"
        BY <1>7 DEF shutdown, StopReading, Dump, Close, Alive
      <3>3. wg' = Count(rpc') + Count(spc')
        BY <2>1, <3>1, <3>2
      <3>4. \A q \in protos : spc[q] # "none" => spc'[q] # "none"
        BY ZenonT(60), <2>1
      <3>5. QED
        BY Zenon, <2>1, <3>2, <3>3, <3>4
    <2>2. ASSUME NEW v \in {"sleep", "close"},
                 spc' = [spc EXCEPT ![p] = v], wg' = wg, spc[p] \in {"stop", "sleep"},
                 UNCHANGED <<pc, rpc>>
          PROVE  MainInv'
      <3>1. Count(spc') = Count(spc)
        BY ZenonT(60), <2>2, CountMoves
      <3>2. QED
        BY Zenon, <2>2, <3>1
    <2>3. QED
      BY Zenon, <1>7, <2>1, <2>2 DEF shutdown, StopReading, Dump, Close
  <1>8. CASE StatsFatal \/ \E p \in protos : ListenFatal(p) \/ ProducerFatal(p)
    BY <1>8, MainDies DEF StatsFatal, ListenFatal, ProducerFatal
  <1>9. CASE UNCHANGED vars
    BY Zenon, <1>9 DEF vars
  <1>10. QED
    BY ZenonT(60), <1>3, <1>4, <1>5, <1>6, <1>7, <1>8, <1>9 DEF Next, main
-----------------------------------------------------------------------------
Places == {"off", "options", "check", "write", "cpu", "running", "refused", "stopped"}

(* The file holds digits.  One process starts at a time; past the check no  *)
(* other is past it whose PID was written in full, and while there is one   *)
(* the file holds its PID.                                                  *)
StartupInv ==
    /\ bpc \in [Procs -> Places]
    /\ PIDFile \in Seq(0..9)
    /\ \A p \in Procs : bpc[p] \in {"off", "options", "check", "write"} => p \notin spoilt
    /\ \A p, q \in Procs : B!Starting(p) /\ B!Starting(q) => p = q
    /\ \A p \in Procs, q \in Procs \ spoilt :
          bpc[p] = "write" => bpc[q] \notin {"cpu", "running"}
    /\ \A p, q \in Procs \ spoilt : bpc[p] \in {"cpu", "running"} /\ bpc[q] \in {"cpu", "running"} => p = q
    /\ \A p \in Procs \ spoilt : bpc[p] \in {"cpu", "running"} => PIDFile = pid[p]

(* PIDs are digits. *)
LEMMA PIDSeq ==
    ASSUME NEW p \in Procs
    PROVE  pid[p] \in Seq(0..9) /\ Len(pid[p]) \in Nat
  BY ProcessAssumption DEF B!StartupAssumption

(* vFlowPIDWrite leaves digits, and none of a PID that is not longer. *)
LEMMA WrittenOver ==
    ASSUME NEW p \in Procs, PIDFile \in Seq(0..9)
    PROVE  /\ B!Overwritten(PIDFile, pid[p]) \in Seq(0..9)
           /\ ~(Len(PIDFile) > Len(pid[p])) => B!Overwritten(PIDFile, pid[p]) = pid[p]
  <1>1. pid[p] \in Seq(0..9) /\ Len(pid[p]) \in Nat /\ Len(PIDFile) \in Nat
    BY PIDSeq
  <1>2. SubSeq(PIDFile, Len(pid[p]) + 1, Len(PIDFile)) \in Seq(0..9)
    BY <1>1
  <1>3. ASSUME ~(Len(PIDFile) > Len(pid[p]))
        PROVE  SubSeq(PIDFile, Len(pid[p]) + 1, Len(PIDFile)) = <<>>
    <2>1. Len(PIDFile) < Len(pid[p]) + 1 /\ Len(PIDFile) \in Int /\ Len(pid[p]) + 1 \in Int
      BY <1>1, <1>3
    <2>2. QED
      BY Zenon, <2>1, SubSeqEmpty
  <1>4. B!Overwritten(PIDFile, pid[p]) \in Seq(0..9)
    BY <1>1, <1>2 DEF B!Overwritten
  <1>5. QED
    BY Zenon, <1>1, <1>3, <1>4, ConcatEmptySeq DEF B!Overwritten

(* The initial state satisfies the invariant. *)
LEMMA StartupInit == B!Init => StartupInv
  <1>1. <<>> \in Seq(0..9)
    OBVIOUS
  <1>2. QED
    BY ZenonT(60), <1>1 DEF B!Init, B!NoFile, StartupInv, Places, B!Starting, B!Alive

(* Every step of a process and of other programs preserves it. *)
LEMMA StartupStep ==
    ASSUME Serial
    PROVE  StartupInv /\ [B!Next]_(B!vars) => StartupInv'
  <1> SUFFICES ASSUME StartupInv, [B!Next]_(B!vars)
               PROVE  StartupInv'
    BY Zenon
  <1> USE DEF StartupInv, Places, B!Starting, B!Alive, B!At
  <1>1. ASSUME NEW p \in Procs, B!Start(p)
        PROVE  StartupInv'
    <2>1. bpc[p] = "off" /\ bpc' = [bpc EXCEPT ![p] = "options"] /\ PIDFile' = PIDFile /\ spoilt' = spoilt
      BY Zenon, <1>1 DEF B!Start
    <2>2. \A q \in Procs : ~B!Starting(q)
      BY Zenon, <1>1 DEF B!Start
    <2>3. QED
      BY <2>1, <2>2
  <1>2. ASSUME NEW p \in Procs, B!vFlowFlagSet(p) \/ B!GetCPU(p) \/ B!Stop(p)
        PROVE  StartupInv'
    <2>1. PIDFile' = PIDFile /\ spoilt' = spoilt
      BY Zenon, <1>2 DEF B!vFlowFlagSet, B!GetCPU, B!Stop
    <2>2. CASE B!At(p, "options", "check")
      BY <2>1, <2>2
    <2>3. CASE B!At(p, "cpu", "running")
      BY <2>1, <2>3
    <2>4. CASE B!At(p, "options", "stopped") \/ B!At(p, "cpu", "stopped") \/ B!At(p, "running", "stopped")
      BY <2>1, <2>4
    <2>5. QED
      BY Zenon, <1>2, <2>2, <2>3, <2>4 DEF B!vFlowFlagSet, B!GetCPU, B!Stop
  <1>3. ASSUME NEW p \in Procs, B!vFlowIsRunning(p)
        PROVE  StartupInv'
    <2>1. PIDFile' = PIDFile /\ spoilt' = spoilt
      BY Zenon, <1>3 DEF B!vFlowIsRunning
    <2>2. CASE B!At(p, "check", "refused")
      BY <2>1, <2>2
    <2>3. CASE ~B!Responds(PIDFile) /\ B!At(p, "check", "write")
      <3>1. \A q \in Procs \ spoilt : bpc[q] \notin {"cpu", "running"}
        BY <2>3 DEF B!Responds
      <3>2. QED
        BY <2>1, <2>3, <3>1
    <2>4. QED
      BY ZenonT(60), <1>3, <2>2, <2>3 DEF B!vFlowIsRunning
  <1>4. ASSUME NEW p \in Procs, B!vFlowPIDWrite(p)
        PROVE  StartupInv'
    <2>1. bpc[p] = "write" /\ bpc' = [bpc EXCEPT ![p] = "cpu"]
      BY Zenon, <1>4 DEF B!vFlowPIDWrite
    <2>2. \A q \in Procs \ spoilt : bpc[q] \notin {"cpu", "running"}
      BY Zenon, <2>1
    <2>3. PIDFile' \in Seq(0..9)
      BY Zenon, <1>4, WrittenOver DEF B!vFlowPIDWrite
    <2>4. CASE spoilt' = spoilt \cup {p}
      BY SMTT(30), <2>1, <2>2, <2>3, <2>4
    <2>5. CASE spoilt' = spoilt /\ PIDFile' = pid[p]
      BY <2>1, <2>2, <2>3, <2>5
    <2>6. QED
      BY Zenon, <1>4, <2>4, <2>5, WrittenOver DEF B!vFlowPIDWrite
  <1>5. ASSUME NEW d \in Others, B!OtherStarts(d) \/ B!OtherStops(d)
        PROVE  StartupInv'
    BY Zenon, <1>5 DEF B!OtherStarts, B!OtherStops
  <1>6. CASE UNCHANGED B!vars
    BY Zenon, <1>6 DEF B!vars
  <1>7. QED
    BY Zenon, <1>1, <1>2, <1>3, <1>4, <1>5, <1>6 DEF B!Next
-----------------------------------------------------------------------------
(* The start of a run and the run itself, as they occur anywhere: in vFlow, *)
(* in the file, in the monitors.                                            *)
Stamp(f) == <<f.StartTime, f.run>>
Stamps == {<<StartTime, runs>>, Stamp(lastFlow)}
          \cup {Stamp(flow[m]) : m \in Monitors} \cup {Stamp(last[m]) : m \in Monitors}

Dated == {"read", "first", "truncate", "writeFirst", "write", "compare", "post"}

(* One second, one run: two stamps with the same start are of the same run, *)
(* and none is later than the run that vFlow is in.                         *)
StampsAgree ==
    \A s, t \in Stamps :
        /\ s[1] \in 0..StartTime
        /\ s[1] = t[1] /\ s[1] # 0 => s[2] = t[2]

Functions == /\ mpc = [m \in Monitors |-> mpc[m]]
             /\ flow = [m \in Monitors |-> flow[m]]
             /\ last = [m \in Monitors |-> last[m]]
             /\ report = [m \in Monitors |-> report[m]]

MonitorInv ==
    /\ Functions
    /\ now \in Nat /\ StartTime \in 1..now
    /\ StampsAgree
    /\ \A m \in Monitors : mpc[m] \in Dated => flow[m].StartTime # 0
    /\ \A m \in Monitors : mpc[m] = "post" => flow[m].StartTime = last[m].StartTime
    /\ M!RatesWithinRun

(* The initial state satisfies the invariant. *)
LEMMA MonitorInit == M!Init => MonitorInv
  BY DEF M!Init, MonitorInv, Functions, StampsAgree, Stamps, Stamp, M!NoFlow, M!NoFile, M!Torn, M!NoReport,
         M!RatesWithinRun, Dated

(* Stamps that were there before, or of no run at all, still agree. *)
LEMMA NoNewStamp ==
    ASSUME StampsAgree, StartTime' = StartTime, StartTime \in Nat,
           \A s \in Stamps' : s \in Stamps \/ s[1] = 0
    PROVE  StampsAgree'
  BY DEF StampsAgree

(* Every step of vFlow and of a monitor preserves the invariant. *)
LEMMA MonitorStep == MonitorInv /\ [M!Next]_(M!vars) => MonitorInv'
  <1> SUFFICES ASSUME MonitorInv, [M!Next]_(M!vars)
               PROVE  MonitorInv'
    OBVIOUS
  <1> USE DEF MonitorInv
  <1>1. CASE M!Receive \/ M!Tick
    <2>1. Stamps' = Stamps /\ StartTime' = StartTime
      BY <1>1 DEF M!Receive, M!Tick, Stamps
    <2>2. StampsAgree'
      BY <2>1 DEF StampsAgree
    <2>3. QED
      BY <1>1, <2>1, <2>2 DEF M!Receive, M!Tick, Functions, M!RatesWithinRun
  <1>2. CASE M!Restart
    <2>1. \A s \in Stamps' : s \in Stamps \/ s = <<StartTime', runs'>>
      BY Zenon, <1>2 DEF M!Restart, Stamps
    <2>2. StartTime' > StartTime /\ StartTime' \in Nat
      BY Zenon, <1>2 DEF M!Restart
    <2>3. \A s \in Stamps : s[1] \in 0..StartTime
      BY Zenon DEF StampsAgree
    <2>4. StampsAgree'
      BY <2>1, <2>2, <2>3 DEF StampsAgree
    <2>5. QED
      BY <1>2, <2>2, <2>4 DEF M!Restart, Functions, M!RatesWithinRun
  <1>3. ASSUME NEW m \in Monitors,
               M!Cron(m) \/ M!Get(m) \/ M!GetFails(m) \/ M!ReadLast(m) \/ M!Truncate(m) \/ M!Write(m)
               \/ M!WriteFails(m) \/ M!Killed(m) \/ M!Compare(m) \/ M!Post(m, TRUE) \/ M!Post(m, FALSE)
               \/ M!System(m)
        PROVE  MonitorInv'
    <2> USE DEF M!At, M!Exit, M!vflow, M!NoFlow, M!NoFile, M!Torn, Functions
    <2>1. now' = now /\ StartTime' = StartTime /\ runs' = runs
      BY Zenon, <1>3 DEF M!Cron, M!Get, M!GetFails, M!ReadLast, M!Truncate, M!Write,
                         M!WriteFails, M!Killed, M!Compare, M!Post, M!System
    <2>2. Functions'
      BY ZenonT(60), <1>3 DEF M!Cron, M!Get, M!GetFails, M!ReadLast, M!Truncate, M!Write,
                              M!WriteFails, M!Killed, M!Compare, M!Post, M!System
    <2>3. lastFlow' \in {lastFlow, M!Torn, flow[m]}
      BY ZenonT(60), <1>3 DEF M!Cron, M!Get, M!GetFails, M!ReadLast, M!Truncate, M!Write,
                              M!WriteFails, M!Killed, M!Compare, M!Post, M!System
    <2>4. \A n \in Monitors : flow'[n] \in {flow[n], M!NoFlow} \/ Stamp(flow'[n]) = <<StartTime, runs>>
      BY <1>3 DEF M!Cron, M!Get, M!GetFails, M!ReadLast, M!Truncate, M!Write,
                  M!WriteFails, M!Killed, M!Compare, M!Post, M!System, M!StatsFlowHandler, Stamp
    <2>5. \A n \in Monitors : last'[n] \in {last[n], M!NoFlow, lastFlow}
      BY ZenonT(60), <1>3 DEF M!Cron, M!Get, M!GetFails, M!ReadLast, M!Truncate, M!Write,
                              M!WriteFails, M!Killed, M!Compare, M!Post, M!System
    <2>6. \A s \in Stamps' : s \in Stamps \/ s[1] = 0
      BY SMTT(30), <2>1, <2>3, <2>4, <2>5 DEF Stamps, Stamp
    <2>7. StampsAgree'
      BY <2>1, <2>6, NoNewStamp
    <2>8. \A n \in Monitors \ {m} : mpc'[n] = mpc[n] /\ flow'[n] = flow[n] /\ last'[n] = last[n]
      BY ZenonT(60), <1>3 DEF M!Cron, M!Get, M!GetFails, M!ReadLast, M!Truncate, M!Write,
                              M!WriteFails, M!Killed, M!Compare, M!Post, M!System
    <2>9. \A n \in Monitors : mpc'[n] \in Dated => flow'[n].StartTime # 0
      <3>1. mpc'[m] \in Dated => flow'[m] = M!StatsFlowHandler \/ (mpc[m] \in Dated /\ flow'[m] = flow[m])
        BY ZenonT(60), <1>3 DEF M!Cron, M!Get, M!GetFails, M!ReadLast, M!Truncate, M!Write,
                                M!WriteFails, M!Killed, M!Compare, M!Post, M!System, Dated
      <3>2. M!StatsFlowHandler.StartTime # 0
        BY DEF M!StatsFlowHandler
      <3>3. QED
        BY Zenon, <2>8, <3>1, <3>2
    <2>10. \A n \in Monitors : mpc'[n] = "post" => flow'[n].StartTime = last'[n].StartTime
      <3>1. mpc'[m] = "post" =>
                flow'[m] = flow[m] /\ last'[m] = last[m] /\ flow[m].StartTime = last[m].StartTime
        BY ZenonT(60), <1>3 DEF M!Cron, M!Get, M!GetFails, M!ReadLast, M!Truncate, M!Write,
                                M!WriteFails, M!Killed, M!Compare, M!Post, M!System
      <3>2. QED
        BY Zenon, <2>8, <3>1
    <2>11. mpc[m] = "post" => last[m].run = flow[m].run
      <3>1. Stamp(flow[m]) \in Stamps /\ Stamp(last[m]) \in Stamps
        BY Zenon DEF Stamps
      <3>2. mpc[m] = "post" => Stamp(flow[m])[1] = Stamp(last[m])[1] /\ Stamp(flow[m])[1] # 0
        BY ZenonT(60) DEF Stamp, Dated
      <3>3. QED
        BY Zenon, <3>1, <3>2 DEF StampsAgree, Stamp
    <2>12. M!RatesWithinRun'
      BY <1>3, <2>11 DEF M!Cron, M!Get, M!GetFails, M!ReadLast, M!Truncate, M!Write,
                         M!WriteFails, M!Killed, M!Compare, M!Post, M!System,
                         M!RatesWithinRun, M!NoReport
    <2>13. QED
      BY Zenon, <2>1, <2>2, <2>7, <2>9, <2>10, <2>12
  <1>4. CASE UNCHANGED M!vars
    <2>1. Stamps' = Stamps /\ StartTime' = StartTime
      BY Zenon, <1>4 DEF M!vars, M!vflow, Stamps
    <2>2. QED
      BY ZenonT(60), <1>4, <2>1 DEF M!vars, M!vflow, Functions, M!RatesWithinRun, StampsAgree
  <1>5. QED
    BY Zenon, <1>1, <1>2, <1>3, <1>4 DEF M!Next
-----------------------------------------------------------------------------
(* main returns only after every run and every shutdown has returned,      *)
(* however many collectors there are and whichever are enabled.            *)
THEOREM MainReturnsLast == ProcessSpec => []ReturnsLast
  <1>1. MainInv => ReturnsLast
    <2> SUFFICES ASSUME MainInv, pc = "returned"
                 PROVE  \A p \in protos : rpc[p] = "done" /\ spc[p] = "done"
      BY Zenon DEF ReturnsLast
    <2>1. Count(rpc) = 0 /\ Count(spc) = 0
      BY CountNat DEF MainInv
    <2>2. Busy(rpc) = {} /\ Busy(spc) = {}
      BY Zenon, <2>1, CountNat
    <2>3. QED
      BY Zenon, <2>2 DEF Busy, Idle, MainInv
  <1>2. ProcessInit => Init
    BY Zenon DEF ProcessInit
  <1>3. QED
    BY <1>1, <1>2, MainInit, MainStep, PartsStep, PTL DEF ProcessSpec

(* When vflows start one after the other, at most one whose PID was written *)
(* in full is past the check of the PID file, and while it runs the file    *)
(* holds its process ID: for any number of vflows, PIDs of any lengths,     *)
(* used again or not, by vflows and by other programs, and though nobody    *)
(* truncates the file before the write.                                     *)
THEOREM StartupOneInstance ==
    ASSUME Serial
    PROVE  ProcessSpec => []OneNamedInstance
  <1>1. ProcessInit => StartupInv
    BY ZenonT(60), StartupInit DEF ProcessInit
  <1>2. StartupInv /\ [B!Next]_(B!vars) => StartupInv'
    BY ZenonT(60), StartupStep
  <1>3. StartupInv => OneNamedInstance
    BY Zenon DEF StartupInv, OneNamedInstance, B!OneInstance, B!PIDFileNamesProcess
  <1>4. QED
    BY <1>1, <1>2, <1>3, PartsStep, PTL DEF ProcessSpec

(* A posted rate compares two answers of the same run of vFlow, however     *)
(* many monitors share the file, are killed or overlap.                     *)
THEOREM MonitorRates == ProcessSpec => []RatesWithinRun
  <1>1. ProcessInit => MonitorInv
    BY Zenon, MonitorInit DEF ProcessInit
  <1>2. MonitorInv => RatesWithinRun
    BY DEF MonitorInv, RatesWithinRun
  <1>3. QED
    BY <1>1, <1>2, MonitorStep, PartsStep, PTL DEF ProcessSpec
=============================================================================
