----------------------------- MODULE WorkerPool -----------------------------
(***************************************************************************)
(* The pool of decoder goroutines of one collector and the goroutine that  *)
(* resizes it: run and dynWorkers of vflow/ipfix.go.  NetFlow v9 and sFlow *)
(* carry the same code (vflow/netflow_v9.go, vflow/sflow.go).              *)
(*                                                                         *)
(* Every worker goroutine makes a quit channel, sends it to i.pool and     *)
(* then serves; a worker is retired by receiving its quit channel from     *)
(* i.pool and closing it.  Quit channels are interchangeable, so goroutines*)
(* are counted per stage instead of being named, which lets the numbers of *)
(* the code (15, 100, 200, 300; 30, 40, 60, 100; 10) stand as they are.    *)
(***************************************************************************)
EXTENDS Integers

CONSTANTS
    workers,    \* i.workers: the configured number of workers
    maxWorkers, \* the capacity of i.pool
    Loads,      \* what 30 samples of len(UDPCh) may add up to
    Settles     \* TRUE: the goroutines of a tick have run their first
                \* statement when the samples of the next tick are in, about
                \* two minutes later; FALSE: no such assumption

ASSUME PoolAssumption ==
    /\ maxWorkers \in Nat
    /\ workers \in 1..maxWorkers
    /\ Loads \subseteq Nat
    /\ Settles \in BOOLEAN

VARIABLES
    Workers,     \* i.stats.Workers
    spawned,     \* goroutines of dynWorkers before their AddInt32
    registering, \* goroutines at "i.pool <- wQuit"
    pool,        \* len(i.pool)
    pc,          \* where dynWorkers is; "off" before run started it
    load, nSeq, n \* local variables of dynWorkers

vars == <<Workers, spawned, registering, pool, pc, load, nSeq, n>>

dynVars == <<pc, load, nSeq, n>>

(* The number of goroutines to start for a load above 15. *)
newWorkersFor(l) ==
    CASE l > 300 -> 100
      [] l > 200 /\ l <= 300 -> 60
      [] l > 100 /\ l <= 200 -> 40
      [] OTHER -> 30

Init ==
    /\ Workers = 0
    /\ spawned = 0
    /\ registering = 0
    /\ pool = 0
    /\ pc = "off"
    /\ load = 0
    /\ nSeq = 0
    /\ n = 0

(* run counts the configured workers first, then starts them, and later    *)
(* starts dynWorkers.                                                      *)
run ==
    /\ pc = "off"
    /\ Workers' = Workers + workers
    /\ registering' = registering + workers
    /\ pc' = "tick"
    /\ UNCHANGED <<spawned, pool, load, nSeq, n>>

(* Mutant: the goroutine does not count itself. *)
CountForgotten ==
    /\ spawned > 0
    /\ spawned' = spawned - 1
    /\ registering' = registering + 1
    /\ UNCHANGED <<Workers, pool, dynVars>>

(* A goroutine started by dynWorkers counts itself ...                     *)
Count ==
    /\ spawned > 0
    /\ spawned' = spawned - 1
    /\ registering' = registering + 1
    /\ Workers' = Workers + 1
    /\ UNCHANGED <<pool, dynVars>>

(* ... and every goroutine hands in its quit channel; the send blocks      *)
(* while the channel is full.                                              *)
Register ==
    /\ registering > 0
    /\ pool < maxWorkers
    /\ registering' = registering - 1
    /\ pool' = pool + 1
    /\ UNCHANGED <<Workers, spawned, dynVars>>

(* A tick, and the thirty samples of the length of the UDP channel. *)
Sample ==
    /\ pc = "tick"
    /\ Settles => spawned = 0
    /\ load' \in Loads
    /\ pc' = "decide"
    /\ UNCHANGED <<Workers, spawned, registering, pool, nSeq, n>>

(* Mutant: the new workers are left out of the comparison. *)
ScaleUpIfBelow ==
    /\ pc = "decide"
    /\ load > 15
    /\ Workers <= maxWorkers
    /\ spawned' = spawned + newWorkersFor(load)
    /\ nSeq' = 0
    /\ pc' = "tick"
    /\ UNCHANGED <<Workers, registering, pool, load, n>>

(* High load and room for the new workers: start them.  The load is not    *)
(* zero, so the sequence of idle ticks ends.                               *)
ScaleUp ==
    /\ pc = "decide"
    /\ load > 15
    /\ Workers + newWorkersFor(load) <= maxWorkers
    /\ spawned' = spawned + newWorkersFor(load)
    /\ nSeq' = 0
    /\ pc' = "tick"
    /\ UNCHANGED <<Workers, registering, pool, load, n>>

(* High load and no room: "max out workers", nSeq keeps its value. *)
MaxOut ==
    /\ pc = "decide"
    /\ load > 15
    /\ Workers + newWorkersFor(load) > maxWorkers
    /\ pc' = "tick"
    /\ UNCHANGED <<Workers, spawned, registering, pool, load, nSeq, n>>

(* Some load, not enough to grow. *)
Steady ==
    /\ pc = "decide"
    /\ load \in 1..15
    /\ nSeq' = 0
    /\ pc' = "tick"
    /\ UNCHANGED <<Workers, spawned, registering, pool, load, n>>

(* No load: the sixteenth tick of a sequence starts the retirement loop. *)
Idle ==
    /\ pc = "decide"
    /\ load = 0
    /\ nSeq' = nSeq + 1
    /\ n' = 0
    /\ pc' = IF nSeq + 1 > 15 THEN "retire" ELSE "tick"
    /\ UNCHANGED <<Workers, spawned, registering, pool, load>>

(* Mutants: one worker too many, or one too few, is retired. *)
RetireCheckAtMinimum ==
    /\ pc = "retire"
    /\ n < 10
    /\ IF pool >= workers
       THEN Workers' = Workers - 1 /\ pc' = "receive" /\ n' = n
       ELSE n' = n + 1 /\ UNCHANGED <<Workers, pc>>
    /\ UNCHANGED <<spawned, registering, pool, load, nSeq>>

RetireCheckAboveMinimum ==
    /\ pc = "retire"
    /\ n < 10
    /\ IF pool > workers + 1
       THEN Workers' = Workers - 1 /\ pc' = "receive" /\ n' = n
       ELSE n' = n + 1 /\ UNCHANGED <<Workers, pc>>
    /\ UNCHANGED <<spawned, registering, pool, load, nSeq>>

(* One round of the loop "for n = 0; n < 10; n++": the length of i.pool is *)
(* tested and the counter decremented before the channel is received.      *)
RetireCheck ==
    /\ pc = "retire"
    /\ n < 10
    /\ IF pool > workers
       THEN /\ Workers' = Workers - 1
            /\ pc' = "receive"
            /\ n' = n
       ELSE /\ n' = n + 1
            /\ UNCHANGED <<Workers, pc>>
    /\ UNCHANGED <<spawned, registering, pool, load, nSeq>>

(* "wQuit := <-i.pool", which blocks on an empty channel; close(wQuit). *)
RetireReceive ==
    /\ pc = "receive"
    /\ pool > 0
    /\ pool' = pool - 1
    /\ n' = n + 1
    /\ pc' = "retire"
    /\ UNCHANGED <<Workers, spawned, registering, load, nSeq>>

RetireDone ==
    /\ pc = "retire"
    /\ n >= 10
    /\ nSeq' = 0
    /\ pc' = "tick"
    /\ UNCHANGED <<Workers, spawned, registering, pool, load, n>>

dynWorkers ==
    \/ Sample \/ ScaleUp \/ MaxOut \/ Steady \/ Idle
    \/ RetireCheck \/ RetireReceive \/ RetireDone

Next == run \/ Count \/ Register \/ dynWorkers

(* The Go scheduler runs every goroutine that can run, and the ticker      *)
(* keeps ticking.                                                          *)
Fairness == WF_vars(run) /\ WF_vars(Count) /\ WF_vars(Register) /\ WF_vars(dynWorkers)

Spec == Init /\ [][Next]_vars /\ Fairness
-----------------------------------------------------------------------------
(* The variables stay within their ranges. *)
TypeOK ==
    /\ Workers \in Int
    /\ spawned \in Nat
    /\ registering \in Nat
    /\ pool \in 0..maxWorkers
    /\ pc \in {"off", "tick", "decide", "retire", "receive"}
    /\ load \in Nat
    /\ nSeq \in 0..16
    /\ n \in 0..10

(* The counter that the status page reports and that dynWorkers compares   *)
(* with maxWorkers is the number of workers that were counted and not      *)
(* retired, apart from the one being retired: its counter is already       *)
(* decremented while its quit channel is still in i.pool.                  *)
WorkersCounted ==
    Workers = registering + pool - (IF pc = "receive" THEN 1 ELSE 0)

(* "the minimum workers can be able to configure": from its start on a     *)
(* collector has at least i.workers goroutines that were not told to quit, *)
(* whatever the order in which goroutines register and are retired.        *)
MinimumKept ==
    pc # "off" => registering + pool >= workers /\ Workers >= workers

(* The receive that retires a worker finds a quit channel, so dynWorkers   *)
(* never blocks there.                                                     *)
RetireNeverBlocks == pc = "receive" => pool > workers

(* When started goroutines count themselves before the next decision the   *)
(* check against maxWorkers keeps i.pool from filling up: no worker is     *)
(* left blocked on its registration.                                       *)
RegisterNeverBlocks ==
    Settles => /\ spawned + registering + pool <= maxWorkers
               /\ registering > 0 => pool < maxWorkers

(* Once the load stays away the pool shrinks back to the configured number *)
(* of workers and stays there: the sequence counter is never stuck below   *)
(* its threshold and ten at a time get there.                              *)
ShrinksBack ==
    <>[](load = 0) => <>[](spawned = 0 /\ registering = 0 /\ pool = workers)
-----------------------------------------------------------------------------
(* What the invariants rest on: nothing is counted before run, with Settles*)
(* no goroutine is uncounted when dynWorkers reads Workers, and the local  *)
(* counters of dynWorkers are below their limits outside the loop.         *)
Quiet ==
    /\ pc = "off" => Workers = 0 /\ spawned = 0 /\ registering = 0 /\ pool = 0
    /\ Settles /\ pc = "decide" => spawned = 0
    /\ pc \notin {"retire", "receive"} => nSeq <= 15
    /\ pc = "receive" => n < 10

(* The inductive invariant. *)
PoolInv ==
    /\ TypeOK
    /\ WorkersCounted
    /\ MinimumKept
    /\ RetireNeverBlocks
    /\ RegisterNeverBlocks
    /\ Quiet
=============================================================================
