-------------------------- MODULE WorkerPoolProofs --------------------------
(* Proofs that the resizing of the worker pool keeps its invariant, for any *)
(* number of configured workers, any capacity and any loads.                *)
EXTENDS WorkerPool, TLAPS

(* dynWorkers starts a positive number of goroutines, whatever the load. *)
LEMMA NewWorkersPositive ==
    ASSUME NEW l \in Nat
    PROVE  newWorkersFor(l) \in 1..100
  BY DEF newWorkersFor

(* The state before run satisfies the invariant. *)
LEMMA PoolInit == Init => PoolInv
  BY PoolAssumption
     DEF Init, PoolInv, TypeOK, WorkersCounted, MinimumKept, RetireNeverBlocks,
         RegisterNeverBlocks, Quiet

(* Every step of run, of a starting goroutine and of dynWorkers preserves *)
(* the invariant.                                                         *)
LEMMA PoolStep == PoolInv /\ [Next]_vars => PoolInv'
  <1> SUFFICES ASSUME PoolInv, [Next]_vars
               PROVE  PoolInv'
    OBVIOUS
  <1> USE PoolAssumption DEF PoolInv, TypeOK, WorkersCounted, MinimumKept,
          RetireNeverBlocks, RegisterNeverBlocks, Quiet
  <1>1. CASE run
    BY <1>1 DEF run
  <1>2. CASE Count
    BY <1>2 DEF Count, dynVars
  <1>3. CASE Register
    BY <1>3 DEF Register, dynVars
  <1>4. CASE Sample
    BY <1>4 DEF Sample
  <1>5. CASE ScaleUp
    <2>1. newWorkersFor(load) \in 1..100
      BY NewWorkersPositive
    <2>2. QED
      BY <1>5, <2>1 DEF ScaleUp
  <1>6. CASE MaxOut
    BY <1>6 DEF MaxOut
  <1>7. CASE Steady
    BY <1>7 DEF Steady
  <1>8. CASE Idle
    BY <1>8 DEF Idle
  <1>9. CASE RetireCheck
    BY <1>9 DEF RetireCheck
  <1>10. CASE RetireReceive
    BY <1>10 DEF RetireReceive
  <1>11. CASE RetireDone
    BY <1>11 DEF RetireDone
  <1>12. CASE UNCHANGED vars
    BY <1>12 DEF vars
  <1>13. QED
    BY <1>1, <1>2, <1>3, <1>4, <1>5, <1>6, <1>7, <1>8, <1>9, <1>10, <1>11, <1>12
       DEF Next, dynWorkers

(* The inductive invariant holds of every execution. *)
THEOREM PoolInvariant == Spec => []PoolInv
  BY PoolInit, PoolStep, PTL DEF Spec

(* The counts keep their types: no number of goroutines falls below zero,   *)
(* and the quit channels in i.pool never exceed its capacity.               *)
THEOREM PoolTypes == Spec => []TypeOK
<1>1. PoolInv => TypeOK
    BY DEF PoolInv
<1> QED
    BY <1>1, PoolInvariant, PTL

(* The counter of the status page is the number of workers, for every      *)
(* configured number, every capacity and every load.                       *)
THEOREM PoolCounted == Spec => []WorkersCounted
<1>1. PoolInv => WorkersCounted
    BY DEF PoolInv
<1> QED
    BY <1>1, PoolInvariant, PTL

(* dynWorkers never leaves fewer than the configured number of workers. *)
THEOREM PoolMinimumKept == Spec => []MinimumKept
<1>1. PoolInv => MinimumKept
    BY DEF PoolInv
<1> QED
    BY <1>1, PoolInvariant, PTL

(* dynWorkers never blocks while it retires workers. *)
THEOREM PoolRetireNeverBlocks == Spec => []RetireNeverBlocks
<1>1. PoolInv => RetireNeverBlocks
    BY DEF PoolInv
<1> QED
    BY <1>1, PoolInvariant, PTL

(* If the goroutines of one tick have counted themselves by the next one,  *)
(* no goroutine blocks on its registration.                                *)
THEOREM PoolRegisterNeverBlocks == Spec => []RegisterNeverBlocks
<1>1. PoolInv => RegisterNeverBlocks
    BY DEF PoolInv
<1> QED
    BY <1>1, PoolInvariant, PTL
=============================================================================
