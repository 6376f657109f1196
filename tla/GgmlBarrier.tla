----------------------------- MODULE GgmlBarrier -----------------------------
(***************************************************************************)
(* ggml_barrier(): the threads of the CPU backend wait for each other      *)
(* between two nodes of a graph by spinning on two atomic counters.        *)
(*   n_barrier         how many threads have entered                       *)
(*   n_barrier_passed  how many times the barrier has opened               *)
(*   n_passed[t]       the value of n_barrier_passed thread t waits to see *)
(*                     change (a local variable)                           *)
(*   bpc[t]            where t is: "out" of the barrier, or about to load, *)
(*                     enter, reset, bump, or in the spin loop             *)
(* One action is one access to an atomic.  The stores and loads are either *)
(* seq_cst or ordered by a neighbour that is, so interleaving is enough.   *)
(* n is the number of active threads, from the low bits of n_graph.        *)
(***************************************************************************)
EXTENDS Naturals

CONSTANT NThreads    \* threads of the pool; thread 0 is the caller

ASSUME ThreadAssumption == NThreads \in Nat \ {0}

VARIABLES n_barrier, n_barrier_passed, n_passed, bpc

bvars == <<n_barrier, n_barrier_passed, n_passed, bpc>>

Threads == 0 .. NThreads - 1

BarrierInit == /\ n_barrier = 0 /\ n_barrier_passed = 0
               /\ n_passed = [t \in Threads |-> 0]
               /\ bpc = [t \in Threads |-> "out"]

\* the call
CallBarrier(t) == /\ bpc[t] = "out" /\ bpc' = [bpc EXCEPT ![t] = "load"]
                  /\ UNCHANGED <<n_barrier, n_barrier_passed, n_passed>>

\* a thread that is alone does not wait
BarrierLoad(t, n) ==
  /\ bpc[t] = "load"
  /\ bpc' = [bpc EXCEPT ![t] = IF n = 1 THEN "out" ELSE "enter"]
  /\ n_passed' = [n_passed EXCEPT ![t] = IF n = 1 THEN @ ELSE n_barrier_passed]
  /\ UNCHANGED <<n_barrier, n_barrier_passed>>

BarrierEnter(t, n) ==
  /\ bpc[t] = "enter"
  /\ n_barrier' = n_barrier + 1
  /\ bpc' = [bpc EXCEPT ![t] = IF n_barrier = n - 1 THEN "reset" ELSE "spin"]
  /\ UNCHANGED <<n_barrier_passed, n_passed>>

\* the last thread
BarrierReset(t) ==
  /\ bpc[t] = "reset"
  /\ n_barrier' = 0
  /\ bpc' = [bpc EXCEPT ![t] = "bump"]
  /\ UNCHANGED <<n_barrier_passed, n_passed>>

BarrierBump(t) ==
  /\ bpc[t] = "bump"
  /\ n_barrier_passed' = n_barrier_passed + 1
  /\ bpc' = [bpc EXCEPT ![t] = "out"]
  /\ UNCHANGED <<n_barrier, n_passed>>

\* the other threads leave the loop
BarrierSpin(t) ==
  /\ bpc[t] = "spin" /\ n_barrier_passed # n_passed[t]
  /\ bpc' = [bpc EXCEPT ![t] = "out"]
  /\ UNCHANGED <<n_barrier, n_barrier_passed, n_passed>>

BarrierStep(t, n) == \/ BarrierLoad(t, n) \/ BarrierEnter(t, n) \/ BarrierReset(t)
                     \/ BarrierBump(t) \/ BarrierSpin(t)

Left(t) == bpc[t] # "out" /\ bpc'[t] = "out"
=============================================================================
