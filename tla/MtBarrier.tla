------------------------------ MODULE MtBarrier ------------------------------
(***************************************************************************)
(* The barrier of the multi-threaded benchmarks                            *)
(* (riscv-tests/benchmarks/common/util.h): a count of arrivals and a sense *)
(* that every crossing inverts.  One action per access to a shared         *)
(* variable.  When a thread comes to a barrier (Finish) or exits (Stop) is *)
(* left open here; the module MtRun gives the threads their programs.      *)
(* count, sense and threadsense are static in a header, so a kernel and    *)
(* its harness each have theirs.  A thread uses one after the other, in    *)
(* the same order as all others, so one of each does for both: a crossing  *)
(* leaves count at 0 and the senses of the threads equal.                  *)
(***************************************************************************)
EXTENDS Integers, FiniteSets

CONSTANT CoreCounts      \* the values of ncores the program is started with

ASSUME CoreCountsAssumption == CoreCounts \subseteq Nat \ {0}

VARIABLES
  ncores,       \* the argument nc, the same in every thread
  at,           \* where each thread stands
  round,        \* how many barriers each thread has left (history)
  threadsense,  \* static __thread
  count, sense  \* static volatile, shared

barrierVars == <<ncores, at, round, threadsense, count, sense>>

Threads == 0 .. ncores - 1
Places  == {"work", "enter", "spin", "reset", "open", "done"}

BarrierInit ==
  /\ ncores \in CoreCounts
  /\ at = [t \in Threads |-> "work"]
  /\ round = [t \in Threads |-> 0]
  /\ threadsense = [t \in Threads |-> 0]
  /\ count = 0
  /\ sense = 0

\* The thread reaches its next call of barrier().
Finish(t) ==
  /\ at[t] = "work"
  /\ at' = [at EXCEPT ![t] = "enter"]
  /\ UNCHANGED <<ncores, round, threadsense, count, sense>>

\* The thread exits without another one.
Stop(t) ==
  /\ at[t] = "work"
  /\ at' = [at EXCEPT ![t] = "done"]
  /\ UNCHANGED <<ncores, round, threadsense, count, sense>>

\* threadsense = !threadsense, then the atomic fetch_and_add of count.
Enter(t) ==
  /\ at[t] = "enter"
  /\ threadsense' = [threadsense EXCEPT ![t] = 1 - @]
  /\ count' = count + 1
  /\ at' = [at EXCEPT ![t] = IF count = ncores - 1 THEN "reset" ELSE "spin"]
  /\ UNCHANGED <<ncores, round, sense>>

ResetForgotten(t) ==
  /\ at[t] = "reset"
  /\ at' = [at EXCEPT ![t] = "open"]
  /\ UNCHANGED <<ncores, round, threadsense, count, sense>>

\* The last one in: count = 0 ...
Reset(t) ==
  /\ at[t] = "reset"
  /\ count' = 0
  /\ at' = [at EXCEPT ![t] = "open"]
  /\ UNCHANGED <<ncores, round, threadsense, sense>>

Advance(t) ==
  /\ at' = [at EXCEPT ![t] = "work"]
  /\ round' = [round EXCEPT ![t] = @ + 1]

OpenKeepsSense(t) ==
  /\ at[t] = "open"
  /\ Advance(t)
  /\ UNCHANGED <<ncores, threadsense, count, sense>>

\* ... and then sense = threadsense.
Open(t) ==
  /\ at[t] = "open"
  /\ sense' = threadsense[t]
  /\ Advance(t)
  /\ UNCHANGED <<ncores, threadsense, count>>

LeaveAtOnce(t) ==
  /\ at[t] = "spin"
  /\ Advance(t)
  /\ UNCHANGED <<ncores, threadsense, count, sense>>

\* while (sense != threadsense) ends.
Leave(t) ==
  /\ at[t] = "spin"
  /\ sense = threadsense[t]
  /\ Advance(t)
  /\ UNCHANGED <<ncores, threadsense, count, sense>>

Cross(t) == Enter(t) \/ Reset(t) \/ Open(t) \/ Leave(t)

BarrierNext == \E t \in Threads : Finish(t) \/ Stop(t) \/ Cross(t)
BarrierSpec == BarrierInit /\ [][BarrierNext]_barrierVars

-----------------------------------------------------------------------------
\* Types and ranges.
BarrierTypeOk ==
  /\ ncores \in CoreCounts
  /\ at \in [Threads -> Places]
  /\ round \in [Threads -> Nat]
  /\ threadsense \in [Threads -> {0, 1}]
  /\ count \in 0 .. ncores
  /\ sense \in {0, 1}

\* Nobody runs ahead of a thread that has not arrived: a thread that has left
\* fewer barriers than another one is released and only has to notice it
\* (util.h, barrier: the count is cleared before the sense is inverted).
BarrierSeparates ==
  \A t, u \in Threads :
    round[t] < round[u] =>
      /\ at[t] = "spin"
      /\ sense = threadsense[t]
      /\ round[u] = round[t] + 1
=============================================================================
