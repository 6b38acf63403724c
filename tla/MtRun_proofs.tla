--------------------------- MODULE MtRun_proofs ---------------------------
(***************************************************************************)
(* The barrier separates the phases of any number of threads, crossed any  *)
(* number of times, and kernels that share the elements of C out do not    *)
(* race, for any number of threads and any size of the matrices.           *)
(*                                                                         *)
(* BarrierSeparates is not inductive: that a thread still spins in an      *)
(* older round says nothing of the count.  The invariant names the         *)
(* generation R of the sense: every thread is in round R, or spins in      *)
(* round R - 1 and is already released; the count is the number of threads *)
(* that wait in round R, except between the two writes of the last one.    *)
(*                                                                         *)
(* Threads that work are therefore in one phase, and NoRace follows when   *)
(* the blocks of equal phases are Apart: a fact about the kernel alone.    *)
(***************************************************************************)
EXTENDS MtRun, FiniteSetTheorems, TLAPS

Bit(R) == R % 2

Released(t, R) == at[t] = "spin" /\ round[t] + 1 = R /\ threadsense[t] = Bit(R)
Outside(t, R)  == at[t] \in {"work", "enter", "done"} /\ round[t] = R /\ threadsense[t] = Bit(R)
Entered(t, R)  == /\ at[t] \in {"spin", "reset", "open"}
                  /\ round[t] = R
                  /\ threadsense[t] = 1 - Bit(R)

Waiting(R) == {t \in Threads : round[t] = R /\ at[t] \in {"spin", "reset"}}

\* A thread in the middle of its two writes has everybody else waiting.
Alone(t, R) == \A u \in Threads \ {t} : at[u] = "spin" /\ round[u] = R

Generation(R) ==
  /\ sense = Bit(R)
  /\ \A t \in Threads : Released(t, R) \/ Outside(t, R) \/ Entered(t, R)
  /\ \A t \in Threads : at[t] \in {"reset", "open"} => Alone(t, R)
  /\ (\A t \in Threads : at[t] # "open") => count = Cardinality(Waiting(R))
  /\ (\E t \in Threads : at[t] = "open") => count = 0

BarrierInv == BarrierTypeOk /\ \E R \in Nat : Generation(R)

-----------------------------------------------------------------------------
LEMMA BitFlips ==
  ASSUME NEW R \in Nat
  PROVE  Bit(R) \in {0, 1} /\ Bit(R + 1) = 1 - Bit(R)
  BY DEF Bit

LEMMA ThreadsFinite ==
  ASSUME BarrierTypeOk
  PROVE  /\ ncores \in Nat \ {0}
         /\ IsFiniteSet(Threads)
         /\ Cardinality(Threads) = ncores
<1>1. ncores \in Nat \ {0}
  BY CoreCountsAssumption DEF BarrierTypeOk
<1>2. IsFiniteSet(0 .. ncores - 1) /\ Cardinality(0 .. ncores - 1) = ncores
  BY <1>1, FS_Interval
<1> QED
  BY <1>1, <1>2 DEF Threads

LEMMA WaitingFinite ==
  ASSUME BarrierTypeOk, NEW R \in Nat
  PROVE  /\ IsFiniteSet(Waiting(R))
         /\ Cardinality(Waiting(R)) \in 0 .. ncores
<1>1. Waiting(R) \subseteq Threads
  BY DEF Waiting
<1>2. IsFiniteSet(Waiting(R)) /\ Cardinality(Waiting(R)) <= ncores
  BY <1>1, ThreadsFinite, FS_Subset
<1>3. Cardinality(Waiting(R)) \in Nat
  BY <1>2, FS_CardinalityType
<1> QED
  BY <1>2, <1>3, ThreadsFinite

\* The last one in finds everybody else waiting.
LEMMA LastFindsAll ==
  ASSUME BarrierTypeOk, NEW R \in Nat, NEW t \in Threads,
         t \notin Waiting(R), Cardinality(Waiting(R)) = ncores - 1
  PROVE  Waiting(R) = Threads \ {t}
<1>1. Waiting(R) \subseteq Threads \ {t}
  BY DEF Waiting
<1>2. IsFiniteSet(Threads \ {t}) /\ Cardinality(Threads \ {t}) = ncores - 1
  BY ThreadsFinite, FS_RemoveElement
<1> QED
  BY <1>1, <1>2, FS_Subset

-----------------------------------------------------------------------------
LEMMA InitBarrier == BarrierInit => BarrierInv
<1> SUFFICES ASSUME BarrierInit PROVE BarrierInv
  OBVIOUS
<1>1. BarrierTypeOk
  BY CoreCountsAssumption DEF BarrierInit, BarrierTypeOk, Places
<1>2. Waiting(0) = {}
  BY DEF BarrierInit, Waiting
<1>3. Generation(0)
  BY <1>2, FS_EmptySet DEF BarrierInit, Generation, Released, Outside, Entered, Bit
<1> QED
  BY <1>1, <1>3 DEF BarrierInv

\* A thread that comes to the barrier, or exits, stays outside of it.
LEMMA WorkStep ==
  ASSUME BarrierTypeOk, NEW R \in Nat, Generation(R), NEW t \in Threads, Finish(t) \/ Stop(t)
  PROVE  BarrierTypeOk' /\ Generation(R)'
<1>1. /\ at[t] = "work"
      /\ at' \in {[at EXCEPT ![t] = "enter"], [at EXCEPT ![t] = "done"]}
      /\ UNCHANGED <<ncores, round, threadsense, count, sense>>
  BY DEF Finish, Stop
<1>2. BarrierTypeOk'
  BY <1>1 DEF BarrierTypeOk, Places, Threads
<1>3. Waiting(R)' = Waiting(R)
  BY <1>1 DEF Waiting, BarrierTypeOk, Threads
<1>4. \A u \in Threads : (Released(u, R) \/ Outside(u, R) \/ Entered(u, R))'
  BY <1>1 DEF Generation, Released, Outside, Entered, BarrierTypeOk, Threads
<1>5. \A u \in Threads : at'[u] \in {"reset", "open"} => at[u] = at'[u] /\ u # t
  BY <1>1 DEF BarrierTypeOk
<1>6. \A u \in Threads : at[u] \notin {"reset", "open"}
  BY <1>1 DEF Generation, Alone
<1>7. \A u \in Threads : at'[u] \notin {"reset", "open"}
  BY <1>5, <1>6
<1> QED
  BY <1>1, <1>2, <1>3, <1>4, <1>6, <1>7 DEF Generation, Threads

LEMMA EnterStep ==
  ASSUME BarrierTypeOk, NEW R \in Nat, Generation(R), NEW t \in Threads, Enter(t)
  PROVE  BarrierTypeOk' /\ Generation(R)'
<1>1. at[t] = "enter" /\ Outside(t, R)
  BY DEF Enter, Generation, Released, Outside, Entered
<1>2. \A u \in Threads : at[u] \notin {"reset", "open"}
  BY <1>1 DEF Generation, Alone
<1>3. count = Cardinality(Waiting(R)) /\ t \notin Waiting(R)
  BY <1>1, <1>2 DEF Generation, Waiting
<1>4. Waiting(R)' = Waiting(R) \cup {t}
  BY <1>1 DEF Enter, Waiting, Outside, BarrierTypeOk, Threads
<1>5. /\ IsFiniteSet(Waiting(R))
      /\ Cardinality(Waiting(R)') = count + 1
  BY <1>3, <1>4, WaitingFinite, FS_AddElement
<1>7. count + 1 \in 0 .. ncores
  <2>1. Waiting(R) \cup {t} \subseteq Threads
    BY DEF Waiting
  <2>2. Cardinality(Waiting(R) \cup {t}) <= ncores
    BY <2>1, ThreadsFinite, FS_Subset
  <2> QED
    BY <2>2, <1>3, <1>4, <1>5, WaitingFinite, ThreadsFinite
<1>8. BarrierTypeOk'
  <2>1. Threads' = Threads /\ ncores' \in CoreCounts /\ count' \in 0 .. ncores'
    BY <1>7 DEF Enter, BarrierTypeOk, Threads
  <2>2. at' \in [Threads -> Places]
    BY DEF Enter, BarrierTypeOk, Places
  <2>3. threadsense' \in [Threads -> {0, 1}]
    BY DEF Enter, BarrierTypeOk
  <2> QED
    BY <2>1, <2>2, <2>3 DEF Enter, BarrierTypeOk
<1>9. \A u \in Threads : (Released(u, R) \/ Outside(u, R) \/ Entered(u, R))'
  BY <1>1, BitFlips DEF Enter, Generation, Released, Outside, Entered, BarrierTypeOk, Threads
<1>10. \A u \in Threads : at'[u] # "open"
  BY <1>2 DEF Enter, BarrierTypeOk
<1>11. \A u \in Threads : at'[u] \in {"reset", "open"} => Alone(u, R)'
  <2> SUFFICES ASSUME NEW u \in Threads, at'[u] \in {"reset", "open"}
               PROVE  Alone(u, R)'
    OBVIOUS
  <2>1. u = t /\ count = ncores - 1
    BY <1>2 DEF Enter, BarrierTypeOk
  <2>2. Waiting(R) = Threads \ {t}
    BY <2>1, <1>3, LastFindsAll
  <2>3. \A v \in Threads \ {t} : at[v] = "spin" /\ round[v] = R
    BY <2>2, <1>2 DEF Waiting
  <2> QED
    BY <2>1, <2>3 DEF Alone, Enter, BarrierTypeOk, Threads
<1> QED
  BY <1>5, <1>8, <1>9, <1>10, <1>11 DEF Generation, Enter, Threads

LEMMA ResetStep ==
  ASSUME BarrierTypeOk, NEW R \in Nat, Generation(R), NEW t \in Threads, Reset(t)
  PROVE  BarrierTypeOk' /\ Generation(R)'
<1>1. at[t] = "reset" /\ Alone(t, R)
  BY DEF Reset, Generation
<1>2. BarrierTypeOk'
  BY ThreadsFinite DEF Reset, BarrierTypeOk, Places, Threads
<1>3. \A u \in Threads : (Released(u, R) \/ Outside(u, R) \/ Entered(u, R))'
  BY <1>1 DEF Reset, Generation, Released, Outside, Entered, BarrierTypeOk, Threads
<1>4. \A u \in Threads : at'[u] \in {"reset", "open"} => Alone(u, R)'
  BY <1>1 DEF Reset, Alone, BarrierTypeOk, Threads
<1>5. at'[t] = "open" /\ count' = 0
  BY DEF Reset, BarrierTypeOk
<1> QED
  BY <1>2, <1>3, <1>4, <1>5 DEF Generation, Reset, Threads

\* The sense changes hands: the generation is the next one.
LEMMA OpenStep ==
  ASSUME BarrierTypeOk, NEW R \in Nat, Generation(R), NEW t \in Threads, Open(t)
  PROVE  BarrierTypeOk' /\ Generation(R + 1)'
<1>1. /\ at[t] = "open" /\ Alone(t, R)
      /\ Entered(t, R) /\ count = 0
  BY DEF Open, Generation, Released, Outside, Entered
<1>2. \A u \in Threads \ {t} : at[u] = "spin" /\ round[u] = R /\ threadsense[u] = 1 - Bit(R)
  BY <1>1 DEF Generation, Alone, Released, Outside, Entered, BarrierTypeOk
<1>3. BarrierTypeOk'
  BY <1>1 DEF Open, Advance, BarrierTypeOk, Places, Threads
<1>4. sense' = Bit(R + 1)
  BY <1>1, BitFlips DEF Open, Entered
<1>5. \A u \in Threads : IF u = t THEN Outside(u, R + 1)' ELSE Released(u, R + 1)'
  <2>1. Outside(t, R + 1)'
    BY <1>1, BitFlips DEF Open, Advance, Entered, Outside, BarrierTypeOk, Threads
  <2>2. \A u \in Threads \ {t} : Released(u, R + 1)'
    BY <1>2, BitFlips DEF Open, Advance, Released, BarrierTypeOk, Threads
  <2> QED
    BY <2>1, <2>2
<1>6. \A u \in Threads : at'[u] \notin {"reset", "open"}
  BY <1>5 DEF Outside, Released
<1>7. Waiting(R + 1)' = {}
  BY <1>5 DEF Waiting, Outside, Released, Open, BarrierTypeOk, Threads
<1>8. count' = Cardinality(Waiting(R + 1)')
  BY <1>1, <1>7, FS_EmptySet DEF Open
<1> QED
  BY <1>3, <1>4, <1>5, <1>6, <1>8 DEF Generation, Open, Threads

LEMMA LeaveStep ==
  ASSUME BarrierTypeOk, NEW R \in Nat, Generation(R), NEW t \in Threads, Leave(t)
  PROVE  BarrierTypeOk' /\ Generation(R)'
<1>1. at[t] = "spin" /\ Released(t, R)
  <2>1. Bit(R) \in {0, 1} /\ threadsense[t] = Bit(R)
    BY BitFlips DEF Leave, Generation
  <2>2. ~Entered(t, R) /\ ~Outside(t, R)
    BY <2>1 DEF Leave, Entered, Outside
  <2> QED
    BY <2>2 DEF Leave, Generation
<1>2. \A u \in Threads : at[u] \notin {"reset", "open"}
  BY <1>1 DEF Generation, Alone, Released, BarrierTypeOk
<1>3. BarrierTypeOk'
  BY DEF Leave, Advance, BarrierTypeOk, Places, Threads
<1>4. Outside(t, R)'
  BY <1>1 DEF Leave, Advance, Released, Outside, BarrierTypeOk, Threads
<1>5. \A u \in Threads : (Released(u, R) \/ Outside(u, R) \/ Entered(u, R))'
  BY <1>4 DEF Leave, Advance, Generation, Released, Outside, Entered, BarrierTypeOk, Threads
<1>6. Waiting(R)' = Waiting(R)
  BY <1>1 DEF Leave, Advance, Waiting, Released, BarrierTypeOk, Threads
<1>7. \A u \in Threads : at'[u] \notin {"reset", "open"}
  BY <1>2 DEF Leave, Advance, BarrierTypeOk
<1> QED
  BY <1>2, <1>3, <1>5, <1>6, <1>7 DEF Generation, Leave, Threads

LEMMA NextBarrier == BarrierInv /\ [BarrierNext]_barrierVars => BarrierInv'
<1> SUFFICES ASSUME BarrierInv, [BarrierNext]_barrierVars PROVE BarrierInv'
  OBVIOUS
<1>1. PICK R \in Nat : Generation(R)
  BY DEF BarrierInv
<1>2. BarrierTypeOk
  BY DEF BarrierInv
<1>3. CASE BarrierNext
  <2>1. PICK t \in Threads : Finish(t) \/ Stop(t) \/ Cross(t)
    BY <1>3 DEF BarrierNext
  <2>2. CASE Finish(t) \/ Stop(t)
    BY <1>1, <1>2, <2>2, WorkStep DEF BarrierInv
  <2>3. CASE Enter(t)
    BY <1>1, <1>2, <2>3, EnterStep DEF BarrierInv
  <2>4. CASE Reset(t)
    BY <1>1, <1>2, <2>4, ResetStep DEF BarrierInv
  <2>5. CASE Open(t)
    <3>1. BarrierTypeOk' /\ Generation(R + 1)'
      BY <1>1, <1>2, <2>5, OpenStep
    <3>2. R + 1 \in Nat
      OBVIOUS
    <3> QED
      BY <3>1, <3>2 DEF BarrierInv
  <2>6. CASE Leave(t)
    BY <1>1, <1>2, <2>6, LeaveStep DEF BarrierInv
  <2> QED
    BY <2>1, <2>2, <2>3, <2>4, <2>5, <2>6 DEF Cross
<1>4. CASE UNCHANGED barrierVars
  <2>1. BarrierTypeOk' /\ Generation(R)'
    BY <1>1, <1>2, <1>4 DEF barrierVars, BarrierTypeOk, Generation, Released, Outside, Entered,
                            Alone, Waiting, Threads
  <2> QED
    BY <2>1 DEF BarrierInv
<1> QED
  BY <1>3, <1>4

\* A thread in an earlier round than another one is released.
LEMMA SeparatesInv == BarrierInv => BarrierSeparates
<1> SUFFICES ASSUME BarrierInv, NEW t \in Threads, NEW u \in Threads, round[t] < round[u]
             PROVE  at[t] = "spin" /\ sense = threadsense[t] /\ round[u] = round[t] + 1
  BY DEF BarrierSeparates
<1>1. PICK R \in Nat : Generation(R)
  BY DEF BarrierInv
<1>2. round[t] \in Nat /\ round[u] \in Nat
  BY DEF BarrierInv, BarrierTypeOk
<1>3. /\ Released(t, R) \/ Outside(t, R) \/ Entered(t, R)
      /\ Released(u, R) \/ Outside(u, R) \/ Entered(u, R)
      /\ sense = Bit(R)
  BY <1>1 DEF Generation
<1>4. Released(t, R) /\ round[u] = R
  BY <1>2, <1>3 DEF Released, Outside, Entered
<1> QED
  BY <1>2, <1>3, <1>4 DEF Released

\* util.h, barrier: no thread is in a later phase than one that has not
\* arrived, for any number of threads.
THEOREM BarrierSeparatesPhases == BarrierSpec => []BarrierSeparates
  BY SeparatesInv, InitBarrier, NextBarrier, PTL DEF BarrierSpec

\* The count never exceeds the number of threads, and everything has its type.
THEOREM BarrierTypeCorrect == BarrierSpec => []BarrierTypeOk
<1>1. BarrierInv => BarrierTypeOk
  BY DEF BarrierInv
<1> QED
  BY <1>1, InitBarrier, NextBarrier, PTL DEF BarrierSpec

-----------------------------------------------------------------------------
(* The threads' programs over the barrier. *)

\* Every thread has a phase to run, and stops before it has none left.
Programmed == \A t \in Threads : LastPhase(t) \in Nat \ {0}
Phased ==
  \A t \in Threads : /\ at[t] = "work" => round[t] + 1 <= LastPhase(t)
                     /\ at[t] \in {"enter", "spin", "reset", "open"} => round[t] + 1 < LastPhase(t)

RunInv == /\ BarrierInv
          /\ lda \in Nat \ {0}
          /\ Programmed => Phased

\* The program does not change while it runs.
LEMMA SameProgram ==
  ASSUME UNCHANGED <<ncores, kernel, lda>>
  PROVE  Threads' = Threads /\ \A c : Entry(c)' = Entry(c) /\ LastPhase(c)' = LastPhase(c)
<1>1. Rows' = Rows /\ Cols' = Cols /\ Complete' = Complete
  BY DEF Rows, Cols, Complete
<1>2. Check' = Check
  BY <1>1 DEF Check
<1>3. \A c : Matmul(c)' = Matmul(c)
  BY DEF Matmul
<1>4. \A c : Vvadd(c)' = Vvadd(c)
  BY DEF Vvadd
<1>5. \A c, op, ks : Sums(c, op, ks)' = Sums(c, op, ks)
  BY <1>4 DEF Sums
<1>6. \A c : VectorEntry(c)' = VectorEntry(c)
  BY <1>1, <1>2, <1>5 DEF VectorEntry
<1>7. \A c : MatrixEntry(c)' = MatrixEntry(c)
  BY <1>2, <1>3 DEF MatrixEntry
<1>8. \A c : Entry(c)' = Entry(c)
  BY <1>6, <1>7 DEF Entry
<1> QED BY <1>8 DEF Threads, LastPhase

LEMMA InitRun == RunInit => RunInv
<1> SUFFICES ASSUME RunInit PROVE RunInv
  OBVIOUS
<1>1. BarrierInit /\ BarrierInv /\ lda \in Nat \ {0}
  BY InitBarrier, JobsAssumption DEF RunInit
<1>2. \A t \in Threads : at[t] = "work" /\ round[t] = 0
  BY <1>1 DEF BarrierInit
<1> QED BY <1>1, <1>2 DEF RunInv, Programmed, Phased

LEMMA NextRun == RunInv /\ [RunNext]_runVars => RunInv'
<1>1. ASSUME RunInv, NEW t \in Threads, Step(t) \/ Exit(t) \/ InBarrier(t)
      PROVE  RunInv'
  <2>1. UNCHANGED <<ncores, kernel, lda>>
    BY <1>1 DEF Step, Exit, InBarrier, Work, Finish, Stop, Cross, Enter, Reset, Open, Leave
  <2>2. BarrierInv'
    <3>1. BarrierNext
      BY <1>1 DEF BarrierNext, Step, Exit, InBarrier
    <3> QED BY <1>1, <3>1, NextBarrier DEF RunInv
  <2>3. ASSUME Programmed' PROVE Phased'
    <3>1. Threads' = Threads /\ \A c : LastPhase(c)' = LastPhase(c)
      BY <2>1, SameProgram
    <3>2. Phased
      BY <1>1, <2>3, <3>1 DEF RunInv, Programmed
    <3>3. at \in [Threads -> Places] /\ round \in [Threads -> Nat]
      BY <1>1 DEF RunInv, BarrierInv, BarrierTypeOk
    <3>4. \A u \in Threads \ {t} : at'[u] = at[u] /\ round'[u] = round[u]
      BY <1>1, <3>3 DEF Step, Exit, InBarrier, Finish, Stop, Cross, Enter, Reset, Open, Leave, Advance
    <3>5. LastPhase(t) \in Nat /\ round[t] \in Nat
      BY <2>3, <3>1, <3>3 DEF Programmed
    <3>6. /\ at'[t] = "work" => round'[t] + 1 <= LastPhase(t)
          /\ at'[t] \in {"enter", "spin", "reset", "open"} => round'[t] + 1 < LastPhase(t)
      <4>1. CASE Step(t)
        BY <3>3, <4>1 DEF Step, Finish, Stop
      <4>2. CASE Exit(t)
        BY <3>3, <4>2 DEF Exit, Stop
      <4>3. CASE InBarrier(t)
        <5>1. at[t] \in {"enter", "spin", "reset", "open"} /\ round[t] + 1 < LastPhase(t)
          BY <3>2, <4>3 DEF Phased, InBarrier, Cross, Enter, Reset, Open, Leave
        <5>2. CASE Enter(t) \/ Reset(t)
          BY <3>3, <5>1, <5>2 DEF Enter, Reset
        <5>3. CASE Open(t) \/ Leave(t)
          <6>1. at'[t] = "work" /\ round'[t] = round[t] + 1
            BY <3>3, <5>3 DEF Open, Leave, Advance
          <6> QED BY <3>5, <5>1, <6>1
        <5> QED BY <4>3, <5>2, <5>3 DEF InBarrier, Cross
      <4> QED BY <1>1, <4>1, <4>2, <4>3
    <3> QED BY <3>1, <3>2, <3>4, <3>6 DEF Phased
  <2> QED BY <1>1, <2>1, <2>2, <2>3 DEF RunInv
<1>2. ASSUME RunInv, UNCHANGED runVars PROVE RunInv'
  <2>1. UNCHANGED <<ncores, kernel, lda>> /\ UNCHANGED barrierVars
    BY <1>2 DEF runVars, barrierVars
  <2>2. BarrierInv'
    BY <1>2, <2>1, NextBarrier DEF RunInv
  <2>3. Programmed' => Phased'
    BY <1>2, <2>1, SameProgram DEF RunInv, Programmed, Phased, barrierVars
  <2> QED BY <1>2, <2>1, <2>2, <2>3 DEF RunInv
<1> QED BY <1>1, <1>2 DEF RunNext

\* No two threads have conflicting blocks in the phase of the same number.
Apart == \A t, u \in Threads : t # u =>
           \A p \in 1 .. LastPhase(t) : p <= LastPhase(u) =>
             \A i \in DOMAIN Entry(t)[p], j \in DOMAIN Entry(u)[p] :
               ~Conflict(Entry(t)[p][i], Entry(u)[p][j])

LEMMA ApartNoRace == RunInv /\ Programmed /\ Apart => NoRace
<1> SUFFICES ASSUME RunInv, Programmed, Apart,
                    NEW t \in Threads, NEW u \in Threads, t # u, at[t] = "work", at[u] = "work"
             PROVE  \A i \in DOMAIN Phase(t), j \in DOMAIN Phase(u) : ~Conflict(Phase(t)[i], Phase(u)[j])
  BY DEF NoRace
<1>1. PICK R \in Nat : Generation(R)
  BY DEF RunInv, BarrierInv
<1>2. round[t] = R /\ round[u] = R
  BY <1>1 DEF Generation, Released, Outside, Entered
<1>3. R + 1 <= LastPhase(t) /\ R + 1 <= LastPhase(u) /\ LastPhase(t) \in Nat /\ LastPhase(u) \in Nat
  BY <1>2 DEF RunInv, Phased, Programmed
<1>4. R + 1 \in 1 .. LastPhase(t)
  BY <1>3
<1> QED BY <1>2, <1>3, <1>4 DEF Apart, Phase

\* The programs over the barrier do not disturb it.
THEOREM RunSeparatesPhases == RunSpec => [](BarrierTypeOk /\ BarrierSeparates)
<1>1. BarrierInv => BarrierTypeOk /\ BarrierSeparates
  BY SeparatesInv DEF BarrierInv
<1> QED BY <1>1, InitRun, NextRun, PTL DEF RunSpec, RunInv

\* Nothing but the blocks of equal phases has to be apart: for any number of
\* threads and whatever the kernel, the barrier does the rest.
THEOREM RunRaceFree == RunSpec => [](Programmed /\ Apart => NoRace)
<1>1. RunInv => (Programmed /\ Apart => NoRace)
  BY ApartNoRace
<1> QED BY <1>1, InitRun, NextRun, PTL DEF RunSpec

-----------------------------------------------------------------------------
(* Kernels that share the elements of C out, for any number of threads and  *)
(* any size of the matrices.                                                *)

\* A block whose columns stay in the row: in d places, its length.
InRows(b, d) ==
  b.op # "fill" /\ b.dim = d /\ b.rows \subseteq Int /\ b.cols \subseteq 0 .. d - 1

\* Each thread keeps to rows, or to columns, of its own, in n phases.
RowsShared(n, d, own) ==
  \A t \in Threads :
    /\ DOMAIN Matmul(t) = 1 .. n
    /\ \A p \in 1 .. n : \A i \in DOMAIN Matmul(t)[p] :
         InRows(Matmul(t)[p][i], d) /\ Matmul(t)[p][i].rows \subseteq own[t]
ColsShared(n, d, own) ==
  \A t \in Threads :
    /\ DOMAIN Matmul(t) = 1 .. n
    /\ \A p \in 1 .. n : \A i \in DOMAIN Matmul(t)[p] :
         InRows(Matmul(t)[p][i], d) /\ Matmul(t)[p][i].cols \subseteq own[t]
Disjoint(own) == \A t, u \in Threads : t # u => own[t] \cap own[u] = {}

\* An address has one row and one column only while the column is in the row.
LEMMA OneRow ==
  ASSUME NEW d \in Nat, NEW r \in Int, NEW s \in Int, NEW c \in 0 .. d - 1, NEW e \in 0 .. d - 1,
         r * d + c = s * d + e
  PROVE  r = s /\ c = e
<1>1. ASSUME NEW x \in Int, NEW y \in Int, NEW v \in 0 .. d - 1, NEW w \in 0 .. d - 1,
             x * d + v = y * d + w, x < y
      PROVE  FALSE
  <2>1. PICK z \in Nat : y = x + 1 + z
    <3>1. y - x - 1 \in Nat /\ y = x + 1 + (y - x - 1)
      BY <1>1
    <3> QED BY <3>1
  <2>2. y * d = x * d + d + z * d /\ z * d \in Nat /\ x * d \in Int
    BY <2>1, SMT
  <2>3. PICK g \in Nat : g = z * d
    BY <2>2
  <2>4. PICK h \in Int : h = x * d
    BY <2>2
  <2> QED BY <1>1, <2>2, <2>3, <2>4
<1>2. r = s
  BY <1>1
<1>3. PICK h \in Int : h = r * d
  BY SMT
<1> QED BY <1>2, <1>3

LEMMA AddressesApart ==
  ASSUME NEW d \in Nat, NEW a, NEW b, InRows(a, d), InRows(b, d),
         a.rows \cap b.rows = {} \/ a.cols \cap b.cols = {}
  PROVE  ~Overlap(Addresses(a), Addresses(b))
<1> SUFFICES ASSUME NEW r \in a.rows, NEW c \in a.cols, NEW s \in b.rows, NEW e \in b.cols,
                    r * d + c = s * d + e
             PROVE  FALSE
  BY DEF Overlap, Addresses, InRows
<1>1. r \in Int /\ s \in Int /\ c \in 0 .. d - 1 /\ e \in 0 .. d - 1
  BY DEF InRows
<1>2. r = s /\ c = e
  BY <1>1, OneRow
<1> QED BY <1>2

\* The phases of a matrix product: its own, and the one that verifies.
LEMMA MatrixPhases ==
  ASSUME kernel \notin VectorSums, NEW n \in Nat, NEW t, DOMAIN Matmul(t) = 1 .. n
  PROVE  /\ LastPhase(t) = n + 1
         /\ \A p \in 1 .. n : Entry(t)[p] = Matmul(t)[p]
         /\ Entry(t)[n + 1] = <<Check>>
<1>1. Cardinality(1 .. n) = n
  BY FS_Interval
<1>2. Entry(t) = [p \in 1 .. n + 1 |-> IF p <= n THEN Matmul(t)[p] ELSE <<Check>>]
  BY <1>1 DEF Entry, MatrixEntry
<1>3. Cardinality(1 .. n + 1) = n + 1
  BY FS_Interval
<1> QED BY <1>2, <1>3 DEF LastPhase

LEMMA MatrixApart ==
  ASSUME kernel \notin VectorSums, NEW n \in Nat,
         \A t \in Threads : DOMAIN Matmul(t) = 1 .. n,
         \A t, u \in Threads : t # u =>
           \A p \in 1 .. n : \A i \in DOMAIN Matmul(t)[p], j \in DOMAIN Matmul(u)[p] :
             ~Conflict(Matmul(t)[p][i], Matmul(u)[p][j])
  PROVE  Programmed /\ Apart
<1>1. Programmed
  BY MatrixPhases DEF Programmed
<1>2. ASSUME NEW t \in Threads, NEW u \in Threads, t # u, NEW p \in 1 .. LastPhase(t),
             NEW i \in DOMAIN Entry(t)[p], NEW j \in DOMAIN Entry(u)[p]
      PROVE  ~Conflict(Entry(t)[p][i], Entry(u)[p][j])
  <2>1. LastPhase(t) = n + 1
    BY MatrixPhases
  <2>2. CASE p \in 1 .. n
    BY <1>2, <2>2, MatrixPhases
  <2>3. CASE p = n + 1
    <3>1. Entry(t)[p] = <<Check>> /\ Entry(u)[p] = <<Check>>
      BY <2>3, MatrixPhases
    <3>2. Entry(t)[p][i] = Check /\ Entry(u)[p][j] = Check
      BY <3>1
    <3>3. Check.op = "check"
      BY DEF Check, Block
    <3> QED BY <3>2, <3>3 DEF Conflict, Writes, Computes
  <2> QED BY <2>1, <2>2, <2>3
<1> QED BY <1>1, <1>2 DEF Apart

LEMMA SharedApart ==
  ASSUME kernel \notin VectorSums, NEW n \in Nat, NEW d \in Nat, NEW own,
         RowsShared(n, d, own) \/ ColsShared(n, d, own), Disjoint(own)
  PROVE  Programmed /\ Apart
<1>1. \A t \in Threads : DOMAIN Matmul(t) = 1 .. n
  BY DEF RowsShared, ColsShared
<1>2. ASSUME NEW t \in Threads, NEW u \in Threads, t # u, NEW p \in 1 .. n,
             NEW i \in DOMAIN Matmul(t)[p], NEW j \in DOMAIN Matmul(u)[p]
      PROVE  ~Conflict(Matmul(t)[p][i], Matmul(u)[p][j])
  <2> DEFINE a == Matmul(t)[p][i]
             b == Matmul(u)[p][j]
  <2>1. InRows(a, d) /\ InRows(b, d)
    BY DEF RowsShared, ColsShared
  <2>2. own[t] \cap own[u] = {}
    BY <1>2 DEF Disjoint
  <2>3. a.rows \cap b.rows = {} \/ a.cols \cap b.cols = {}
    <3>1. CASE RowsShared(n, d, own)
      BY <2>2, <3>1 DEF RowsShared
    <3>2. CASE ColsShared(n, d, own)
      BY <2>2, <3>2 DEF ColsShared
    <3> QED BY <3>1, <3>2
  <2>4. a.op # "fill"
    BY <2>1 DEF InRows
  <2> HIDE DEF a, b
  <2>5. ~Overlap(Addresses(a), Addresses(b))
    BY <2>1, <2>3, AddressesApart
  <2>6. ~Conflict(a, b)
    BY <2>4, <2>5 DEF Conflict
  <2> QED BY <2>6 DEF a, b
<1> QED BY <1>1, <1>2, MatrixApart

\* Thread c owns the numbers c*q .. (c+1)*q - 1.
Interval(q) == [c \in Threads |-> c * q .. (c + 1) * q - 1]

LEMMA IntervalsDisjoint ==
  ASSUME ncores \in Nat, NEW q \in Nat
  PROVE  Disjoint(Interval(q))
<1>1. ASSUME NEW c \in Nat, NEW d \in Nat, c < d PROVE (c + 1) * q <= d * q
  <2>1. PICK e \in Nat : d = c + 1 + e
    <3>1. d - c - 1 \in Nat /\ d = c + 1 + (d - c - 1)
      BY <1>1
    <3> QED BY <3>1
  <2>2. d * q = (c + 1) * q + e * q /\ e * q \in Nat /\ (c + 1) * q \in Nat
    BY <2>1, SMT
  <2> QED BY <2>2
<1>2. ASSUME NEW t \in Threads, NEW u \in Threads, t # u PROVE Interval(q)[t] \cap Interval(q)[u] = {}
  <2>1. t \in Nat /\ u \in Nat /\ t * q \in Nat /\ u * q \in Nat /\ (t + 1) * q \in Nat /\ (u + 1) * q \in Nat
    BY SMT DEF Threads
  <2>2. t < u \/ u < t
    BY <1>2, <2>1
  <2>3. (t + 1) * q <= u * q \/ (u + 1) * q <= t * q
    BY <1>1, <2>1, <2>2
  <2> QED BY <2>1, <2>3 DEF Interval
<1> QED BY <1>2 DEF Disjoint

\* A loop of stride 1 over the own part.
LEMMA OwnIs ==
  ASSUME NEW c \in Nat, NEW m \in Nat, ncores \in Nat \ {0}
  PROVE  /\ m \div ncores \in Nat
         /\ Own(c, ncores, m, 1) \subseteq c * (m \div ncores) .. (c + 1) * (m \div ncores) - 1
<1>1. m \div ncores \in Nat
  BY SMT
<1>2. PICK q \in Nat : q = m \div ncores
  BY <1>1
<1>3. c * q \in Int /\ (c + 1) * q \in Int
  BY SMT
<1>4. Loop(c * q, (c + 1) * q, 1) \subseteq c * q .. (c + 1) * q - 1
  BY DEF Loop
<1>5. \A x \in c * q .. (c + 1) * q - 1 : x .. x + 1 - 1 = {x}
  BY <1>3
<1>6. By(c * q, (c + 1) * q, 1) \subseteq c * q .. (c + 1) * q - 1
  BY <1>4, <1>5 DEF By
<1> QED BY <1>1, <1>2, <1>6 DEF Own

LEMMA Sizes == RunInv => ncores \in Nat \ {0} /\ lda \in Nat \ {0} /\ Threads \subseteq Nat
  BY ThreadsFinite DEF RunInv, BarrierInv, Threads

\* One phase over the own rows.
LEMMA OwnRows ==
  ASSUME RunInv, kernel \in {"ap", "ar", "do"}
  PROVE  Programmed /\ Apart
<1>1. PICK m \in Nat : m = IF kernel = "do" THEN 32 ELSE lda
  BY Sizes
<1>2. PICK q \in Nat : q = m \div ncores
  BY <1>1, Sizes, OwnIs
<1>3. \A t \in Threads : Own(t, ncores, m, 1) \subseteq Interval(q)[t]
  BY <1>1, <1>2, Sizes, OwnIs DEF Interval
<1>4. ASSUME NEW t \in Threads
      PROVE  \E b : /\ Matmul(t) = <<<<b>>>> /\ InRows(b, m)
                    /\ b.rows \subseteq Own(t, ncores, m, 1)
  <2>0. Own(t, ncores, m, 1) \subseteq Int /\ All(m) = 0 .. m - 1
    BY <1>2, <1>3, Sizes, SMT DEF Interval, All
  <2>1. CASE kernel = "ap"
    <3>1. Matmul(t) = ap_matmul(t, ncores, lda)
      BY <2>1 DEF Matmul
    <3> QED BY <1>1, <2>0, <2>1, <3>1 DEF ap_matmul, Once, Block, InRows
  <2>2. CASE kernel = "ar"
    <3>1. Matmul(t) = ar_matmul(t, ncores, lda)
      BY <2>2 DEF Matmul
    <3> QED BY <1>1, <2>0, <2>2, <3>1 DEF ar_matmul, Once, Block, InRows
  <2>3. CASE kernel = "do"
    <3>1. Matmul(t) = do_matmul(t, ncores, lda)
      BY <2>3 DEF Matmul
    <3> QED BY <1>1, <2>0, <2>3, <3>1 DEF do_matmul, Once, Block, InRows
  <2> QED BY <2>1, <2>2, <2>3
<1>5. RowsShared(1, m, Interval(q))
  <2> SUFFICES ASSUME NEW t \in Threads
               PROVE  /\ DOMAIN Matmul(t) = 1 .. 1
                      /\ \A p \in 1 .. 1 : \A i \in DOMAIN Matmul(t)[p] :
                           /\ InRows(Matmul(t)[p][i], m)
                           /\ Matmul(t)[p][i].rows \subseteq Interval(q)[t]
    BY DEF RowsShared
  <2>1. PICK b : Matmul(t) = <<<<b>>>> /\ InRows(b, m) /\ b.rows \subseteq Own(t, ncores, m, 1)
    BY <1>4
  <2> QED BY <1>3, <2>1
<1> QED BY <1>5, Sizes, IntervalsDisjoint, SharedApart DEF VectorSums

\* A quotient of a number below q*w is below q.
LEMMA QuotientBelow ==
  ASSUME NEW q \in Nat, NEW w \in Nat, w > 0, NEW x \in 0 .. q * w - 1
  PROVE  x \div w \in 0 .. q - 1
<1>1. q * w \in Nat /\ x \in Nat /\ x < q * w
  BY SMT
<1>2. x \div w \in Nat
  BY <1>1, SMT
<1>3. PICK y \in Nat : y = x \div w
  BY <1>2
<1>4. x = w * y + (x % w) /\ x % w \in Nat
  BY <1>1, <1>3, SMT
<1>5. y < q
  <2> SUFFICES ASSUME y >= q PROVE FALSE
    OBVIOUS
  <2>1. PICK e \in Nat : y = q + e
    <3>1. y - q \in Nat /\ y = q + (y - q)
      OBVIOUS
    <3> QED BY <3>1
  <2>2. w * y = q * w + w * e /\ w * e \in Nat
    BY <2>1, SMT
  <2>3. PICK z \in Nat : z = w * e
    BY <2>2
  <2> QED BY <1>1, <1>4, <2>2, <2>3
<1> QED BY <1>3, <1>5

\* The own rows one at a time, with a barrier after each piece.
LEMMA OwnRowsInTurn ==
  ASSUME RunInv, kernel \in {"ad", "an"}
  PROVE  Programmed /\ Apart
<1>0. PICK q \in Nat : q = lda \div ncores
  BY Sizes, OwnIs
<1>1. PICK w \in Nat : w > 0 /\ w = IF kernel = "ad" THEN 16 ELSE lda
  BY Sizes
<1>8. PICK d \in Nat : d = IF kernel = "ad" THEN 32 ELSE lda
  BY Sizes
<1>2. PICK n \in Nat : n = q * w
  BY <1>1, SMT
<1>3. \A x \in 0 .. q * w - 1 : x \div w \in 0 .. q - 1
  BY <1>1, QuotientBelow
<1>4. ASSUME NEW t \in Threads
      PROVE  /\ DOMAIN Matmul(t) = 1 .. n + 1
             /\ Matmul(t)[n + 1] = <<>>
             /\ \A p \in 1 .. n : \E b : /\ Matmul(t)[p] = <<b>> /\ b.op # "fill" /\ b.dim = d
                                         /\ b.cols \subseteq 0 .. d - 1
                                         /\ b.rows = {t * q + (p - 1) \div w}
  <2>1. CASE kernel = "ad"
    <3>1. Matmul(t) = ad_matmul(t, ncores, lda) /\ w = 16
      BY <1>1, <2>1 DEF Matmul
    <3>2. Matmul(t) = [p \in 1 .. n + 1 |->
                         IF p <= n
                         THEN <<Block("add", 32, {t * q + (p - 1) \div w}, By(0, 32, 4),
                                      {2 * ((p - 1) % w), 2 * ((p - 1) % w) + 1})>>
                         ELSE <<>>]
      BY <1>0, <1>2, <3>1 DEF ad_matmul, Then
    <3>3. DOMAIN Matmul(t) = 1 .. n + 1 /\ Matmul(t)[n + 1] = <<>>
      BY <3>2
    <3>4. ASSUME NEW p \in 1 .. n
          PROVE  \E b : /\ Matmul(t)[p] = <<b>> /\ b.op # "fill" /\ b.dim = d
                        /\ b.cols \subseteq 0 .. d - 1
                        /\ b.rows = {t * q + (p - 1) \div w}
      <4>1. PICK b : b = Block("add", 32, {t * q + (p - 1) \div w}, By(0, 32, 4),
                                {2 * ((p - 1) % w), 2 * ((p - 1) % w) + 1})
        OBVIOUS
      <4>2. Matmul(t)[p] = <<b>>
        BY <3>2, <4>1
      <4>3. b.op # "fill" /\ b.dim = 32 /\ b.rows = {t * q + (p - 1) \div w} /\ b.cols = By(0, 32, 4)
        BY <4>1 DEF Block
      <4>4. By(0, 32, 4) \subseteq 0 .. 31
        BY DEF By, Loop
      <4> QED BY <1>8, <2>1, <4>2, <4>3, <4>4
    <3> QED BY <3>3, <3>4
  <2>2. CASE kernel = "an"
    <3>1. Matmul(t) = an_matmul(t, ncores, lda) /\ w = lda
      BY <1>1, <2>2 DEF Matmul
    <3>2. Matmul(t) = [p \in 1 .. n + 1 |->
                         IF p <= n
                         THEN <<Block("add", lda, {t * q + (p - 1) \div w}, All(lda),
                                      {(p - 1) % w})>>
                         ELSE <<>>]
      BY <1>0, <1>2, <3>1 DEF an_matmul, Then
    <3>3. DOMAIN Matmul(t) = 1 .. n + 1 /\ Matmul(t)[n + 1] = <<>>
      BY <3>2
    <3>4. ASSUME NEW p \in 1 .. n
          PROVE  \E b : /\ Matmul(t)[p] = <<b>> /\ b.op # "fill" /\ b.dim = d
                        /\ b.cols \subseteq 0 .. d - 1
                        /\ b.rows = {t * q + (p - 1) \div w}
      <4>1. PICK b : b = Block("add", lda, {t * q + (p - 1) \div w}, All(lda), {(p - 1) % w})
        OBVIOUS
      <4>2. Matmul(t)[p] = <<b>>
        BY <3>2, <4>1
      <4>3. b.op # "fill" /\ b.dim = lda /\ b.rows = {t * q + (p - 1) \div w} /\ b.cols = All(lda)
        BY <4>1 DEF Block
      <4> QED BY <1>8, <2>2, <4>2, <4>3 DEF All
    <3> QED BY <3>3, <3>4
  <2> QED BY <2>1, <2>2
<1>5. \A t \in Threads, y \in 0 .. q - 1 : t * q + y \in Interval(q)[t]
  <2> SUFFICES ASSUME NEW t \in Threads, NEW y \in 0 .. q - 1 PROVE t * q + y \in Interval(q)[t]
    OBVIOUS
  <2>1. t \in Nat /\ t * q \in Nat /\ (t + 1) * q = t * q + q
    BY <1>0, Sizes, SMT
  <2> QED BY <1>0, <2>1 DEF Interval
<1>6. RowsShared(n + 1, d, Interval(q))
  <2> SUFFICES ASSUME NEW t \in Threads, NEW p \in 1 .. n + 1, NEW i \in DOMAIN Matmul(t)[p]
               PROVE  /\ InRows(Matmul(t)[p][i], d)
                      /\ Matmul(t)[p][i].rows \subseteq Interval(q)[t]
    BY <1>4 DEF RowsShared
  <2>1. p # n + 1
    BY <1>4
  <2>2. p \in 1 .. n /\ p - 1 \in 0 .. n - 1
    BY <1>2, <2>1
  <2>3. PICK b : /\ Matmul(t)[p] = <<b>> /\ b.op # "fill" /\ b.dim = d
                 /\ b.cols \subseteq 0 .. d - 1
                 /\ b.rows = {t * q + (p - 1) \div w}
    BY <1>4, <2>2
  <2>4. PICK y \in 0 .. q - 1 : y = (p - 1) \div w
    BY <1>2, <1>3, <2>2
  <2>5. t * q + y \in Interval(q)[t]
    BY <1>5
  <2>6. Matmul(t)[p][i] = b
    BY <2>3
  <2>7. t * q + y \in Int
    BY Sizes, SMT
  <2> QED BY <2>3, <2>4, <2>5, <2>6, <2>7 DEF InRows
<1> QED BY <1>0, <1>2, <1>6, Sizes, IntervalsDisjoint, SharedApart DEF VectorSums

AllRows(s, d, own) == \A i \in DOMAIN s : InRows(s[i], d) /\ s[i].rows \subseteq own
AllCols(s, d, own) == \A i \in DOMAIN s : InRows(s[i], d) /\ s[i].cols \subseteq own

Holds(s, x) == \E j \in DOMAIN s : x = s[j]

\* What a concatenation holds, one of its parts holds.
LEMMA PartOfConcat ==
  ASSUME NEW S, NEW a \in Seq(S), NEW b \in Seq(S), NEW c, c = a \o b, NEW i \in DOMAIN c
  PROVE  Holds(a, c[i]) \/ Holds(b, c[i])
<1>0. i \in 1 .. Len(a) + Len(b)
  OBVIOUS
<1>1. CASE i <= Len(a)
  <2>1. c[i] = a[i] /\ i \in DOMAIN a
    BY <1>0, <1>1
  <2> QED BY <2>1 DEF Holds
<1>2. CASE i > Len(a)
  <2>1. c[i] = b[i - Len(a)] /\ i - Len(a) \in DOMAIN b
    BY <1>0, <1>2
  <2> QED BY <2>1 DEF Holds
<1> QED BY <1>0, <1>1, <1>2

\* Two halves that only cores 0 and 1 work on, or core 0 if there is no other.
TwoParts(s1, s2) ==
  \A t \in Threads : Matmul(t) = Once((IF First(t) THEN s1 ELSE <<>>)
                                         \o (IF Second(t, ncores) THEN s2 ELSE <<>>))

LEMMA TwoHalves ==
  ASSUME RunInv, kernel \notin VectorSums, NEW S, NEW s1 \in Seq(S), NEW s2 \in Seq(S),
         TwoParts(s1, s2),
         NEW d \in Nat, NEW X, NEW Y, X \cap Y = {},
         (AllRows(s1, d, X) /\ AllRows(s2, d, Y)) \/ (AllCols(s1, d, X) /\ AllCols(s2, d, Y))
  PROVE  Programmed /\ Apart
<1> DEFINE own == [t \in Threads |-> (IF First(t) THEN X ELSE {})
                                       \cup (IF Second(t, ncores) THEN Y ELSE {})]
<1>1. Disjoint(own)
  <2> SUFFICES ASSUME NEW t \in Threads, NEW u \in Threads, t # u PROVE own[t] \cap own[u] = {}
    BY DEF Disjoint
  <2>1. t \in Nat /\ u \in Nat /\ ncores # 1
    BY Sizes DEF Threads
  <2>2. own[t] = (IF First(t) THEN X ELSE {}) \cup (IF Second(t, ncores) THEN Y ELSE {})
    OBVIOUS
  <2>3. own[u] = (IF First(u) THEN X ELSE {}) \cup (IF Second(u, ncores) THEN Y ELSE {})
    OBVIOUS
  <2>4. ~(First(t) /\ First(u))
    BY DEF First
  <2>5. ~(Second(t, ncores) /\ Second(u, ncores))
    BY <2>1 DEF Second
  <2> HIDE DEF own
  <2> QED BY <2>2, <2>3, <2>4, <2>5
<1>2. ASSUME NEW t \in Threads
      PROVE  /\ DOMAIN Matmul(t) = 1 .. 1
             /\ \A i \in DOMAIN Matmul(t)[1] :
                  \/ First(t) /\ \E j \in DOMAIN s1 : Matmul(t)[1][i] = s1[j]
                  \/ Second(t, ncores) /\ \E j \in DOMAIN s2 : Matmul(t)[1][i] = s2[j]
  <2>0. <<>> \in Seq(S)
    OBVIOUS
  <2>1. PICK a \in Seq(S) : a = IF First(t) THEN s1 ELSE <<>>
    <3>1. CASE First(t)
      BY <3>1
    <3>2. CASE ~First(t)
      BY <2>0, <3>2
    <3> QED BY <3>1, <3>2
  <2>2. PICK b \in Seq(S) : b = IF Second(t, ncores) THEN s2 ELSE <<>>
    <3>1. CASE Second(t, ncores)
      BY <3>1
    <3>2. CASE ~Second(t, ncores)
      BY <2>0, <3>2
    <3> QED BY <3>1, <3>2
  <2>3. PICK c : c = a \o b
    OBVIOUS
  <2>4. Matmul(t) = Once(c)
    BY <2>1, <2>2, <2>3 DEF TwoParts
  <2>5. DOMAIN Matmul(t) = 1 .. 1 /\ Matmul(t)[1] = c
    BY <2>4 DEF Once
  <2>6. ASSUME NEW i \in DOMAIN c
        PROVE  Holds(a, c[i]) \/ Holds(b, c[i])
    BY <2>1, <2>2, <2>3, PartOfConcat
  <2>7. (First(t) /\ a = s1) \/ DOMAIN a = {}
    BY <2>1
  <2>8. (Second(t, ncores) /\ b = s2) \/ DOMAIN b = {}
    BY <2>2
  <2> QED BY <2>5, <2>6, <2>7, <2>8 DEF Holds
<1>3. CASE AllRows(s1, d, X) /\ AllRows(s2, d, Y)
  <2>1. RowsShared(1, d, own)
    BY <1>2, <1>3 DEF RowsShared, AllRows
  <2> QED BY <1>1, <2>1, SharedApart
<1>4. CASE AllCols(s1, d, X) /\ AllCols(s2, d, Y)
  <2>1. ColsShared(1, d, own)
    BY <1>2, <1>4 DEF ColsShared, AllCols
  <2> QED BY <1>1, <2>1, SharedApart
<1> QED BY <1>3, <1>4

LEMMA HalvesApart ==
  ASSUME RunInv, kernel \notin VectorSums, NEW a, NEW b, NEW d \in Nat,
         \A t \in Threads : Matmul(t) = Once(Halves(t, ncores, a, b)),
         InRows(a, d), InRows(b, d), a.rows \cap b.rows = {} \/ a.cols \cap b.cols = {}
  PROVE  Programmed /\ Apart
<1>1. <<a>> \in Seq({a, b}) /\ <<b>> \in Seq({a, b})
  OBVIOUS
<1>2. TwoParts(<<a>>, <<b>>)
  BY DEF Halves, TwoParts
<1>3. CASE a.rows \cap b.rows = {}
  <2>1. AllRows(<<a>>, d, a.rows) /\ AllRows(<<b>>, d, b.rows)
    BY DEF AllRows
  <2> QED BY <1>1, <1>2, <1>3, <2>1, TwoHalves
<1>4. CASE a.cols \cap b.cols = {}
  <2>1. AllCols(<<a>>, d, a.cols) /\ AllCols(<<b>>, d, b.cols)
    BY DEF AllCols
  <2> QED BY <1>1, <1>2, <1>4, <2>1, TwoHalves
<1> QED BY <1>3, <1>4

\* The kernels for two cores, with any number of them, on 32 columns or more.
LEMMA HalfKernels ==
  ASSUME RunInv, kernel \in {"al", "bf", "av", "cv", "bo", "bk"}, kernel # "bk" => lda >= 32
  PROVE  Programmed /\ Apart
<1>1. kernel \notin VectorSums
  BY DEF VectorSums
<1>2. (0 .. 15) \cap (16 .. 31) = {}
  OBVIOUS
<1>3. By(0, 16, 2) \cap By(16, 32, 2) = {}
  <2>1. By(0, 16, 2) \subseteq 0 .. 15
    BY DEF By, Loop
  <2>2. By(16, 32, 2) \subseteq 16 .. 31
    BY DEF By, Loop
  <2> QED BY <2>1, <2>2
<1>10. PICK d \in Nat : d >= 32 /\ d = IF kernel = "bk" THEN 32 ELSE lda
  BY Sizes
<1>11. /\ 0 .. 15 \subseteq 0 .. d - 1 /\ 16 .. 31 \subseteq 0 .. d - 1
       /\ By(0, 32, 8) \subseteq 0 .. d - 1 /\ All(32) \subseteq 0 .. d - 1
  <2>1. By(0, 32, 8) \subseteq 0 .. 31
    BY DEF By, Loop
  <2> QED BY <1>10, <2>1 DEF All
<1>12. All(32) \subseteq Int /\ By(0, 16, 2) \subseteq Int /\ By(16, 32, 2) \subseteq Int
  BY DEF All, By, Loop
<1>4. CASE kernel = "al"
  <2>1. \A t \in Threads : Matmul(t) = al_matmul(t, ncores, lda)
    BY <1>4 DEF Matmul
  <2> QED BY <1>1, <1>2, <1>3, <1>10, <1>11, <1>12, <1>4, <2>1, HalvesApart DEF al_matmul, Block, InRows, VectorSums
<1>5. CASE kernel = "bf"
  <2>1. \A t \in Threads : Matmul(t) = bf_matmul(t, ncores, lda)
    BY <1>5 DEF Matmul
  <2> QED BY <1>1, <1>2, <1>3, <1>10, <1>11, <1>12, <1>5, <2>1, HalvesApart DEF bf_matmul, Block, InRows, VectorSums
<1>6. CASE kernel = "av"
  <2>1. \A t \in Threads : Matmul(t) = av_matmul(t, ncores, lda)
    BY <1>6 DEF Matmul
  <2> QED BY <1>1, <1>2, <1>3, <1>10, <1>11, <1>12, <1>6, <2>1, HalvesApart DEF av_matmul, Block, InRows, VectorSums, av_first, av_second
<1>7. CASE kernel = "cv"
  <2>1. \A t \in Threads : Matmul(t) = cv_matmul(t, ncores, lda)
    BY <1>7 DEF Matmul
  <2> QED BY <1>1, <1>2, <1>3, <1>10, <1>11, <1>12, <1>7, <2>1, HalvesApart DEF cv_matmul, Block, InRows, VectorSums, cv_first, cv_second
<1>8. CASE kernel = "bo"
  <2>1. \A t \in Threads : Matmul(t) = bo_matmul(t, ncores, lda)
    BY <1>8 DEF Matmul
  <2> QED BY <1>1, <1>2, <1>3, <1>10, <1>11, <1>12, <1>8, <2>1, HalvesApart DEF bo_matmul, Block, InRows, VectorSums
<1>9. CASE kernel = "bk"
  <2>1. \A t \in Threads : Matmul(t) = bk_matmul(t, ncores, lda)
    BY <1>9 DEF Matmul
  <2> QED BY <1>1, <1>2, <1>3, <1>10, <1>11, <1>12, <1>9, <2>1, HalvesApart DEF bk_matmul, Block, InRows, VectorSums
<1> QED BY <1>4, <1>5, <1>6, <1>7, <1>8, <1>9

LEMMA FourApart ==
  ASSUME RunInv, kernel \notin VectorSums, NEW a1, NEW a2, NEW b1, NEW b2,
         TwoParts(<<a1, a2>>, <<b1, b2>>), NEW d \in Nat,
         \A b \in {a1, a2, b1, b2} : InRows(b, d),
         NEW X, NEW Y, X \cap Y = {},
         \/ a1.rows \subseteq X /\ a2.rows \subseteq X /\ b1.rows \subseteq Y /\ b2.rows \subseteq Y
         \/ a1.cols \subseteq X /\ a2.cols \subseteq X /\ b1.cols \subseteq Y /\ b2.cols \subseteq Y
  PROVE  Programmed /\ Apart
<1>1. PICK S : S = {a1, a2, b1, b2}
  OBVIOUS
<1>2. <<a1, a2>> \in Seq(S) /\ <<b1, b2>> \in Seq(S)
  BY <1>1
<1>3. CASE a1.rows \subseteq X /\ a2.rows \subseteq X /\ b1.rows \subseteq Y /\ b2.rows \subseteq Y
  <2>1. AllRows(<<a1, a2>>, d, X)
    BY <1>3 DEF AllRows
  <2>2. AllRows(<<b1, b2>>, d, Y)
    BY <1>3 DEF AllRows
  <2> QED BY <1>2, <2>1, <2>2, TwoHalves
<1>4. CASE a1.cols \subseteq X /\ a2.cols \subseteq X /\ b1.cols \subseteq Y /\ b2.cols \subseteq Y
  <2>1. AllCols(<<a1, a2>>, d, X)
    BY <1>4 DEF AllCols
  <2>2. AllCols(<<b1, b2>>, d, Y)
    BY <1>4 DEF AllCols
  <2> QED BY <1>2, <2>1, <2>2, TwoHalves
<1> QED BY <1>3, <1>4

\* A loop over whole blocks of 8 does not overshoot.
LEMMA WholeBlocks ==
  ASSUME NEW m \in Nat, m % 8 = 0
  PROVE  By(0, m, 8) \subseteq 0 .. m - 1
<1>1. ASSUME NEW x \in Loop(0, m, 8) PROVE x .. x + 8 - 1 \subseteq 0 .. m - 1
  BY <1>1, SMT DEF Loop
<1> QED BY <1>1 DEF By

\* Two blocks for a half: columns in cl and df, rows in bh and bj.
LEMMA QuarterKernels ==
  ASSUME RunInv, kernel \in {"cl", "df", "bh", "bj"},
         kernel \in {"cl", "df"} => lda >= 32, kernel \in {"bh", "bj"} => lda % 8 = 0
  PROVE  Programmed /\ Apart
<1>1. kernel \notin VectorSums
  BY DEF VectorSums
<1>2. CASE kernel = "df"
  <2>1. \A t \in Threads : Matmul(t) = df_matmul(t, ncores, lda)
    BY <1>2 DEF Matmul
  <2>2. (0 .. 15) \cap (16 .. 31) = {}
    OBVIOUS
  <2>3. PICK a1, a2, b1, b2 :
          /\ a1 = Block("add", lda, 0 .. 15, 0 .. 15, All(32))
          /\ a2 = Block("add", lda, 16 .. 31, 0 .. 15, All(32))
          /\ b1 = Block("add", lda, 16 .. 31, 16 .. 31, All(32))
          /\ b2 = Block("add", lda, 0 .. 15, 16 .. 31, All(32))
    OBVIOUS
  <2>4. TwoParts(<<a1, a2>>, <<b1, b2>>)
    BY <2>1, <2>3 DEF TwoParts, df_matmul, df_first, df_second
  <2>5. /\ a1.op = "add" /\ a2.op = "add" /\ b1.op = "add" /\ b2.op = "add"
        /\ a1.cols = 0 .. 15 /\ a2.cols = 0 .. 15 /\ b1.cols = 16 .. 31 /\ b2.cols = 16 .. 31
    BY <2>3 DEF Block
  <2>6. PICK X, Y : X = 0 .. 15 /\ Y = 16 .. 31
    OBVIOUS
  <2>10. /\ 0 .. 15 \subseteq 0 .. lda - 1 /\ 16 .. 31 \subseteq 0 .. lda - 1 /\ lda \in Nat
         /\ 0 .. 15 \subseteq Int /\ 16 .. 31 \subseteq Int
    BY <1>2, Sizes
  <2>11. InRows(a1, lda) /\ InRows(a2, lda) /\ InRows(b1, lda) /\ InRows(b2, lda)
    BY <2>3, <2>10 DEF InRows, Block
  <2>7. X \cap Y = {} /\ \A b \in {a1, a2, b1, b2} : InRows(b, lda)
    BY <2>2, <2>6, <2>11
  <2>8. a1.cols \subseteq X /\ a2.cols \subseteq X /\ b1.cols \subseteq Y /\ b2.cols \subseteq Y
    BY <2>5, <2>6
  <2> QED BY <1>1, <2>4, <2>7, <2>8, <2>10, FourApart
<1>3. CASE kernel \in {"bh", "bj"}
  <2>1. \A t \in Threads : Matmul(t) = bh_matmul(t, ncores, lda)
    BY <1>3 DEF Matmul, bj_matmul
  <2>2. PICK half \in Int : half = lda \div 2
    BY Sizes
  <2>3. (0 .. half - 1) \cap (half .. lda - 1) = {}
    BY Sizes
  <2>4. PICK a1, a2, b1, b2 :
          /\ a1 = Block("add", lda, 0 .. half - 1, By(0, lda, 8), half * 0 .. half * (0 + 1) - 1)
          /\ a2 = Block("add", lda, 0 .. half - 1, By(0, lda, 8), half * 1 .. half * (1 + 1) - 1)
          /\ b1 = Block("add", lda, half .. lda - 1, By(0, lda, 8), half * 1 .. half * (1 + 1) - 1)
          /\ b2 = Block("add", lda, half .. lda - 1, By(0, lda, 8), half * 0 .. half * (0 + 1) - 1)
    OBVIOUS
  <2>5. TwoParts(<<a1, a2>>, <<b1, b2>>)
    BY <2>1, <2>2, <2>4 DEF TwoParts, bh_matmul
  <2>6. /\ a1.op = "add" /\ a2.op = "add" /\ b1.op = "add" /\ b2.op = "add"
        /\ a1.rows = 0 .. half - 1 /\ a2.rows = 0 .. half - 1
        /\ b1.rows = half .. lda - 1 /\ b2.rows = half .. lda - 1
    BY <2>4 DEF Block
  <2>7. PICK X, Y : X = 0 .. half - 1 /\ Y = half .. lda - 1
    OBVIOUS
  <2>10. By(0, lda, 8) \subseteq 0 .. lda - 1 /\ lda \in Nat
    BY <1>3, Sizes, WholeBlocks
  <2>11. 0 .. half - 1 \subseteq Int /\ half .. lda - 1 \subseteq Int
    OBVIOUS
  <2>12. InRows(a1, lda) /\ InRows(a2, lda) /\ InRows(b1, lda) /\ InRows(b2, lda)
    BY <2>4, <2>10, <2>11 DEF InRows, Block
  <2>8. X \cap Y = {} /\ \A b \in {a1, a2, b1, b2} : InRows(b, lda)
    BY <2>3, <2>7, <2>12
  <2>9. a1.rows \subseteq X /\ a2.rows \subseteq X /\ b1.rows \subseteq Y /\ b2.rows \subseteq Y
    BY <2>6, <2>7
  <2>13. lda \in Nat
    BY <2>10
  <2> QED BY <1>1, <2>5, <2>8, <2>9, <2>13, FourApart
<1>4. CASE kernel = "cl"
  <2>1. \A t \in Threads : Matmul(t) = cl_matmul(t, ncores, lda)
    BY <1>4 DEF Matmul
  <2>2. PICK a, b1, b2 :
          /\ a = Block("add", lda, All(32), 0 .. 15, All(32))
          /\ b1 = Block("add", lda, 16 .. 31, 16 .. 31, All(32))
          /\ b2 = Block("add", lda, 0 .. 15, 16 .. 31, All(32))
    OBVIOUS
  <2>3. TwoParts(<<a>>, <<b1, b2>>)
    BY <2>1, <2>2 DEF TwoParts, cl_matmul, cl_second
  <2>4. PICK S : S = {a, b1, b2}
    OBVIOUS
  <2>5. <<a>> \in Seq(S) /\ <<b1, b2>> \in Seq(S)
    BY <2>4
  <2>6. PICK X, Y : X = 0 .. 15 /\ Y = 16 .. 31
    OBVIOUS
  <2>7. X \cap Y = {}
    BY <2>6
  <2>9. lda \in Nat /\ lda >= 32
    BY <1>4, Sizes
  <2>8. AllCols(<<a>>, lda, X) /\ AllCols(<<b1, b2>>, lda, Y)
    <3>1. a.cols = X /\ b1.cols = Y /\ b2.cols = Y
      BY <2>2, <2>6 DEF Block
    <3>2. /\ 0 .. 15 \subseteq 0 .. lda - 1 /\ 16 .. 31 \subseteq 0 .. lda - 1
          /\ 0 .. 15 \subseteq Int /\ 16 .. 31 \subseteq Int /\ All(32) \subseteq Int
      BY <2>9 DEF All
    <3>3. InRows(a, lda) /\ InRows(b1, lda) /\ InRows(b2, lda)
      BY <2>2, <3>2 DEF InRows, Block
    <3> QED BY <3>1, <3>3 DEF AllCols
  <2> QED BY <1>1, <2>3, <2>5, <2>7, <2>8, <2>9, TwoHalves
<1> QED BY <1>2, <1>3, <1>4

-----------------------------------------------------------------------------
(* Elements dealt out in turn: thread c takes c, c + ncores, c + 2*ncores ...*)
Strided == [c \in Threads |-> {c + ncores * q : q \in Nat}]

LEMMA StridesDisjoint == RunInv => Disjoint(Strided)
<1> SUFFICES ASSUME RunInv PROVE Disjoint(Strided)
  OBVIOUS
<1>1. ASSUME NEW n \in Nat, NEW t \in 0 .. n - 1, NEW u \in 0 .. n - 1, NEW p \in Nat, NEW q \in Nat,
             t + n * p = u + n * q, p < q
      PROVE  FALSE
  <2>1. PICK e \in Nat : q = p + 1 + e
    <3>1. q - p - 1 \in Nat /\ q = p + 1 + (q - p - 1)
      BY <1>1
    <3> QED BY <3>1
  <2>2. n * q = n * p + n + n * e /\ n * e \in Nat /\ n * p \in Nat
    BY <2>1, SMT
  <2>3. PICK v \in Nat : v = n * e
    BY <2>2
  <2>4. PICK w \in Nat : w = n * p
    BY <2>2
  <2> QED BY <1>1, <2>2, <2>3, <2>4
<1>2. ASSUME NEW t \in Threads, NEW u \in Threads, t # u, NEW p \in Nat, NEW q \in Nat,
             t + ncores * p = u + ncores * q
      PROVE  FALSE
  <2>1. ncores \in Nat /\ t \in 0 .. ncores - 1 /\ u \in 0 .. ncores - 1
    BY Sizes DEF Threads
  <2>2. p = q
    BY <1>1, <1>2, <2>1
  <2>3. PICK w \in Nat : w = ncores * p
    BY <2>1, SMT
  <2> QED BY <1>2, <2>1, <2>2, <2>3
<1> QED BY <1>2 DEF Disjoint, Strided

LEMMA StridedLoop ==
  ASSUME RunInv, NEW t \in Threads, NEW k \in 1 .. 4, NEW m, NEW x \in Loop(t, m, k * ncores), m \in Nat
  PROVE  x \in Int /\ \A r \in 0 .. 3 : x + r * ncores \in Strided[t]
<1>1. ncores \in Nat \ {0} /\ t \in Nat
  BY Sizes
<1>2. PICK s \in Nat : s = k * ncores /\ s > 0
  BY <1>1, SMT
<1>3. x \in t .. m - 1 /\ (x - t) % s = 0
  BY <1>2 DEF Loop
<1>4. PICK d \in Nat : d = x - t
  BY <1>1, <1>3
<1>5. PICK y \in Nat : y = d \div s
  BY <1>2, <1>4, SMT
<1>6. d = s * y
  BY <1>2, <1>3, <1>4, <1>5, SMT
<1>7. s * y = ncores * (k * y)
  BY <1>1, <1>2, <1>5, SMT
<1>8. ASSUME NEW r \in 0 .. 3 PROVE x + r * ncores \in Strided[t]
  <2>0. PICK v \in Nat : v = k * y
    BY <1>5, SMT
  <2>1. PICK z \in Nat : z = k * y + r
    BY <2>0
  <2>2. ncores * z = ncores * (k * y) + r * ncores
    BY <1>1, <1>5, <2>1, SMT
  <2>3. x + r * ncores = t + ncores * z
    <3>1. PICK g \in Int : g = r * ncores
      BY <1>1, SMT
    <3>2. PICK w \in Int : w = ncores * z
      BY <1>1, <2>1, SMT
    <3> QED BY <1>1, <1>3, <1>4, <1>6, <1>7, <2>2, <3>1, <3>2
  <2> QED BY <2>1, <2>3 DEF Strided
<1> QED BY <1>3, <1>8

LEMMA StridesNatural ==
  ASSUME RunInv, NEW t \in Threads
  PROVE  Strided[t] \subseteq Nat
<1> SUFFICES ASSUME NEW q \in Nat PROVE t + ncores * q \in Nat
  BY DEF Strided
<1>1. ncores * q \in Nat /\ t \in Nat
  BY Sizes, SMT
<1> QED BY <1>1

\* Pairs of columns that are dealt out in whole turns stay in the row.
LEMMA WholePairs ==
  ASSUME RunInv, NEW t \in Threads, lda % (2 * ncores) = 0
  PROVE  UNION {{i, i + ncores} : i \in Loop(t, lda, 2 * ncores)} \subseteq 0 .. lda - 1
<1>0. ncores \in Nat \ {0} /\ lda \in Nat \ {0} /\ t \in Nat /\ t < ncores
  BY Sizes DEF Threads
<1>1. PICK s \in Nat : s = 2 * ncores /\ s > 0
  BY <1>0
<1>2. ASSUME NEW x \in Loop(t, lda, s) PROVE x \in 0 .. lda - 1 /\ x + ncores \in 0 .. lda - 1
  <2>1. x \in t .. lda - 1 /\ (x - t) % s = 0
    BY <1>2 DEF Loop
  <2>2. PICK e \in Nat : e = x - t /\ e % s = 0
    BY <1>0, <2>1
  <2>3. PICK y \in Nat : y = e \div s
    BY <1>1, <2>2, SMT
  <2>4. e = s * y
    BY <1>1, <2>2, <2>3, SMT
  <2>5. PICK z \in Nat : z = lda \div s
    BY <1>0, <1>1, SMT
  <2>6. lda = s * z
    BY <1>0, <1>1, <2>5, SMT
  <2>7. y < z
    <3> SUFFICES ASSUME y >= z PROVE FALSE
      OBVIOUS
    <3>1. PICK g \in Nat : y = z + g
      <4>1. y - z \in Nat /\ y = z + (y - z)
        OBVIOUS
      <4> QED BY <4>1
    <3>2. s * y = s * z + s * g /\ s * g \in Nat
      BY <3>1, SMT
    <3>3. PICK h \in Nat : h = s * g
      BY <3>2
    <3> QED BY <1>0, <2>1, <2>2, <2>4, <2>6, <3>2, <3>3
  <2>8. PICK g \in Nat : z = y + 1 + g
    <3>1. z - y - 1 \in Nat /\ z = y + 1 + (z - y - 1)
      BY <2>7
    <3> QED BY <3>1
  <2>9. s * z = s * y + s + s * g /\ s * g \in Nat
    BY <2>8, SMT
  <2>10. PICK h \in Nat : h = s * g
    BY <2>9
  <2> QED BY <1>0, <1>1, <2>1, <2>2, <2>4, <2>6, <2>9, <2>10
<1> QED BY <1>1, <1>2

\* A vector sum whose loops keep to elements of the thread.
LEMMA VectorApart ==
  ASSUME kernel \in VectorSums, NEW own, Disjoint(own), Threads \subseteq Nat,
         lda \in Nat, \A t \in Threads : own[t] \subseteq Int,
         \A t \in Threads : \A l \in DOMAIN Vvadd(t) : Vvadd(t)[l] \subseteq own[t]
  PROVE  Programmed /\ Apart
<1>1. \A t \in Threads : Entry(t) = VectorEntry(t)
  BY DEF Entry
<1>2. ASSUME NEW t \in Threads PROVE LastPhase(t) = 6
  <2>1. DOMAIN Entry(t) = 1 .. 6
    BY <1>1 DEF VectorEntry
  <2>2. PICK n \in Nat : n = 6
    OBVIOUS
  <2>3. Cardinality(1 .. n) = n
    BY FS_Interval
  <2> QED BY <2>1, <2>2, <2>3 DEF LastPhase
<1>3. ASSUME NEW t \in Threads, NEW u \in Threads, t # u, NEW p \in 1 .. 6,
             NEW i \in DOMAIN Entry(t)[p], NEW j \in DOMAIN Entry(u)[p]
      PROVE  ~Conflict(Entry(t)[p][i], Entry(u)[p][j])
  <2>1. CASE p \in {1, 6}
    BY <1>1, <2>1 DEF VectorEntry
  <2>2. CASE p \in {3, 5}
    <3>1. t # 0 \/ u # 0
      BY <1>3
    <3>2. Entry(t)[p] = <<>> \/ Entry(u)[p] = <<>>
      BY <1>1, <2>2, <3>1 DEF VectorEntry
    <3> QED BY <1>3, <3>2
  <2>3. CASE p \in {2, 4}
    <3>0. \E op \in {"put", "add"} : \E ks :
            Entry(t)[p] = Sums(t, op, ks) /\ Entry(u)[p] = Sums(u, op, ks)
      BY <1>1, <2>3 DEF VectorEntry
    <3>1. PICK op \in {"put", "add"} : \E ks :
            Entry(t)[p] = Sums(t, op, ks) /\ Entry(u)[p] = Sums(u, op, ks)
      BY <3>0
    <3>4. PICK ks : Entry(t)[p] = Sums(t, op, ks) /\ Entry(u)[p] = Sums(u, op, ks)
      BY <3>1
    <3>2. /\ Entry(t)[p][i] = Block(op, lda, {0}, Vvadd(t)[i], ks) /\ i \in DOMAIN Vvadd(t)
          /\ Entry(u)[p][j] = Block(op, lda, {0}, Vvadd(u)[j], ks) /\ j \in DOMAIN Vvadd(u)
      BY <1>3, <3>4 DEF Sums
    <3>3. Vvadd(t)[i] \cap Vvadd(u)[j] = {}
      BY <1>3, <3>2 DEF Disjoint
    <3>5. Vvadd(t)[i] \subseteq Int /\ Vvadd(u)[j] \subseteq Int
      BY <3>2
    <3>6. PICK a, b : a = Entry(t)[p][i] /\ b = Entry(u)[p][j]
      OBVIOUS
    <3>7. /\ a.op # "fill" /\ a.dim = lda /\ a.rows = {0} /\ a.cols = Vvadd(t)[i]
          /\ b.dim = lda /\ b.rows = {0} /\ b.cols = Vvadd(u)[j]
      BY <3>1, <3>2, <3>6 DEF Block
    <3>8. \A x \in Int : 0 * lda + x = x
      OBVIOUS
    <3>9. ~Overlap(Addresses(a), Addresses(b))
      BY <3>3, <3>5, <3>7, <3>8 DEF Overlap, Addresses
    <3> QED BY <3>6, <3>7, <3>9 DEF Conflict
  <2> QED BY <2>1, <2>2, <2>3
<1> QED BY <1>2, <1>3 DEF Programmed, Apart

\* Rows, columns or elements of a vector in strides of the number of cores.
LEMMA StridedKernels ==
  ASSUME RunInv, kernel \in {"aq", "bs", "vvadd2", "vvadd4"},
         kernel = "aq" => lda % (2 * ncores) = 0
  PROVE  Programmed /\ Apart
<1>1. Disjoint(Strided) /\ ncores \in Nat \ {0} /\ lda \in Nat
  BY StridesDisjoint, Sizes
<1>2. ASSUME NEW t \in Threads
      PROVE  /\ Loop(t, lda, ncores) \subseteq Strided[t]
             /\ UNION {{x, x + ncores} : x \in Loop(t, lda, 2 * ncores)} \subseteq Strided[t]
             /\ UNION {{x, x + ncores, x + 2 * ncores, x + 3 * ncores} :
                         x \in Loop(t, lda, 4 * ncores)} \subseteq Strided[t]
  <2>1. ASSUME NEW x \in Int, \A r \in 0 .. 3 : x + r * ncores \in Strided[t]
        PROVE  {x, x + ncores, x + 2 * ncores, x + 3 * ncores} \subseteq Strided[t]
    <3>1. x + 0 * ncores = x /\ x + 1 * ncores = x + ncores
      BY <1>1
    <3> QED BY <2>1, <3>1
  <2>2. 1 * ncores = ncores
    BY <1>1
  <2>3. \A k \in 1 .. 4 : \A x \in Loop(t, lda, k * ncores) :
          {x, x + ncores, x + 2 * ncores, x + 3 * ncores} \subseteq Strided[t]
    BY <1>1, <2>1, StridedLoop
  <2> QED BY <2>2, <2>3
<1>3. CASE kernel = "aq"
  <2>1. kernel \notin VectorSums
    BY <1>3 DEF VectorSums
  <2>2. \A t \in Threads : Matmul(t) = aq_matmul(t, ncores, lda)
    BY <1>3 DEF Matmul
  <2>4. ASSUME NEW t \in Threads
        PROVE  \E b : /\ Matmul(t) = <<<<b>>>> /\ InRows(b, lda)
                      /\ b.cols \subseteq Strided[t]
    <3>1. PICK b : b = Block("add", lda, All(lda),
                             UNION {{i, i + ncores} : i \in Loop(t, lda, 2 * ncores)}, All(lda))
      OBVIOUS
    <3>2. All(lda) \subseteq Int
      BY DEF All
    <3>3. UNION {{i, i + ncores} : i \in Loop(t, lda, 2 * ncores)} \subseteq 0 .. lda - 1
      BY <1>3, WholePairs
    <3>4. InRows(b, lda) /\ b.cols \subseteq Strided[t]
      BY <1>2, <3>1, <3>2, <3>3 DEF InRows, Block
    <3> QED BY <2>2, <3>1, <3>4 DEF aq_matmul, Once
  <2>3. ColsShared(1, lda, Strided)
    BY <2>4 DEF ColsShared
  <2> QED BY <1>1, <2>1, <2>3, SharedApart
<1>4. CASE kernel = "bs"
  <2>1. kernel \notin VectorSums
    BY <1>4 DEF VectorSums
  <2>2. \A t \in Threads : Matmul(t) = bs_matmul(t, ncores, lda)
    BY <1>4 DEF Matmul
  <2>4. ASSUME NEW t \in Threads
        PROVE  \E b : /\ Matmul(t) = <<<<b>>>> /\ InRows(b, lda)
                      /\ b.rows \subseteq Strided[t]
    <3>1. PICK rows : rows = UNION {{x, x + ncores, x + 2 * ncores, x + 3 * ncores} :
                                      x \in Loop(t, lda, 4 * ncores)}
      OBVIOUS
    <3>2. PICK b : b = Block("add", lda, rows, All(lda), All(lda))
      OBVIOUS
    <3>3. rows \subseteq Strided[t] /\ Strided[t] \subseteq Int
      BY <1>1, <1>2, <3>1, StridesNatural
    <3>4. InRows(b, lda) /\ b.rows \subseteq Strided[t]
      BY <3>2, <3>3 DEF InRows, Block, All
    <3> QED BY <2>2, <3>1, <3>2, <3>4 DEF bs_matmul, Once
  <2>3. RowsShared(1, lda, Strided)
    BY <2>4 DEF RowsShared
  <2> QED BY <1>1, <2>1, <2>3, SharedApart
<1>5. CASE kernel \in {"vvadd2", "vvadd4"}
  <2>1. kernel \in VectorSums
    BY <1>5 DEF VectorSums
  <2>2. \A t \in Threads : \A l \in DOMAIN Vvadd(t) : Vvadd(t)[l] \subseteq Strided[t]
    <3>1. CASE kernel = "vvadd2"
      BY <1>2, <3>1 DEF Vvadd, vvadd2
    <3>2. CASE kernel = "vvadd4"
      BY <1>2, <3>2 DEF Vvadd, vvadd4
    <3> QED BY <1>5, <3>1, <3>2
  <2> QED BY <1>1, <2>1, <2>2, Sizes, StridesNatural, VectorApart
<1> QED BY <1>3, <1>4, <1>5

\* Duff's device makes as many turns and enters the first one where it takes
\* to cover the own interval, if that is not empty.
LEMMA DuffsDevice ==
  ASSUME RunInv, kernel = "vvadd3", ncores <= lda, NEW q \in Nat, q = lda \div ncores
  PROVE  \A t \in Threads : \A l \in DOMAIN Vvadd(t) : Vvadd(t)[l] \subseteq Interval(q)[t]
<1>1. ncores \in Nat \ {0} /\ lda \in Nat /\ Threads \subseteq Nat
  BY Sizes
<1>2. q # 0
  BY <1>1, SMT
<1>3. PICK first \in Nat : first = IF q % 8 = 0 THEN 8 ELSE q % 8
  BY SMT
<1>4. first + 8 * (Ceil(q, 8) - 1) = q
  <2>1. PICK y \in Nat : y = q \div 8
    BY SMT
  <2>2. q = 8 * y + (q % 8) /\ q % 8 \in 0 .. 7
    BY <2>1, SMT
  <2>3. (q + 7) \div 8 = IF q % 8 = 0 THEN y ELSE y + 1
    <3>1. PICK z \in Nat : z = (q + 7) \div 8
      BY SMT
    <3>2. q + 7 = 8 * z + ((q + 7) % 8) /\ (q + 7) % 8 \in 0 .. 7
      BY <3>1, SMT
    <3>3. z = IF q % 8 = 0 THEN y ELSE y + 1
      BY <2>2, <3>2
    <3> QED BY <3>1, <3>3
  <2>4. Ceil(q, 8) = IF q % 8 = 0 THEN y ELSE y + 1
    <3>1. q + 8 - 1 = q + 7
      OBVIOUS
    <3> QED BY <2>3, <3>1 DEF Ceil
  <2> QED BY <1>3, <2>2, <2>4
<1>5. ASSUME NEW t \in Threads
      PROVE  Vvadd(t) = <<Interval(q)[t]>>
  <2>1. Vvadd(t) = <<t * q .. t * q + first + 8 * (Ceil(q, 8) - 1) - 1>>
    BY <1>2, <1>3 DEF Vvadd, vvadd3
  <2>2. PICK h \in Nat : h = t * q
    BY <1>1, SMT
  <2>3. (t + 1) * q = h + q
    BY <1>1, <2>2, SMT
  <2>4. PICK g \in Int : g = 8 * (Ceil(q, 8) - 1)
    BY SMT DEF Ceil
  <2>5. h + first + g - 1 = h + q - 1
    BY <1>4, <2>4
  <2>6. Vvadd(t) = <<h .. h + first + g - 1>>
    BY <2>1, <2>2, <2>4
  <2>7. h + first + g - 1 = (t + 1) * q - 1
    BY <2>3, <2>5
  <2>8. Interval(q)[t] = h .. h + first + g - 1
    BY <2>2, <2>7, Zenon DEF Interval
  <2> QED BY <2>6, <2>8, Zenon
<1> QED BY <1>5

\* The vector sum over the own interval.
LEMMA OwnVector ==
  ASSUME RunInv, kernel = "vvadd3", ncores <= lda
  PROVE  Programmed /\ Apart
<1>1. PICK q \in Nat : q = lda \div ncores
  BY Sizes, OwnIs
<1>2. \A t \in Threads : \A l \in DOMAIN Vvadd(t) : Vvadd(t)[l] \subseteq Interval(q)[t]
  BY <1>1, DuffsDevice
<1>3. \A t \in Threads : Interval(q)[t] \subseteq Int
  BY Sizes, SMT DEF Interval
<1> QED BY <1>2, <1>3, Sizes, IntervalsDisjoint, VectorApart DEF VectorSums

-----------------------------------------------------------------------------
\* The kernels of the lemmas, and the sizes for which their columns stay in
\* the rows: a column outside is an element of the next row, and another core's.
SharedOut ==
  {"ap", "ar", "do", "ad", "an", "al", "bf", "av", "cv", "bo", "bk", "cl", "df", "bh", "bj", "aq",
   "bs", "vvadd2", "vvadd3", "vvadd4"}
SizesOf(k) ==
  /\ k \in {"al", "bf", "av", "cv", "bo", "cl", "df"} => lda >= 32
  /\ k \in {"bh", "bj"} => lda % 8 = 0
  /\ k = "aq" => lda % (2 * ncores) = 0
  /\ k = "ar" => lda <= 32          \* its B_t has 32*32 elements
  /\ k = "vvadd3" => ncores <= lda

\* No two threads touch the same element of C at the same time, one of them
\* writing it, in the kernels that share C out by rows, columns, halves or
\* strides: with any number of threads, for every size that SizesOf allows.
THEOREM SharedOutRaceFree == RunSpec => [](kernel \in SharedOut /\ SizesOf(kernel) => NoRace)
<1>1. RunInv => (kernel \in SharedOut /\ SizesOf(kernel) => NoRace)
  <2> SUFFICES ASSUME RunInv, kernel \in SharedOut, SizesOf(kernel) PROVE NoRace
    OBVIOUS
  <2>1. Programmed /\ Apart
    BY OwnRows, OwnRowsInTurn, HalfKernels, QuarterKernels, StridedKernels, OwnVector
       DEF SharedOut, SizesOf
  <2> QED BY <2>1, ApartNoRace
<1> QED BY <1>1, InitRun, NextRun, PTL DEF RunSpec

-----------------------------------------------------------------------------
(* Kernels that index inside the matrices, or the vectors, whatever their    *)
(* size and the number of cores.                                             *)
EntriesInside == \A t \in Threads : \A p \in 1 .. LastPhase(t) : \A i \in DOMAIN Entry(t)[p] :
                   Inside(Entry(t)[p][i])

LEMMA EntriesStayInside == RunInv /\ Programmed /\ EntriesInside => StaysInside
<1> SUFFICES ASSUME RunInv, Programmed, EntriesInside, NEW t \in Threads, at[t] = "work",
                    NEW i \in DOMAIN Phase(t)
             PROVE  Inside(Phase(t)[i])
  BY DEF StaysInside
<1>1. round[t] \in Nat /\ LastPhase(t) \in Nat
  BY DEF RunInv, BarrierInv, BarrierTypeOk, Programmed
<1>2. round[t] + 1 \in 1 .. LastPhase(t)
  BY <1>1 DEF RunInv, Phased
<1> QED BY <1>2 DEF EntriesInside, Phase

LEMMA CheckInside == Inside(Check)
  BY DEF Inside, Check, Block

LEMMA MatrixInside ==
  ASSUME kernel \notin VectorSums, NEW n \in Nat,
         \A t \in Threads : DOMAIN Matmul(t) = 1 .. n,
         \A t \in Threads : \A p \in 1 .. n : \A i \in DOMAIN Matmul(t)[p] : Inside(Matmul(t)[p][i])
  PROVE  EntriesInside
<1> SUFFICES ASSUME NEW t \in Threads, NEW p \in 1 .. LastPhase(t), NEW i \in DOMAIN Entry(t)[p]
             PROVE  Inside(Entry(t)[p][i])
  BY DEF EntriesInside
<1>1. LastPhase(t) = n + 1
  BY MatrixPhases
<1>2. CASE p \in 1 .. n
  BY <1>2, MatrixPhases
<1>3. CASE p = n + 1
  <2>1. Entry(t)[p] = <<Check>>
    BY <1>3, MatrixPhases
  <2>2. Entry(t)[p][i] = Check
    BY <2>1
  <2> QED BY <2>2, CheckInside
<1> QED BY <1>1, <1>2, <1>3

LEMMA VectorInside ==
  ASSUME kernel \in VectorSums, \A t \in Threads : \A l \in DOMAIN Vvadd(t) : Vvadd(t)[l] \subseteq Cols
  PROVE  EntriesInside
<1> SUFFICES ASSUME NEW t \in Threads, NEW p \in 1 .. LastPhase(t), NEW i \in DOMAIN Entry(t)[p]
             PROVE  Inside(Entry(t)[p][i])
  BY DEF EntriesInside
<1>1. Rows = {0} /\ Complete = {0, 1}
  BY DEF Rows, Complete
<1>2. Entry(t) = VectorEntry(t)
  BY DEF Entry
<1>3. LastPhase(t) = 6
  <2>1. DOMAIN Entry(t) = 1 .. 6
    BY <1>2 DEF VectorEntry
  <2>2. PICK n \in Nat : n = 6
    OBVIOUS
  <2>3. Cardinality(1 .. n) = n
    BY FS_Interval
  <2> QED BY <2>1, <2>2, <2>3 DEF LastPhase
<1>4. CASE p \in {1, 6}
  BY <1>2, <1>4 DEF VectorEntry
<1>5. CASE p \in {3, 5}
  <2>1. Entry(t)[p][i] = Check \/ Entry(t)[p][i] = Block("put", lda, {0}, Cols, {0})
    <3>1. CASE t = 0
      BY <1>2, <1>5, <3>1 DEF VectorEntry
    <3>2. CASE t # 0
      BY <1>2, <1>5, <3>2 DEF VectorEntry
    <3> QED BY <3>1, <3>2
  <2>2. Inside(Block("put", lda, {0}, Cols, {0}))
    BY <1>1 DEF Inside, Block
  <2> QED BY <2>1, <2>2, CheckInside
<1>6. CASE p \in {2, 4}
  <2>1. \E op \in {"put", "add"} : \E ks \in {{0, 1}, {1}} : Entry(t)[p] = Sums(t, op, ks)
    BY <1>2, <1>6 DEF VectorEntry
  <2>2. PICK op \in {"put", "add"} : \E ks \in {{0, 1}, {1}} : Entry(t)[p] = Sums(t, op, ks)
    BY <2>1
  <2>3. PICK ks \in {{0, 1}, {1}} : Entry(t)[p] = Sums(t, op, ks)
    BY <2>2
  <2>4. Entry(t)[p][i] = Block(op, lda, {0}, Vvadd(t)[i], ks) /\ i \in DOMAIN Vvadd(t)
    BY <2>3 DEF Sums
  <2> QED BY <1>1, <2>4 DEF Inside, Block
<1> QED BY <1>3, <1>4, <1>5, <1>6

\* The intervals of all threads are in the matrix; rows may be left over.
LEMMA IntervalInside ==
  ASSUME RunInv, NEW q \in Nat, q = lda \div ncores, NEW t \in Threads
  PROVE  Interval(q)[t] \subseteq All(lda)
<1>1. ncores \in Nat \ {0} /\ lda \in Nat /\ t \in Nat /\ t < ncores
  BY Sizes DEF Threads
<1>2. ncores * q <= lda
  <2>1. lda = ncores * q + (lda % ncores) /\ lda % ncores \in Nat /\ ncores * q \in Nat
    BY <1>1, SMT
  <2> QED BY <1>1, <2>1
<1>3. (t + 1) * q <= ncores * q /\ t * q \in Nat /\ (t + 1) * q \in Nat
  <2>1. PICK e \in Nat : ncores = t + 1 + e
    <3>1. ncores - t - 1 \in Nat /\ ncores = t + 1 + (ncores - t - 1)
      BY <1>1
    <3> QED BY <3>1
  <2>2. ncores * q = (t + 1) * q + e * q /\ e * q \in Nat /\ (t + 1) * q \in Nat /\ t * q \in Nat
    BY <1>1, <2>1, SMT
  <2>3. PICK z \in Nat : z = e * q
    BY <2>2
  <2> QED BY <2>2, <2>3
<1>4. ncores * q \in Nat
  BY <1>1, SMT
<1> QED BY <1>1, <1>2, <1>3, <1>4 DEF Interval, All

LEMMA InsideKernels ==
  ASSUME RunInv, kernel \in {"ap", "ar", "an", "vvadd3", "vvadd4"}, SizesOf(kernel)
  PROVE  EntriesInside
<1>1. PICK q \in Nat : q = lda \div ncores
  BY Sizes, OwnIs
<1>2. \A t \in Threads : Interval(q)[t] \subseteq All(lda)
  BY <1>1, IntervalInside
<1>3. \A t \in Threads : Own(t, ncores, lda, 1) \subseteq All(lda)
  <2>1. \A t \in Threads : Own(t, ncores, lda, 1) \subseteq Interval(q)[t]
    BY <1>1, Sizes, OwnIs DEF Interval
  <2> QED BY <1>2, <2>1
<1>4. Cols = All(lda)
  BY DEF Cols
<1>5. kernel \notin VectorSums => Rows = All(lda) /\ Complete = All(lda)
  BY DEF Rows, Complete
<1>6. CASE kernel \in {"ap", "ar"}
  <2>1. kernel \notin VectorSums
    BY <1>6 DEF VectorSums
  <2>2. ASSUME NEW t \in Threads
        PROVE  \E b : Matmul(t) = <<<<b>>>> /\ Inside(b)
    <3>1. CASE kernel = "ap"
      <4>1. Matmul(t) = ap_matmul(t, ncores, lda)
        BY <3>1 DEF Matmul
      <4>2. Inside(Block("add", lda, Own(t, ncores, lda, 1), All(lda), All(lda)))
        BY <1>3, <1>4, <1>5, <2>1 DEF Inside, Block
      <4> QED BY <4>1, <4>2 DEF ap_matmul, Once
    <3>2. CASE kernel = "ar"
      <4>1. Matmul(t) = ar_matmul(t, ncores, lda)
        BY <3>2 DEF Matmul
      <4>2. Inside(Block("add", lda, Own(t, ncores, lda, 1) \cap All(lda), All(lda), All(lda)))
        BY <1>4, <1>5, <2>1 DEF Inside, Block
      <4> QED BY <4>1, <4>2 DEF ar_matmul, Once
    <3> QED BY <1>6, <3>1, <3>2
  <2>3. ASSUME NEW t \in Threads
        PROVE  DOMAIN Matmul(t) = 1 .. 1 /\ \A p \in 1 .. 1 : \A i \in DOMAIN Matmul(t)[p] :
                                               Inside(Matmul(t)[p][i])
    <3>1. PICK b : Matmul(t) = <<<<b>>>> /\ Inside(b)
      BY <2>2
    <3> QED BY <3>1
  <2> QED BY <2>1, <2>3, MatrixInside
<1>7. CASE kernel = "an"
  <2>1. kernel \notin VectorSums
    BY <1>7 DEF VectorSums
  <2>2. PICK n \in Nat : n = q * lda
    BY Sizes, SMT
  <2>3. ASSUME NEW t \in Threads
        PROVE  /\ DOMAIN Matmul(t) = 1 .. n + 1
               /\ Matmul(t)[n + 1] = <<>>
               /\ \A p \in 1 .. n : Matmul(t)[p] =
                    <<Block("add", lda, {t * q + (p - 1) \div lda}, All(lda), {(p - 1) % lda})>>
    <3>1. Matmul(t) = an_matmul(t, ncores, lda)
      BY <1>7 DEF Matmul
    <3>2. Matmul(t) = [p \in 1 .. n + 1 |->
                         IF p <= n
                         THEN <<Block("add", lda, {t * q + (p - 1) \div lda}, All(lda),
                                      {(p - 1) % lda})>>
                         ELSE <<>>]
      BY <1>1, <2>2, <3>1 DEF an_matmul, Then
    <3>3. n \in Nat /\ n + 1 \in 1 .. n + 1 /\ ~(n + 1 <= n)
      BY <2>2
    <3>4. DOMAIN Matmul(t) = 1 .. n + 1 /\ Matmul(t)[n + 1] = <<>>
      BY <3>2, <3>3
    <3>5. \A p \in 1 .. n : p \in 1 .. n + 1 /\ p <= n
      BY <3>3
    <3>6. \A p \in 1 .. n : Matmul(t)[p] =
            <<Block("add", lda, {t * q + (p - 1) \div lda}, All(lda), {(p - 1) % lda})>>
      BY <3>2, <3>5, Zenon
    <3> QED BY <3>4, <3>6
  <2>4. ASSUME NEW t \in Threads, NEW p \in 1 .. n
        PROVE  Inside(Block("add", lda, {t * q + (p - 1) \div lda}, All(lda), {(p - 1) % lda}))
    <3>1. p - 1 \in 0 .. q * lda - 1 /\ lda \in Nat /\ lda > 0
      BY <2>2, Sizes
    <3>2. PICK y \in 0 .. q - 1 : y = (p - 1) \div lda
      BY <3>1, QuotientBelow
    <3>3. t * q + y \in Interval(q)[t]
      <4>1. t \in Nat /\ t * q \in Nat /\ (t + 1) * q = t * q + q
        BY Sizes, SMT
      <4> QED BY <4>1 DEF Interval
    <3>4. (p - 1) % lda \in All(lda)
      BY <3>1, SMT DEF All
    <3> QED BY <1>2, <1>4, <1>5, <2>1, <3>2, <3>3, <3>4 DEF Inside, Block
  <2>5. ASSUME NEW t \in Threads, NEW p \in 1 .. n + 1, NEW i \in DOMAIN Matmul(t)[p]
        PROVE  Inside(Matmul(t)[p][i])
    <3>1. p \in 1 .. n
      BY <2>3, <2>5
    <3>2. PICK b : b = Block("add", lda, {t * q + (p - 1) \div lda}, All(lda), {(p - 1) % lda})
      OBVIOUS
    <3>3. Matmul(t)[p] = <<b>> /\ Inside(b)
      BY <2>3, <2>4, <3>1, <3>2
    <3> QED BY <2>5, <3>3
  <2> QED BY <2>1, <2>2, <2>3, <2>5, MatrixInside
<1>8. CASE kernel \in {"vvadd3", "vvadd4"}
  <2>1. kernel \in VectorSums
    BY <1>8 DEF VectorSums
  <2>2. \A t \in Threads : \A l \in DOMAIN Vvadd(t) : Vvadd(t)[l] \subseteq Cols
    <3>1. CASE kernel = "vvadd3"
      <4>1. \A t \in Threads : \A l \in DOMAIN Vvadd(t) : Vvadd(t)[l] \subseteq Interval(q)[t]
        BY <1>1, <3>1, DuffsDevice DEF SizesOf
      <4> QED BY <1>2, <1>4, <4>1
    <3>2. CASE kernel = "vvadd4"
      <4>1. ASSUME NEW t \in Threads PROVE Loop(t, lda, ncores) \subseteq All(lda)
        BY Sizes DEF Loop, All
      <4> QED BY <1>4, <3>2, <4>1 DEF Vvadd, vvadd4
    <3> QED BY <1>8, <3>1, <3>2
  <2> QED BY <2>1, <2>2, VectorInside
<1> QED BY <1>6, <1>7, <1>8

\* These kernels index A, B and C, or the vectors, inside the arrays they are
\* given: with any number of cores, also one that does not divide the size,
\* if the local array of ar is large enough and every core has an element of
\* the vector of vvadd3.
THEOREM InsideForAnySize ==
  RunSpec => [](kernel \in {"ap", "ar", "an", "vvadd3", "vvadd4"} /\ SizesOf(kernel) => StaysInside)
<1>1. RunInv => (kernel \in {"ap", "ar", "an", "vvadd3", "vvadd4"} /\ SizesOf(kernel) => StaysInside)
  <2> SUFFICES ASSUME RunInv, kernel \in {"ap", "ar", "an", "vvadd3", "vvadd4"}, SizesOf(kernel)
               PROVE  StaysInside
    OBVIOUS
  <2>1. Programmed
    BY OwnRows, OwnRowsInTurn, StridedKernels, OwnVector DEF SizesOf
  <2> QED BY <2>1, InsideKernels, EntriesStayInside
<1> QED BY <1>1, InitRun, NextRun, PTL DEF RunSpec

============================================================================
