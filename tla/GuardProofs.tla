----------------------------- MODULE GuardProofs -----------------------------
(***************************************************************************)
(* The flag of a tasklet's reentrancy guard is clear when nobody is in the *)
(* tasklet, for any number of threads and of calls.                        *)
(***************************************************************************)
EXTENDS TaskletGuard, TLAPS

\* The inductive invariant.  Since two threads may be inside at once, the flag
\* does not tell who set it; what is left is that it is set only while some
\* thread has still to clear it.
FlagOwned ==
    /\ TypeOK
    /\ inProcess => \E t \in Threads : pc[t] \in {"inside", "clear"}

LEMMA InitFlagOwned == Init => FlagOwned
<1> SUFFICES ASSUME Init PROVE FlagOwned
  OBVIOUS
<1>1. /\ inProcess \in BOOLEAN /\ ~inProcess
      /\ expected \in [Threads -> BOOLEAN]
      /\ pc \in [Threads -> Pcs]
  BY Zenon DEF Init, Pcs
<1>2. sem \in Nat /\ calls \in [Threads -> 0..MaxCalls]
  BY GuardAssumption DEF Init, GuardAssumption
<1> QED
  BY <1>1, <1>2 DEF FlagOwned, TypeOK

LEMMA NextFlagOwned == FlagOwned /\ [Next]_vars => FlagOwned'
<1> SUFFICES ASSUME FlagOwned, [Next]_vars
             PROVE  FlagOwned'
  OBVIOUS
<1> USE GuardAssumption DEF GuardAssumption, FlagOwned, TypeOK, Pcs, Goto, Expect
<1>1. ASSUME NEW t \in Threads, Call(t)
      PROVE  FlagOwned'
  <2>1. TypeOK'
    BY <1>1 DEF Call
  <2>2. \A u \in Threads : pc[u] \in {"inside", "clear"} => pc'[u] = pc[u]
    BY <1>1 DEF Call
  <2> QED
    BY <1>1, <2>1, <2>2 DEF Call
<1>2. ASSUME NEW t \in Threads, Mark(t)
      PROVE  FlagOwned'
  <2>1. TypeOK'
    BY <1>2 DEF Mark
  <2>2. CASE inProcess = expected[t]
    <3>1. pc'[t] = "inside"
      BY <1>2, <2>2 DEF Mark
    <3> QED
      BY <2>1, <3>1
  <2>3. CASE inProcess # expected[t]
    <3>1. \A u \in Threads : pc[u] \in {"inside", "clear"} => pc'[u] = pc[u]
      BY <1>2, <2>3 DEF Mark
    <3> QED
      BY <1>2, <2>1, <2>3, <3>1 DEF Mark
  <2> QED
    BY <2>2, <2>3
<1>3. ASSUME NEW t \in Threads, Wait(t) \/ Post(t)
      PROVE  FlagOwned'
  <2>1. TypeOK'
    BY <1>3 DEF Wait, Post
  <2>2. /\ inProcess' = inProcess
        /\ \A u \in Threads : pc[u] \in {"inside", "clear"} => pc'[u] = pc[u]
    BY <1>3 DEF Wait, Post
  <2> QED
    BY <2>1, <2>2
<1>4. ASSUME NEW t \in Threads, Return(t)
      PROVE  FlagOwned'
  <2>1. TypeOK'
    BY <1>4 DEF Return
  <2>2. pc'[t] = "clear"
    BY <1>4 DEF Return
  <2> QED
    BY <2>1, <2>2
<1>5. ASSUME NEW t \in Threads, Clear(t)
      PROVE  FlagOwned'
  <2>1. TypeOK'
    BY <1>5 DEF Clear
  <2>2. ~inProcess' \/ UNCHANGED <<inProcess, pc>>
    BY <1>5 DEF Clear
  <2> QED
    BY <2>1, <2>2
<1>6. CASE UNCHANGED vars
  BY <1>6 DEF vars
<1> QED
  BY <1>1, <1>2, <1>3, <1>4, <1>5, <1>6 DEF Next, Step

\* Every variable of the guard keeps its type: in particular the semaphore never
\* falls below zero (Sem_Wait, tasklets.h:174), whoever waits and posts.
THEOREM GuardTypeCorrect == Spec => []TypeOK
<1>1. FlagOwned => TypeOK
  BY DEF FlagOwned
<1> QED
  BY <1>1, InitFlagOwned, NextFlagOwned, PTL DEF Spec

\* Although the guard may let two threads in at once (MarkInProcess,
\* tasklets.h:154), and one of them then clears the flag under the other, no
\* sequence of calls leaves it set behind the last thread (ClearInProcess,
\* tasklets.h:176): for any number of threads and calls.
THEOREM GuardFreeAtRest == Spec => []FreeAtRest
<1>1. FlagOwned => FreeAtRest
  BY DEF FlagOwned, FreeAtRest
<1> QED
  BY <1>1, InitFlagOwned, NextFlagOwned, PTL DEF Spec
=============================================================================
