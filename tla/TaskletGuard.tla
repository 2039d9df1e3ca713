---------------------------- MODULE TaskletGuard ----------------------------
(***************************************************************************)
(* CTasklet::CReentrancyGuard (src/ipc/tasklets.h), by which operator() of *)
(* a tasklet that is not IsMultiThreadSafe admits one thread at a time:    *)
(* an atomic flag, and a semaphore for the threads that find it set.  Each *)
(* compare_exchange_strong, Sem_Wait and Sem_Post is one action.           *)
(***************************************************************************)
EXTENDS Naturals, FiniteSets

CONSTANTS
    Threads,   \* the threads that call the tasklet
    MaxCalls   \* bound: the calls each of them makes

ASSUME GuardAssumption == IsFiniteSet(Threads) /\ MaxCalls \in Nat

VARIABLES
    inProcess, \* m_bInProcess
    sem,       \* m_semReentSync
    pc,        \* where each thread stands
    expected,  \* bExpected of each thread
    calls      \* the calls it has made

vars == <<inProcess, sem, pc, expected, calls>>

Pcs == {"out", "mark", "wait", "inside", "clear", "post"}

Init ==
    /\ inProcess = FALSE /\ sem = 0
    /\ pc = [t \in Threads |-> "out"]
    /\ expected = [t \in Threads |-> FALSE]
    /\ calls = [t \in Threads |-> 0]

Goto(t, p) == pc' = [pc EXCEPT ![t] = p]
Expect(t, b) == expected' = [expected EXCEPT ![t] = b]

\* operator() is called: MarkInProcess begins.
Call(t) ==
    /\ pc[t] = "out"
    /\ calls[t] < MaxCalls
    /\ calls' = [calls EXCEPT ![t] = @ + 1]
    /\ Expect(t, FALSE)
    /\ Goto(t, "mark")
    /\ UNCHANGED <<inProcess, sem>>

\* compare_exchange_strong( bExpected, true ).  A failure leaves the value of
\* the flag in bExpected, and the loop does not reset it.
Mark(t) ==
    /\ pc[t] = "mark"
    /\ IF inProcess = expected[t]
       THEN inProcess' = TRUE /\ Goto(t, "inside") /\ UNCHANGED expected
       ELSE /\ Expect(t, inProcess)
            /\ Goto(t, IF inProcess THEN "wait" ELSE "mark")
            /\ UNCHANGED inProcess
    /\ UNCHANGED <<sem, calls>>

\* Mutant: sem_trywait, whose failure is ignored, with the count kept by hand.
WaitNot(t) ==
    /\ pc[t] = "wait"
    /\ sem' = sem - 1
    /\ Goto(t, "mark")
    /\ UNCHANGED <<inProcess, expected, calls>>

\* "already locked by someone": Sem_Wait.
Wait(t) ==
    /\ pc[t] = "wait"
    /\ sem > 0
    /\ sem' = sem - 1
    /\ Goto(t, "mark")
    /\ UNCHANGED <<inProcess, expected, calls>>

\* Process returns: ClearInProcess begins.
Return(t) ==
    /\ pc[t] = "inside"
    /\ Expect(t, TRUE)
    /\ Goto(t, "clear")
    /\ UNCHANGED <<inProcess, sem, calls>>

\* Mutant: the flag is not reset.
ClearNothing(t) ==
    /\ pc[t] = "clear"
    /\ Goto(t, "post")
    /\ UNCHANGED <<inProcess, sem, expected, calls>>

\* compare_exchange_strong( bExpected, false ), tried again after a failure.
Clear(t) ==
    /\ pc[t] = "clear"
    /\ IF inProcess = expected[t]
       THEN inProcess' = FALSE /\ Goto(t, "post") /\ UNCHANGED expected
       ELSE Expect(t, inProcess) /\ UNCHANGED <<inProcess, pc>>
    /\ UNCHANGED <<sem, calls>>

\* Mutant: nobody is woken up.
PostNothing(t) ==
    /\ pc[t] = "post"
    /\ Goto(t, "out")
    /\ UNCHANGED <<inProcess, sem, expected, calls>>

\* Sem_Post, whether or not a thread waits.
Post(t) ==
    /\ pc[t] = "post"
    /\ sem' = sem + 1
    /\ Goto(t, "out")
    /\ UNCHANGED <<inProcess, expected, calls>>

Step(t) == Mark(t) \/ Wait(t) \/ Return(t) \/ Clear(t) \/ Post(t)

Next == \E t \in Threads : Call(t) \/ Step(t)

Spec == Init /\ [][Next]_vars

\* Every thread runs on.  Nothing is assumed of who calls.
Fairness == \A t \in Threads : WF_vars(Step(t))

FairSpec == Spec /\ Fairness

-----------------------------------------------------------------------------
(* Properties.                                                             *)

TypeOK ==
    /\ inProcess \in BOOLEAN
    /\ sem \in Nat
    /\ pc \in [Threads -> Pcs]
    /\ expected \in [Threads -> BOOLEAN]
    /\ calls \in [Threads -> 0..MaxCalls]

\* m_bInProcess is the "flag to avoid reentrancy" (tasklets.h:44): no two threads
\* are in Process at the same time.
Exclusive == Cardinality({t \in Threads : pc[t] = "inside"}) <= 1

\* When nobody is in the tasklet the flag is clear, even if two threads left at
\* the same time: the next caller need not wait.
FreeAtRest ==
    (\A t \in Threads : pc[t] \in {"out", "mark", "wait"}) => ~inProcess

\* A thread that finds the tasklet occupied gets in: there is always a Sem_Post
\* left for it.
CallerGetsIn == \A t \in Threads : pc[t] = "mark" ~> pc[t] = "inside"
=============================================================================
