------------------------------ MODULE RfcGroup ------------------------------
(***************************************************************************)
(* CIfParallelTaskGrpRfc (src/ipc/iftasks.cpp) and CIfParallelTaskGrpRfc2  *)
(* (src/rpc/reqfwdr.cpp): the parallel task groups of the request based    *)
(* flow control.  A group runs at most m_dwMaxRunning of its requests at a *)
(* time and queues the others.  The request forwarder keeps one group for  *)
(* each client of each connection.                                         *)
(*                                                                         *)
(* This module has the state of the groups and what happens to it in one   *)
(* critical section of a group's lock.  RRScheduler composes the groups    *)
(* with the request forwarder and its scheduler.                           *)
(*                                                                         *)
(* Requests of one group are alike: a group counts them.  m_setTasks holds *)
(* the placeholder, which GetRunningCount subtracts, the requests that run *)
(* (live) and those that have completed and wait for DeferredRemove        *)
(* (done).  A call of the group is pGrp->operator()( eventZero ), directly  *)
(* or through CIoManager::RescheduleTask.                                  *)
(***************************************************************************)
EXTENDS Integers, Sequences, FiniteSets

CONSTANTS
    Groups,          \* the groups, one per client
    MaxReqs,         \* RFC_MAX_REQS, the largest m_dwMaxRunning
    MaxPendings      \* RFC_MAX_PENDINGS, m_dwMaxPending of every group

ASSUME GroupsAssumption ==
    /\ IsFiniteSet(Groups)
    /\ MaxReqs \in Nat \ {0}
    /\ MaxPendings \in Nat \ {0}

VARIABLES
    gstate,   \* "none", "up", or "dead" once OnCancel has run
    lim,      \* m_dwMaxRunning
    que,      \* the length of m_quePendingTasks
    live,     \* the requests of m_setTasks that run
    done,     \* the requests whose DeferredRemove is in the task queue
    victims,  \* the live requests that KillTasks is about to kill
    noSched,  \* m_bNoSched: a thread is inside RunTaskInternal
    calls     \* how many calls of the group are on their way

grpVars == <<gstate, lim, que, live, done, victims, noSched, calls>>

GrpTypeOK ==
    /\ gstate \in [Groups -> {"none", "up", "dead"}]
    /\ lim \in [Groups -> 0..MaxReqs]
    /\ que \in [Groups -> Nat]
    /\ live \in [Groups -> Nat]
    /\ done \in [Groups -> Nat]
    /\ victims \in [Groups -> Nat]
    /\ noSched \in [Groups -> BOOLEAN]
    /\ calls \in [Groups -> Nat]

GrpInit ==
    /\ gstate = [g \in Groups |-> "none"]
    /\ lim = [g \in Groups |-> 0]
    /\ que = [g \in Groups |-> 0]
    /\ live = [g \in Groups |-> 0]
    /\ done = [g \in Groups |-> 0]
    /\ victims = [g \in Groups |-> 0]
    /\ noSched = [g \in Groups |-> FALSE]
    /\ calls = [g \in Groups |-> 0]

Least(a, b) == IF a <= b THEN a ELSE b

\* GetRunningCount.  OnCancel has emptied the m_setTasks of a dead group, the
\* placeholder included.
RunningCount(g) == IF gstate[g] = "dead" THEN -1 ELSE live[g] + done[g]

HasPendingTasks(g) == que[g] > 0
HasFreeSlot(g) == ~noSched[g] /\ RunningCount(g) < lim[g]
HasTaskToRun(g) == HasFreeSlot(g) /\ HasPendingTasks(g)

QueueFull(g) == que[g] + RunningCount(g) >= MaxPendings + lim[g]

\* SetLimit( n, GetMaxPending(), true ) on the groups of S, given the limits l.
SetLimit(l, S, n) ==
    [g \in Groups |-> IF g \in S /\ gstate[g] = "up" THEN Least(n, MaxReqs) ELSE l[g]]

-----------------------------------------------------------------------------
(* RunTaskInternal.                                                        *)

\* Take as many requests from the queue as there are free slots, with the lock
\* held; they are run with the lock released and m_bNoSched set.
TakeBatch(g) ==
    LET n == Least(lim[g] - RunningCount(g), que[g]) IN
    /\ que' = [que EXCEPT ![g] = @ - n]
    /\ live' = [live EXCEPT ![g] = @ + n]

CanTake(g) == que[g] > 0 /\ RunningCount(g) < lim[g]

\* A call arrives: RunTaskInternal up to the point where it runs the batch.
RunBegin(g) ==
    /\ calls[g] > 0
    /\ calls' = [calls EXCEPT ![g] = @ - 1]
    /\ IF gstate[g] = "up" /\ ~noSched[g] /\ CanTake(g)
       THEN TakeBatch(g) /\ noSched' = [noSched EXCEPT ![g] = TRUE]
       ELSE UNCHANGED <<que, live, noSched>>
    /\ UNCHANGED <<gstate, lim, done, victims>>

\* Mutant: the queue is not looked at again before m_bNoSched is cleared.
RunEndNoRecheck(g) ==
    /\ noSched[g]
    /\ noSched' = [noSched EXCEPT ![g] = FALSE]
    /\ UNCHANGED <<gstate, lim, que, live, done, victims, calls>>

\* The batch has been run; the lock is taken again, and RunTaskInternal goes on
\* with the requests that have come in and have a slot.
RunEnd(g) ==
    /\ noSched[g]
    /\ IF CanTake(g)
       THEN TakeBatch(g) /\ UNCHANGED noSched
       ELSE noSched' = [noSched EXCEPT ![g] = FALSE] /\ UNCHANGED <<que, live>>
    /\ UNCHANGED <<gstate, lim, done, victims, calls>>

-----------------------------------------------------------------------------
(* Filling and emptying a group.                                           *)

\* AppendTask of a request that is accepted.
AppendTask(g) ==
    /\ gstate[g] = "up"
    /\ ~QueueFull(g)
    /\ que' = [que EXCEPT ![g] = @ + 1]

\* InsertTask does not look at the length of the queue.
InsertTask(g) ==
    /\ gstate[g] = "up"
    /\ que' = [que EXCEPT ![g] = @ + 1]

\* Mutant: a victim that ends on its own is killed all the same.
EndsLiveStaysVictim(g) ==
    /\ live[g] > 0
    /\ live' = [live EXCEPT ![g] = @ - 1]
    /\ UNCHANGED victims

\* A request of g ends on its own, one of the victims or another.
EndsLive(g) ==
    /\ live[g] > 0
    /\ live' = [live EXCEPT ![g] = @ - 1]
    /\ \/ victims[g] > 0 /\ victims' = [victims EXCEPT ![g] = @ - 1]
       \/ live[g] > victims[g] /\ UNCHANGED victims

\* OnCancel waits until no thread is inside RunTaskInternal, empties the queue
\* and m_setTasks, and cancels what was in them.
OnCancel(g) ==
    /\ gstate[g] = "up"
    /\ ~noSched[g]
    /\ gstate' = [gstate EXCEPT ![g] = "dead"]
    /\ que' = [que EXCEPT ![g] = 0]
    /\ live' = [live EXCEPT ![g] = 0]
    /\ done' = [done EXCEPT ![g] = 0]
    /\ victims' = [victims EXCEPT ![g] = 0]
=============================================================================
