------------------------------ MODULE TaskGroup ------------------------------
(***************************************************************************)
(* CIfTaskGroup (src/ipc/iftasks.cpp): a task that runs a queue of child   *)
(* tasks one after the other and ends with their joint result.  Task pool  *)
(* threads run the group, children complete on threads of their own, the   *)
(* group is cancelled and, possibly, queued children time out, all at the  *)
(* same time.                                                              *)
(*                                                                         *)
(* The group calls its children with its lock released and m_bNoSched set. *)
(* An action is one critical section of the group's lock, or one call of a *)
(* child.  The children are CIfRetryTasks.  Their CReentrancyGuard keeps   *)
(* two threads apart only the first time (see TaskletGuard): a child that  *)
(* was run before may be cancelled while it completes on another thread.   *)
(***************************************************************************)
EXTENDS Integers, Sequences, FiniteSets

CONSTANTS
    Tasks,           \* the children; each is appended or inserted once
    Runners,         \* the threads of the task pool
    Canceller,       \* a thread that cancels the group
    None             \* an empty TaskletPtr

ASSUME GroupAssumption ==
    /\ IsFiniteSet(Tasks) /\ None \notin Tasks
    /\ IsFiniteSet(Runners) /\ Canceller \notin Runners

Workers == Runners \cup {Canceller}

VARIABLES
    relation,  \* m_iTaskRel
    state,     \* m_iTaskState
    running,   \* m_bRunning
    canceling, \* m_bCanceling
    noSched,   \* m_bNoSched
    head,      \* m_byHeadState
    queue,     \* m_queTasks
    retVals,   \* m_vecRetVals
    sched,     \* how often the group is in the queue of the task pool
    result,    \* what OnComplete of the group was called with
    completed, \* how often it was called
    child,     \* where each child stands
    outcome,   \* what OnComplete of each child was last called with
    runs,      \* how often RunTask of each child was called
    expired,   \* the children that timed out before the group ran them
    pc, cur, ret, \* of each worker: its place, pTask and ret
    undef      \* back() was called on an empty m_vecRetVals

flags == <<state, running, canceling, noSched, head>>
tasks == <<child, outcome, runs, expired>>
locals == <<pc, cur, ret>>
vars == <<relation, state, running, canceling, noSched, head, queue, retVals,
          sched, result, completed, child, outcome, runs, expired, pc, cur, ret, undef>>

Outcomes == {"OK", "ERR", "CANCEL"}
\* leaving: OnComplete is about to part the child from the group.
\* ending: OnChildComplete has been called, SetError has not.
ChildPhases == {"out", "queued", "pending", "leaving", "ending", "done"}
Pcs == {"idle", "call", "called", "relock", "instead", "cancel", "cancelCall",
        "cancelNext", "complete"}

Init ==
    /\ relation \in {"AND", "OR", "NONE"}
    /\ state = "starting" /\ head = "waitStart"
    /\ running = FALSE /\ canceling = FALSE /\ noSched = FALSE
    /\ queue = <<>> /\ retVals = <<>> /\ sched = 0
    /\ result = "none" /\ completed = 0
    /\ child = [t \in Tasks |-> "out"]
    /\ outcome = [t \in Tasks |-> "none"]
    /\ runs = [t \in Tasks |-> 0] /\ expired = {}
    /\ pc = [w \in Workers |-> "idle"]
    /\ cur = [w \in Workers |-> None]
    /\ ret = [w \in Workers |-> "OK"]
    /\ undef = FALSE

IsStopped == state \in {"stopping", "stopped"}
Back(s) == s[Len(s)]
Front(q) == IF q = <<>> THEN None ELSE Head(q)
\* Mutant: the relation plays no part.
DecidesNothing(r) == r \notin Outcomes
\* The results after which the rest of the queue is cancelled.
Decides(r) == \/ relation = "AND" /\ r # "OK"
              \/ relation = "OR" /\ r = "OK"

At(w, p) == pc[w] = p
\* Worker w goes on at p with pTask = t and ret = r.
Go(w, p, t, r) ==
    /\ pc' = [pc EXCEPT ![w] = p]
    /\ cur' = [cur EXCEPT ![w] = t]
    /\ ret' = [ret EXCEPT ![w] = r]

-----------------------------------------------------------------------------
(* Filling the group.                                                      *)

\* Mutant: a group that has stopped takes a task.
AppendTaskStoppedToo(t) ==
    /\ child[t] = "out"
    /\ queue' = Append(queue, t)
    /\ child' = [child EXCEPT ![t] = "queued"]
    /\ UNCHANGED <<relation, flags, retVals, sched, result, completed, outcome,
                   runs, expired, locals, undef>>

\* A group that stops, or is about to, takes no task.
AppendTask(t) ==
    /\ child[t] = "out"
    /\ ~IsStopped
    /\ state = "started" => running
    /\ queue' = Append(queue, t)
    /\ child' = [child EXCEPT ![t] = "queued"]
    /\ UNCHANGED <<relation, flags, retVals, sched, result, completed, outcome,
                   runs, expired, locals, undef>>

\* Only a group that has not run yet takes a task at its head.
InsertTask(t) ==
    /\ child[t] = "out"
    /\ state = "starting"
    /\ queue' = <<t>> \o queue
    /\ child' = [child EXCEPT ![t] = "queued"]
    /\ UNCHANGED <<relation, flags, retVals, sched, result, completed, outcome,
                   runs, expired, locals, undef>>

-----------------------------------------------------------------------------
(* Running the group.                                                      *)

\* The loop of RunTaskInternal at its head, with the queue q; r is the result
\* of the previous child.
RunNext(w, q, r) ==
    /\ queue' = q
    /\ IF q = <<>>
       THEN /\ noSched' = FALSE
            /\ state' = "stopping" /\ running' = FALSE
            /\ Go(w, "complete", None, r)
       ELSE /\ noSched' = TRUE
            /\ state' = IF state = "starting" THEN "started" ELSE state
            /\ running' = (running \/ state = "starting")
            /\ Go(w, "call", Head(q), r)

\* A result that decides the group: RunTask goes on to OnCancel.
CancelInstead(w) ==
    /\ state' = "stopping" /\ running' = FALSE
    /\ noSched' = FALSE
    /\ Go(w, "instead", None, "OK")
    /\ UNCHANGED queue

\* Mutant: the result of a child that was pending is not looked at.
RunTaskInternalOn(w) ==
    /\ IF \/ IsStopped \/ canceling \/ noSched \/ head = "waitComplete"
          \/ state = "started" /\ ~running
       THEN UNCHANGED <<state, running, noSched, queue, locals>>
       ELSE RunNext(w, queue, IF retVals = <<>> THEN "OK" ELSE Back(retVals))
    /\ UNCHANGED <<relation, canceling, head, retVals, result, completed, tasks,
                   undef>>

\* RunTaskInternal up to the call of the first child.
RunTaskInternal(w) ==
    /\ IF \/ IsStopped \/ canceling \/ noSched
          \/ state = "started" /\ ~running
       THEN UNCHANGED <<state, running, noSched, queue, locals>>
       ELSE IF head = "waitComplete"
       THEN /\ state' = "started" /\ running' = (running \/ state = "starting")
            /\ UNCHANGED <<noSched, queue, locals>>
       ELSE IF retVals # <<>> /\ Decides(Back(retVals)) /\ queue # <<>>
       THEN CancelInstead(w)
       ELSE RunNext(w, queue, IF retVals = <<>> THEN "OK" ELSE Back(retVals))
    /\ UNCHANGED <<relation, canceling, head, retVals, result, completed, tasks,
                   undef>>

\* The first run of the group, once it holds a task.
Launch(w) ==
    /\ state = "starting"
    /\ \E t \in Tasks : child[t] # "out"
    /\ At(w, "idle")
    /\ RunTaskInternal(w)
    /\ UNCHANGED sched

\* A thread of the pool takes the rescheduled group.
Scheduled(w) ==
    /\ sched > 0
    /\ At(w, "idle")
    /\ sched' = sched - 1
    /\ RunTaskInternal(w)

\* The queue without the first t, if it holds one: std::find and erase.
RemoveTask(q, t) ==
    LET found == {i \in DOMAIN q : q[i] = t /\ \A j \in 1..(i - 1) : q[j] # t} IN
    IF found = {} THEN q
    ELSE LET i == CHOOSE i \in found : TRUE
         IN  SubSeq(q, 1, i - 1) \o SubSeq(q, i + 1, Len(q))

\* RemoveTask, or, for the head, PopTask and the next run of the group.
OnChildComplete(t, r) ==
    IF Front(queue) # t
    THEN /\ queue' = RemoveTask(queue, t)
         /\ UNCHANGED <<retVals, head, sched>>
    ELSE /\ queue' = Tail(queue)
         /\ retVals' = Append(retVals, r)
         /\ IF noSched \/ IsStopped \/ head # "waitComplete"
            THEN UNCHANGED <<head, sched>>
            ELSE head' = "waitRunning" /\ sched' = sched + 1

\* OnComplete of a child: it parts from the group, unless it did so before.
ChildEnds(t, r, phase) ==
    /\ child' = [child EXCEPT ![t] = phase]
    /\ outcome' = [outcome EXCEPT ![t] = r]
    /\ IF child[t] = "done" THEN UNCHANGED <<queue, retVals, head, sched>>
       ELSE OnChildComplete(t, r)

\* The group calls a child, which ends on the spot or is pending.
CallChild(w) ==
    LET t == cur[w] IN
    /\ At(w, "call")
    /\ child[t] \in {"queued", "done"}
    /\ runs' = [runs EXCEPT ![t] = @ + 1]
    /\ \/ \E r \in {"OK", "ERR"} : ChildEnds(t, r, "done")
       \/ /\ child' = [child EXCEPT ![t] = IF @ = "queued" THEN "pending" ELSE @]
          /\ UNCHANGED <<outcome, queue, retVals, head, sched>>
    /\ Go(w, "called", t, ret[w])
    /\ UNCHANGED <<relation, state, running, canceling, noSched, result,
                   completed, expired, undef>>

\* pTask->GetError(), without a lock.
ReadError(w) ==
    LET t == cur[w] IN
    /\ At(w, "called")
    /\ Go(w, "relock", t, IF child[t] = "done" THEN outcome[t] ELSE "PENDING")
    /\ UNCHANGED <<relation, flags, queue, retVals, sched, result, completed,
                   tasks, undef>>

\* Mutants: GetError is believed; or a pending child is not waited for.
RelockNoRecheck(w) ==
    /\ At(w, "relock")
    /\ \/ /\ ret[w] = "PENDING"
          /\ noSched' = FALSE
          /\ head' = "waitComplete"
          /\ Go(w, "idle", None, "OK")
          /\ UNCHANGED <<state, running, queue>>
       \/ /\ ret[w] # "PENDING"
          /\ IF Decides(ret[w]) /\ queue # <<>> THEN CancelInstead(w)
             ELSE RunNext(w, queue, ret[w])
          /\ UNCHANGED head
    /\ UNCHANGED <<relation, canceling, retVals, sched, result, completed, tasks,
                   undef>>
RelockNoWait(w) ==
    /\ At(w, "relock")
    /\ RunNext(w, IF Front(queue) = cur[w] THEN Tail(queue) ELSE queue, ret[w])
    /\ UNCHANGED <<relation, canceling, head, retVals, sched, result, completed,
                   tasks, undef>>

\* The rest of the loop of RunTaskInternal.  A child that has left the queue is
\* not pending, whatever GetError said.
Relock(w) ==
    LET t == cur[w]
        gone == Front(queue) # t
        r == IF ret[w] = "PENDING" /\ gone /\ retVals # <<>> THEN Back(retVals)
             ELSE ret[w]
    IN
    /\ At(w, "relock")
    /\ undef' = (undef \/ (ret[w] = "PENDING" /\ gone /\ retVals = <<>>))
    /\ \/ /\ r = "PENDING"
          /\ noSched' = FALSE
          /\ head' = "waitComplete"
          /\ Go(w, "idle", None, "OK")
          /\ UNCHANGED <<state, running, queue>>
       \/ /\ r # "PENDING"
          /\ IF Decides(r) /\ queue # <<>> THEN CancelInstead(w)
             ELSE RunNext(w, IF gone THEN queue ELSE Tail(queue), r)
          /\ UNCHANGED head
    /\ UNCHANGED <<relation, canceling, retVals, sched, result, completed, tasks>>

-----------------------------------------------------------------------------
(* Children that end by themselves.                                        *)

\* The answer to a pending child, or its timeout: OnComplete finds that the
\* child has a parent ...
ChildDone(t) ==
    /\ child[t] = "pending"
    /\ child' = [child EXCEPT ![t] = "leaving"]
    /\ \E r \in {"OK", "ERR"} : outcome' = [outcome EXCEPT ![t] = r]
    /\ UNCHANGED <<relation, flags, queue, retVals, sched, result, completed,
                   runs, expired, locals, undef>>

\* ... and parts from it.
ChildLeaves(t) ==
    /\ child[t] = "leaving"
    /\ ChildEnds(t, outcome[t], "ending")
    /\ UNCHANGED <<relation, state, running, canceling, noSched, result,
                   completed, runs, expired, locals, undef>>

\* "a task in the queue is timeout before get chance to run" (iftasks.cpp:1682).
QueuedTimeout(t) ==
    /\ child[t] = "queued"
    /\ ChildEnds(t, "ERR", "ending")
    /\ expired' = expired \cup {t}
    /\ UNCHANGED <<relation, state, running, canceling, noSched, result,
                   completed, runs, locals, undef>>

\* SetError, the last thing OnComplete of a child does.
SetError(t) ==
    /\ child[t] = "ending"
    /\ child' = [child EXCEPT ![t] = "done"]
    /\ UNCHANGED <<relation, flags, queue, retVals, sched, result, completed,
                   outcome, runs, expired, locals, undef>>

-----------------------------------------------------------------------------
(* Cancelling the group.                                                   *)

\* Process( eventCancelTask ), once; a stopped group takes no notice.
CancelTask(w) ==
    /\ w = Canceller
    /\ At(w, "idle")
    /\ \E t \in Tasks : child[t] # "out"
    /\ ~IsStopped
    /\ Go(w, "cancel", None, "CANCEL")
    /\ UNCHANGED <<relation, flags, queue, retVals, sched, result, completed,
                   tasks, undef>>

\* The loop of OnCancel at its head, with the queue q; r is what it returns.
CancelNext(w, q, r) ==
    /\ queue' = q
    /\ noSched' = (q # <<>>)
    /\ IF q = <<>> THEN Go(w, "complete", None, r)
                   ELSE Go(w, "cancelCall", Head(q), r)

\* Mutant: a group that has stopped is cancelled again.
OnCancelStoppedToo(w) ==
    /\ At(w, "instead") \/ At(w, "cancel")
    /\ ~noSched
    /\ canceling' = TRUE /\ state' = "stopping" /\ running' = FALSE
    /\ CancelNext(w, queue, "CANCEL")
    /\ UNCHANGED <<relation, head, retVals, sched, result, completed, tasks, undef>>

\* OnCancel up to the first child.  It waits while a child is being called.
OnCancel(w) ==
    LET instead == At(w, "instead") IN
    /\ instead \/ At(w, "cancel")
    /\ IF (IsStopped /\ ~instead) \/ canceling
       THEN /\ Go(w, "idle", None, "OK")
            /\ UNCHANGED <<state, running, canceling, noSched, queue>>
       ELSE /\ ~noSched
            /\ canceling' = TRUE /\ state' = "stopping" /\ running' = FALSE
            /\ CancelNext(w, queue, IF instead /\ retVals # <<>>
                                    THEN Back(retVals) ELSE "CANCEL")
    /\ UNCHANGED <<relation, head, retVals, sched, result, completed, tasks, undef>>

\* The child is called with eventCancelTask, and completes (once more).  One
\* that is completing on another thread may have no parent any more, or still
\* have it; the first time somebody is in the child, the guard holds.
CancelChild(w) ==
    LET t == cur[w] IN
    /\ At(w, "cancelCall")
    /\ \/ /\ child[t] \in {"queued", "pending", "done"}
          /\ ChildEnds(t, "CANCEL", "done")
       \/ /\ child[t] = "leaving"
          /\ OnChildComplete(t, "CANCEL")
          /\ UNCHANGED <<child, outcome>>
       \/ /\ child[t] \in {"leaving", "ending"}
          /\ runs[t] > 0
          /\ UNCHANGED <<child, outcome, queue, retVals, head, sched>>
    /\ Go(w, "cancelNext", t, ret[w])
    /\ UNCHANGED <<relation, state, running, canceling, noSched, result,
                   completed, runs, expired, undef>>

\* The rest of the loop of OnCancel.
CancelRelock(w) ==
    /\ At(w, "cancelNext")
    /\ CancelNext(w, IF Front(queue) = cur[w] THEN Tail(queue) ELSE queue, ret[w])
    /\ UNCHANGED <<relation, state, running, canceling, head, retVals, sched,
                   result, completed, tasks, undef>>

\* OnComplete of the group, called by Process.
OnComplete(w) ==
    /\ At(w, "complete")
    /\ state' = "stopped"
    /\ result' = ret[w]
    /\ completed' = completed + 1
    /\ Go(w, "idle", None, "OK")
    /\ UNCHANGED <<relation, running, canceling, noSched, head, queue, retVals,
                   sched, tasks, undef>>

-----------------------------------------------------------------------------
Step(w) ==
    \/ CallChild(w) \/ ReadError(w) \/ Relock(w)
    \/ OnCancel(w) \/ CancelChild(w) \/ CancelRelock(w) \/ OnComplete(w)

Next ==
    \/ \E t \in Tasks : \/ AppendTask(t) \/ InsertTask(t)
                        \/ ChildDone(t) \/ ChildLeaves(t)
                        \/ QueuedTimeout(t) \/ SetError(t)
    \/ \E w \in Runners : Launch(w) \/ Scheduled(w)
    \/ \E w \in Workers : Step(w)
    \/ CancelTask(Canceller)

Spec == Init /\ [][Next]_vars

\* Threads run on, the pool serves its queue, and a pending child is answered or
\* times out.
Fairness ==
    /\ \A w \in Workers : WF_vars(Step(w))
    /\ WF_vars(\E w \in Runners : Scheduled(w))
    /\ WF_vars(\E w \in Runners : Launch(w))
    /\ \A t \in Tasks : WF_vars(ChildDone(t) \/ ChildLeaves(t) \/ SetError(t))

FairSpec == Spec /\ Fairness

-----------------------------------------------------------------------------
(* Properties.                                                             *)

TypeOK ==
    /\ relation \in {"AND", "OR", "NONE"}
    /\ state \in {"starting", "started", "stopping", "stopped"}
    /\ head \in {"waitStart", "waitRunning", "waitComplete"}
    /\ {running, canceling, noSched, undef} \subseteq BOOLEAN
    /\ queue \in Seq(Tasks)
    /\ retVals \in Seq(Outcomes)
    /\ sched \in Nat /\ completed \in Nat
    /\ result \in Outcomes \cup {"none"}
    /\ child \in [Tasks -> ChildPhases]
    /\ outcome \in [Tasks -> Outcomes \cup {"none"}]
    /\ runs \in [Tasks -> Nat] /\ expired \subseteq Tasks
    /\ pc \in [Workers -> Pcs]
    /\ cur \in [Workers -> Tasks \cup {None}]
    /\ ret \in [Workers -> Outcomes \cup {"PENDING"}]

\* The children run one after the other: none is called while another one is
\* being called or is pending, however many threads run the group.
Active == {t \in Tasks : child[t] \in {"pending", "leaving"}}
          \cup {cur[w] : w \in {v \in Workers : pc[v] = "call"}}
OneAtATime == Cardinality(Active) <= 1

\* Whoever comes first, the thread at the end of the queue or the canceller, is
\* the only one to call OnComplete.
CompletedOnce == completed <= 1

\* A group that has completed leaves no child behind, neither in its queue nor
\* pending: each has ended or is about to.
NoneLeft ==
    result # "none" =>
        /\ queue = <<>>
        /\ \A t \in Tasks : child[t] \notin {"queued", "pending"}

\* A logicAND group succeeds only if all of its children did; a logicOR group
\* succeeds if and only if one of them did, unless it was cancelled; an error is
\* the error of a child.  (A child that timed out in the queue behind another
\* one is removed without a trace.)  And when RunTaskInternal asks
\* m_vecRetVals.back() for the result of a child that completed behind its back,
\* there is one.
HonestResult ==
    /\ ~undef
    /\ expired = {} =>
        /\ result = "OK" /\ relation = "AND" =>
              \A t \in Tasks : child[t] # "out" => outcome[t] = "OK"
        /\ result = "OK" /\ relation = "OR" => \E t \in Tasks : outcome[t] = "OK"
        /\ result = "ERR" /\ relation = "OR" => \A t \in Tasks : outcome[t] # "OK"
        /\ result = "ERR" => \E t \in Tasks : outcome[t] = "ERR"

\* "all the remaining tasks in this task group will be canceled"
\* (iftasks.cpp:1629): once the result of a child, pending or not, has decided a
\* logicAND or logicOR group, no other child is run.
StopsAtDecision ==
    [][expired = {} =>
         \A t \in Tasks : runs'[t] > runs[t] =>
            ~\E u \in Tasks : outcome[u] # "none" /\ Decides(outcome[u])]_vars

\* A group that was given a task completes: no completion of a child is lost
\* between the return of the child and the moment the group starts to wait.
GroupCompletes == (\E t \in Tasks : child[t] # "out") ~> result # "none"
=============================================================================
