----------------------------- MODULE GroupProofs -----------------------------
(***************************************************************************)
(* A task group, with however many children and threads that run and       *)
(* cancel it, completes at most once, runs its children in turn, leaves    *)
(* none behind and ends with a result that is true to theirs.              *)
(*                                                                         *)
(* Three layers, each inductive given the one before: OneOwner says who    *)
(* may touch the group, SafeInv where the children are, ResultInv what is  *)
(* known of their results.                                                 *)
(***************************************************************************)
EXTENDS TaskGroup, FiniteSetTheorems, TLAPS

Looping == {"call", "called", "relock"}
Cancelling == {"cancelCall", "cancelNext"}
Owning == Looping \cup Cancelling \cup {"instead", "complete"}

\* The thread that owns the group: it is calling the children, cancelling them,
\* or about to call OnComplete.
Owner(w) == pc[w] \in Owning

\* What the flags of the group say of its owner.
OwnerShape(w) ==
    /\ pc[w] \in Looping => state = "started" /\ noSched /\ ~canceling
    /\ pc[w] \in Cancelling => state = "stopping" /\ noSched
    /\ pc[w] = "instead" => state = "stopping" /\ ~noSched /\ ~canceling
    /\ pc[w] = "complete" => state = "stopping" /\ ~noSched

\* The inductive invariant: one owner at a time, recognisable from the flags by
\* those who want to own the group; and completed counts its end.
OneOwner ==
    /\ pc \in [Workers -> Pcs]
    /\ state \in {"starting", "started", "stopping", "stopped"}
    /\ \A v, w \in Workers : Owner(v) /\ Owner(w) => v = w
    /\ \A w \in Workers : Owner(w) => OwnerShape(w)
    /\ completed = IF state = "stopped" THEN 1 ELSE 0

\* A step that leaves all of this alone.
LEMMA QuietStep ==
    ASSUME OneOwner, UNCHANGED <<state, canceling, noSched, completed, pc>>
    PROVE  OneOwner'
BY DEF OneOwner, Owner, OwnerShape

\* A step by which worker w, which owns the group or meets no owner, goes on.
LEMMA OwnerStep ==
    ASSUME OneOwner,
           NEW w \in Workers, NEW p \in Pcs,
           \A v \in Workers : Owner(v) => v = w,
           pc' = [pc EXCEPT ![w] = p],
           p \in Owning => OwnerShape(w)',
           state' \in {"starting", "started", "stopping", "stopped"},
           completed' = IF state' = "stopped" THEN 1 ELSE 0
    PROVE  OneOwner'
<1>1. pc' \in [Workers -> Pcs]
  BY DEF OneOwner
<1>2. \A v \in Workers : Owner(v)' => v = w /\ p \in Owning
  BY DEF OneOwner, Owner
<1> QED
  BY <1>1, <1>2 DEF OneOwner

\* Who finds the group neither stopped nor being called meets no owner.
LEMMA NoOwner ==
    ASSUME OneOwner, ~noSched, ~IsStopped
    PROVE  \A v \in Workers : ~Owner(v)
BY DEF OneOwner, Owner, OwnerShape, IsStopped, Owning, Looping, Cancelling

-----------------------------------------------------------------------------
LEMMA InitOneOwner == Init => OneOwner
BY DEF Init, OneOwner, Owner, OwnerShape, Owning, Looping, Cancelling, Pcs

LEMMA RunTaskInternalOneOwner ==
    ASSUME OneOwner, NEW w \in Runners, At(w, "idle"), RunTaskInternal(w)
    PROVE  OneOwner'
<1> USE DEF Pcs, Owning, Looping, Cancelling
<1>0. w \in Workers
  BY DEF Workers
<1>1. CASE \/ IsStopped \/ canceling \/ noSched
           \/ state = "started" /\ ~running
  BY <1>1, QuietStep DEF RunTaskInternal, locals
<1>2. CASE ~(\/ IsStopped \/ canceling \/ noSched
             \/ state = "started" /\ ~running)
  <2>1. \A v \in Workers : ~Owner(v)
    BY <1>2, NoOwner
  <2>2. completed = 0 /\ completed' = completed /\ canceling' = canceling
    BY <1>2 DEF OneOwner, IsStopped, RunTaskInternal
  <2>3. CASE head = "waitComplete"
    <3>1. state' = "started" /\ UNCHANGED <<noSched, pc>>
      BY <1>2, <2>3 DEF RunTaskInternal, locals
    <3> QED
      BY <3>1, <2>1, <2>2 DEF OneOwner, Owner
  <2>4. CASE /\ head # "waitComplete"
             /\ retVals # <<>> /\ Decides(Back(retVals)) /\ queue # <<>>
    <3>1. CancelInstead(w)
      BY <1>2, <2>4 DEF RunTaskInternal
    <3>2. /\ state' = "stopping" /\ ~noSched' /\ ~canceling'
          /\ pc' = [pc EXCEPT ![w] = "instead"]
      BY <3>1, <2>2, <1>2 DEF CancelInstead, Go
    <3>3. OwnerShape(w)'
      BY <3>2, <1>0 DEF OwnerShape, OneOwner
    <3> QED
      BY <3>2, <3>3, <2>1, <2>2, <1>0, OwnerStep
  <2>5. CASE /\ head # "waitComplete"
             /\ ~(retVals # <<>> /\ Decides(Back(retVals)) /\ queue # <<>>)
    <3>1. PICK r : RunNext(w, queue, r)
      BY <1>2, <2>5 DEF RunTaskInternal
    <3>2. CASE queue = <<>>
      <4>1. /\ state' = "stopping" /\ ~noSched'
            /\ pc' = [pc EXCEPT ![w] = "complete"]
        BY <3>1, <3>2 DEF RunNext, Go
      <4>2. OwnerShape(w)'
        BY <4>1, <1>0 DEF OwnerShape, OneOwner
      <4> QED
        BY <4>1, <4>2, <2>1, <2>2, <1>0, OwnerStep
    <3>3. CASE queue # <<>>
      <4>1. /\ state' = "started" /\ noSched' /\ ~canceling'
            /\ pc' = [pc EXCEPT ![w] = "call"]
        <5>1. state \in {"starting", "started"}
          BY <1>2 DEF OneOwner, IsStopped
        <5> QED
          BY <3>1, <3>3, <5>1, <2>2, <1>2 DEF RunNext, Go
      <4>2. OwnerShape(w)'
        BY <4>1, <1>0 DEF OwnerShape, OneOwner
      <4> QED
        BY <4>1, <4>2, <2>1, <2>2, <1>0, OwnerStep
    <3> QED
      BY <3>2, <3>3
  <2> QED
    BY <2>3, <2>4, <2>5
<1> QED
  BY <1>1, <1>2

\* The steps of the owner itself.
LEMMA StepOneOwner ==
    ASSUME OneOwner, NEW w \in Workers, Step(w)
    PROVE  OneOwner'
<1> USE DEF Pcs, Owning, Looping, Cancelling, At
<1>0. Owner(w) => \A v \in Workers : Owner(v) => v = w
  BY DEF OneOwner
<1>1. CASE CallChild(w)
  <2>1. /\ pc[w] = "call" /\ pc' = [pc EXCEPT ![w] = "called"]
        /\ UNCHANGED <<state, canceling, noSched, completed>>
    BY <1>1 DEF CallChild, Go
  <2>2. OwnerShape(w)'
    BY <2>1 DEF OneOwner, Owner, OwnerShape
  <2> QED
    BY <2>1, <2>2, <1>0, OwnerStep DEF OneOwner, Owner
<1>2. CASE ReadError(w)
  <2>1. /\ pc[w] = "called" /\ pc' = [pc EXCEPT ![w] = "relock"]
        /\ UNCHANGED <<state, canceling, noSched, completed>>
    BY <1>2 DEF ReadError, Go, flags
  <2>2. OwnerShape(w)'
    BY <2>1 DEF OneOwner, Owner, OwnerShape
  <2> QED
    BY <2>1, <2>2, <1>0, OwnerStep DEF OneOwner, Owner
<1>3. CASE Relock(w)
  <2>1. /\ pc[w] = "relock" /\ state = "started" /\ ~canceling
        /\ Owner(w) /\ completed = 0
        /\ UNCHANGED <<canceling, completed>>
    BY <1>3 DEF Relock, OneOwner, Owner, OwnerShape
  <2>2. \/ /\ pc' = [pc EXCEPT ![w] = "idle"] /\ UNCHANGED state
        \/ CancelInstead(w)
        \/ \E q, r : RunNext(w, q, r)
    BY <1>3 DEF Relock, Go
  <2>3. \/ /\ pc' = [pc EXCEPT ![w] = "idle"] /\ state' = "started"
        \/ /\ pc' = [pc EXCEPT ![w] = "instead"] /\ state' = "stopping"
           /\ ~noSched'
        \/ /\ pc' = [pc EXCEPT ![w] = "complete"] /\ state' = "stopping"
           /\ ~noSched'
        \/ /\ pc' = [pc EXCEPT ![w] = "call"] /\ state' = "started"
           /\ noSched'
    BY <2>1, <2>2 DEF CancelInstead, RunNext, Go
  <2>4. pc'[w] \in Owning => OwnerShape(w)'
    BY <2>1, <2>3 DEF OneOwner, OwnerShape
  <2>5. PICK p \in {"idle", "instead", "complete", "call"} :
           pc' = [pc EXCEPT ![w] = p]
    BY <2>3
  <2>6. pc'[w] = p
    BY <2>5 DEF OneOwner
  <2>7. state' \in {"started", "stopping"}
    BY <2>3
  <2> QED
    BY <2>1, <2>4, <2>5, <2>6, <2>7, <1>0, OwnerStep
<1>4. CASE OnCancel(w)
  <2>1. CASE (IsStopped /\ pc[w] # "instead") \/ canceling
    <3>1. /\ pc' = [pc EXCEPT ![w] = "idle"]
          /\ UNCHANGED <<state, canceling, noSched, completed>>
      BY <1>4, <2>1 DEF OnCancel, Go
    <3>2. pc' \in [Workers -> Pcs]
      BY <3>1 DEF OneOwner
    <3>3. \A v \in Workers : Owner(v)' => Owner(v) /\ pc'[v] = pc[v]
      BY <3>1 DEF OneOwner, Owner
    <3> QED
      BY <3>1, <3>2, <3>3 DEF OneOwner, OwnerShape
  <2>2. CASE ~((IsStopped /\ pc[w] # "instead") \/ canceling)
    <3>1. /\ ~noSched /\ canceling' /\ state' = "stopping"
          /\ completed' = completed
          /\ \E r : CancelNext(w, queue, r)
      BY <1>4, <2>2 DEF OnCancel
    <3>2. \A v \in Workers : Owner(v) => v = w
      BY <3>1, <2>2, <1>0, NoOwner DEF Owner
    <3>3. completed = 0
      BY <2>2 DEF OneOwner, IsStopped, Owner, OwnerShape
    <3>4. \/ pc' = [pc EXCEPT ![w] = "complete"] /\ ~noSched'
          \/ pc' = [pc EXCEPT ![w] = "cancelCall"] /\ noSched'
      BY <3>1 DEF CancelNext, Go
    <3>5. OwnerShape(w)'
      BY <3>1, <3>4 DEF OneOwner, OwnerShape
    <3> QED
      BY <3>1, <3>2, <3>3, <3>4, <3>5, OwnerStep
  <2> QED
    BY <2>1, <2>2
<1>5. CASE CancelChild(w)
  <2>1. /\ pc[w] = "cancelCall" /\ pc' = [pc EXCEPT ![w] = "cancelNext"]
        /\ UNCHANGED <<state, canceling, noSched, completed>>
    BY <1>5 DEF CancelChild, Go
  <2>2. OwnerShape(w)'
    BY <2>1 DEF OneOwner, Owner, OwnerShape
  <2> QED
    BY <2>1, <2>2, <1>0, OwnerStep DEF OneOwner, Owner
<1>6. CASE CancelRelock(w)
  <2>1. /\ pc[w] = "cancelNext"
        /\ UNCHANGED <<state, canceling, completed>>
        /\ \E q, r : CancelNext(w, q, r)
    BY <1>6 DEF CancelRelock
  <2>2. Owner(w) /\ state = "stopping" /\ completed = 0
    BY <2>1 DEF OneOwner, Owner, OwnerShape
  <2>3. \/ pc' = [pc EXCEPT ![w] = "complete"] /\ ~noSched'
        \/ pc' = [pc EXCEPT ![w] = "cancelCall"] /\ noSched'
    BY <2>1 DEF CancelNext, Go
  <2>4. OwnerShape(w)'
    BY <2>1, <2>2, <2>3 DEF OneOwner, OwnerShape
  <2> QED
    BY <2>1, <2>2, <2>3, <2>4, <1>0, OwnerStep
<1>7. CASE OnComplete(w)
  <2>1. /\ pc[w] = "complete" /\ pc' = [pc EXCEPT ![w] = "idle"]
        /\ state' = "stopped" /\ completed' = completed + 1
    BY <1>7 DEF OnComplete, Go
  <2>2. Owner(w) /\ completed = 0
    BY <2>1 DEF OneOwner, Owner, OwnerShape
  <2>3. \A v \in Workers : ~Owner(v)'
    BY <2>1, <2>2, <1>0 DEF OneOwner, Owner
  <2>4. pc' \in [Workers -> Pcs]
    BY <2>1 DEF OneOwner
  <2> QED
    BY <2>1, <2>2, <2>3, <2>4 DEF OneOwner
<1> QED
  BY <1>1, <1>2, <1>3, <1>4, <1>5, <1>6, <1>7 DEF Step

LEMMA NextOneOwner == OneOwner /\ [Next]_vars => OneOwner'
<1> SUFFICES ASSUME OneOwner, [Next]_vars
             PROVE  OneOwner'
  OBVIOUS
<1>1. ASSUME NEW t \in Tasks,
             \/ AppendTask(t) \/ InsertTask(t) \/ ChildDone(t)
             \/ ChildLeaves(t) \/ QueuedTimeout(t) \/ SetError(t)
      PROVE  OneOwner'
  BY <1>1, QuietStep DEF AppendTask, InsertTask, ChildDone, ChildLeaves,
     QueuedTimeout, SetError, flags, locals
<1>2. ASSUME NEW w \in Runners, Launch(w) \/ Scheduled(w)
      PROVE  OneOwner'
  BY <1>2, RunTaskInternalOneOwner DEF Launch, Scheduled
<1>3. ASSUME NEW w \in Workers, Step(w)
      PROVE  OneOwner'
  BY <1>3, StepOneOwner
<1>4. CASE CancelTask(Canceller)
  <2>1. /\ pc[Canceller] = "idle"
        /\ pc' = [pc EXCEPT ![Canceller] = "cancel"]
        /\ UNCHANGED <<state, canceling, noSched, completed>>
    BY <1>4 DEF CancelTask, At, Go, flags
  <2>2. pc' \in [Workers -> Pcs]
    BY <2>1 DEF OneOwner, Pcs
  <2>3. \A v \in Workers : Owner(v)' => Owner(v) /\ pc'[v] = pc[v]
    BY <2>1 DEF OneOwner, Owner, Owning, Looping, Cancelling
  <2> QED
    BY <2>1, <2>2, <2>3 DEF OneOwner, OwnerShape
<1>5. CASE UNCHANGED vars
  BY <1>5, QuietStep DEF vars
<1> QED
  BY <1>1, <1>2, <1>3, <1>4, <1>5 DEF Next

\* OnComplete of a task group (iftasks.cpp:1843) is called at most once, whatever
\* the number of its children and of the threads that run it, however they
\* interleave with its cancellation and with the completions of its children.
THEOREM GroupCompletesOnce == Spec => []CompletedOnce
<1>1. OneOwner => CompletedOnce
  BY DEF OneOwner, CompletedOnce
<1> QED
  BY <1>1, InitOneOwner, NextOneOwner, PTL DEF Spec
-----------------------------------------------------------------------------
(* The queue, the children and what the owner knows of them.               *)

InQueue(t) == \E i \in 1..Len(queue) : queue[i] = t
Pending == {t \in Tasks : child[t] \in {"pending", "leaving"}}
Ended == {t \in Tasks : child[t] \in {"ending", "done"}}
\* The group has neither been stopped nor run out of children.
Live == state \in {"starting", "started"}

\* The queue holds the children that wait or run, each of them once; it is empty
\* when OnComplete is called.
QueueShape ==
    /\ \A i, j \in 1..Len(queue) : queue[i] = queue[j] => i = j
    /\ \A t \in Tasks : InQueue(t) => child[t] \in {"queued", "pending", "leaving"}
    /\ \A t \in Tasks : child[t] \in {"queued", "pending"} => InQueue(t)
    /\ \A t \in Tasks : t \in Ended \/ child[t] = "leaving" <=> outcome[t] # "none"
    /\ \A w \in Workers : pc[w] = "complete" => queue = <<>>
    /\ state = "stopped" => queue = <<>>
    /\ result # "none" => state = "stopped"

\* What holds of worker w between two critical sections, the group's lock being
\* free: the child it calls is the only one that can be pending, and a child that
\* left the queue in the meantime has left its result.
LocalShape(w) ==
    /\ pc[w] \in Looping \cup Cancelling => cur[w] \in Tasks /\ child[cur[w]] # "out"
    /\ pc[w] # "relock" => ret[w] # "PENDING"
    /\ pc[w] = "cancelNext" => child[cur[w]] \notin {"queued", "pending"}
    /\ pc[w] = "call" =>
          Pending = {} /\ (child[cur[w]] = "queued" => Front(queue) = cur[w])
    /\ pc[w] \in {"called", "relock"} => Pending \subseteq {cur[w]}
    /\ pc[w] = "relock" /\ ret[w] # "PENDING" => child[cur[w]] = "done"
    /\ pc[w] \in Looping => head # "waitComplete"
    /\ pc[w] \in Looping => Front(queue) = cur[w] \/ retVals # <<>>

\* One child is pending at a time, the head of the queue; if nobody calls it, the
\* group waits for it.
RunShape ==
    /\ \A w \in Workers : LocalShape(w)
    /\ \A t, u \in Pending : t = u
    /\ Live => \A t \in Pending : t = Front(queue)
    /\ Live /\ head # "waitComplete" /\ (\A w \in Workers : pc[w] \notin Looping)
          => Pending = {}
    /\ state = "starting" => head # "waitComplete"
    /\ ~undef

\* The inductive invariant behind the safety of the group.
SafeInv == TypeOK /\ OneOwner /\ QueueShape /\ RunShape

LEMMA Fronts ==
    ASSUME queue \in Seq(Tasks), None \notin Tasks
    PROVE  /\ queue = <<>> => Front(queue) = None /\ \A t \in Tasks : ~InQueue(t)
           /\ queue # <<>> => Front(queue) \in Tasks /\ InQueue(Front(queue))
           /\ queue # <<>> => Front(queue) = Head(queue)
BY DEF Front, InQueue

LEMMA ConcatAt ==
    ASSUME NEW S, NEW a \in Seq(S), NEW b \in Seq(S),
           NEW k \in (Len(a) + 1)..(Len(a) + Len(b))
    PROVE  (a \o b)[k] = b[k - Len(a)]
OBVIOUS

\* RemoveTask takes t out and leaves the others, and the head, where they are.
LEMMA Removed ==
    ASSUME queue \in Seq(Tasks), NEW t \in Tasks,
           \A i, j \in 1..Len(queue) : queue[i] = queue[j] => i = j,
           Front(queue) # t, queue' = RemoveTask(queue, t)
    PROVE  /\ queue' \in Seq(Tasks)
           /\ \A i, j \in 1..Len(queue') : queue'[i] = queue'[j] => i = j
           /\ \A u \in Tasks : InQueue(u)' <=> InQueue(u) /\ u # t
           /\ Front(queue)' = Front(queue)
<1> DEFINE found == {i \in DOMAIN queue : queue[i] = t
                                          /\ \A j \in 1..(i - 1) : queue[j] # t}
<1>1. CASE found = {}
  <2>1. queue' = queue
    BY <1>1 DEF RemoveTask
  <2>2. \A i \in 1..Len(queue) : queue[i] # t
    <3> SUFFICES ASSUME NEW i \in 1..Len(queue), queue[i] = t
                 PROVE  FALSE
      OBVIOUS
    <3>1. \A j \in 1..(i - 1) : queue[j] # t
      OBVIOUS
    <3> QED
      BY <3>1, <1>1
  <2> QED
    BY <2>1, <2>2 DEF InQueue
<1>2. CASE found # {}
  <2> DEFINE i == CHOOSE i \in found : TRUE
  <2>1. i \in found
    BY <1>2
  <2> HIDE DEF i
  <2>2. i \in 1..Len(queue) /\ queue[i] = t
    BY <2>1
  <2>3. i # 1
    BY <2>2 DEF Front
  <2>4. queue' = SubSeq(queue, 1, i - 1) \o SubSeq(queue, i + 1, Len(queue))
    BY <1>2 DEF RemoveTask, i
  <2>5. /\ queue' \in Seq(Tasks) /\ Len(queue') = Len(queue) - 1
        /\ \A k \in 1..(i - 1) : queue'[k] = queue[k]
        /\ \A k \in i..(Len(queue) - 1) : queue'[k] = queue[k + 1]
    <3> DEFINE a == SubSeq(queue, 1, i - 1)
    <3> DEFINE b == SubSeq(queue, i + 1, Len(queue))
    <3>1. /\ a \in Seq(Tasks) /\ Len(a) = i - 1
          /\ \A k \in 1..(i - 1) : a[k] = queue[k]
      BY <2>2
    <3>2. /\ b \in Seq(Tasks) /\ Len(b) = Len(queue) - i
          /\ \A k \in 1..(Len(queue) - i) : b[k] = queue[i + k]
      BY <2>2
    <3>3. queue' = a \o b
      BY <2>4
    <3> HIDE DEF a, b
    <3>4. queue' \in Seq(Tasks) /\ Len(queue') = Len(queue) - 1
      BY <3>1, <3>2, <3>3, <2>2
    <3>5. \A k \in 1..(i - 1) : queue'[k] = queue[k]
      BY <3>1, <3>2, <3>3, <2>2
    <3>6. ASSUME NEW k \in i..(Len(queue) - 1)
          PROVE  queue'[k] = queue[k + 1]
      <4>1. queue'[k] = b[k - Len(a)]
        <5>1. k \in (Len(a) + 1)..(Len(a) + Len(b))
          BY <3>1, <3>2, <2>2
        <5>2. (a \o b)[k] = b[k - Len(a)]
          BY <3>1, <3>2, <5>1, ConcatAt
        <5> QED
          BY <3>3, <5>2
      <4>2. k - (i - 1) \in 1..(Len(queue) - i) /\ i + (k - (i - 1)) = k + 1
        BY <2>2
      <4> QED
        BY <4>1, <4>2, <3>1, <3>2
    <3> QED
      BY <3>4, <3>5, <3>6
  <2>6. \A j, k \in 1..Len(queue') : queue'[j] = queue'[k] => j = k
    BY <2>2, <2>5
  <2>7. ASSUME NEW u \in Tasks, InQueue(u)
        PROVE  u # t => InQueue(u)'
    <3>1. PICK k \in 1..Len(queue) : queue[k] = u
      BY <2>7 DEF InQueue
    <3>2. CASE k < i
      BY <3>1, <3>2, <2>2, <2>5 DEF InQueue
    <3>3. CASE k > i
      <4>1. k - 1 \in i..(Len(queue) - 1) /\ (k - 1) + 1 = k
        BY <3>3, <2>2
      <4>2. queue'[k - 1] = u /\ k - 1 \in 1..Len(queue')
        BY <3>1, <4>1, <2>2, <2>5
      <4> QED
        BY <4>2 DEF InQueue
    <3> QED
      BY <3>1, <3>2, <3>3, <2>2
  <2>8. ASSUME NEW u \in Tasks, InQueue(u)'
        PROVE  InQueue(u) /\ u # t
    <3>1. PICK k \in 1..Len(queue') : queue'[k] = u
      BY <2>8 DEF InQueue
    <3> QED
      BY <3>1, <2>2, <2>5 DEF InQueue
  <2>9. Front(queue)' = Front(queue)
    BY <2>2, <2>3, <2>5 DEF Front
  <2> QED
    BY <2>5, <2>6, <2>7, <2>8, <2>9
<1> QED
  BY <1>1, <1>2

LEMMA Popped ==
    ASSUME queue \in Seq(Tasks), queue # <<>>,
           \A i, j \in 1..Len(queue) : queue[i] = queue[j] => i = j,
           queue' = Tail(queue)
    PROVE  /\ queue' \in Seq(Tasks)
           /\ \A i, j \in 1..Len(queue') : queue'[i] = queue'[j] => i = j
           /\ \A u \in Tasks : InQueue(u)' <=> InQueue(u) /\ u # Front(queue)
<1>1. /\ queue' \in Seq(Tasks) /\ Len(queue') = Len(queue) - 1
      /\ \A k \in 1..(Len(queue) - 1) : queue'[k] = queue[k + 1]
  OBVIOUS
<1>2. \A i, j \in 1..Len(queue') : queue'[i] = queue'[j] => i = j
  BY <1>1
<1>3. ASSUME NEW u \in Tasks, InQueue(u), u # Front(queue)
      PROVE  InQueue(u)'
  <2>1. PICK k \in 1..Len(queue) : queue[k] = u
    BY <1>3 DEF InQueue
  <2>2. k # 1
    BY <2>1, <1>3 DEF Front
  <2>3. k - 1 \in 1..Len(queue') /\ queue'[k - 1] = u
    BY <2>1, <2>2, <1>1
  <2> QED
    BY <2>3 DEF InQueue
<1>4. ASSUME NEW u \in Tasks, InQueue(u)'
      PROVE  InQueue(u) /\ u # Front(queue)
  <2>1. PICK k \in 1..Len(queue') : queue'[k] = u
    BY <1>4 DEF InQueue
  <2>2. k + 1 \in 1..Len(queue) /\ queue[k + 1] = u
    BY <2>1, <1>1
  <2>3. u # Head(queue)
    BY <2>2, <2>1, <1>1
  <2> QED
    BY <2>2, <2>3 DEF InQueue, Front
<1> QED
  BY <1>1, <1>2, <1>3, <1>4

\* OnChildComplete takes t out of the queue; from its head, it records r.
LEMMA Parted ==
    ASSUME SafeInv, NEW t \in Tasks, NEW r \in Outcomes, OnChildComplete(t, r)
    PROVE  /\ queue' \in Seq(Tasks) /\ retVals' \in Seq(Outcomes) /\ sched' \in Nat
           /\ \A i, j \in 1..Len(queue') : queue'[i] = queue'[j] => i = j
           /\ \A u \in Tasks : InQueue(u)' <=> InQueue(u) /\ u # t
           /\ queue = <<>> => queue' = <<>>
           /\ Front(queue) # t => /\ Front(queue)' = Front(queue)
                                  /\ UNCHANGED <<retVals, head, sched>>
           /\ Front(queue) = t => /\ retVals' # <<>> /\ Back(retVals)' = r
                                  /\ \/ UNCHANGED <<head, sched>>
                                     \/ head' = "waitRunning"
<1> USE GroupAssumption
<1>1. queue \in Seq(Tasks) /\ retVals \in Seq(Outcomes) /\ sched \in Nat
  BY DEF SafeInv, TypeOK
<1>2. \A i, j \in 1..Len(queue) : queue[i] = queue[j] => i = j
  BY DEF SafeInv, QueueShape
<1>3. CASE Front(queue) # t
  <2>1. queue' = RemoveTask(queue, t) /\ UNCHANGED <<retVals, head, sched>>
    BY <1>3 DEF OnChildComplete
  <2>2. queue = <<>> => queue' = <<>>
    BY <2>1 DEF RemoveTask
  <2> QED
    BY <1>1, <1>2, <1>3, <2>1, <2>2, Removed
<1>4. CASE Front(queue) = t
  <2>1. queue # <<>>
    BY <1>1, <1>4, Fronts
  <2>2. queue' = Tail(queue) /\ retVals' = Append(retVals, r)
    BY <1>4 DEF OnChildComplete
  <2>3. UNCHANGED <<head, sched>> \/ (head' = "waitRunning" /\ sched' = sched + 1)
    BY <1>4 DEF OnChildComplete
  <2>4. retVals' \in Seq(Outcomes) /\ retVals' # <<>> /\ Back(retVals)' = r
    BY <1>1, <2>2 DEF Back
  <2>5. sched' \in Nat
    BY <1>1, <2>3
  <2> QED
    BY <1>1, <1>2, <1>4, <2>1, <2>2, <2>3, <2>4, <2>5, Popped
<1> QED
  BY <1>3, <1>4

\* A task joins the queue, behind the others or, in a group that has not run,
\* before them.
LEMMA Joined ==
    ASSUME queue \in Seq(Tasks), NEW t \in Tasks, ~InQueue(t),
           \A i, j \in 1..Len(queue) : queue[i] = queue[j] => i = j,
           queue' = Append(queue, t) \/ queue' = <<t>> \o queue
    PROVE  /\ queue' \in Seq(Tasks) /\ queue' # <<>>
           /\ \A i, j \in 1..Len(queue') : queue'[i] = queue'[j] => i = j
           /\ \A u \in Tasks : InQueue(u)' <=> InQueue(u) \/ u = t
           /\ queue' = Append(queue, t) /\ queue # <<>> => Front(queue)' = Front(queue)
<1>1. CASE queue' = Append(queue, t)
  <2>1. /\ queue' \in Seq(Tasks) /\ Len(queue') = Len(queue) + 1
        /\ queue'[Len(queue) + 1] = t
        /\ \A k \in 1..Len(queue) : queue'[k] = queue[k]
    BY <1>1
  <2>2. \A u \in Tasks : InQueue(u)' <=> InQueue(u) \/ u = t
    BY <2>1 DEF InQueue
  <2>3. ASSUME NEW i \in 1..Len(queue'), NEW j \in 1..Len(queue'), queue'[i] = queue'[j]
        PROVE  i = j
    <3>1. \A k \in 1..Len(queue) : queue'[k] = queue[k] /\ queue[k] # t
      BY <2>1 DEF InQueue
    <3> QED
      BY <2>1, <2>3, <3>1
  <2>4. queue' # <<>> /\ (queue # <<>> => Front(queue)' = Front(queue))
    BY <2>1 DEF Front
  <2> QED
    BY <2>1, <2>2, <2>3, <2>4
<1>2. CASE queue' = <<t>> \o queue /\ queue' # Append(queue, t)
  <2>1. /\ queue' \in Seq(Tasks) /\ Len(queue') = Len(queue) + 1
        /\ queue'[1] = t
        /\ \A k \in 2..(Len(queue) + 1) : queue'[k] = queue[k - 1]
    BY <1>2
  <2>2. ASSUME NEW u \in Tasks, InQueue(u)
        PROVE  InQueue(u)'
    <3>1. PICK k \in 1..Len(queue) : queue[k] = u
      BY <2>2 DEF InQueue
    <3>2. k + 1 \in 2..(Len(queue) + 1) /\ queue'[k + 1] = u
      BY <3>1, <2>1
    <3> QED
      BY <3>2, <2>1 DEF InQueue
  <2>3. ASSUME NEW u \in Tasks, InQueue(u)', u # t
        PROVE  InQueue(u)
    <3>1. PICK k \in 1..Len(queue') : queue'[k] = u
      BY <2>3 DEF InQueue
    <3>2. k - 1 \in 1..Len(queue) /\ queue[k - 1] = u
      BY <3>1, <2>1, <2>3
    <3> QED
      BY <3>2 DEF InQueue
  <2>4. ASSUME NEW i \in 1..Len(queue'), NEW j \in 1..Len(queue'),
               queue'[i] = queue'[j]
        PROVE  i = j
    <3>1. ASSUME NEW k \in 2..(Len(queue) + 1)
          PROVE  k - 1 \in 1..Len(queue) /\ queue'[k] # t
      <4>1. k - 1 \in 1..Len(queue)
        OBVIOUS
      <4>2. queue'[k] = queue[k - 1]
        BY <2>1
      <4> QED
        BY <4>1, <4>2 DEF InQueue
    <3>2. CASE i = 1 \/ j = 1
      BY <2>1, <2>4, <3>1, <3>2
    <3>3. CASE i # 1 /\ j # 1
      <4>1. /\ i - 1 \in 1..Len(queue) /\ j - 1 \in 1..Len(queue)
            /\ queue[i - 1] = queue[j - 1]
        BY <2>1, <2>4, <3>3
      <4> QED
        BY <4>1
    <3> QED
      BY <3>2, <3>3
  <2> QED
    BY <1>2, <2>1, <2>2, <2>3, <2>4 DEF InQueue
<1> QED
  BY <1>1, <1>2

-----------------------------------------------------------------------------
LEMMA InitSafe == Init => SafeInv
<1> SUFFICES ASSUME Init
             PROVE  SafeInv
  OBVIOUS
<1>1. OneOwner
  BY InitOneOwner
<1>2. TypeOK
  <2>1. {running, canceling, noSched, undef} \subseteq BOOLEAN
    BY Zenon DEF Init
  <2>2. queue \in Seq(Tasks) /\ retVals \in Seq(Outcomes)
    BY DEF Init
  <2> QED
    BY <2>1, <2>2 DEF Init, TypeOK, ChildPhases, Pcs, Outcomes
<1>3. QueueShape
  BY DEF Init, QueueShape, InQueue, Ended
<1>4. RunShape
  BY DEF Init, RunShape, LocalShape, Pending, Live, Looping, Cancelling
<1> QED
  BY <1>1, <1>2, <1>3, <1>4 DEF SafeInv

LEMMA FillSafe ==
    ASSUME SafeInv, NEW t \in Tasks, AppendTask(t) \/ InsertTask(t)
    PROVE  SafeInv'
<1> USE GroupAssumption
<1>1. /\ child[t] = "out" /\ child' = [child EXCEPT ![t] = "queued"]
      /\ UNCHANGED <<relation, state, running, canceling, noSched, head, retVals, sched,
                     result, completed, outcome, runs, expired, pc, cur, ret, undef>>
  BY DEF AppendTask, InsertTask, flags, locals
<1>2. queue \in Seq(Tasks) /\ ~InQueue(t)
  BY <1>1 DEF SafeInv, TypeOK, QueueShape
<1>3. \A i, j \in 1..Len(queue) : queue[i] = queue[j] => i = j
  BY DEF SafeInv, QueueShape
<1>4. queue' = Append(queue, t) \/ queue' = <<t>> \o queue
  BY DEF AppendTask, InsertTask
<1>5. /\ queue' \in Seq(Tasks) /\ queue' # <<>>
      /\ \A i, j \in 1..Len(queue') : queue'[i] = queue'[j] => i = j
      /\ \A u \in Tasks : InQueue(u)' <=> InQueue(u) \/ u = t
      /\ queue' = Append(queue, t) /\ queue # <<>> => Front(queue)' = Front(queue)
  BY <1>2, <1>3, <1>4, Joined
<1>6. OneOwner'
  BY <1>1, QuietStep DEF SafeInv
<1>7. TypeOK'
  BY <1>1, <1>5 DEF SafeInv, TypeOK, ChildPhases
<1>8. state \in {"starting", "started"} /\ (state = "starting" \/ queue' = Append(queue, t))
  BY DEF AppendTask, InsertTask, IsStopped, SafeInv, TypeOK
<1>9. Pending' = Pending /\ Ended' = Ended /\ child \in [Tasks -> ChildPhases]
  BY <1>1 DEF Pending, Ended, SafeInv, TypeOK
<1>10. \A w \in Workers : pc[w] # "complete"
  BY <1>8 DEF SafeInv, OneOwner, Owner, OwnerShape, Owning
<1>11. QueueShape'
  BY <1>1, <1>5, <1>8, <1>9, <1>10 DEF SafeInv, QueueShape
<1>12. RunShape'
  <2>1. state = "starting" => Pending = {} /\ \A w \in Workers : pc[w] \notin Looping
    BY DEF SafeInv, OneOwner, Owner, OwnerShape, Owning, RunShape, Live, Looping
  <2>2. state # "starting" /\ Front(queue)' # Front(queue) => queue = <<>> /\ Front(queue) = None
    BY <1>5, <1>8, <1>2, Fronts
  <2>3. \A u \in Pending : u # None
    BY DEF Pending
  <2>4. ASSUME NEW w \in Workers
        PROVE  LocalShape(w)'
    <3>1. LocalShape(w) /\ cur[w] = cur'[w] /\ ret[w] = ret'[w] /\ pc[w] = pc'[w]
      BY <1>1 DEF SafeInv, RunShape
    <3>2. pc[w] \in Looping => Front(queue) = cur[w] \/ retVals # <<>>
      BY <3>1 DEF LocalShape
    <3>3. pc[w] \notin Cancelling
      BY <1>8 DEF SafeInv, OneOwner, Owner, OwnerShape, Owning, Cancelling
    <3>4. pc[w] \in Looping => cur[w] # None /\ cur[w] # t /\ child'[cur[w]] = child[cur[w]]
      BY <3>1, <1>1, <1>9 DEF LocalShape
    <3> QED
      BY <3>1, <3>2, <3>3, <3>4, <1>1, <1>9, <2>1, <2>2 DEF LocalShape, Looping, Cancelling
  <2> QED
    BY <1>1, <1>9, <2>1, <2>2, <2>3, <2>4 DEF SafeInv, RunShape, Live
<1> QED
  BY <1>6, <1>7, <1>11, <1>12 DEF SafeInv

LEMMA ChildDoneSafe ==
    ASSUME SafeInv, NEW t \in Tasks, ChildDone(t)
    PROVE  SafeInv'
<1>1. /\ child[t] = "pending" /\ child' = [child EXCEPT ![t] = "leaving"]
      /\ UNCHANGED <<relation, state, running, canceling, noSched, head, queue, retVals,
                     sched, result, completed, runs, expired, pc, cur, ret, undef>>
      /\ \E r \in {"OK", "ERR"} : outcome' = [outcome EXCEPT ![t] = r]
  BY DEF ChildDone, flags, locals
<1>2. OneOwner'
  BY <1>1, QuietStep DEF SafeInv
<1>3. TypeOK'
  BY <1>1 DEF SafeInv, TypeOK, ChildPhases, Outcomes
<1>4. Pending' = Pending /\ Ended' = Ended
  BY <1>1 DEF SafeInv, TypeOK, Pending, Ended
<1>5. QueueShape'
  <2>1. \A u : InQueue(u)' <=> InQueue(u)
    BY <1>1 DEF InQueue
  <2>2. \A u \in Tasks : u # t => child'[u] = child[u] /\ outcome'[u] = outcome[u]
    BY <1>1 DEF SafeInv, TypeOK
  <2>3. child'[t] = "leaving" /\ outcome'[t] # "none"
    BY <1>1 DEF SafeInv, TypeOK, QueueShape, Ended
  <2> QED
    BY <1>1, <1>4, <2>1, <2>2, <2>3 DEF SafeInv, QueueShape, Ended
<1>6. ASSUME NEW w \in Workers
      PROVE  LocalShape(w)'
  <2>1. LocalShape(w)
    BY DEF SafeInv, RunShape
  <2>2. IF cur[w] = t THEN child'[cur[w]] = "leaving" ELSE child'[cur[w]] = child[cur[w]]
    BY <1>1 DEF SafeInv, TypeOK
  <2> QED
    BY <2>1, <2>2, <1>1, <1>4 DEF LocalShape
<1> QED
  BY <1>1, <1>2, <1>3, <1>4, <1>5, <1>6 DEF SafeInv, RunShape, Live

LEMMA SetErrorSafe ==
    ASSUME SafeInv, NEW t \in Tasks, SetError(t)
    PROVE  SafeInv'
<1>1. /\ child[t] = "ending" /\ child' = [child EXCEPT ![t] = "done"]
      /\ UNCHANGED <<relation, state, running, canceling, noSched, head, queue, retVals, sched,
                     result, completed, outcome, runs, expired, pc, cur, ret, undef>>
  BY DEF SetError, flags, locals
<1>2. OneOwner'
  BY <1>1, QuietStep DEF SafeInv
<1>3. TypeOK'
  BY <1>1 DEF SafeInv, TypeOK, ChildPhases
<1>4. Pending' = Pending /\ Ended' = Ended
  BY <1>1 DEF SafeInv, TypeOK, Pending, Ended
<1>5. QueueShape'
  <2>1. \A u : InQueue(u)' <=> InQueue(u)
    BY <1>1 DEF InQueue
  <2>2. \A u \in Tasks : u # t => child'[u] = child[u] /\ outcome'[u] = outcome[u]
    BY <1>1 DEF SafeInv, TypeOK
  <2>3. child'[t] = "done" /\ outcome'[t] # "none"
    BY <1>1 DEF SafeInv, TypeOK, QueueShape, Ended
  <2> QED
    BY <1>1, <1>4, <2>1, <2>2, <2>3 DEF SafeInv, QueueShape, Ended
<1>6. ASSUME NEW w \in Workers
      PROVE  LocalShape(w)'
  <2>1. LocalShape(w)
    BY DEF SafeInv, RunShape
  <2>2. IF cur[w] = t THEN child'[cur[w]] = "done" ELSE child'[cur[w]] = child[cur[w]]
    BY <1>1 DEF SafeInv, TypeOK
  <2> QED
    BY <2>1, <2>2, <1>1, <1>4 DEF LocalShape
<1> QED
  BY <1>1, <1>2, <1>3, <1>4, <1>5, <1>6 DEF SafeInv, RunShape, Live

\* A child parts from the group by itself.
LEMMA PartingSafe ==
    ASSUME SafeInv, NEW t \in Tasks, NEW r \in Outcomes,
           child[t] \in {"queued", "leaving"},
           ChildEnds(t, r, "ending"),
           UNCHANGED <<relation, state, running, canceling, noSched, result, completed,
                       runs, pc, cur, ret, undef>>,
           expired' \subseteq Tasks
    PROVE  SafeInv'
<1> USE GroupAssumption
<1>1. /\ child' = [child EXCEPT ![t] = "ending"]
      /\ outcome' = [outcome EXCEPT ![t] = r]
      /\ OnChildComplete(t, r)
  BY DEF ChildEnds
<1>2. /\ queue' \in Seq(Tasks) /\ retVals' \in Seq(Outcomes) /\ sched' \in Nat
      /\ \A i, j \in 1..Len(queue') : queue'[i] = queue'[j] => i = j
      /\ \A u \in Tasks : InQueue(u)' <=> InQueue(u) /\ u # t
      /\ queue = <<>> => queue' = <<>>
      /\ Front(queue) # t => /\ Front(queue)' = Front(queue)
                             /\ UNCHANGED <<retVals, head, sched>>
      /\ Front(queue) = t => /\ retVals' # <<>>
                             /\ \/ UNCHANGED <<head, sched>>
                                \/ head' = "waitRunning"
  BY <1>1, Parted
<1>3. OneOwner'
  BY QuietStep DEF SafeInv
<1>4. TypeOK'
  BY <1>1, <1>2 DEF SafeInv, TypeOK, ChildPhases, Outcomes
<1>5. Pending' = Pending \ {t} /\ Ended' = Ended \cup {t}
  BY <1>1 DEF SafeInv, TypeOK, Pending, Ended
<1>6. QueueShape'
  BY <1>1, <1>2, <1>5 DEF SafeInv, TypeOK, QueueShape, Outcomes
<1>7. Live => Pending \subseteq {Front(queue)}
  BY DEF SafeInv, RunShape
<1>8. ASSUME NEW w \in Workers
      PROVE  LocalShape(w)'
  <2>1. LocalShape(w)
    BY DEF SafeInv, RunShape
  <2>2. cur[w] = t => child'[cur[w]] = "ending"
    BY <1>1 DEF SafeInv, TypeOK
  <2>3. cur[w] # t => child'[cur[w]] = child[cur[w]]
    BY <1>1 DEF SafeInv, TypeOK
  <2>4. pc[w] \in Looping => head' # "waitComplete"
    BY <2>1, <1>2 DEF LocalShape
  <2>5. pc[w] \in Looping => Front(queue)' = cur[w] \/ retVals' # <<>>
    BY <2>1, <1>2 DEF LocalShape
  <2> QED
    BY <2>1, <2>2, <2>3, <2>4, <2>5, <1>2, <1>5 DEF LocalShape
<1>9. RunShape'
  <2>1. /\ \A u, v \in Pending : u = v
        /\ state = "starting" => head # "waitComplete"
        /\ Live /\ head # "waitComplete" /\ (\A w \in Workers : pc[w] \notin Looping)
             => Pending = {}
        /\ ~undef
    BY DEF SafeInv, RunShape
  <2>2. Live' <=> Live
    BY DEF Live
  <2>3. Live => Pending' \subseteq {Front(queue)'}
    BY <1>2, <1>5, <1>7
  <2>4. Live' /\ head' # "waitComplete" /\ (\A w \in Workers : pc'[w] \notin Looping)
             => Pending' = {}
    BY <1>2, <1>5, <1>7, <2>1, <2>2
  <2> QED
    BY <1>2, <1>5, <1>8, <2>1, <2>2, <2>3, <2>4 DEF RunShape
<1> QED
  BY <1>3, <1>4, <1>6, <1>9 DEF SafeInv

LEMMA ChildLeavesSafe ==
    ASSUME SafeInv, NEW t \in Tasks, ChildLeaves(t)
    PROVE  SafeInv'
<1>1. outcome[t] \in Outcomes /\ child[t] = "leaving"
  BY DEF ChildLeaves, SafeInv, TypeOK, QueueShape
<1>2. expired' \subseteq Tasks
  BY DEF ChildLeaves, SafeInv, TypeOK
<1> QED
  BY <1>1, <1>2, PartingSafe DEF ChildLeaves, locals

LEMMA QueuedTimeoutSafe ==
    ASSUME SafeInv, NEW t \in Tasks, QueuedTimeout(t)
    PROVE  SafeInv'
<1>1. "ERR" \in Outcomes /\ child[t] = "queued"
  BY DEF QueuedTimeout, Outcomes
<1>2. expired' \subseteq Tasks
  BY DEF QueuedTimeout, SafeInv, TypeOK
<1> QED
  BY <1>1, <1>2, PartingSafe DEF QueuedTimeout, locals

\* When the owner w goes on, the other workers have nothing to do with the queue.
LEMMA OwnerGoes ==
    ASSUME SafeInv, NEW w \in Workers, \A v \in Workers : Owner(v) => v = w,
           NEW p \in Pcs, NEW t \in Tasks \cup {None}, NEW r \in Outcomes \cup {"PENDING"},
           Go(w, p, t, r)
    PROVE  /\ pc'[w] = p /\ cur'[w] = t /\ ret'[w] = r
           /\ pc' \in [Workers -> Pcs] /\ cur' \in [Workers -> Tasks \cup {None}]
           /\ ret' \in [Workers -> Outcomes \cup {"PENDING"}]
           /\ \A v \in Workers : v # w => /\ LocalShape(v)'
                                          /\ pc'[v] \in {"idle", "cancel"}
<1>1. /\ pc' = [pc EXCEPT ![w] = p] /\ cur' = [cur EXCEPT ![w] = t]
      /\ ret' = [ret EXCEPT ![w] = r]
  BY DEF Go
<1>2. /\ pc \in [Workers -> Pcs] /\ cur \in [Workers -> Tasks \cup {None}]
      /\ ret \in [Workers -> Outcomes \cup {"PENDING"}]
  BY DEF SafeInv, TypeOK
<1>3. ASSUME NEW v \in Workers, v # w
      PROVE  LocalShape(v)' /\ pc'[v] \in {"idle", "cancel"}
  <2>1. pc'[v] = pc[v] /\ ret'[v] = ret[v]
    BY <1>1, <1>2, <1>3
  <2>2. pc[v] \in {"idle", "cancel"}
    BY <1>2, <1>3 DEF Owner, Owning, Looping, Cancelling, Pcs
  <2>3. ret[v] # "PENDING"
    BY <2>2 DEF SafeInv, RunShape, LocalShape
  <2> QED
    BY <2>1, <2>2, <2>3 DEF LocalShape, Looping, Cancelling
<1> QED
  BY <1>1, <1>2, <1>3

\* The head of the loop of RunTaskInternal, when no child is pending.
LEMMA RunNextSafe ==
    ASSUME SafeInv, OneOwner', NEW w \in Workers, \A v \in Workers : Owner(v) => v = w,
           Live, Pending = {}, head # "waitComplete", pc[w] # "cancel",
           NEW r \in Outcomes, RunNext(w, queue, r),
           UNCHANGED <<relation, canceling, head, retVals, result, completed, child,
                       outcome, runs, expired, undef>>,
           sched' \in Nat
    PROVE  SafeInv'
<1> USE GroupAssumption
<1>1. queue' = queue /\ state \in {"starting", "started"}
  BY DEF RunNext, Live
<1>2. Pending' = Pending /\ Ended' = Ended /\ \A u : InQueue(u)' <=> InQueue(u)
  BY <1>1 DEF Pending, Ended, InQueue
<1>3. queue \in Seq(Tasks)
  BY DEF SafeInv, TypeOK
<1>4. {running, canceling, noSched, undef} \subseteq BOOLEAN
  BY DEF SafeInv, TypeOK
<1>5. CASE queue = <<>>
  <2>1. /\ ~noSched' /\ ~running' /\ state' = "stopping" /\ Go(w, "complete", None, r)
    BY <1>5 DEF RunNext
  <2>2. /\ pc'[w] = "complete" /\ cur'[w] = None /\ ret'[w] = r
        /\ pc' \in [Workers -> Pcs] /\ cur' \in [Workers -> Tasks \cup {None}]
        /\ ret' \in [Workers -> Outcomes \cup {"PENDING"}]
        /\ \A v \in Workers : v # w => LocalShape(v)' /\ pc'[v] \in {"idle", "cancel"}
    BY <2>1, OwnerGoes DEF Pcs
  <2>3. {running', canceling', noSched', undef'} \subseteq BOOLEAN
    BY <1>5, <1>4 DEF RunNext
  <2>4. TypeOK'
    BY <1>1, <2>1, <2>2, <2>3 DEF SafeInv, TypeOK
  <2>5. QueueShape'
    BY <1>1, <1>2, <1>5, <2>1, <2>2 DEF SafeInv, QueueShape
  <2>6. LocalShape(w)'
    BY <2>2 DEF LocalShape, Looping, Cancelling, Outcomes
  <2>7. RunShape'
    BY <1>1, <1>2, <2>1, <2>2, <2>6 DEF SafeInv, RunShape, Live
  <2> QED
    BY <2>4, <2>5, <2>7 DEF SafeInv
<1>6. CASE queue # <<>>
  <2>1. /\ Head(queue) \in Tasks /\ InQueue(Head(queue)) /\ Front(queue) = Head(queue)
    BY <1>3, <1>6, Fronts
  <2>2. /\ noSched' /\ state' = "started" /\ Go(w, "call", Head(queue), r)
    BY <1>1, <1>6 DEF RunNext
  <2>3. /\ pc'[w] = "call" /\ cur'[w] = Head(queue) /\ ret'[w] = r
        /\ pc' \in [Workers -> Pcs] /\ cur' \in [Workers -> Tasks \cup {None}]
        /\ ret' \in [Workers -> Outcomes \cup {"PENDING"}]
        /\ \A v \in Workers : v # w => LocalShape(v)' /\ pc'[v] \in {"idle", "cancel"}
    BY <2>1, <2>2, OwnerGoes DEF Pcs
  <2>4. {running', canceling', noSched', undef'} \subseteq BOOLEAN
    BY <1>6, <1>4 DEF RunNext
  <2>5. TypeOK'
    BY <1>1, <2>2, <2>3, <2>4 DEF SafeInv, TypeOK
  <2>6. QueueShape'
    BY <1>1, <1>2, <2>2, <2>3 DEF SafeInv, QueueShape
  <2>7. child[Head(queue)] # "out" /\ Front(queue)' = Head(queue)
    BY <1>1, <2>1 DEF SafeInv, QueueShape
  <2>8. LocalShape(w)'
    BY <1>2, <2>1, <2>3, <2>7 DEF LocalShape, Looping, Cancelling, Outcomes
  <2>9. RunShape'
    BY <1>1, <1>2, <2>1, <2>2, <2>3, <2>8 DEF SafeInv, RunShape, Live, Looping
  <2> QED
    BY <2>5, <2>6, <2>9 DEF SafeInv
<1> QED
  BY <1>5, <1>6

LEMMA CancelInsteadSafe ==
    ASSUME SafeInv, OneOwner', NEW w \in Workers, \A v \in Workers : Owner(v) => v = w,
           Live, Pending = {}, CancelInstead(w),
           UNCHANGED <<relation, canceling, head, retVals, result, completed, child,
                       outcome, runs, expired, undef>>,
           sched' \in Nat
    PROVE  SafeInv'
<1>1. /\ queue' = queue /\ state \in {"starting", "started"}
      /\ state' = "stopping" /\ Go(w, "instead", None, "OK")
  BY DEF CancelInstead, Live
<1>2. Pending' = Pending /\ Ended' = Ended /\ \A u : InQueue(u)' <=> InQueue(u)
  BY <1>1 DEF Pending, Ended, InQueue
<1>3. {running', canceling', noSched', undef'} \subseteq BOOLEAN
  BY DEF CancelInstead, SafeInv, TypeOK
<1>4. /\ pc'[w] = "instead" /\ cur'[w] = None /\ ret'[w] = "OK"
      /\ pc' \in [Workers -> Pcs] /\ cur' \in [Workers -> Tasks \cup {None}]
      /\ ret' \in [Workers -> Outcomes \cup {"PENDING"}]
      /\ \A v \in Workers : v # w => LocalShape(v)' /\ pc'[v] \in {"idle", "cancel"}
  BY <1>1, OwnerGoes DEF Pcs, Outcomes
<1>5. TypeOK'
  BY <1>1, <1>3, <1>4 DEF SafeInv, TypeOK
<1>6. QueueShape'
  BY <1>1, <1>2, <1>4 DEF SafeInv, QueueShape
<1>7. LocalShape(w)'
  BY <1>4 DEF LocalShape, Looping, Cancelling
<1>8. RunShape'
  BY <1>1, <1>2, <1>4, <1>7 DEF SafeInv, RunShape, Live
<1> QED
  BY <1>5, <1>6, <1>8 DEF SafeInv

LEMMA RunTaskInternalSafe ==
    ASSUME SafeInv, NEW w \in Runners, At(w, "idle"), RunTaskInternal(w), sched' \in Nat
    PROVE  SafeInv'
<1>0. w \in Workers
  BY DEF Workers
<1>1. OneOwner'
  BY RunTaskInternalOneOwner DEF SafeInv
<1>2. UNCHANGED <<relation, canceling, head, retVals, result, completed, child,
                  outcome, runs, expired, undef>>
  BY DEF RunTaskInternal, tasks
<1>3. CASE \/ IsStopped \/ canceling \/ noSched
           \/ state = "started" /\ ~running
  <2>1. UNCHANGED <<state, running, noSched, queue, pc, cur, ret>>
    BY <1>3 DEF RunTaskInternal, locals
  <2>2. TypeOK'
    BY <2>1, <1>2 DEF SafeInv, TypeOK
  <2>3. QueueShape'
    BY <2>1, <1>2 DEF SafeInv, QueueShape, InQueue, Ended
  <2>4. RunShape'
    BY <2>1, <1>2 DEF SafeInv, RunShape, LocalShape, Pending, Live
  <2> QED
    BY <1>1, <2>2, <2>3, <2>4 DEF SafeInv
<1>4. CASE ~(\/ IsStopped \/ canceling \/ noSched
             \/ state = "started" /\ ~running)
  <2>1. \A v \in Workers : ~Owner(v)
    BY <1>4, NoOwner DEF SafeInv
  <2>2. Live
    BY <1>4 DEF Live, IsStopped, SafeInv, TypeOK
  <2>3. CASE head = "waitComplete"
    <3>1. state' = "started" /\ UNCHANGED <<noSched, queue, pc, cur, ret>>
      BY <1>4, <2>3 DEF RunTaskInternal, locals
    <3>2. state # "starting"
      BY <2>3 DEF SafeInv, RunShape
    <3>3. state' = state
      BY <2>2, <3>1, <3>2 DEF Live
    <3>4. running' \in BOOLEAN
      BY <1>4, <2>3 DEF RunTaskInternal
    <3>5. TypeOK'
      BY <3>1, <3>3, <3>4, <1>2 DEF SafeInv, TypeOK
    <3>6. QueueShape'
      BY <3>1, <3>3, <1>2 DEF SafeInv, QueueShape, InQueue, Ended
    <3>7. RunShape'
      BY <3>1, <3>3, <1>2 DEF SafeInv, RunShape, LocalShape, Pending, Live
    <3> QED
      BY <1>1, <3>5, <3>6, <3>7 DEF SafeInv
  <2>4. CASE head # "waitComplete"
    <3>1. Pending = {}
      BY <2>1, <2>2, <2>4 DEF SafeInv, RunShape, Owner, Owning
    <3>2. CASE retVals # <<>> /\ Decides(Back(retVals)) /\ queue # <<>>
      <4>1. CancelInstead(w)
        BY <1>4, <2>4, <3>2 DEF RunTaskInternal
      <4> QED
        BY <4>1, <1>0, <1>1, <1>2, <2>1, <2>2, <3>1, CancelInsteadSafe
    <3>3. CASE ~(retVals # <<>> /\ Decides(Back(retVals)) /\ queue # <<>>)
      <4> DEFINE r == IF retVals = <<>> THEN "OK" ELSE Back(retVals)
      <4>1. r \in Outcomes
        BY DEF Back, Outcomes, SafeInv, TypeOK
      <4>2. RunNext(w, queue, r)
        BY <1>4, <2>4, <3>3 DEF RunTaskInternal
      <4>3. pc[w] # "cancel"
        BY DEF At
      <4> HIDE DEF r
      <4> QED
        BY <4>1, <4>2, <4>3, <1>0, <1>1, <1>2, <2>1, <2>2, <2>4, <3>1, RunNextSafe
    <3> QED
      BY <3>2, <3>3
  <2> QED
    BY <2>3, <2>4
<1> QED
  BY <1>3, <1>4

LEMMA CallChildSafe ==
    ASSUME SafeInv, NEW w \in Workers, CallChild(w), OneOwner'
    PROVE  SafeInv'
<1> USE GroupAssumption
<1> DEFINE t == cur[w]
<1>1. /\ pc[w] = "call" /\ Owner(w) /\ state = "started" /\ Live
      /\ child[t] \in {"queued", "done"} /\ t \in Tasks
  BY DEF CallChild, At, SafeInv, OneOwner, OwnerShape, Owner, Owning, Looping, Live,
         RunShape, LocalShape
<1>2. \A v \in Workers : Owner(v) => v = w
  BY <1>1 DEF SafeInv, OneOwner
<1>3. /\ Pending = {} /\ (child[t] = "queued" => Front(queue) = t)
      /\ head # "waitComplete" /\ (Front(queue) = t \/ retVals # <<>>)
      /\ ret[w] # "PENDING" /\ ret[w] \in Outcomes
  BY <1>1 DEF SafeInv, RunShape, LocalShape, Looping, TypeOK
<1>4. /\ runs' = [runs EXCEPT ![t] = @ + 1] /\ Go(w, "called", t, ret[w])
      /\ UNCHANGED <<relation, state, running, canceling, noSched, result, completed,
                     expired, undef>>
  BY DEF CallChild
<1>5. /\ pc'[w] = "called" /\ cur'[w] = t /\ ret'[w] = ret[w]
      /\ pc' \in [Workers -> Pcs] /\ cur' \in [Workers -> Tasks \cup {None}]
      /\ ret' \in [Workers -> Outcomes \cup {"PENDING"}]
      /\ \A v \in Workers : v # w => LocalShape(v)' /\ pc'[v] \in {"idle", "cancel"}
  BY <1>1, <1>2, <1>3, <1>4, OwnerGoes DEF Pcs
<1>6. child \in [Tasks -> ChildPhases] /\ outcome \in [Tasks -> Outcomes \cup {"none"}]
  BY DEF SafeInv, TypeOK
<1>7. CASE \E r \in {"OK", "ERR"} : ChildEnds(t, r, "done")
  <2>1. PICK r \in {"OK", "ERR"} : ChildEnds(t, r, "done")
    BY <1>7
  <2>2. /\ child' = [child EXCEPT ![t] = "done"] /\ outcome' = [outcome EXCEPT ![t] = r]
        /\ r \in Outcomes
    BY <2>1 DEF ChildEnds, Outcomes
  <2>3. /\ queue' \in Seq(Tasks) /\ retVals' \in Seq(Outcomes) /\ sched' \in Nat
        /\ \A i, j \in 1..Len(queue') : queue'[i] = queue'[j] => i = j
        /\ \A u \in Tasks : InQueue(u)' <=> InQueue(u) /\ u # t
        /\ retVals' # <<>> /\ head' # "waitComplete"
        /\ head' \in {"waitStart", "waitRunning", "waitComplete"}
    <3>1. CASE child[t] = "done"
      <4>1. UNCHANGED <<queue, retVals, head, sched>>
        BY <2>1, <3>1 DEF ChildEnds
      <4>2. ~InQueue(t)
        BY <3>1, <1>1 DEF SafeInv, QueueShape
      <4>3. retVals # <<>>
        BY <4>2, <1>3, <1>1, Fronts DEF SafeInv, TypeOK
      <4>4. \A u : InQueue(u)' <=> InQueue(u)
        BY <4>1 DEF InQueue
      <4> QED
        BY <4>1, <4>2, <4>3, <4>4, <1>3 DEF SafeInv, TypeOK, QueueShape
    <3>2. CASE child[t] # "done"
      <4>1. OnChildComplete(t, r)
        BY <2>1, <3>2 DEF ChildEnds
      <4> QED
        BY <4>1, <2>2, <3>2, <1>1, <1>3, Parted DEF SafeInv, TypeOK
    <3> QED
      BY <3>1, <3>2
  <2>4. TypeOK'
    BY <1>1, <1>4, <1>5, <2>2, <2>3 DEF SafeInv, TypeOK, ChildPhases
  <2>5. Pending' = {} /\ Ended' = Ended \cup {t}
    BY <1>1, <1>3, <1>6, <2>2 DEF Pending, Ended
  <2>6. \A u \in Tasks : u # t => child'[u] = child[u] /\ outcome'[u] = outcome[u]
    BY <1>6, <2>2
  <2>7. child'[t] = "done" /\ outcome'[t] = r
    BY <1>1, <1>6, <2>2
  <2>8. QueueShape'
    <3>1. QueueShape
      BY DEF SafeInv
    <3>2. \A u \in Tasks : InQueue(u)' => child'[u] \in {"queued", "pending", "leaving"}
      BY <3>1, <2>3, <2>6 DEF QueueShape
    <3>3. \A u \in Tasks : child'[u] \in {"queued", "pending"} => InQueue(u)'
      BY <3>1, <2>3, <2>6, <2>7 DEF QueueShape
    <3>4. \A u \in Tasks : u \in Ended' \/ child'[u] = "leaving" <=> outcome'[u] # "none"
      BY <3>1, <2>5, <2>6, <2>7 DEF QueueShape
    <3>5. state' # "stopped" /\ \A v \in Workers : pc'[v] # "complete"
      BY <1>1, <1>4, <1>5
    <3>6. result' # "none" => state' = "stopped"
      BY <3>1, <1>4 DEF QueueShape
    <3> QED
      BY <2>3, <3>2, <3>3, <3>4, <3>5, <3>6 DEF QueueShape
  <2>9. LocalShape(w)'
    BY <1>1, <1>3, <1>5, <2>3, <2>5, <2>7 DEF LocalShape
  <2>10. RunShape'
    BY <1>4, <1>1, <1>5, <2>3, <2>5, <2>9 DEF SafeInv, RunShape, Live
  <2> QED
    BY <2>4, <2>8, <2>10 DEF SafeInv
<1>8. CASE /\ child' = [child EXCEPT ![t] = IF @ = "queued" THEN "pending" ELSE @]
           /\ UNCHANGED <<outcome, queue, retVals, head, sched>>
  <2>1. TypeOK'
    BY <1>1, <1>4, <1>5, <1>8 DEF SafeInv, TypeOK, ChildPhases
  <2>2. /\ \A u \in Tasks : u # t => child'[u] = child[u]
        /\ child'[t] = IF child[t] = "queued" THEN "pending" ELSE "done"
    BY <1>1, <1>6, <1>8
  <2>3. Pending' \subseteq {t} /\ (Pending' # {} => Front(queue) = t) /\ Ended' = Ended
    BY <1>1, <1>3, <2>2 DEF Pending, Ended
  <2>4. (\A u : InQueue(u)' <=> InQueue(u)) /\ Front(queue)' = Front(queue)
    BY <1>8 DEF InQueue
  <2>5. QueueShape'
    BY <1>1, <1>4, <1>5, <1>8, <2>2, <2>3, <2>4 DEF SafeInv, QueueShape, Ended
  <2>6. LocalShape(w)'
    BY <1>1, <1>3, <1>5, <1>8, <2>2, <2>3, <2>4 DEF LocalShape
  <2>7. RunShape'
    BY <1>1, <1>3, <1>4, <1>5, <1>8, <2>3, <2>4, <2>6 DEF SafeInv, RunShape, Live, Looping
  <2> QED
    BY <2>1, <2>5, <2>7 DEF SafeInv
<1> QED
  BY <1>7, <1>8 DEF CallChild

LEMMA ReadErrorSafe ==
    ASSUME SafeInv, NEW w \in Workers, ReadError(w), OneOwner'
    PROVE  SafeInv'
<1> DEFINE t == cur[w]
<1> DEFINE r == IF child[t] = "done" THEN outcome[t] ELSE "PENDING"
<1>1. /\ pc[w] = "called" /\ Owner(w) /\ t \in Tasks /\ t \in Tasks \cup {None}
      /\ LocalShape(w)
  BY DEF ReadError, At, SafeInv, OneOwner, Owner, Owning, Looping, RunShape, LocalShape
<1>2. \A v \in Workers : Owner(v) => v = w
  BY <1>1 DEF SafeInv, OneOwner
<1>3. /\ Go(w, "relock", t, r)
      /\ UNCHANGED <<relation, state, running, canceling, noSched, head, queue, retVals,
                     sched, result, completed, child, outcome, runs, expired, undef>>
  BY DEF ReadError, flags, tasks
<1>4. r \in Outcomes \cup {"PENDING"} /\ (r # "PENDING" => child[t] = "done")
  BY <1>1 DEF SafeInv, TypeOK, QueueShape, Ended
<1>5. /\ pc'[w] = "relock" /\ cur'[w] = t /\ ret'[w] = r
      /\ pc' \in [Workers -> Pcs] /\ cur' \in [Workers -> Tasks \cup {None}]
      /\ ret' \in [Workers -> Outcomes \cup {"PENDING"}]
      /\ \A v \in Workers : v # w => LocalShape(v)' /\ pc'[v] \in {"idle", "cancel"}
  <2> HIDE DEF r
  <2> QED
    BY <1>1, <1>2, <1>3, <1>4, OwnerGoes DEF Pcs
<1> HIDE DEF r
<1>6. TypeOK'
  BY <1>3, <1>5 DEF SafeInv, TypeOK
<1>7. QueueShape'
  BY <1>3, <1>5 DEF SafeInv, QueueShape, InQueue, Ended
<1>8. Pending' = Pending /\ Front(queue)' = Front(queue)
  BY <1>3 DEF Pending
<1>9. LocalShape(w)'
  BY <1>1, <1>3, <1>4, <1>5, <1>8 DEF LocalShape, Looping, Cancelling
<1>10. RunShape'
  BY <1>1, <1>3, <1>5, <1>8, <1>9 DEF SafeInv, RunShape, Live, Looping
<1> QED
  BY <1>6, <1>7, <1>10 DEF SafeInv

LEMMA RelockSafe ==
    ASSUME SafeInv, NEW w \in Workers, Relock(w), OneOwner'
    PROVE  SafeInv'
<1> USE GroupAssumption
<1> DEFINE t == cur[w]
           gone == Front(queue) # t
           r == IF ret[w] = "PENDING" /\ gone /\ retVals # <<>> THEN Back(retVals)
                ELSE ret[w]
<1>1. /\ pc[w] = "relock" /\ Owner(w) /\ t \in Tasks /\ LocalShape(w) /\ Live
      /\ state = "started"
  BY DEF Relock, At, SafeInv, OneOwner, Owner, OwnerShape, Owning, Looping, RunShape,
         LocalShape, Live
<1>2. \A v \in Workers : Owner(v) => v = w
  BY <1>1 DEF SafeInv, OneOwner
<1>3. /\ Pending \subseteq {t} /\ head # "waitComplete"
      /\ gone => retVals # <<>>
      /\ ret[w] # "PENDING" => child[t] = "done"
      /\ \A u \in Pending : u = Front(queue)
  BY <1>1 DEF SafeInv, RunShape, LocalShape, Looping
<1>4. UNCHANGED <<relation, canceling, retVals, sched, result, completed, child,
                  outcome, runs, expired>>
  BY DEF Relock, tasks
<1>5. undef' = (undef \/ (ret[w] = "PENDING" /\ gone /\ retVals = <<>>))
  BY DEF Relock
<1>6. ~undef /\ ~undef' /\ sched' \in Nat
  BY <1>3, <1>4, <1>5 DEF SafeInv, RunShape, TypeOK
<1>7. CASE r = "PENDING"
  <2>1. /\ ~noSched' /\ head' = "waitComplete" /\ Go(w, "idle", None, "OK")
        /\ UNCHANGED <<state, running, queue>>
    BY <1>7 DEF Relock
  <2>2. ~gone
    <3>1. retVals # <<>> => Back(retVals) \in Outcomes
      BY DEF Back, SafeInv, TypeOK
    <3> QED
      BY <1>3, <1>7, <3>1 DEF Outcomes
  <2>3. /\ pc'[w] = "idle" /\ cur'[w] = None /\ ret'[w] = "OK"
        /\ pc' \in [Workers -> Pcs] /\ cur' \in [Workers -> Tasks \cup {None}]
        /\ ret' \in [Workers -> Outcomes \cup {"PENDING"}]
        /\ \A v \in Workers : v # w => LocalShape(v)' /\ pc'[v] \in {"idle", "cancel"}
    BY <2>1, <1>2, OwnerGoes DEF Pcs, Outcomes
  <2>4. {running', canceling', noSched', undef'} \subseteq BOOLEAN
    <3>1. {running', canceling'} \subseteq BOOLEAN
      BY <2>1, <1>4 DEF SafeInv, TypeOK
    <3>2. noSched' \in BOOLEAN
      BY <1>7 DEF Relock
    <3>3. undef' \in BOOLEAN
      BY <1>5
    <3> QED
      BY <3>1, <3>2, <3>3
  <2>5. TypeOK'
    BY <1>4, <2>1, <2>3, <2>4 DEF SafeInv, TypeOK
  <2>6. QueueShape'
    BY <1>4, <2>1, <2>3 DEF SafeInv, QueueShape, InQueue, Ended
  <2>7. LocalShape(w)'
    BY <2>3 DEF LocalShape, Looping, Cancelling
  <2>8. Pending' = Pending /\ Front(queue)' = Front(queue)
    BY <1>4, <2>1 DEF Pending
  <2>9. RunShape'
    BY <1>1, <1>6, <2>1, <2>3, <2>7, <2>8 DEF SafeInv, RunShape, Live
  <2> QED
    BY <2>5, <2>6, <2>9 DEF SafeInv
<1>8. CASE r # "PENDING"
  <2>1. gone
    <3>1. CASE ret[w] # "PENDING"
      <4>1. ~InQueue(t)
        BY <3>1, <1>1, <1>3 DEF SafeInv, QueueShape
      <4> QED
        BY <4>1, <1>1, Fronts DEF SafeInv, TypeOK
    <3>2. CASE ret[w] = "PENDING"
      BY <3>2, <1>8
    <3> QED
      BY <3>1, <3>2
  <2>2. Pending = {}
    BY <2>1, <1>3
  <2>3. r \in Outcomes
    BY <1>8, <1>3, <2>1 DEF Back, SafeInv, TypeOK
  <2>4. UNCHANGED <<head, undef>> /\ (CancelInstead(w) \/ RunNext(w, queue, r))
    <3>1. undef' = undef
      <4>1. ~(ret[w] = "PENDING" /\ gone /\ retVals = <<>>)
        BY <1>3
      <4>2. undef = FALSE
        BY Zenon, <1>6 DEF SafeInv, TypeOK
      <4> QED
        BY Zenon, <4>1, <4>2, <1>5
    <3> QED
      BY <1>8, <2>1, <3>1 DEF Relock
  <2>5. pc[w] # "cancel"
    BY <1>1
  <2> HIDE DEF r, gone
  <2> QED
    BY <1>1, <1>2, <1>3, <1>4, <1>6, <2>2, <2>3, <2>4, <2>5, CancelInsteadSafe, RunNextSafe
<1> QED
  BY <1>7, <1>8

\* A step of worker w that neither owns nor comes to own the group.
LEMMA BystanderSafe ==
    ASSUME SafeInv, OneOwner', NEW w \in Workers, pc[w] \in {"idle", "cancel"},
           NEW p \in {"idle", "cancel"}, NEW r \in Outcomes, Go(w, p, None, r),
           UNCHANGED <<relation, state, running, canceling, noSched, head, queue, retVals,
                       sched, result, completed, child, outcome, runs, expired, undef>>
    PROVE  SafeInv'
<1>1. /\ pc' = [pc EXCEPT ![w] = p] /\ cur' = [cur EXCEPT ![w] = None]
      /\ ret' = [ret EXCEPT ![w] = r]
  BY DEF Go
<1>2. /\ pc \in [Workers -> Pcs] /\ cur \in [Workers -> Tasks \cup {None}]
      /\ ret \in [Workers -> Outcomes \cup {"PENDING"}]
  BY DEF SafeInv, TypeOK
<1>3. /\ pc' \in [Workers -> Pcs] /\ cur' \in [Workers -> Tasks \cup {None}]
      /\ ret' \in [Workers -> Outcomes \cup {"PENDING"}]
  BY <1>1, <1>2 DEF Pcs
<1>4. TypeOK'
  BY <1>3 DEF SafeInv, TypeOK
<1>5. \A v \in Workers : v # w => pc'[v] = pc[v] /\ cur'[v] = cur[v] /\ ret'[v] = ret[v]
  BY <1>1, <1>2
<1>6. pc'[w] = p /\ ret'[w] = r
  BY <1>1, <1>2
<1>7. QueueShape'
  BY <1>5, <1>6 DEF SafeInv, QueueShape, InQueue, Ended
<1>8. Pending' = Pending /\ Front(queue)' = Front(queue)
  BY DEF Pending
<1>9. ASSUME NEW v \in Workers
      PROVE  LocalShape(v)'
  <2>1. CASE v = w
    BY <2>1, <1>6 DEF LocalShape, Looping, Cancelling, Outcomes
  <2>2. CASE v # w
    BY <2>2, <1>5, <1>8 DEF SafeInv, RunShape, LocalShape
  <2> QED
    BY <2>1, <2>2
<1>10. (\A v \in Workers : pc'[v] \notin Looping) => \A v \in Workers : pc[v] \notin Looping
  BY <1>5 DEF Looping
<1>11. RunShape'
  BY <1>8, <1>9, <1>10 DEF SafeInv, RunShape, Live
<1> QED
  BY <1>4, <1>7, <1>11 DEF SafeInv

\* The head of the loop of OnCancel, with a queue that has lost no child which is
\* queued or pending.
LEMMA CancelNextSafe ==
    ASSUME SafeInv, OneOwner', NEW w \in Workers, \A v \in Workers : Owner(v) => v = w,
           NEW q \in Seq(Tasks), NEW r \in Outcomes, CancelNext(w, q, r),
           state' = "stopping", {running', canceling'} \subseteq BOOLEAN,
           result = "none",
           \A i, j \in 1..Len(q) : q[i] = q[j] => i = j,
           \A u \in Tasks : InQueue(u)' => InQueue(u),
           \A u \in Tasks : child[u] \in {"queued", "pending"} => InQueue(u)',
           UNCHANGED <<relation, head, retVals, sched, result, completed, child, outcome,
                       runs, expired, undef>>
    PROVE  SafeInv'
<1> USE GroupAssumption
<1>1. queue' = q /\ Pending' = Pending /\ Ended' = Ended
  BY DEF CancelNext, Pending, Ended
<1>2. {running', canceling', noSched', undef'} \subseteq BOOLEAN
  BY DEF CancelNext, SafeInv, TypeOK
<1>3. CASE q = <<>>
  <2>1. Go(w, "complete", None, r)
    BY <1>3 DEF CancelNext
  <2>2. /\ pc'[w] = "complete" /\ ret'[w] = r
        /\ pc' \in [Workers -> Pcs] /\ cur' \in [Workers -> Tasks \cup {None}]
        /\ ret' \in [Workers -> Outcomes \cup {"PENDING"}]
        /\ \A v \in Workers : v # w => LocalShape(v)' /\ pc'[v] \in {"idle", "cancel"}
    BY <2>1, OwnerGoes DEF Pcs
  <2>3. TypeOK'
    BY <1>1, <1>2, <2>2 DEF SafeInv, TypeOK
  <2>4. QueueShape'
    BY <1>1, <1>3, <2>2 DEF SafeInv, QueueShape
  <2>5. LocalShape(w)'
    BY <2>2 DEF LocalShape, Looping, Cancelling, Outcomes
  <2>6. RunShape'
    BY <1>1, <2>2, <2>5 DEF SafeInv, RunShape, Live
  <2> QED
    BY <2>3, <2>4, <2>6 DEF SafeInv
<1>4. CASE q # <<>>
  <2>1. Go(w, "cancelCall", Head(q), r) /\ Head(q) \in Tasks /\ InQueue(Head(q))'
    BY <1>1, <1>4 DEF CancelNext, InQueue
  <2>2. /\ pc'[w] = "cancelCall" /\ cur'[w] = Head(q) /\ ret'[w] = r
        /\ pc' \in [Workers -> Pcs] /\ cur' \in [Workers -> Tasks \cup {None}]
        /\ ret' \in [Workers -> Outcomes \cup {"PENDING"}]
        /\ \A v \in Workers : v # w => LocalShape(v)' /\ pc'[v] \in {"idle", "cancel"}
    BY <2>1, OwnerGoes DEF Pcs
  <2>3. TypeOK'
    BY <1>1, <1>2, <2>2 DEF SafeInv, TypeOK
  <2>4. QueueShape'
    BY <1>1, <2>2 DEF SafeInv, QueueShape
  <2>5. child[Head(q)] # "out"
    BY <2>1 DEF SafeInv, QueueShape
  <2>6. LocalShape(w)'
    BY <2>1, <2>2, <2>5 DEF LocalShape, Looping, Cancelling, Outcomes
  <2>7. RunShape'
    BY <1>1, <2>2, <2>6 DEF SafeInv, RunShape, Live
  <2> QED
    BY <2>3, <2>4, <2>7 DEF SafeInv
<1> QED
  BY <1>3, <1>4

LEMMA OnCancelSafe ==
    ASSUME SafeInv, NEW w \in Workers, OnCancel(w), OneOwner'
    PROVE  SafeInv'
<1>1. UNCHANGED <<relation, head, retVals, sched, result, completed, child, outcome,
                  runs, expired, undef>>
  BY DEF OnCancel, tasks
<1>2. CASE (IsStopped /\ pc[w] # "instead") \/ canceling
  <2>1. Go(w, "idle", None, "OK") /\ UNCHANGED <<state, running, canceling, noSched, queue>>
    BY <1>2 DEF OnCancel, At
  <2>2. pc[w] = "cancel"
    BY <1>2 DEF OnCancel, At, SafeInv, OneOwner, Owner, OwnerShape, Owning
  <2> QED
    BY <1>1, <2>1, <2>2, BystanderSafe DEF Outcomes
<1>3. CASE ~((IsStopped /\ pc[w] # "instead") \/ canceling)
  <2> DEFINE r == IF pc[w] = "instead" /\ retVals # <<>> THEN Back(retVals) ELSE "CANCEL"
  <2>1. /\ ~noSched /\ state' = "stopping" /\ CancelNext(w, queue, r)
    BY <1>3 DEF OnCancel, At
  <2>2. canceling' \in BOOLEAN /\ running' \in BOOLEAN
    BY <1>3 DEF OnCancel, At
  <2>3. r \in Outcomes
    BY DEF Back, SafeInv, TypeOK, Outcomes
  <2>4. \A v \in Workers : Owner(v) => v = w
    BY <1>3, <2>1, NoOwner DEF SafeInv, OneOwner, Owner, Owning
  <2>5. result = "none"
    BY <1>3 DEF SafeInv, QueueShape, OneOwner, Owner, OwnerShape, Owning, IsStopped
  <2>6. queue' = queue /\ queue \in Seq(Tasks)
    BY <2>1 DEF CancelNext, SafeInv, TypeOK
  <2>7. \A u : InQueue(u)' <=> InQueue(u)
    BY <2>6 DEF InQueue
  <2>8. /\ \A i, j \in 1..Len(queue) : queue[i] = queue[j] => i = j
        /\ \A u \in Tasks : InQueue(u)' => InQueue(u)
        /\ \A u \in Tasks : child[u] \in {"queued", "pending"} => InQueue(u)'
    BY <2>7 DEF SafeInv, QueueShape
  <2>9. {running', canceling'} \subseteq BOOLEAN
    BY <2>2
  <2> HIDE DEF r
  <2> QED
    BY <1>1, <2>1, <2>3, <2>4, <2>5, <2>6, <2>8, <2>9, CancelNextSafe
<1> QED
  BY <1>2, <1>3

LEMMA CancelRelockSafe ==
    ASSUME SafeInv, NEW w \in Workers, CancelRelock(w), OneOwner'
    PROVE  SafeInv'
<1> USE GroupAssumption
<1> DEFINE q == IF Front(queue) = cur[w] THEN Tail(queue) ELSE queue
<1>1. /\ pc[w] = "cancelNext" /\ CancelNext(w, q, ret[w])
      /\ UNCHANGED <<relation, state, running, canceling, head, retVals, sched, result,
                     completed, child, outcome, runs, expired, undef>>
  BY DEF CancelRelock, At, tasks
<1>2. /\ Owner(w) /\ state = "stopping" /\ cur[w] \in Tasks /\ ret[w] \in Outcomes
      /\ child[cur[w]] \notin {"queued", "pending"}
  BY <1>1 DEF SafeInv, OneOwner, Owner, OwnerShape, Owning, Looping, Cancelling, RunShape, LocalShape, TypeOK
<1>3. \A v \in Workers : Owner(v) => v = w
  BY <1>2 DEF SafeInv, OneOwner
<1>4. result = "none"
  BY <1>2 DEF SafeInv, QueueShape
<1>5. queue \in Seq(Tasks) /\ \A i, j \in 1..Len(queue) : queue[i] = queue[j] => i = j
  BY DEF SafeInv, TypeOK, QueueShape
<1>6. queue' = q
  BY <1>1 DEF CancelNext
<1>7. /\ q \in Seq(Tasks) /\ \A i, j \in 1..Len(q) : q[i] = q[j] => i = j
      /\ \A u \in Tasks : InQueue(u)' => InQueue(u)
      /\ \A u \in Tasks : InQueue(u) /\ u # cur[w] => InQueue(u)'
  <2>1. CASE Front(queue) = cur[w]
    <3>1. queue # <<>> /\ queue' = Tail(queue)
      BY <2>1, <1>2, <1>5, <1>6, Fronts
    <3> QED
      BY <2>1, <3>1, <1>5, <1>6, Popped
  <2>2. CASE Front(queue) # cur[w]
    BY <2>2, <1>5, <1>6 DEF InQueue
  <2> QED
    BY <2>1, <2>2
<1>8. \A u \in Tasks : child[u] \in {"queued", "pending"} => InQueue(u)'
  BY <1>2, <1>7 DEF SafeInv, QueueShape
<1>9. {running', canceling'} \subseteq BOOLEAN
  BY <1>1 DEF SafeInv, TypeOK
<1> HIDE DEF q
<1> QED
  BY <1>1, <1>2, <1>3, <1>4, <1>7, <1>8, <1>9, CancelNextSafe

LEMMA CancelChildSafe ==
    ASSUME SafeInv, NEW w \in Workers, CancelChild(w), OneOwner'
    PROVE  SafeInv'
<1> USE GroupAssumption
<1> DEFINE t == cur[w]
<1>1. /\ pc[w] = "cancelCall" /\ Go(w, "cancelNext", t, ret[w])
      /\ UNCHANGED <<relation, state, running, canceling, noSched, result, completed,
                     runs, expired, undef>>
  BY DEF CancelChild, At
<1>2. /\ Owner(w) /\ state = "stopping" /\ t \in Tasks /\ ret[w] \in Outcomes
      /\ child[t] # "out"
  BY <1>1 DEF SafeInv, OneOwner, Owner, OwnerShape, Owning, Looping, Cancelling, RunShape, LocalShape, TypeOK
<1>3. \A v \in Workers : Owner(v) => v = w
  BY <1>2 DEF SafeInv, OneOwner
<1>4. /\ pc'[w] = "cancelNext" /\ cur'[w] = t /\ ret'[w] = ret[w]
      /\ pc' \in [Workers -> Pcs] /\ cur' \in [Workers -> Tasks \cup {None}]
      /\ ret' \in [Workers -> Outcomes \cup {"PENDING"}]
      /\ \A v \in Workers : v # w => LocalShape(v)' /\ pc'[v] \in {"idle", "cancel"}
  BY <1>1, <1>2, <1>3, OwnerGoes DEF Pcs
<1>5. child \in [Tasks -> ChildPhases] /\ outcome \in [Tasks -> Outcomes \cup {"none"}]
  BY DEF SafeInv, TypeOK
<1>6. /\ child' \in [Tasks -> ChildPhases] /\ outcome' \in [Tasks -> Outcomes \cup {"none"}]
      /\ \A u \in Tasks : u # t => child'[u] = child[u] /\ outcome'[u] = outcome[u]
      /\ \/ child[t] \in {"queued", "pending", "done"} /\ child'[t] = "done"
            /\ outcome'[t] = "CANCEL"
         \/ child[t] \in {"leaving", "ending"} /\ child'[t] = child[t]
            /\ outcome'[t] = outcome[t]
  BY <1>2, <1>5 DEF CancelChild, ChildEnds, ChildPhases, Outcomes
<1>7. /\ queue' \in Seq(Tasks) /\ retVals' \in Seq(Outcomes) /\ sched' \in Nat
      /\ head' \in {"waitStart", "waitRunning", "waitComplete"}
      /\ \A i, j \in 1..Len(queue') : queue'[i] = queue'[j] => i = j
      /\ \A u \in Tasks : InQueue(u)' => InQueue(u)
      /\ \A u \in Tasks : InQueue(u) /\ u # t => InQueue(u)'
      /\ \A u \in Tasks : InQueue(u)' /\ u = t => child'[u] = "leaving"
  <2>1. CASE OnChildComplete(t, "CANCEL")
    <3>1. "CANCEL" \in Outcomes /\ head \in {"waitStart", "waitRunning", "waitComplete"}
      BY DEF Outcomes, SafeInv, TypeOK
    <3> QED
      BY <2>1, <3>1, <1>2, Parted
  <2>2. CASE UNCHANGED <<queue, retVals, head, sched>> /\ child[t] \in {"leaving", "ending", "done"}
    <3>1. \A u : InQueue(u)' <=> InQueue(u)
      BY <2>2 DEF InQueue
    <3>2. InQueue(t) => child[t] = "leaving"
      BY <2>2, <1>2 DEF SafeInv, QueueShape
    <3>3. child'[t] = child[t] \/ child'[t] = "done"
      BY <1>6
    <3>4. /\ queue \in Seq(Tasks) /\ retVals \in Seq(Outcomes) /\ sched \in Nat
          /\ head \in {"waitStart", "waitRunning", "waitComplete"}
          /\ \A i, j \in 1..Len(queue) : queue[i] = queue[j] => i = j
      BY DEF SafeInv, TypeOK, QueueShape
    <3>5. child'[t] = "done" => ~InQueue(t)
      BY <2>2, <1>6, <3>2
    <3> QED
      BY <2>2, <3>1, <3>2, <3>3, <3>4, <3>5
  <2> QED
    BY <2>1, <2>2 DEF CancelChild, ChildEnds
<1>8. TypeOK'
  BY <1>1, <1>4, <1>6, <1>7 DEF SafeInv, TypeOK
<1>9. Pending' \subseteq Pending
  BY <1>6 DEF Pending
<1>10. QueueShape'
  <2>1. QueueShape /\ result = "none"
    BY <1>2 DEF SafeInv, QueueShape
  <2>2. \A u \in Tasks : InQueue(u)' => child'[u] \in {"queued", "pending", "leaving"}
    BY <2>1, <1>6, <1>7 DEF QueueShape
  <2>3. child'[t] \notin {"queued", "pending"}
    BY <1>6
  <2>4. \A u \in Tasks : child'[u] \in {"queued", "pending"} => InQueue(u)'
    BY <2>1, <2>3, <1>6, <1>7 DEF QueueShape
  <2>5. ASSUME NEW u \in Tasks
        PROVE  (u \in Ended \/ child[u] = "leaving" <=> outcome[u] # "none")'
    BY <2>1, <1>2, <1>6 DEF QueueShape, Ended
  <2> QED
    BY <1>1, <1>2, <1>4, <1>7, <2>1, <2>2, <2>4, <2>5 DEF QueueShape
<1>11. LocalShape(w)'
  BY <1>2, <1>4, <1>6 DEF LocalShape, Looping, Cancelling, Outcomes
<1>12. RunShape'
  BY <1>1, <1>2, <1>4, <1>9, <1>11 DEF SafeInv, RunShape, Live
<1> QED
  BY <1>8, <1>10, <1>12 DEF SafeInv

LEMMA OnCompleteSafe ==
    ASSUME SafeInv, NEW w \in Workers, OnComplete(w), OneOwner'
    PROVE  SafeInv'
<1>1. /\ pc[w] = "complete" /\ state' = "stopped" /\ Go(w, "idle", None, "OK")
      /\ result' = ret[w] /\ completed' = completed + 1
      /\ UNCHANGED <<relation, running, canceling, noSched, head, queue, retVals, sched,
                     child, outcome, runs, expired, undef>>
  BY DEF OnComplete, At, tasks
<1>2. Owner(w) /\ state = "stopping" /\ queue = <<>> /\ ret[w] \in Outcomes
  BY <1>1 DEF SafeInv, OneOwner, Owner, OwnerShape, Owning, RunShape, LocalShape, TypeOK, QueueShape
<1>3. \A v \in Workers : Owner(v) => v = w
  BY <1>2 DEF SafeInv, OneOwner
<1>4. /\ pc'[w] = "idle" /\ ret'[w] = "OK"
      /\ pc' \in [Workers -> Pcs] /\ cur' \in [Workers -> Tasks \cup {None}]
      /\ ret' \in [Workers -> Outcomes \cup {"PENDING"}]
      /\ \A v \in Workers : v # w => LocalShape(v)' /\ pc'[v] \in {"idle", "cancel"}
  BY <1>1, <1>3, OwnerGoes DEF Pcs, Outcomes
<1>5. TypeOK'
  BY <1>1, <1>2, <1>4 DEF SafeInv, TypeOK
<1>6. QueueShape'
  BY <1>1, <1>2, <1>4 DEF SafeInv, QueueShape, InQueue, Ended
<1>7. LocalShape(w)'
  BY <1>4 DEF LocalShape, Looping, Cancelling
<1>8. Pending' = Pending
  BY <1>1 DEF Pending
<1>9. RunShape'
  BY <1>1, <1>4, <1>7, <1>8 DEF SafeInv, RunShape, Live
<1> QED
  BY <1>5, <1>6, <1>9 DEF SafeInv

LEMMA NextSafe == SafeInv /\ [Next]_vars => SafeInv'
<1> SUFFICES ASSUME SafeInv, [Next]_vars
             PROVE  SafeInv'
  OBVIOUS
<1>0. OneOwner'
  BY NextOneOwner DEF SafeInv
<1>1. ASSUME NEW t \in Tasks,
             \/ AppendTask(t) \/ InsertTask(t) \/ ChildDone(t)
             \/ ChildLeaves(t) \/ QueuedTimeout(t) \/ SetError(t)
      PROVE  SafeInv'
  BY <1>1, FillSafe, ChildDoneSafe, ChildLeavesSafe, QueuedTimeoutSafe, SetErrorSafe
<1>2. ASSUME NEW w \in Runners, Launch(w) \/ Scheduled(w)
      PROVE  SafeInv'
  <2>1. sched' \in Nat
    BY <1>2 DEF Launch, Scheduled, SafeInv, TypeOK
  <2> QED
    BY <1>2, <2>1, RunTaskInternalSafe DEF Launch, Scheduled
<1>3. ASSUME NEW w \in Workers, Step(w)
      PROVE  SafeInv'
  BY <1>0, <1>3, CallChildSafe, ReadErrorSafe, RelockSafe, OnCancelSafe, CancelChildSafe,
     CancelRelockSafe, OnCompleteSafe DEF Step
<1>4. CASE CancelTask(Canceller)
  <2>1. /\ Canceller \in Workers /\ pc[Canceller] = "idle"
        /\ Go(Canceller, "cancel", None, "CANCEL")
        /\ UNCHANGED <<relation, state, running, canceling, noSched, head, queue, retVals,
                       sched, result, completed, child, outcome, runs, expired, undef>>
    BY <1>4 DEF CancelTask, At, flags, tasks, Workers
  <2> QED
    BY <1>0, <2>1, BystanderSafe DEF Outcomes
<1>5. CASE UNCHANGED vars
  <2>1. TypeOK'
    BY <1>5 DEF SafeInv, TypeOK, vars
  <2>2. QueueShape'
    BY <1>5 DEF SafeInv, QueueShape, InQueue, Ended, vars
  <2>3. RunShape'
    BY <1>5 DEF SafeInv, RunShape, LocalShape, Pending, Live, vars
  <2> QED
    BY <1>0, <2>1, <2>2, <2>3 DEF SafeInv
<1> QED
  BY <1>1, <1>2, <1>3, <1>4, <1>5 DEF Next

LEMMA SafeAlways == Spec => []SafeInv
BY InitSafe, NextSafe, PTL DEF Spec

\* The variables of the group have their types: among others, OnComplete is never
\* called with STATUS_PENDING, and no worker calls an empty TaskletPtr.
THEOREM GroupTypeCorrect == Spec => []TypeOK
<1>1. SafeInv => TypeOK
  BY DEF SafeInv
<1> QED
  BY <1>1, SafeAlways, PTL

\* However many threads run the group, RunTaskInternal (iftasks.cpp) calls a child
\* only while no other one is being called or is pending.
THEOREM ChildrenRunInTurn == Spec => []OneAtATime
<1>1. SafeInv => OneAtATime
  <2> SUFFICES ASSUME SafeInv
               PROVE  OneAtATime
    OBVIOUS
  <2>1. Active = {} \/ \E t : Active = {t}
    <3>1. CASE \E w \in Workers : pc[w] = "call"
      <4>1. PICK w \in Workers : pc[w] = "call"
        BY <3>1
      <4>2. \A v \in Workers : pc[v] = "call" => v = w
        BY <4>1 DEF SafeInv, OneOwner, Owner, Owning, Looping
      <4>3. Pending = {}
        BY <4>1 DEF SafeInv, RunShape, LocalShape
      <4>4. Active = {cur[w]}
        BY <4>1, <4>2, <4>3 DEF Active, Pending
      <4> QED
        BY <4>4
    <3>2. CASE ~\E w \in Workers : pc[w] = "call"
      <4>1. Active = Pending
        BY <3>2 DEF Active, Pending
      <4>2. \A t, u \in Pending : t = u
        BY DEF SafeInv, RunShape
      <4> QED
        BY <4>1, <4>2
    <3> QED
      BY <3>1, <3>2
  <2>2. Cardinality(Active) \in {0, 1}
    BY <2>1, FS_EmptySet, FS_Singleton
  <2> QED
    BY <2>2 DEF OneAtATime
<1> QED
  BY <1>1, SafeAlways, PTL

\* When OnComplete of the group has been called, the queue is empty and no child
\* is left that waits in vain or whose answer nobody expects, whoever emptied the
\* queue: the thread that ran the last child, or the one that cancelled it.
THEOREM NoChildLeftBehind == Spec => []NoneLeft
<1>1. SafeInv => NoneLeft
  BY GroupAssumption, Fronts DEF SafeInv, TypeOK, QueueShape, NoneLeft
<1> QED
  BY <1>1, SafeAlways, PTL

-----------------------------------------------------------------------------
(* The result of the group.                                                *)

Decided(u) == outcome[u] # "none" /\ Decides(outcome[u])

\* The result r is what HonestResult asks of the result of the group.
Honest(r) ==
    /\ r = "OK" /\ relation = "AND" =>
          \A t \in Tasks : child[t] # "out" => outcome[t] = "OK"
    /\ r = "OK" /\ relation = "OR" => \E t \in Tasks : outcome[t] = "OK"
    /\ r = "ERR" /\ relation = "OR" => \A t \in Tasks : outcome[t] # "OK"
    /\ r = "ERR" => \E t \in Tasks : outcome[t] = "ERR"

\* A result that has decided the group and that no cancellation can take away:
\* the child it comes from is neither in the queue nor the one being cancelled.
Settled(r, t) == Decides(r) /\ \E u \in Ended : outcome[u] = r /\ u # t

\* The last entry of m_vecRetVals is the outcome of a child that has ended; once a
\* child has decided the group, it is that outcome, unless the child is still the
\* head of the queue; and no child is called after that.
RetVals ==
    /\ \A u \in Tasks : Decided(u) =>
          Front(queue) = u \/ (retVals # <<>> /\ Decides(Back(retVals)))
    /\ \A t \in Pending, u \in Tasks : Decided(u) => u = t
    /\ \A u \in Ended : retVals # <<>>
    /\ retVals # <<>> => \E u \in Ended : outcome[u] = Back(retVals)

Judges(w) ==
    /\ pc[w] = "call" => child[cur[w]] = "queued" /\ \A u \in Tasks : ~Decided(u)
    /\ pc[w] \in {"called", "relock"} /\ cur[w] \in Ended =>
          retVals # <<>> /\ Back(retVals) = outcome[cur[w]]
    /\ pc[w] = "relock" /\ ret[w] # "PENDING" => ret[w] = outcome[cur[w]]
    /\ pc[w] = "instead" =>
          Pending = {} /\ retVals # <<>> /\ Settled(Back(retVals), None)
    /\ pc[w] \in Cancelling => ret[w] = "CANCEL" \/ Settled(ret[w], cur[w])
    /\ pc[w] = "complete" => Honest(ret[w])

Judged ==
    /\ Live => RetVals
    /\ sched > 0 => \E t \in Tasks : child[t] # "out"
    /\ \A w \in Workers : Judges(w)
    /\ Honest(result)

\* The inductive invariant behind the result of the group.
ResultInv == SafeInv /\ (expired = {} => Judged)

LEMMA SettledHonest ==
    ASSUME NEW r, NEW t, r = "CANCEL" \/ Settled(r, t)
    PROVE  Honest(r)
BY DEF Settled, Honest, Decides, Ended

\* A queue that is empty at the head of the loop of RunTaskInternal.
LEMMA AllEnded ==
    ASSUME SafeInv, Judged, Live, Pending = {}, queue = <<>>,
           \E t \in Tasks : child[t] # "out"
    PROVE  retVals # <<>> /\ Honest(Back(retVals))
<1> USE GroupAssumption
<1>1. RetVals
  BY DEF Judged
<1>2. \A t \in Tasks : ~InQueue(t)
  BY Fronts DEF SafeInv, TypeOK
<1>3. \A t \in Tasks : child[t] # "out" => t \in Ended /\ outcome[t] \in Outcomes
  BY <1>2 DEF SafeInv, TypeOK, QueueShape, Pending, Ended, ChildPhases
<1>4. retVals # <<>>
  BY <1>1, <1>3 DEF RetVals
<1>5. PICK u \in Ended : outcome[u] = Back(retVals)
  BY <1>1, <1>4 DEF RetVals
<1>6. u \in Tasks /\ \A t \in Tasks : Decided(t) => Decides(Back(retVals))
  BY <1>1 DEF RetVals, Front, Ended
<1> QED
  BY <1>3, <1>4, <1>5, <1>6 DEF Honest, Decided, Decides, Outcomes

LEMMA InitResult == Init => ResultInv
<1> SUFFICES ASSUME Init
             PROVE  ResultInv
  OBVIOUS
<1>1. SafeInv
  BY InitSafe
<1>2. Judged
  BY DEF Init, Judged, RetVals, Judges, Cancelling, Decided, Honest, Pending, Ended
<1> QED
  BY <1>1, <1>2 DEF ResultInv

LEMMA FillResult ==
    ASSUME SafeInv, Judged, NEW t \in Tasks, AppendTask(t) \/ InsertTask(t), SafeInv'
    PROVE  Judged'
<1> USE GroupAssumption
<1>1. /\ child[t] = "out" /\ child' = [child EXCEPT ![t] = "queued"]
      /\ UNCHANGED <<relation, state, head, retVals, sched, result, outcome, pc, cur, ret>>
      /\ queue' = Append(queue, t) \/ queue' = <<t>> \o queue
  BY DEF AppendTask, InsertTask, flags, locals
<1>2. Live /\ (state = "starting" \/ queue' = Append(queue, t))
  BY DEF AppendTask, InsertTask, IsStopped, SafeInv, TypeOK, Live
<1>3. /\ queue \in Seq(Tasks) /\ child \in [Tasks -> ChildPhases]
      /\ outcome \in [Tasks -> Outcomes \cup {"none"}] /\ ~InQueue(t)
      /\ \A i, j \in 1..Len(queue) : queue[i] = queue[j] => i = j
  BY <1>1 DEF SafeInv, TypeOK, QueueShape
<1>4. Pending' = Pending /\ Ended' = Ended
  BY <1>1, <1>3 DEF Pending, Ended
<1>5. \A u \in Tasks : Decided(u)' <=> Decided(u)
  BY <1>1 DEF Decided, Decides
<1>6. ASSUME NEW u \in Tasks, Decided(u), Front(queue) = u
      PROVE  Front(queue)' = u
  <2>1. queue # <<>> /\ InQueue(u)
    BY <1>3, <1>6, Fronts
  <2>2. u \in Pending
    BY <1>6, <2>1 DEF SafeInv, QueueShape, Decided, Pending, Ended
  <2>3. state # "starting"
    BY <2>2 DEF SafeInv, RunShape, Live, OneOwner, Owner, OwnerShape, Owning, Looping
  <2> QED
    BY <1>1, <1>2, <1>3, <1>6, <2>1, <2>3, Joined
<1>7. RetVals'
  <2>1. RetVals
    BY <1>2 DEF Judged
  <2>2. retVals # <<>> => \E u \in Ended : outcome'[u] = Back(retVals)'
    BY <2>1, <1>1 DEF RetVals
  <2>3. Decides(Back(retVals))' <=> Decides(Back(retVals))
    BY <1>1 DEF Decides
  <2> QED
    BY <2>1, <2>2, <2>3, <1>1, <1>4, <1>5, <1>6 DEF RetVals
<1>8. ASSUME NEW w \in Workers
      PROVE  Judges(w)'
  <2>1. Judges(w) /\ pc[w] \notin Cancelling \cup {"instead", "complete"}
    BY <1>2 DEF Judged, SafeInv, OneOwner, Owner, OwnerShape, Owning, Cancelling, Live
  <2>2. pc[w] \in Looping => cur[w] \in Tasks /\ child'[cur[w]] = child[cur[w]]
    BY <1>1, <1>3 DEF SafeInv, RunShape, LocalShape
  <2> QED
    BY <2>1, <2>2, <1>1, <1>4, <1>5 DEF Judges, Looping, Cancelling
<1>9. result' = "none"
  BY <1>1, <1>2 DEF SafeInv, QueueShape, Live
<1>10. \E u \in Tasks : child'[u] # "out"
  BY <1>1, <1>3
<1> QED
  BY <1>7, <1>8, <1>9, <1>10 DEF Judged, Honest

LEMMA ChildDoneResult ==
    ASSUME SafeInv, Judged, NEW t \in Tasks, ChildDone(t)
    PROVE  Judged'
<1> USE GroupAssumption
<1>1. /\ child[t] = "pending" /\ child' = [child EXCEPT ![t] = "leaving"]
      /\ UNCHANGED <<relation, state, queue, retVals, sched, result, pc, cur, ret>>
      /\ \E r \in {"OK", "ERR"} : outcome' = [outcome EXCEPT ![t] = r]
  BY DEF ChildDone, flags, locals
<1>2. /\ \A u \in Tasks : u # t => child'[u] = child[u] /\ outcome'[u] = outcome[u]
      /\ child'[t] = "leaving" /\ outcome'[t] # "none"
  BY <1>1 DEF SafeInv, TypeOK
<1>3. t \in Pending /\ t \notin Ended /\ Pending' = Pending /\ Ended' = Ended
  BY <1>1 DEF SafeInv, TypeOK, Pending, Ended
<1>4. \A u \in Tasks : u # t => (Decided(u)' <=> Decided(u))
  BY <1>1, <1>2 DEF Decided, Decides
<1>5. queue # <<>>
  BY <1>1, Fronts DEF SafeInv, TypeOK, QueueShape
<1>6. Live' => RetVals'
  <2> SUFFICES ASSUME Live
               PROVE  RetVals'
    BY <1>1 DEF Live
  <2>1. RetVals /\ Front(queue) = t /\ \A u \in Pending : u = t
    BY <1>3 DEF Judged, SafeInv, RunShape
  <2>2. Front(queue)' = t
    BY <1>1, <2>1
  <2>3. retVals # <<>> => \E u \in Ended : outcome'[u] = Back(retVals)'
    BY <2>1, <1>1, <1>2, <1>3 DEF RetVals, Ended
  <2>4. \A u \in Tasks : u # t => ~Decided(u)
    BY <2>1, <1>3 DEF RetVals
  <2> QED
    BY <2>1, <2>2, <2>3, <2>4, <1>1, <1>3, <1>4 DEF RetVals
<1>7. ASSUME NEW w \in Workers
      PROVE  Judges(w)'
  <2>1. Judges(w) /\ pc[w] \notin {"call", "instead", "complete"}
    BY <1>3, <1>5 DEF Judged, SafeInv, QueueShape, RunShape, LocalShape, Judges
  <2>2. pc[w] \in {"called", "relock"} => cur[w] \in Tasks
    BY DEF SafeInv, RunShape, LocalShape, Looping
  <2>3. cur[w] \in Ended => outcome'[cur[w]] = outcome[cur[w]] /\ child[cur[w]] # "pending"
    BY <1>2, <1>3 DEF Ended
  <2>4. pc[w] = "relock" /\ ret[w] # "PENDING" => cur[w] \in Ended
    BY <2>2 DEF SafeInv, RunShape, LocalShape, Ended
  <2>5. Settled(ret[w], cur[w]) => Settled(ret[w], cur[w])'
    BY <1>1, <1>2, <1>3 DEF Settled, Ended, Decides
  <2> QED
    BY <2>1, <2>3, <2>4, <2>5, <1>1, <1>3 DEF Judges, Cancelling
<1>8. result' = "none"
  BY <1>1, <1>5 DEF SafeInv, QueueShape
<1>9. \E u \in Tasks : child'[u] # "out"
  BY <1>2
<1> QED
  BY <1>6, <1>7, <1>8, <1>9 DEF Judged, Honest

LEMMA SetErrorResult ==
    ASSUME SafeInv, Judged, NEW t \in Tasks, SetError(t)
    PROVE  Judged'
<1>1. /\ child[t] = "ending" /\ child' = [child EXCEPT ![t] = "done"]
      /\ UNCHANGED <<relation, state, queue, retVals, sched, result, outcome, pc, cur, ret>>
  BY DEF SetError, flags, locals
<1>2. /\ \A u \in Tasks : u # t => child'[u] = child[u]
      /\ child'[t] = "done"
  BY <1>1 DEF SafeInv, TypeOK
<1>3. Pending' = Pending /\ Ended' = Ended
  BY <1>1, <1>2 DEF Pending, Ended
<1>4. /\ \A u : Decided(u)' <=> Decided(u)
      /\ \A r, u : Settled(r, u)' <=> Settled(r, u)
      /\ \A r : Honest(r)' <=> Honest(r)
  BY <1>1, <1>2, <1>3 DEF Decided, Decides, Settled, Honest
<1>5. Live' => RetVals'
  BY <1>1, <1>3, <1>4 DEF Judged, RetVals, Live, Decides
<1>6. ASSUME NEW w \in Workers
      PROVE  Judges(w)'
  <2>1. pc[w] = "call" => cur[w] \in Tasks
    BY DEF SafeInv, RunShape, LocalShape, Looping
  <2> QED
    BY <2>1, <1>1, <1>2, <1>3, <1>4 DEF Judged, Judges
<1> QED
  BY <1>1, <1>2, <1>4, <1>5, <1>6 DEF Judged

LEMMA ChildLeavesResult ==
    ASSUME SafeInv, Judged, NEW t \in Tasks, ChildLeaves(t)
    PROVE  Judged'
<1> USE GroupAssumption
<1>1. /\ child[t] = "leaving" /\ child' = [child EXCEPT ![t] = "ending"]
      /\ outcome' = [outcome EXCEPT ![t] = outcome[t]] /\ OnChildComplete(t, outcome[t])
      /\ UNCHANGED <<relation, state, result, pc, cur, ret>>
  BY DEF ChildLeaves, ChildEnds, locals
<1>2. /\ outcome[t] \in Outcomes /\ outcome' = outcome
      /\ \A u \in Tasks : u # t => child'[u] = child[u]
      /\ child'[t] = "ending"
  BY <1>1 DEF SafeInv, TypeOK, QueueShape
<1>3. /\ Front(queue) # t => /\ Front(queue)' = Front(queue)
                             /\ UNCHANGED <<retVals, head, sched>>
      /\ Front(queue) = t => retVals' # <<>> /\ Back(retVals)' = outcome[t]
  BY <1>1, <1>2, Parted
<1>4. t \in Pending /\ Pending' = Pending \ {t} /\ Ended' = Ended \cup {t}
  BY <1>1, <1>2 DEF Pending, Ended
<1>5. /\ \A u : Decided(u)' <=> Decided(u)
      /\ \A r, u : Settled(r, u) => Settled(r, u)'
      /\ \A r : Honest(r) => Honest(r)'
  BY <1>1, <1>2, <1>4 DEF Decided, Decides, Settled, Honest
<1>6. Live' => RetVals'
  <2> SUFFICES ASSUME Live
               PROVE  RetVals'
    BY <1>1 DEF Live
  <2>1. RetVals /\ Front(queue) = t /\ \A u \in Pending : u = t
    BY <1>4 DEF Judged, SafeInv, RunShape
  <2>2. \A u \in Tasks : Decided(u) => u = t
    BY <2>1, <1>4 DEF RetVals
  <2>3. Pending' = {} /\ t \in Ended' /\ outcome'[t] = Back(retVals)' /\ retVals' # <<>>
    BY <2>1, <1>2, <1>3, <1>4
  <2>4. Decided(t) => Decides(Back(retVals))'
    BY <2>3, <1>1, <1>2 DEF Decided, Decides
  <2> QED
    BY <2>2, <2>3, <2>4, <1>5 DEF RetVals
<1>7. ASSUME NEW w \in Workers
      PROVE  Judges(w)'
  <2>1. Judges(w) /\ pc[w] \notin {"call", "instead"}
    BY <1>4 DEF Judged, SafeInv, RunShape, LocalShape, Judges
  <2>2. pc[w] \in {"called", "relock"} => cur[w] = t /\ Front(queue) = t
    <3>1. pc[w] \in {"called", "relock"} => Live
      BY DEF SafeInv, OneOwner, Owner, OwnerShape, Owning, Looping, Live
    <3> QED
      BY <3>1, <1>4 DEF SafeInv, RunShape, LocalShape
  <2>3. ~(pc[w] = "relock" /\ ret[w] # "PENDING")
    BY <2>2, <1>1 DEF SafeInv, RunShape, LocalShape
  <2> QED
    BY <2>1, <2>2, <2>3, <1>1, <1>2, <1>3, <1>5 DEF Judges, Cancelling
<1>8. \E u \in Tasks : child'[u] # "out"
  BY <1>2
<1>9. Honest(result)'
  BY <1>1, <1>5 DEF Judged
<1> QED
  BY <1>6, <1>7, <1>8, <1>9 DEF Judged

\* A worker that owns the group or comes to own it: the others have no say.
LEMMA OwnerJudges ==
    ASSUME SafeInv, SafeInv', NEW w \in Workers, Owner(w)', Judges(w)'
    PROVE  \A v \in Workers : Judges(v)'
BY DEF SafeInv, OneOwner, Owner, Owning, Looping, Cancelling, Judges

\* A step after which nobody owns the group.
LEMMA NobodyJudges ==
    ASSUME \A v \in Workers : ~Owner(v)'
    PROVE  \A v \in Workers : Judges(v)'
BY DEF Owner, Owning, Looping, Cancelling, Judges

\* The data of the group is left alone.
LEMMA Kept ==
    ASSUME Judged, UNCHANGED <<relation, state, queue, retVals, child, outcome>>
    PROVE  /\ Live' => RetVals'
           /\ \A u : Decided(u)' <=> Decided(u)
           /\ \A r, u : Settled(r, u)' <=> Settled(r, u)
           /\ \A r : Honest(r)' <=> Honest(r)
           /\ \A r : Decides(r)' <=> Decides(r)
           /\ Pending' = Pending /\ Ended' = Ended
BY DEF Judged, RetVals, Live, Decided, Decides, Settled, Honest, Pending, Ended

\* The loop of RunTaskInternal at its head, r being the result of the last child.
LEMMA LoopResult ==
    ASSUME SafeInv, SafeInv', Judged, NEW w \in Workers, Live, Pending = {},
           \E t \in Tasks : child[t] # "out",
           NEW r, r = (IF retVals = <<>> THEN "OK" ELSE Back(retVals)),
           IF retVals # <<>> /\ Decides(r) /\ queue # <<>> THEN CancelInstead(w)
           ELSE RunNext(w, queue, r),
           UNCHANGED <<relation, retVals, result, child, outcome>>
    PROVE  Judged'
<1> USE GroupAssumption
<1>1. /\ queue' = queue /\ result = "none" /\ RetVals
      /\ pc \in [Workers -> Pcs] /\ cur \in [Workers -> Tasks \cup {None}]
      /\ ret \in [Workers -> Outcomes \cup {"PENDING"}]
  BY DEF RunNext, CancelInstead, Live, Judged, SafeInv, QueueShape, TypeOK
<1>2. /\ \A u : Decided(u)' <=> Decided(u)
      /\ \A q, u : Settled(q, u)' <=> Settled(q, u)
      /\ \A q : Honest(q)' <=> Honest(q)
      /\ \A q : Decides(q)' <=> Decides(q)
      /\ Pending' = Pending /\ Ended' = Ended
  BY DEF Decided, Decides, Settled, Honest, Pending, Ended
<1>3. RetVals'
  BY <1>1, <1>2 DEF RetVals
<1>4. CASE retVals # <<>> /\ Decides(r) /\ queue # <<>>
  <2>1. pc'[w] = "instead"
    BY <1>1, <1>4 DEF CancelInstead, Go
  <2>2. PICK u \in Ended : outcome[u] = Back(retVals)
    BY <1>1, <1>4 DEF RetVals
  <2>3. u # None /\ r = Back(retVals)
    BY <1>4 DEF Ended
  <2>4. Settled(r, None)
    BY <1>4, <2>2, <2>3 DEF Settled
  <2>5. Settled(Back(retVals), None)'
    BY <2>3, <2>4, <1>2
  <2>6. Judges(w)'
    BY <1>2, <1>4, <2>1, <2>5 DEF Judges, Cancelling
  <2> QED
    BY <1>1, <1>3, <2>1, <2>6, OwnerJudges DEF Judged, Owner, Owning, Honest
<1>5. CASE ~(retVals # <<>> /\ Decides(r) /\ queue # <<>>) /\ queue = <<>>
  <2>1. pc'[w] = "complete" /\ ret'[w] = r
    BY <1>1, <1>5 DEF RunNext, Go
  <2>2. Honest(r)
    BY <1>5, AllEnded
  <2>3. Judges(w)'
    BY <1>2, <2>1, <2>2 DEF Judges, Cancelling
  <2> QED
    BY <1>1, <1>3, <2>1, <2>3, OwnerJudges DEF Judged, Owner, Owning, Honest
<1>6. CASE ~(retVals # <<>> /\ Decides(r) /\ queue # <<>>) /\ queue # <<>>
  <2>1. pc'[w] = "call" /\ cur'[w] = Head(queue)
    BY <1>1, <1>6 DEF RunNext, Go
  <2>2. /\ Head(queue) \in Tasks /\ InQueue(Head(queue)) /\ Front(queue) = Head(queue)
    BY <1>6, Fronts DEF SafeInv, TypeOK
  <2>3. child[Head(queue)] = "queued"
    BY <2>2 DEF SafeInv, QueueShape, Pending
  <2>4. ~Decided(Head(queue))
    BY <2>2, <2>3 DEF SafeInv, QueueShape, Decided, Ended
  <2>5. \A u \in Tasks : ~Decided(u)
    BY <1>1, <1>6, <2>2, <2>4 DEF RetVals
  <2>6. Judges(w)'
    BY <1>2, <2>1, <2>3, <2>5 DEF Judges, Cancelling
  <2> QED
    BY <1>1, <1>3, <2>1, <2>6, OwnerJudges DEF Judged, Owner, Owning, Looping, Honest
<1> QED
  BY <1>4, <1>5, <1>6

LEMMA RunTaskInternalResult ==
    ASSUME SafeInv, SafeInv', Judged, NEW w \in Runners, At(w, "idle"), RunTaskInternal(w),
           \E t \in Tasks : child[t] # "out"
    PROVE  Judged'
<1>0. w \in Workers
  BY DEF Workers
<1>1. UNCHANGED <<relation, retVals, result, child, outcome>>
  BY DEF RunTaskInternal, tasks
<1>2. ASSUME UNCHANGED <<state, queue, pc, cur, ret>>
      PROVE  Judged'
  <2>1. /\ Live' => RetVals'
        /\ \A u : Decided(u)' <=> Decided(u)
        /\ \A r, u : Settled(r, u)' <=> Settled(r, u)
        /\ \A r : Honest(r)' <=> Honest(r)
        /\ Pending' = Pending /\ Ended' = Ended
    BY <1>1, <1>2, Kept
  <2>2. \A v \in Workers : Judges(v)'
    BY <1>1, <1>2, <2>1 DEF Judged, Judges
  <2> QED
    BY <1>1, <2>1, <2>2 DEF Judged
<1>3. CASE \/ IsStopped \/ canceling \/ noSched
           \/ state = "started" /\ ~running
  BY <1>2, <1>3 DEF RunTaskInternal, locals
<1>4. CASE ~(\/ IsStopped \/ canceling \/ noSched
             \/ state = "started" /\ ~running)
  <2>1. Live /\ \A v \in Workers : ~Owner(v)
    BY <1>4, NoOwner DEF SafeInv, Live, IsStopped, TypeOK
  <2>2. CASE head = "waitComplete"
    <3>1. state = "started"
      BY <2>1, <2>2 DEF SafeInv, RunShape, Live
    <3> QED
      BY <1>2, <1>4, <2>2, <3>1 DEF RunTaskInternal, locals
  <2>3. CASE head # "waitComplete"
    <3>1. Pending = {}
      BY <2>1, <2>3 DEF SafeInv, RunShape, Owner, Owning
    <3> DEFINE r == IF retVals = <<>> THEN "OK" ELSE Back(retVals)
    <3>2. IF retVals # <<>> /\ Decides(r) /\ queue # <<>> THEN CancelInstead(w)
          ELSE RunNext(w, queue, r)
      BY <1>4, <2>3 DEF RunTaskInternal
    <3>3. r = (IF retVals = <<>> THEN "OK" ELSE Back(retVals))
      OBVIOUS
    <3> HIDE DEF r
    <3> QED
      BY <1>0, <1>1, <2>1, <3>1, <3>2, <3>3, LoopResult
  <2> QED
    BY <2>2, <2>3
<1> QED
  BY <1>3, <1>4

LEMMA CallChildResult ==
    ASSUME SafeInv, SafeInv', Judged, NEW w \in Workers, CallChild(w)
    PROVE  Judged'
<1> USE GroupAssumption
<1> DEFINE t == cur[w]
<1>1. /\ pc[w] = "call" /\ Owner(w) /\ state = "started" /\ Live /\ t \in Tasks
      /\ Pending = {} /\ (child[t] = "queued" => Front(queue) = t)
      /\ Judges(w) /\ RetVals /\ result = "none"
  BY DEF CallChild, At, SafeInv, OneOwner, OwnerShape, Owner, Owning, Looping, Live,
         RunShape, LocalShape, Judged, QueueShape
<1>2. /\ child[t] = "queued" /\ Front(queue) = t /\ \A u \in Tasks : ~Decided(u)
  BY <1>1 DEF Judges
<1>3. /\ Go(w, "called", t, ret[w]) /\ UNCHANGED <<relation, state, result>>
      /\ pc \in [Workers -> Pcs] /\ cur \in [Workers -> Tasks \cup {None}]
      /\ ret \in [Workers -> Outcomes \cup {"PENDING"}]
      /\ child \in [Tasks -> ChildPhases] /\ outcome \in [Tasks -> Outcomes \cup {"none"}]
  BY DEF CallChild, SafeInv, TypeOK
<1>4. pc'[w] = "called" /\ cur'[w] = t /\ ret'[w] = ret[w] /\ Owner(w)'
  BY <1>3 DEF Go, Owner, Owning, Looping
<1>5. CASE \E r \in {"OK", "ERR"} : ChildEnds(t, r, "done")
  <2>1. PICK r \in {"OK", "ERR"} : ChildEnds(t, r, "done")
    BY <1>5
  <2>2. /\ child' = [child EXCEPT ![t] = "done"] /\ outcome' = [outcome EXCEPT ![t] = r]
        /\ r \in Outcomes /\ OnChildComplete(t, r)
    BY <1>2, <2>1 DEF ChildEnds, Outcomes
  <2>3. retVals' # <<>> /\ Back(retVals)' = r
    BY <1>1, <1>2, <2>2, Parted
  <2>4. /\ child'[t] = "done" /\ outcome'[t] = r
        /\ \A u \in Tasks : u # t => outcome'[u] = outcome[u]
    BY <1>1, <1>3, <2>2
  <2>5. Pending' = {} /\ t \in Ended'
    BY <1>1, <1>3, <2>2, <2>4 DEF Pending, Ended
  <2>6. \A u \in Tasks : Decided(u)' => Decides(Back(retVals))'
    BY <1>2, <1>3, <2>3, <2>4 DEF Decided, Decides
  <2>7. RetVals'
    BY <2>3, <2>4, <2>5, <2>6 DEF RetVals
  <2>8. Judges(w)'
    BY <1>4, <2>3, <2>4 DEF Judges, Cancelling
  <2>9. \E u \in Tasks : child'[u] # "out"
    BY <1>1, <2>4
  <2> QED
    BY <1>1, <1>3, <1>4, <2>7, <2>8, <2>9, OwnerJudges DEF Judged, Honest
<1>6. CASE /\ child' = [child EXCEPT ![t] = IF @ = "queued" THEN "pending" ELSE @]
           /\ UNCHANGED <<outcome, queue, retVals, head, sched>>
  <2>1. child'[t] = "pending" /\ \A u \in Tasks : u # t => child'[u] = child[u]
    BY <1>1, <1>2, <1>3, <1>6
  <2>2. Pending' = {t} /\ Ended' = Ended /\ t \notin Ended'
    BY <1>1, <1>2, <2>1 DEF Pending, Ended
  <2>3. \A u \in Tasks : ~Decided(u)'
    BY <1>2, <1>3, <1>6 DEF Decided, Decides
  <2>4. RetVals'
    BY <1>1, <1>6, <2>2, <2>3 DEF RetVals
  <2>5. Judges(w)'
    BY <1>4, <2>2 DEF Judges, Cancelling
  <2>6. \E u \in Tasks : child'[u] # "out"
    BY <1>1, <2>1
  <2> QED
    BY <1>1, <1>3, <1>4, <2>4, <2>5, <2>6, OwnerJudges DEF Judged, Honest
<1> QED
  BY <1>5, <1>6 DEF CallChild

LEMMA ReadErrorResult ==
    ASSUME SafeInv, SafeInv', Judged, NEW w \in Workers, ReadError(w)
    PROVE  Judged'
<1> DEFINE t == cur[w]
<1> DEFINE r == IF child[t] = "done" THEN outcome[t] ELSE "PENDING"
<1>1. pc[w] = "called" /\ Judges(w) /\ Go(w, "relock", t, r)
      /\ UNCHANGED <<relation, state, queue, retVals, sched, result, child, outcome>>
  BY DEF ReadError, At, flags, tasks, Judged
<1>2. pc'[w] = "relock" /\ cur'[w] = t /\ ret'[w] = r /\ Owner(w)'
  BY <1>1 DEF Go, SafeInv, TypeOK, Owner, Owning, Looping
<1>3. /\ Live' => RetVals'
      /\ \A q : Honest(q)' <=> Honest(q)
      /\ Ended' = Ended
  BY <1>1, Kept
<1>4. Judges(w)'
  BY <1>1, <1>2, <1>3 DEF Judges, Cancelling
<1> QED
  BY <1>1, <1>2, <1>3, <1>4, OwnerJudges DEF Judged

LEMMA RelockResult ==
    ASSUME SafeInv, SafeInv', Judged, NEW w \in Workers, Relock(w)
    PROVE  Judged'
<1> USE GroupAssumption
<1> DEFINE t == cur[w]
           gone == Front(queue) # t
           r == IF ret[w] = "PENDING" /\ gone /\ retVals # <<>> THEN Back(retVals)
                ELSE ret[w]
<1>1. /\ pc[w] = "relock" /\ Owner(w) /\ t \in Tasks /\ LocalShape(w) /\ Live /\ Judges(w)
      /\ child[t] # "out"
  BY DEF Relock, At, SafeInv, OneOwner, Owner, OwnerShape, Owning, Looping, RunShape,
         LocalShape, Live, Judged
<1>2. /\ Pending \subseteq {t} /\ (gone => retVals # <<>>)
      /\ ret[w] # "PENDING" => child[t] = "done" /\ ret[w] = outcome[t]
      /\ \A u \in Pending : u = Front(queue)
  BY <1>1 DEF SafeInv, RunShape, LocalShape, Looping, Judges
<1>3. UNCHANGED <<relation, retVals, sched, result, child, outcome>>
  BY DEF Relock, tasks
<1>4. CASE r = "PENDING"
  <2>1. Go(w, "idle", None, "OK") /\ UNCHANGED <<state, queue>>
    BY <1>4 DEF Relock
  <2>2. pc' \in [Workers -> Pcs] /\ pc'[w] = "idle"
        /\ \A v \in Workers : v # w => pc'[v] = pc[v]
    BY <2>1 DEF Go, SafeInv, TypeOK, Pcs
  <2>3. \A v \in Workers : ~Owner(v)'
    BY <1>1, <2>2 DEF SafeInv, OneOwner, Owner, Owning, Looping, Cancelling
  <2>4. (Live' => RetVals') /\ \A q : Honest(q)' <=> Honest(q)
    BY <1>3, <2>1, Kept
  <2> QED
    BY <1>3, <2>3, <2>4, NobodyJudges DEF Judged
<1>5. CASE r # "PENDING"
  <2>1. ret[w] # "PENDING" => ~InQueue(t) /\ t \in Ended
    BY <1>1, <1>2 DEF SafeInv, QueueShape, Ended
  <2>2. gone
    BY <1>5, <1>1, <2>1, Fronts DEF SafeInv, TypeOK
  <2>3. Pending = {} /\ retVals # <<>>
    BY <1>2, <2>2
  <2>4. r = Back(retVals)
    BY <1>1, <1>2, <2>1, <2>2, <2>3 DEF Judges
  <2>5. IF Decides(r) /\ queue # <<>> THEN CancelInstead(w) ELSE RunNext(w, queue, r)
    BY <1>5, <2>2 DEF Relock
  <2>6. r = (IF retVals = <<>> THEN "OK" ELSE Back(retVals))
    BY <2>3, <2>4
  <2>7. \E u \in Tasks : child[u] # "out"
    BY <1>1
  <2> HIDE DEF r, gone
  <2>8. IF retVals # <<>> /\ Decides(r) /\ queue # <<>> THEN CancelInstead(w)
        ELSE RunNext(w, queue, r)
    BY <2>3, <2>5
  <2> QED
    BY <1>1, <1>3, <2>3, <2>6, <2>7, <2>8, LoopResult
<1> QED
  BY <1>4, <1>5

\* The loop of OnCancel at its head: what it returns is settled.
LEMMA CancelNextResult ==
    ASSUME SafeInv, SafeInv', Judged, NEW w \in Workers, NEW q, NEW r, NEW t,
           CancelNext(w, q, r), r = "CANCEL" \/ Settled(r, t),
           state' = "stopping", result = "none",
           UNCHANGED <<relation, sched, result, child, outcome>>
    PROVE  Judged'
<1>1. /\ \A x, u : Settled(x, u)' <=> Settled(x, u)
      /\ \A x : Honest(x)' <=> Honest(x)
      /\ queue' = q
      /\ Ended' = Ended
  BY DEF Settled, Honest, Decides, Ended, CancelNext
<1>2. /\ pc \in [Workers -> Pcs] /\ cur \in [Workers -> Tasks \cup {None}]
      /\ ret \in [Workers -> Outcomes \cup {"PENDING"}]
  BY DEF SafeInv, TypeOK
<1>3. CASE q = <<>>
  <2>1. pc'[w] = "complete" /\ ret'[w] = r /\ Owner(w)'
    BY <1>2, <1>3 DEF CancelNext, Go, Owner, Owning
  <2>2. Judges(w)'
    BY <1>1, <2>1, SettledHonest DEF Judges, Cancelling
  <2> QED
    BY <1>1, <2>1, <2>2, OwnerJudges DEF Judged, Live
<1>4. CASE q # <<>>
  <2>1. pc'[w] = "cancelCall" /\ ret'[w] = r /\ cur'[w] = Head(q) /\ Owner(w)'
    BY <1>2, <1>4 DEF CancelNext, Go, Owner, Owning, Cancelling
  <2>2. InQueue(Head(q))' /\ Head(q) \in Tasks
    BY <1>1, <1>4 DEF InQueue, SafeInv, TypeOK
  <2>3. Head(q) \notin Ended
    BY <2>2, <1>1 DEF SafeInv, QueueShape, Ended
  <2>4. r = "CANCEL" \/ Settled(r, Head(q))
    BY <2>3 DEF Settled
  <2>5. ret'[w] = "CANCEL" \/ Settled(ret[w], cur[w])'
    BY <1>1, <2>1, <2>4
  <2>6. Judges(w)'
    BY <2>1, <2>5 DEF Judges, Cancelling
  <2> QED
    BY <1>1, <2>1, <2>6, OwnerJudges DEF Judged, Live
<1> QED
  BY <1>3, <1>4

LEMMA OnCancelResult ==
    ASSUME SafeInv, SafeInv', Judged, NEW w \in Workers, OnCancel(w)
    PROVE  Judged'
<1>1. UNCHANGED <<relation, retVals, sched, result, child, outcome>>
  BY DEF OnCancel, tasks
<1>2. CASE (IsStopped /\ pc[w] # "instead") \/ canceling
  <2>1. Go(w, "idle", None, "OK") /\ UNCHANGED <<state, queue>>
    BY <1>2 DEF OnCancel, At
  <2>2. pc' = [pc EXCEPT ![w] = "idle"] /\ pc \in [Workers -> Pcs]
        /\ \A v \in Workers : v # w => cur'[v] = cur[v] /\ ret'[v] = ret[v]
    BY <2>1 DEF Go, SafeInv, TypeOK
  <2>3. /\ Live' => RetVals'
        /\ \A u : Decided(u)' <=> Decided(u)
        /\ \A r, u : Settled(r, u)' <=> Settled(r, u)
        /\ \A r : Honest(r)' <=> Honest(r)
        /\ Pending' = Pending /\ Ended' = Ended
    BY <1>1, <2>1, Kept
  <2>4. ASSUME NEW v \in Workers
        PROVE  Judges(v)'
    <3>1. CASE v = w
      BY <3>1, <2>2 DEF Judges, Cancelling
    <3>2. CASE v # w
      BY <3>2, <1>1, <2>2, <2>3 DEF Judged, Judges
    <3> QED
      BY <3>1, <3>2
  <2> QED
    BY <1>1, <2>3, <2>4 DEF Judged
<1>3. CASE ~((IsStopped /\ pc[w] # "instead") \/ canceling)
  <2> DEFINE r == IF pc[w] = "instead" /\ retVals # <<>> THEN Back(retVals) ELSE "CANCEL"
  <2>1. state' = "stopping" /\ CancelNext(w, queue, r)
    BY <1>3 DEF OnCancel, At
  <2>2. r = "CANCEL" \/ Settled(r, None)
    BY DEF Judged, Judges
  <2>3. result = "none"
    BY <1>3 DEF SafeInv, QueueShape, OneOwner, Owner, OwnerShape, Owning, IsStopped
  <2> HIDE DEF r
  <2> QED
    BY <1>1, <2>1, <2>2, <2>3, CancelNextResult
<1> QED
  BY <1>2, <1>3

LEMMA CancelChildResult ==
    ASSUME SafeInv, SafeInv', Judged, NEW w \in Workers, CancelChild(w)
    PROVE  Judged'
<1> DEFINE t == cur[w]
<1>1. /\ pc[w] = "cancelCall" /\ Go(w, "cancelNext", t, ret[w])
      /\ UNCHANGED <<relation, state, result>>
  BY DEF CancelChild, At
<1>2. /\ state = "stopping" /\ t \in Tasks /\ child[t] # "out" /\ result = "none"
      /\ ret[w] = "CANCEL" \/ Settled(ret[w], t)
  BY <1>1 DEF SafeInv, OneOwner, Owner, OwnerShape, Owning, Cancelling, RunShape,
              LocalShape, QueueShape, Judged, Judges
<1>3. pc'[w] = "cancelNext" /\ cur'[w] = t /\ ret'[w] = ret[w] /\ Owner(w)'
  BY <1>1 DEF Go, SafeInv, TypeOK, Owner, Owning, Cancelling
<1>4. /\ \A u \in Tasks : u # t => child'[u] = child[u] /\ outcome'[u] = outcome[u]
      /\ child'[t] # "out"
  BY <1>2 DEF CancelChild, ChildEnds, SafeInv, TypeOK
<1>5. \A r : Settled(r, t) => \E u \in Ended' : outcome'[u] = r /\ u # t /\ Decides(r)
  BY <1>4 DEF Settled, Ended
<1>6. \A r : Decides(r)' <=> Decides(r)
  BY <1>1 DEF Decides
<1>7. Judges(w)'
  BY <1>2, <1>3, <1>5, <1>6 DEF Judges, Cancelling, Settled
<1>8. \E u \in Tasks : child'[u] # "out"
  BY <1>2, <1>4
<1> QED
  BY <1>1, <1>2, <1>3, <1>7, <1>8, OwnerJudges DEF Judged, Honest, Live

LEMMA CancelRelockResult ==
    ASSUME SafeInv, SafeInv', Judged, NEW w \in Workers, CancelRelock(w)
    PROVE  Judged'
<1> DEFINE q == IF Front(queue) = cur[w] THEN Tail(queue) ELSE queue
<1>1. /\ pc[w] = "cancelNext" /\ CancelNext(w, q, ret[w])
      /\ UNCHANGED <<relation, state, sched, result, child, outcome>>
  BY DEF CancelRelock, At, tasks
<1>2. /\ state = "stopping" /\ result = "none"
      /\ ret[w] = "CANCEL" \/ Settled(ret[w], cur[w])
  BY <1>1 DEF SafeInv, OneOwner, Owner, OwnerShape, Owning, Cancelling, QueueShape,
              Judged, Judges
<1> HIDE DEF q
<1> QED
  BY <1>1, <1>2, CancelNextResult

LEMMA OnCompleteResult ==
    ASSUME SafeInv, SafeInv', Judged, NEW w \in Workers, OnComplete(w)
    PROVE  Judged'
<1>1. /\ pc[w] = "complete" /\ state' = "stopped" /\ result' = ret[w]
      /\ Go(w, "idle", None, "OK")
      /\ UNCHANGED <<relation, sched, child, outcome>>
  BY DEF OnComplete, At, tasks
<1>2. Honest(ret[w]) /\ Owner(w)
  BY <1>1 DEF Judged, Judges, Owner, Owning
<1>3. Honest(result)'
  BY <1>1, <1>2 DEF Honest
<1>4. \A v \in Workers : ~Owner(v)'
  BY <1>1, <1>2 DEF Go, SafeInv, OneOwner, Owner, Owning, Looping, Cancelling
<1> QED
  BY <1>1, <1>3, <1>4, NobodyJudges DEF Judged, Live

LEMMA NextResult == ResultInv /\ [Next]_vars => ResultInv'
<1> SUFFICES ASSUME ResultInv, [Next]_vars
             PROVE  ResultInv'
  OBVIOUS
<1>0. SafeInv /\ SafeInv'
  BY NextSafe DEF ResultInv
<1> SUFFICES ASSUME expired' = {}
             PROVE  Judged'
  BY <1>0 DEF ResultInv
<1>1. ASSUME NEW t \in Tasks, QueuedTimeout(t)
      PROVE  FALSE
  BY <1>1 DEF QueuedTimeout
<1>2. expired = {}
  BY <1>1 DEF Next, vars, tasks, AppendTask, InsertTask, ChildDone, ChildLeaves, SetError,
     Launch, Scheduled, RunTaskInternal, Step, CallChild, ReadError, Relock, OnCancel,
     CancelChild, CancelRelock, OnComplete, CancelTask
<1>3. Judged
  BY <1>2 DEF ResultInv
<1>4. ASSUME NEW t \in Tasks,
             \/ AppendTask(t) \/ InsertTask(t) \/ ChildDone(t)
             \/ ChildLeaves(t) \/ QueuedTimeout(t) \/ SetError(t)
      PROVE  Judged'
  BY <1>0, <1>1, <1>3, <1>4, FillResult, ChildDoneResult, ChildLeavesResult, SetErrorResult
<1>5. ASSUME NEW w \in Runners, Launch(w) \/ Scheduled(w)
      PROVE  Judged'
  <2>1. \E t \in Tasks : child[t] # "out"
    BY <1>3, <1>5 DEF Launch, Scheduled, Judged
  <2> QED
    BY <1>0, <1>3, <1>5, <2>1, RunTaskInternalResult DEF Launch, Scheduled
<1>6. ASSUME NEW w \in Workers, Step(w)
      PROVE  Judged'
  BY <1>0, <1>3, <1>6, CallChildResult, ReadErrorResult, RelockResult, OnCancelResult,
     CancelChildResult, CancelRelockResult, OnCompleteResult DEF Step
<1>7. ASSUME \/ UNCHANGED vars
             \/ CancelTask(Canceller)
      PROVE  Judged'
  <2>1. /\ UNCHANGED <<relation, state, queue, retVals, sched, result, child, outcome>>
        /\ \A v \in Workers : \/ pc'[v] = "cancel"
                              \/ pc'[v] = pc[v] /\ cur'[v] = cur[v] /\ ret'[v] = ret[v]
    BY <1>0, <1>7 DEF vars, CancelTask, Go, flags, tasks, SafeInv, TypeOK
  <2>2. /\ Live' => RetVals'
        /\ \A u : Decided(u)' <=> Decided(u)
        /\ \A r, u : Settled(r, u)' <=> Settled(r, u)
        /\ \A r : Honest(r)' <=> Honest(r)
        /\ Pending' = Pending /\ Ended' = Ended
    BY <1>3, <2>1, Kept
  <2>3. ASSUME NEW v \in Workers
        PROVE  Judges(v)'
    BY <1>3, <2>1, <2>2 DEF Judged, Judges, Cancelling
  <2> QED
    BY <1>3, <2>1, <2>2, <2>3 DEF Judged
<1> QED
  BY <1>4, <1>5, <1>6, <1>7 DEF Next

LEMMA ResultAlways == Spec => []ResultInv
BY InitResult, NextResult, PTL DEF Spec

\* The result OnComplete is called with tells the truth about the children, for
\* each relation, and m_vecRetVals.back() is never asked of an empty vector: a child
\* that completed between the return of its call and the moment the group took its
\* lock again has left its result there.
THEOREM ResultIsHonest == Spec => []HonestResult
<1>1. ResultInv => HonestResult
  BY DEF ResultInv, SafeInv, RunShape, Judged, Honest, HonestResult
<1> QED
  BY <1>1, ResultAlways, PTL

\* Once the result of a child has decided a logicAND or a logicOR group, no other
\* child is run, although RunTaskInternal takes the result of a pending child from
\* another thread.
THEOREM DecisionStopsGroup == Spec => StopsAtDecision
<1>1. ResultInv /\ [Next]_vars =>
        [expired = {} =>
           \A t \in Tasks : runs'[t] > runs[t] =>
              ~\E u \in Tasks : outcome[u] # "none" /\ Decides(outcome[u])]_vars
  <2> SUFFICES ASSUME ResultInv, [Next]_vars, expired = {},
                      NEW t \in Tasks, runs'[t] > runs[t]
               PROVE  \A u \in Tasks : ~Decided(u)
    BY DEF Decided
  <2>1. Judged /\ runs \in [Tasks -> Nat]
    BY DEF ResultInv, SafeInv, TypeOK
  <2>2. runs' # runs
    BY <2>1
  <2>3. PICK w \in Workers : CallChild(w)
    BY <2>2 DEF Next, vars, tasks, AppendTask, InsertTask, ChildDone, ChildLeaves,
       QueuedTimeout, SetError, Launch, Scheduled, RunTaskInternal, Step, ReadError, Relock,
       OnCancel, CancelChild, CancelRelock, OnComplete, CancelTask
  <2> QED
    BY <2>1, <2>3 DEF CallChild, At, Judged, Judges
<1> QED
  BY <1>1, ResultAlways, PTL DEF Spec, StopsAtDecision
=============================================================================
