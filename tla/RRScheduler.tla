----------------------------- MODULE RRScheduler -----------------------------
(***************************************************************************)
(* CRRTaskScheduler (src/rpc/taskschd.cpp) and the part of the request     *)
(* forwarder (src/rpc/reqfwdr.cpp) that drives it, over the groups of      *)
(* RfcGroup.                                                               *)
(*                                                                         *)
(* Every connection to a remote bridge has a number of slots.  The         *)
(* scheduler deals them out to the clients of the connection as the limits *)
(* of their groups: a group is on the ready list with a limit of at least  *)
(* one or, when there are more groups than slots, on the waiting list with *)
(* a limit of zero.  When a request is appended it calls the next ready    *)
(* group that can run something (AAR); when one completes it may also take *)
(* the slot of an idle group away for a waiting one (OCC).  Without a      *)
(* scheduler each group is called for its own requests.                    *)
(*                                                                         *)
(* An action is one critical section of the scheduler's lock or of the     *)
(* lock of a group.  The exchange of two groups in GetNextTaskGrpOCC takes *)
(* the lock of the group three times: it is split in the check and the     *)
(* exchange, and swap tells that the scheduler's lock is held in between.  *)
(***************************************************************************)
EXTENDS RfcGroup, SequencesExt, FiniteSetsExt

CONSTANTS
    Conns,           \* the bridge proxies
    ConnOf,          \* the connection of each group, propPrxyPortId
    SlotCounts,      \* the values of dwMaxRunning + dwMaxPending
    MaxWork          \* bound: clients that come, requests that enter a queue and
                     \* changes of a limit by remote bridges, together

\* RefreshReqLimit passes between RFC_MAX_PENDINGS and RFC_MAX_PENDINGS +
\* RFC_MAX_REQS slots, 32 and 48: the differences that SetSlotCount takes do
\* not wrap around.
ASSUME SchedAssumption ==
    /\ IsFiniteSet(Conns)
    /\ ConnOf \in [Groups -> Conns]
    /\ SlotCounts \subseteq Nat \ {0}
    /\ \A m, n \in SlotCounts : n <= 2 * m
    /\ MaxWork \in Nat

VARIABLES
    scheduled, \* HasScheduler(): does not change
    inMap,     \* the groups of m_mapGrpRfcs
    creator,   \* where CreateGrpRfc of each group stands
    remover,   \* where the removal of each group stands
    closed,    \* the connections that have been closed
    conns,     \* m_lstConns; m_mapConnQues and m_mapId2If have the same members
    rdy, wai,  \* *m_plstReady and m_lstWaitSlot of each connection
    slots,     \* m_dwMaxSlots of each connection
    swap,      \* the exchange under way in GetNextTaskGrpOCC, a set of at most one
    aar, occ,  \* calls of RunNextTaskGrp on their way, with hint 0 and 1
    requeue,   \* the RequeueInvTask calls in the task queue, for each group
    submits,   \* how many requests have been submitted or answered ERROR_QUEUE_FULL
    resized    \* how often a remote bridge has changed a limit

lifeVars == <<inMap, creator, remover, closed>>
listVars == <<conns, rdy, wai, slots, swap>>
callVars == <<aar, occ, requeue, submits>>
schedVars == <<scheduled, lifeVars, listVars, callVars, resized>>
vars == <<grpVars, schedVars>>

Creators == {"no", "add", "conn", "ok", "failed"}
Removers == {"no", "cancel", "end"}

TypeOK ==
    /\ GrpTypeOK
    /\ scheduled \in BOOLEAN
    /\ inMap \subseteq Groups
    /\ creator \in [Groups -> Creators]
    /\ remover \in [Groups -> Removers]
    /\ closed \subseteq Conns
    /\ conns \in Seq(Conns)
    /\ rdy \in [Conns -> Seq(Groups)] /\ wai \in [Conns -> Seq(Groups)]
    /\ slots \in [Conns -> SlotCounts]
    /\ swap \subseteq (Conns \X Groups \X Groups) /\ Cardinality(swap) <= 1
    /\ aar \in Nat /\ occ \in Nat
    /\ requeue \in [Groups -> 0..MaxWork]
    /\ submits \in 0..MaxWork /\ resized \in 0..MaxWork

Init ==
    /\ GrpInit
    /\ scheduled \in BOOLEAN
    /\ inMap = {}
    /\ creator = [g \in Groups |-> "no"]
    /\ remover = [g \in Groups |-> "no"]
    /\ closed = {}
    /\ conns = <<>>
    /\ rdy = [c \in Conns |-> <<>>] /\ wai = [c \in Conns |-> <<>>]
    /\ slots \in [Conns -> SlotCounts]
    /\ swap = {}
    /\ aar = 0 /\ occ = 0
    /\ requeue = [g \in Groups |-> 0]
    /\ submits = 0 /\ resized = 0

MoreWork == submits + resized + Cardinality({g \in Groups : gstate[g] # "none"}) < MaxWork
Connected(c) == c \in ToSet(conns)
Unlocked == scheduled /\ swap = {}

-----------------------------------------------------------------------------
(* Dealing out the slots.  q is a connection's [rdy, wai] and the limits   *)
(* lim of all groups; every operator returns q as it is afterwards.        *)

Queues(c) == [rdy |-> rdy[c], wai |-> wai[c], lim |-> lim]
TaskGrpCount(q) == Len(q.rdy) + Len(q.wai)

\* A limit of zero sends the ready groups to the head of the waiting list.
SetLimitRunningGrps(q, n) ==
    [rdy |-> IF n = 0 THEN <<>> ELSE q.rdy,
     wai |-> IF n = 0 THEN q.rdy \o q.wai ELSE q.wai,
     lim |-> SetLimit(q.lim, ToSet(q.rdy), n)]

\* A limit above zero makes the waiting groups ready.
SetLimitGrps(q, n) ==
    IF n = 0 THEN SetLimitRunningGrps(q, 0)
    ELSE [rdy |-> q.rdy \o q.wai,
          wai |-> <<>>,
          lim |-> SetLimit(q.lim, ToSet(q.rdy \o q.wai), n)]

\* One more slot for each of the first n ready groups.
IncRunningGrps(q, n) ==
    LET first == ToSet(SubSeq(q.rdy, 1, Least(n, Len(q.rdy))))
    IN  [q EXCEPT !.lim = [g \in Groups |->
            IF g \in first THEN SetLimit(@, {g}, @[g] + 1)[g] ELSE @[g]]]

\* The elements of s that are in S, in their order.
Sublist(s, S) ==
    LET I == {i \in DOMAIN s : s[i] \in S}
        f == CHOOSE f \in [1..Cardinality(I) -> I] :
                \A i, j \in DOMAIN f : i < j => f[i] < f[j]
    IN  [i \in DOMAIN f |-> s[f[i]]]

Busy == {g \in Groups : HasPendingTasks(g)}

\* One slot for each of n waiting groups, those with requests first.
IncWaitingGrp(q, n) ==
    LET busy == Sublist(q.wai, Busy)
        first == SubSeq(busy, 1, Least(n, Len(busy)))
        rest == Sublist(q.wai, Groups \ ToSet(first))
        k == Least(n - Len(first), Len(rest))
        chosen == first \o SubSeq(rest, 1, k)
    IN  [rdy |-> q.rdy \o chosen,
         wai |-> SubSeq(rest, k + 1, Len(rest)),
         lim |-> SetLimit(q.lim, ToSet(chosen), 1)]

\* Mutant: one group too many gets a share of the remainder.
ShareOneMore(q, n) ==
    LET m == TaskGrpCount(q)
    IN  IncRunningGrps(SetLimitGrps(q, n \div m), (n % m) + 1)

\* n slots, all groups ready: n / groups each and one more for the first n % groups.
Share(q, n) ==
    LET m == TaskGrpCount(q)
    IN  IncRunningGrps(SetLimitGrps(q, n \div m), n % m)

\* old + delta slots.
IncSlotCount(q, old, delta) ==
    LET n == old + delta
        m == TaskGrpCount(q)
    IN  IF m = 0 THEN q
        ELSE IF q.wai = <<>>
             THEN IncRunningGrps(SetLimitRunningGrps(q, n \div m), n % m)
             ELSE IF n \div m = 0 THEN IncWaitingGrp(q, delta) ELSE Share(q, n)

\* DecSlotCount and ResetSlotCountAlloc: old - delta slots.
DecSlotCount(q, old, delta) ==
    LET n == old - delta
        m == TaskGrpCount(q)
    IN  IF m = 0 THEN q
        ELSE IF n \div m = 0 THEN IncWaitingGrp(SetLimitGrps(q, 0), n % m)
             ELSE Share(q, n)

\* Mutant: with more groups than slots the freed slots stay unused.
ResetSlotCountReleaseShareOnly(q, n) ==
    LET m == TaskGrpCount(q)
    IN  IF m > 0 /\ n \div m > 0 THEN Share(q, n) ELSE q

\* Groups have left; n slots for those that remain.
ResetSlotCountRelease(q, n) ==
    LET m == TaskGrpCount(q)
    IN  IF m = 0 THEN q
        ELSE IF n \div m > 0 THEN Share(q, n)
             ELSE IF n > Len(q.rdy) THEN IncWaitingGrp(q, n - Len(q.rdy)) ELSE q

\* Mutant: nothing is killed when a limit is cut.
SelTasksToKillNone(l, S) == UNCHANGED victims

\* SelTasksToKill picks as many requests of each group of S as it runs beyond
\* its limit l, in the order of m_setTasks: some may be victims already and
\* some may have ended.
SelTasksToKill(l, S) ==
    /\ victims' \in [Groups -> 0..MaxReqs]
    /\ \A g \in Groups :
        LET excess == RunningCount(g) - l[g] IN
        IF g \in S /\ gstate[g] = "up" /\ excess > 0
        THEN /\ victims'[g] >= victims[g]
             /\ victims'[g] >= excess - done[g]
             /\ victims'[g] <= Least(live[g], victims[g] + excess)
        ELSE victims'[g] = victims[g]

SetQueues(c, q) ==
    /\ rdy' = [rdy EXCEPT ![c] = q.rdy]
    /\ wai' = [wai EXCEPT ![c] = q.wai]
    /\ lim' = q.lim
-----------------------------------------------------------------------------
(* GetNextTaskGrp: the lists are walked from their heads and turned on the *)
(* way; a walk that finds nothing leaves them as they were.                *)

Turn(s, k) == SubSeq(s, k + 1, Len(s)) \o SubSeq(s, 1, k)
\* The first index of s whose element is in S, 0 if there is none.
FirstIn(s, S) == IF ToSet(s) \cap S = {} THEN 0
                 ELSE Min({i \in DOMAIN s : s[i] \in S})

Runnable == {g \in Groups : HasTaskToRun(g)}
Free == {g \in Groups : HasFreeSlot(g)}

\* GetNextTaskGrpAAR, then the call of the group it returns.
GetNextTaskGrpAAR ==
    /\ aar > 0 /\ Unlocked
    /\ aar' = aar - 1
    /\ LET i == FirstIn(conns, {c \in Conns : ToSet(rdy[c]) \cap Runnable # {}})
       IN  IF i = 0 THEN UNCHANGED <<conns, rdy, calls>>
           ELSE LET c == conns[i]
                    j == FirstIn(rdy[c], Runnable)
                IN  /\ conns' = Turn(conns, i)
                    /\ rdy' = [rdy EXCEPT ![c] = Turn(@, j)]
                    /\ calls' = [calls EXCEPT ![rdy[c][j]] = @ + 1]
    /\ UNCHANGED <<gstate, lim, que, live, done, victims, noSched>>
    /\ UNCHANGED <<scheduled, lifeVars, wai, slots, swap, occ, requeue, submits, resized>>

\* The ready groups of c at which GetNextTaskGrpOCC stops: with a request waiting
\* for a slot, one that has a slot to give away.
StopsAt(c) == IF ToSet(wai[c]) \cap Busy # {} THEN Free ELSE Runnable

\* GetNextTaskGrpOCC up to the exchange, if there is one; else it calls the
\* group it returns.
GetNextTaskGrpOCC ==
    /\ occ > 0 /\ Unlocked
    /\ occ' = occ - 1
    /\ LET i == FirstIn(conns, {c \in Conns : ToSet(rdy[c]) \cap StopsAt(c) # {}})
       IN  IF i = 0 THEN UNCHANGED <<conns, rdy, wai, swap, calls>>
           ELSE LET c == conns[i]
                    j == FirstIn(rdy[c], StopsAt(c))
                    k == FirstIn(wai[c], Busy)
                IN  /\ conns' = Turn(conns, i)
                    /\ IF k = 0
                       THEN /\ rdy' = [rdy EXCEPT ![c] = Turn(@, j)]
                            /\ calls' = [calls EXCEPT ![rdy[c][j]] = @ + 1]
                            /\ UNCHANGED <<wai, swap>>
                       ELSE /\ rdy' = [rdy EXCEPT ![c] = SubSeq(Turn(@, j), 1, Len(@) - 1)]
                            /\ wai' = [wai EXCEPT ![c] = Tail(Turn(@, k - 1))]
                            /\ swap' = {<<c, rdy[c][j], wai[c][k]>>}
                            /\ UNCHANGED calls
    /\ UNCHANGED <<gstate, lim, que, live, done, victims, noSched>>
    /\ UNCHANGED <<scheduled, lifeVars, slots, aar, requeue, submits, resized>>

\* Mutant: the idle group keeps its slot.
ExchangeKeepsLimit ==
    \E x \in swap :
        /\ swap' = {}
        /\ lim' = SetLimit(lim, {x[3]}, 1)
        /\ rdy' = [rdy EXCEPT ![x[1]] = Append(@, x[3])]
        /\ wai' = [wai EXCEPT ![x[1]] = Append(@, x[2])]
        /\ calls' = [calls EXCEPT ![x[3]] = @ + 1]
        /\ UNCHANGED <<gstate, que, live, done, victims, noSched>>
        /\ UNCHANGED <<scheduled, lifeVars, conns, slots, callVars, resized>>

\* The exchange: the idle group loses its slot to the waiting one.
Exchange ==
    \E x \in swap :
        LET c == x[1]
            g == x[2]
            w == x[3]
        IN  /\ swap' = {}
            /\ lim' = SetLimit(SetLimit(lim, {g}, 0), {w}, 1)
            /\ rdy' = [rdy EXCEPT ![c] = Append(@, w)]
            /\ wai' = [wai EXCEPT ![c] = Append(@, g)]
            /\ calls' = [calls EXCEPT ![w] = @ + 1]
            /\ UNCHANGED <<gstate, que, live, done, victims, noSched>>
            /\ UNCHANGED <<scheduled, lifeVars, conns, slots, callVars, resized>>

-----------------------------------------------------------------------------
(* The life of a group.                                                    *)

\* CreateGrpRfc puts the group in the map and runs it with its placeholder.
CreateGrpRfc(g) ==
    /\ gstate[g] = "none" /\ ConnOf[g] \notin closed
    /\ MoreWork
    /\ inMap' = inMap \cup {g}
    /\ gstate' = [gstate EXCEPT ![g] = "up"]
    /\ lim' = [lim EXCEPT ![g] = IF scheduled THEN 0 ELSE MaxReqs]
    /\ creator' = [creator EXCEPT ![g] = IF scheduled THEN "add" ELSE "ok"]
    /\ UNCHANGED <<que, live, done, victims, noSched, calls>>
    /\ UNCHANGED <<scheduled, remover, closed, listVars, callVars, resized>>

\* AddTaskGrp.  Without the connection it goes on with AddConn.  A client that comes
\* after its connection was dropped, for which AddConn would add it again, is left out.
AddTaskGrp(g) ==
    LET c == ConnOf[g]
        q == Queues(c)
        n == TaskGrpCount(q) + 1
    IN  /\ creator[g] = "add" /\ c \notin closed /\ Unlocked
        /\ IF ~Connected(c)
           THEN /\ creator' = [creator EXCEPT ![g] = "conn"]
                /\ UNCHANGED <<lim, victims, rdy, wai>>
           ELSE /\ creator' = [creator EXCEPT ![g] = "ok"]
                /\ IF wai[c] # <<>> \/ slots[c] \div n = 0
                   THEN /\ SetQueues(c, [q EXCEPT !.wai = Append(@, g)])
                        /\ UNCHANGED victims
                   ELSE LET p == Share([q EXCEPT !.rdy = Append(@, g)], slots[c])
                        IN  SetQueues(c, p) /\ SelTasksToKill(p.lim, ToSet(p.rdy))
        /\ UNCHANGED <<gstate, que, live, done, noSched, calls>>
        /\ UNCHANGED <<scheduled, inMap, remover, closed, conns, slots, swap, callVars,
                       resized>>

\* AddConn.  The connection may have been added since AddTaskGrp looked: EEXIST.
AddConn(g) ==
    LET c == ConnOf[g]
    IN  /\ creator[g] = "conn" /\ c \notin closed /\ Unlocked
        /\ IF Connected(c)
           THEN /\ creator' = [creator EXCEPT ![g] = "failed"]
                /\ UNCHANGED <<conns, slots>>
           ELSE /\ creator' = [creator EXCEPT ![g] = "add"]
                /\ conns' = Append(conns, c)
                /\ \E n \in SlotCounts : slots' = [slots EXCEPT ![c] = n]
        /\ UNCHANGED <<scheduled, inMap, remover, closed, rdy, wai, swap, callVars, resized>>
        /\ UNCHANGED grpVars

\* GetBridgeProxy in CreateGrpRfc, or GetGrpRfc in AddConn: the proxy is gone.
CreateFails(g) ==
    /\ creator[g] \in {"add", "conn"}
    /\ ConnOf[g] \in closed
    /\ creator' = [creator EXCEPT ![g] = "failed"]
    /\ UNCHANGED <<scheduled, inMap, remover, closed, listVars, callVars, resized>>
    /\ UNCHANGED grpVars

\* RemoveGrpRfcs of a client that has gone.  Its group leaves the map and, in
\* RemoveTaskGrps, the scheduler, which deals out its slots and calls the groups
\* that can use them.  The map is not read in between but by RequeueInvTask,
\* whose request then shares the fate of the others.
RemoveGrpRfcs(g) ==
    LET c == ConnOf[g]
        q == Queues(c)
    IN  /\ g \in inMap
        /\ scheduled => Unlocked
        /\ inMap' = inMap \ {g}
        /\ remover' = [remover EXCEPT ![g] = "cancel"]
        /\ IF g \in ToSet(rdy[c])
           THEN LET p == ResetSlotCountRelease([q EXCEPT !.rdy = RemoveFirst(@, g)], slots[c])
                IN  /\ SetQueues(c, p)
                    /\ calls' = [h \in Groups |->
                          IF h \in ToSet(p.rdy) /\ ~noSched[h] /\ que[h] > 0
                                                /\ RunningCount(h) < p.lim[h]
                          THEN calls[h] + 1 ELSE calls[h]]
           ELSE /\ wai' = [wai EXCEPT ![c] = RemoveFirst(@, g)]
                /\ UNCHANGED <<rdy, lim, calls>>
        /\ UNCHANGED <<gstate, que, live, done, victims, noSched>>
        /\ UNCHANGED <<scheduled, creator, closed, conns, slots, swap, callVars, resized>>

\* The group is then cancelled.  With a scheduler the DeferredRemove of each of
\* its requests finds nothing to remove and calls RunNextTaskGrp, unless it comes
\* while OnCancel holds m_bNoSched.
Cancel(g) ==
    /\ remover[g] = "cancel"
    /\ remover' = [remover EXCEPT ![g] = "end"]
    /\ OnCancel(g)
    /\ \E n \in 0..(que[g] + live[g] + done[g]) : occ' = IF scheduled THEN occ + n ELSE occ
    /\ UNCHANGED <<lim, noSched, calls>>
    /\ UNCHANGED <<scheduled, inMap, creator, closed, listVars, aar, requeue, submits, resized>>

\* RemoveGrpRfcs of a connection that closes: all its groups leave the map, and
\* the connection leaves the scheduler with its lists (RemoveConn).
CloseConn(c) ==
    /\ c \notin closed
    /\ Unlocked
    /\ closed' = closed \cup {c}
    /\ LET S == {g \in inMap : ConnOf[g] = c}
       IN  /\ inMap' = inMap \ S
           /\ remover' = [g \in Groups |-> IF g \in S THEN "cancel" ELSE remover[g]]
    /\ conns' = RemoveFirst(conns, c)
    /\ rdy' = [rdy EXCEPT ![c] = <<>>]
    /\ wai' = [wai EXCEPT ![c] = <<>>]
    /\ UNCHANGED <<scheduled, creator, slots, swap, callVars, resized>>
    /\ UNCHANGED grpVars

\* SetSlotCount: the remote bridge has sent new limits.  The code calls
\* IncSlotCount for fewer slots and DecSlotCount for more.
SetSlotCount(c, n) ==
    /\ MoreWork /\ resized' = resized + 1
    /\ Connected(c) /\ Unlocked
    /\ slots[c] # n
    /\ slots' = [slots EXCEPT ![c] = n]
    /\ IF n < slots[c]
       THEN SetQueues(c, IncSlotCount(Queues(c), slots[c], slots[c] - n)) /\ UNCHANGED victims
       ELSE LET p == DecSlotCount(Queues(c), slots[c], n - slots[c])
            IN  SetQueues(c, p) /\ SelTasksToKill(p.lim, ToSet(p.rdy \o p.wai))
    /\ UNCHANGED <<gstate, que, live, done, noSched, calls>>
    /\ UNCHANGED <<scheduled, lifeVars, conns, swap, callVars>>

-----------------------------------------------------------------------------
(* The life of a request.                                                  *)

Count == MoreWork /\ submits' = submits + 1

\* CRpcReqForwarder::AddAndRun: AppendTask and RunNextTaskGrp( pGrp, 0 ).
Submit(g) ==
    /\ Count
    /\ AppendTask(g)
    /\ IF scheduled THEN aar' = aar + 1 /\ UNCHANGED calls
       ELSE calls' = [calls EXCEPT ![g] = @ + 1] /\ UNCHANGED aar
    /\ UNCHANGED <<gstate, lim, live, done, victims, noSched>>
    /\ UNCHANGED <<scheduled, lifeVars, listVars, occ, requeue, resized>>

\* CIfParallelTaskGrpRfc::AddAndRun, which bridges and proxies use: the group is
\* called only if a slot is free.
AddAndRun(g) ==
    /\ ~scheduled
    /\ Count
    /\ AppendTask(g)
    /\ calls' = [calls EXCEPT ![g] = IF HasFreeSlot(g) THEN @ + 1 ELSE @]
    /\ UNCHANGED <<gstate, lim, live, done, victims, noSched>>
    /\ UNCHANGED <<scheduled, lifeVars, listVars, aar, occ, requeue, resized>>

\* A request ends and OnChildComplete runs: with a scheduler DeferredRemove is
\* put in the task queue, without one the group is called again if it can run
\* another.  A request that the other side did not take, ERROR_QUEUE_FULL, is
\* put in the task queue to be tried again (OnFwrdReqQueueFull).
OnChildComplete(g) ==
    /\ EndsLive(g)
    /\ IF scheduled
       THEN done' = [done EXCEPT ![g] = @ + 1] /\ UNCHANGED calls
       ELSE /\ calls' = [calls EXCEPT ![g] =
                  IF RunningCount(g) - 1 < lim[g] /\ ~noSched[g] /\ que[g] > 0
                  THEN @ + 1 ELSE @]
            /\ UNCHANGED done
    /\ \/ UNCHANGED <<requeue, submits>>
       \/ Count /\ requeue' = [requeue EXCEPT ![g] = @ + 1]
    /\ UNCHANGED <<gstate, lim, que, noSched>>
    /\ UNCHANGED <<scheduled, lifeVars, listVars, aar, occ, resized>>

\* DeferredRemove: the request leaves m_setTasks; if that makes a slot free the
\* scheduler looks for a group to use it.
DeferredRemove(g) ==
    /\ done[g] > 0
    /\ done' = [done EXCEPT ![g] = @ - 1]
    /\ occ' = IF RunningCount(g) - 1 >= lim[g] \/ noSched[g] THEN occ ELSE occ + 1
    /\ UNCHANGED <<gstate, lim, que, live, victims, noSched, calls>>
    /\ UNCHANGED <<scheduled, lifeVars, listVars, aar, requeue, submits, resized>>

\* KillTasks ends a victim with ERROR_KILLED_BYSCHED: it leaves m_setTasks at
\* once, and nobody is called.
KillTask(g) ==
    /\ victims[g] > 0
    /\ victims' = [victims EXCEPT ![g] = @ - 1]
    /\ live' = [live EXCEPT ![g] = @ - 1]
    /\ UNCHANGED <<gstate, lim, que, done, noSched, calls>>
    /\ UNCHANGED schedVars

\* RequeueInvTask: the request goes to the head of the queue; the group is
\* called only without a scheduler.  A request whose group is gone is dropped.
RequeueInvTask(g) ==
    /\ requeue[g] > 0
    /\ requeue' = [requeue EXCEPT ![g] = @ - 1]
    /\ IF g \in inMap /\ gstate[g] = "up"
       THEN /\ InsertTask(g)
            /\ calls' = [calls EXCEPT ![g] = IF ~scheduled /\ HasFreeSlot(g) THEN @ + 1 ELSE @]
       ELSE UNCHANGED <<que, calls>>
    /\ UNCHANGED <<gstate, lim, live, done, victims, noSched>>
    /\ UNCHANGED <<scheduled, lifeVars, listVars, aar, occ, submits, resized>>

\* SetLimit on the group of a bridge or a proxy: it is called if that gives it
\* a free slot.
SetLimitAndCall(g, n) ==
    /\ lim' = SetLimit(lim, {g}, n)
    /\ calls' = [calls EXCEPT ![g] =
          IF ~noSched[g] /\ RunningCount(g) < lim'[g] /\ que[g] > 0 THEN @ + 1 ELSE @]
    /\ UNCHANGED <<gstate, que, live, done, victims, noSched>>

\* CRpcTcpBridge::RefreshReqLimit.
RefreshReqLimit(g, n) ==
    /\ ~scheduled /\ gstate[g] = "up"
    /\ MoreWork /\ resized' = resized + 1
    /\ SetLimitAndCall(g, n)
    /\ UNCHANGED <<scheduled, lifeVars, listVars, callVars>>

\* CRpcTcpBridge::AddAndRun: the request it ran came back with ERROR_QUEUE_FULL;
\* the limit becomes the number of requests that run, which may be zero.
LimitToRunning(g) ==
    /\ ~scheduled /\ gstate[g] = "up"
    /\ requeue[g] > 0
    /\ SetLimitAndCall(g, RunningCount(g))
    /\ UNCHANGED schedVars

-----------------------------------------------------------------------------
GroupStep(g) ==
    /\ RunBegin(g) \/ RunEnd(g)
    /\ UNCHANGED schedVars

LifeStep(g) == AddTaskGrp(g) \/ AddConn(g) \/ CreateFails(g) \/ Cancel(g)

RequestStep(g) == OnChildComplete(g) \/ DeferredRemove(g) \/ KillTask(g) \/ RequeueInvTask(g)

Next ==
    \/ GetNextTaskGrpAAR \/ GetNextTaskGrpOCC \/ Exchange
    \/ \E c \in Conns : \/ CloseConn(c)
                        \/ \E n \in SlotCounts : SetSlotCount(c, n)
    \/ \E g \in Groups :
        \/ CreateGrpRfc(g) \/ RemoveGrpRfcs(g) \/ LifeStep(g)
        \/ Submit(g) \/ AddAndRun(g) \/ RequestStep(g) \/ GroupStep(g)
        \/ LimitToRunning(g)
        \/ \E n \in 1..MaxReqs : RefreshReqLimit(g, n)

Spec == Init /\ [][Next]_vars

\* Threads run and the task queue is served.  A request ends: the server answers
\* or it times out.  Nothing makes clients come, submit or leave.
Fairness ==
    /\ WF_vars(GetNextTaskGrpAAR) /\ WF_vars(GetNextTaskGrpOCC) /\ WF_vars(Exchange)
    /\ \A g \in Groups :
        /\ WF_vars(RunBegin(g) /\ UNCHANGED schedVars)
        /\ WF_vars(RunEnd(g) /\ UNCHANGED schedVars)
        /\ WF_vars(AddTaskGrp(g) \/ AddConn(g)) /\ WF_vars(Cancel(g))
        /\ WF_vars(OnChildComplete(g)) /\ WF_vars(DeferredRemove(g))
        /\ WF_vars(KillTask(g)) /\ WF_vars(RequeueInvTask(g))

FairSpec == Spec /\ Fairness
-----------------------------------------------------------------------------
(* Properties.                                                             *)

\* The groups of connection c that the scheduler knows; during an exchange the
\* two groups are on neither list.
Ready(c) == ToSet(rdy[c])
Waiting(c) == ToSet(wai[c])
Swapped(c) == {x[2] : x \in {y \in swap : y[1] = c}} \cup {x[3] : x \in {y \in swap : y[1] = c}}
Listed(c) == Ready(c) \cup Waiting(c) \cup Swapped(c)
Seated == (UNION {Ready(c) : c \in Conns}) \cup {x[2] : x \in swap}

\* As long as no remote bridge has changed its limit, the groups of a connection
\* that can run anything never have more slots together than the connection.
SlotsBound ==
    resized = 0 => \A c \in Conns :
        MapThenSumSet(LAMBDA g : lim[g], {g \in Listed(c) : gstate[g] = "up"}) <= slots[c]

\* Unless a cancelled group is listed, and between exchanges: groups wait only if
\* every slot of the connection is given to a ready group, one each, and if none
\* waits all slots are dealt out, in shares that differ by one at most.
FairShare ==
    resized = 0 /\ swap = {} =>
        \A c \in Conns :
            LET n == Cardinality(Ready(c))
            IN  (Listed(c) # {} /\ \A g \in Listed(c) : gstate[g] = "up") =>
                IF Waiting(c) = {}
                THEN /\ MapThenSumSet(LAMBDA g : lim[g], Ready(c)) = Least(slots[c], n * MaxReqs)
                     /\ \A g, h \in Ready(c) : lim[g] <= lim[h] + 1
                ELSE /\ n = slots[c]
                     /\ \A g \in Ready(c) : lim[g] = 1

\* A group is on one list of its own connection and only once, and a group whose
\* AddTaskGrp succeeded is listed as long as its client and its connection are
\* there.  With a scheduler, a group that is not ready has no slot, so that none of
\* its requests is started: not before AddTaskGrp has put it on a list, not while
\* it waits, and not after its slot went to another group.  Both hold through
\* turns, exchanges, the moves between the lists and changes of the limits.
SeatsKept ==
    /\ \A c \in Conns :
        /\ Len(rdy[c]) + Len(wai[c]) + Cardinality(Swapped(c)) = Cardinality(Listed(c))
        /\ \A g \in Listed(c) : ConnOf[g] = c
    /\ scheduled => \A g \in inMap :
        /\ creator[g] = "ok" => g \in Listed(ConnOf[g])
        /\ g \notin Seated => lim[g] = 0

\* No group of a connection runs more requests, those about to be killed aside,
\* than the largest share of the slots: a limit is cut under running requests
\* with as many victims for KillTasks, or by a deal to fewer groups, whose largest
\* share is no smaller, or by GetNextTaskGrpOCC, which takes the slot of a group
\* that may have started a request since the check.
LargestShare(c) ==
    LET m == Cardinality(Listed(c))
    IN  IF m = 0 THEN 0 ELSE (slots[c] + m - 1) \div m

OverrunBounded ==
    scheduled /\ resized = 0 => \A g \in inMap :
        live[g] <= victims[g] + (IF g \in Listed(ConnOf[g]) THEN LargestShare(ConnOf[g]) ELSE 0)

\* Without a scheduler, whenever a group has a request and a free slot, a thread
\* is in RunTaskInternal and will look again, or a call is on its way: neither
\* AddAndRun, OnChildComplete and RequeueInvTask nor a change of the limit leaves
\* a request behind.
NoLostWakeup ==
    ~scheduled => \A g \in Groups :
        gstate[g] = "up" /\ CanTake(g) => noSched[g] \/ calls[g] > 0
=============================================================================
