----------------------------- MODULE SchedProofs -----------------------------
(***************************************************************************)
(* Proofs about module RRScheduler.  The first part is about a system      *)
(* without a scheduler: the lists stay empty and every group is driven by  *)
(* the calls made for its own requests.  The second part is about the      *)
(* lists of the scheduler and the limits it deals out.                     *)
(***************************************************************************)
EXTENDS RRScheduler, FiniteSetTheorems, SequenceTheorems, WellFoundedInduction, TLAPS

\* Nobody deals out slots, takes them away or kills requests.
Unmanaged ==
    /\ swap = {}
    /\ \A c \in Conns : rdy[c] = <<>>
    /\ \A g \in Groups : done[g] = 0 /\ victims[g] = 0

\* A group that has not been created has no request.
Unfilled == \A g \in Groups : gstate[g] = "none" => que[g] = 0

\* A group with a request and a free slot is being run or is going to be called.
Called == \A g \in Groups : gstate[g] = "up" /\ CanTake(g) => noSched[g] \/ calls[g] > 0

AloneInv == GrpTypeOK /\ Unmanaged /\ Unfilled /\ Called

-----------------------------------------------------------------------------
(* The steps of a system without a scheduler.                              *)

\* A step leaves the lists alone, and neither kills a request nor leaves one for
\* DeferredRemove.
Aside == UNCHANGED <<swap, rdy, done, victims>>

\* Unless a step touches the lists, nobody begins to deal out slots.
LEMMA AsideUnmanaged == Unmanaged /\ Aside => Unmanaged'
  BY DEF Unmanaged, Aside

\* A group's own RunTask and the call that leads to it keep AloneInv.
LEMMA GroupStepAlone ==
    ASSUME AloneInv, NEW g \in Groups, GroupStep(g)
    PROVE  AloneInv'
  <1>0. ASSUME CanTake(g), TakeBatch(g)
        PROVE  que' \in [Groups -> Nat] /\ live' \in [Groups -> Nat]
    <2>. DEFINE n == Least(lim[g] - RunningCount(g), que[g])
    <2>1. lim[g] \in Nat /\ que[g] \in Nat /\ RunningCount(g) \in Int
      BY GroupsAssumption DEF AloneInv, GrpTypeOK, RunningCount
    <2>2. n \in Nat /\ n <= que[g]
      BY <1>0, <2>1 DEF CanTake, Least
    <2>3. que' = [que EXCEPT ![g] = @ - n] /\ live' = [live EXCEPT ![g] = @ + n]
      BY <1>0 DEF TakeBatch
    <2>. QED
      BY <2>2, <2>3 DEF AloneInv, GrpTypeOK
  <1>1. GrpTypeOK'
    <2>1. que' \in [Groups -> Nat] /\ live' \in [Groups -> Nat]
      BY <1>0 DEF AloneInv, GrpTypeOK, GroupStep, RunBegin, RunEnd
    <2>2. calls' \in [Groups -> Nat]
      BY DEF AloneInv, GroupStep, RunBegin, RunEnd, GrpTypeOK
    <2>3. noSched' \in [Groups -> BOOLEAN]
      <3>1. noSched \in [Groups -> BOOLEAN]
        BY DEF AloneInv, GrpTypeOK
      <3>2. \/ UNCHANGED noSched
            \/ \E b \in BOOLEAN : noSched' = [noSched EXCEPT ![g] = b]
        BY Zenon DEF GroupStep, RunBegin, RunEnd
      <3>. QED
        BY <3>1, <3>2
    <2>4. UNCHANGED <<gstate, lim, done, victims>>
      BY DEF GroupStep, RunBegin, RunEnd
    <2>. QED
      BY <2>1, <2>2, <2>3, <2>4 DEF AloneInv, GrpTypeOK
  <1>2. Unmanaged'
    BY AsideUnmanaged DEF AloneInv, Aside, GroupStep, RunBegin, RunEnd, schedVars, listVars
  <1>3. CASE RunBegin(g)
    BY <1>1, <1>2, <1>3 DEF AloneInv, RunBegin, TakeBatch, CanTake, RunningCount, Least,
       GrpTypeOK, Unfilled, Called
  <1>4. CASE RunEnd(g)
    BY <1>1, <1>2, <1>4 DEF AloneInv, RunEnd, TakeBatch, CanTake, RunningCount, Least,
       GrpTypeOK, Unfilled, Called
  <1>. QED
    BY <1>3, <1>4 DEF GroupStep

\* A group created without a scheduler gets all MaxReqs slots at once.
LEMMA CreateAlone ==
    ASSUME AloneInv, NEW g \in Groups, ~scheduled, CreateGrpRfc(g)
    PROVE  AloneInv'
  <1>1. GrpTypeOK'
    BY GroupsAssumption DEF AloneInv, CreateGrpRfc, GrpTypeOK
  <1>2. Unmanaged'
    BY AsideUnmanaged DEF AloneInv, Aside, CreateGrpRfc, listVars
  <1>. QED
    BY <1>1, <1>2 DEF AloneInv, CreateGrpRfc, GrpTypeOK, Unfilled, Called, CanTake, RunningCount

\* Removing a group finds no list to take it from and changes no group.
LEMMA RemoveAlone ==
    ASSUME AloneInv, NEW g \in Groups, RemoveGrpRfcs(g)
    PROVE  AloneInv'
  <1>1. g \notin ToSet(rdy[ConnOf[g]])
    BY SchedAssumption DEF AloneInv, Unmanaged, ToSet
  <1>2. UNCHANGED <<grpVars, swap, rdy>>
    BY <1>1 DEF RemoveGrpRfcs, grpVars
  <1>. QED
    BY <1>2 DEF AloneInv, grpVars, GrpTypeOK, Unmanaged, Unfilled, Called, CanTake, RunningCount

\* Cancelling a group empties its queue, which leaves nothing to be forgotten.
LEMMA CancelAlone ==
    ASSUME AloneInv, NEW g \in Groups, Cancel(g)
    PROVE  AloneInv'
  <1>1. GrpTypeOK'
    BY DEF AloneInv, Cancel, OnCancel, GrpTypeOK
  <1>2. Unmanaged'
    BY DEF AloneInv, Unmanaged, Cancel, OnCancel, GrpTypeOK, listVars
  <1>. QED
    BY <1>1, <1>2 DEF AloneInv, Cancel, OnCancel, GrpTypeOK, Unfilled, Called, CanTake, RunningCount

\* A creation that fails leaves the groups and the lists as they are.
LEMMA CreateFailsAlone ==
    ASSUME AloneInv, NEW g \in Groups, CreateFails(g)
    PROVE  AloneInv'
  BY DEF AloneInv, CreateFails, grpVars, listVars, GrpTypeOK, Unmanaged, Unfilled, Called,
     CanTake, RunningCount

\* A request put in the queue brings the call that will start it.
LEMMA SubmitAlone ==
    ASSUME AloneInv, NEW g \in Groups, ~scheduled, Submit(g) \/ AddAndRun(g)
    PROVE  AloneInv'
  <1>1. GrpTypeOK'
    BY DEF AloneInv, Submit, AddAndRun, AppendTask, GrpTypeOK
  <1>2. Unmanaged'
    BY AsideUnmanaged DEF AloneInv, Aside, Submit, AddAndRun, listVars
  <1>3. CASE Submit(g)
    BY <1>1, <1>2, <1>3 DEF AloneInv, Submit, AppendTask, GrpTypeOK, Unfilled, Called, CanTake,
       RunningCount
  <1>4. CASE AddAndRun(g)
    BY <1>1, <1>2, <1>4 DEF AloneInv, AddAndRun, AppendTask, HasFreeSlot, GrpTypeOK, Unfilled,
       Called, CanTake, RunningCount
  <1>. QED
    BY <1>3, <1>4

\* A completed request frees a slot and calls the group to fill it.
LEMMA CompleteAlone ==
    ASSUME AloneInv, NEW g \in Groups, ~scheduled, OnChildComplete(g)
    PROVE  AloneInv'
  <1>1. live[g] > 0 /\ live' = [live EXCEPT ![g] = @ - 1] /\ UNCHANGED victims
    BY DEF AloneInv, Unmanaged, OnChildComplete, EndsLive, GrpTypeOK
  <1>2. GrpTypeOK'
    BY <1>1 DEF AloneInv, OnChildComplete, GrpTypeOK
  <1>3. Unmanaged'
    BY <1>1, AsideUnmanaged DEF AloneInv, Aside, OnChildComplete, listVars
  <1>. QED
    BY <1>1, <1>2, <1>3 DEF AloneInv, OnChildComplete, GrpTypeOK, Unfilled, Called, CanTake,
       RunningCount

\* A request put back in front of the queue brings the call that will start it.
LEMMA RequeueAlone ==
    ASSUME AloneInv, NEW g \in Groups, ~scheduled, RequeueInvTask(g)
    PROVE  AloneInv'
  <1>1. GrpTypeOK'
    BY DEF AloneInv, RequeueInvTask, InsertTask, GrpTypeOK
  <1>2. Unmanaged'
    BY AsideUnmanaged DEF AloneInv, Aside, RequeueInvTask, listVars
  <1>. QED
    BY <1>1, <1>2 DEF AloneInv, RequeueInvTask, InsertTask, HasFreeSlot, GrpTypeOK, Unfilled,
       Called, CanTake, RunningCount

\* SetLimitAndCall calls the group when its new limit leaves free slots.
LEMMA LimitAlone ==
    ASSUME AloneInv, NEW g \in Groups, NEW n \in Nat, SetLimitAndCall(g, n),
           UNCHANGED <<swap, rdy>>
    PROVE  AloneInv'
  <1>1. \A m \in Nat : Least(m, MaxReqs) \in 0..MaxReqs
    BY GroupsAssumption DEF Least
  <1>2. /\ lim' \in [Groups -> 0..MaxReqs] /\ \A h \in Groups \ {g} : lim'[h] = lim[h]
        /\ calls' \in [Groups -> Nat]
    BY <1>1 DEF AloneInv, SetLimitAndCall, SetLimit, GrpTypeOK
  <1>3. GrpTypeOK'
    BY <1>2 DEF AloneInv, SetLimitAndCall, GrpTypeOK
  <1>4. Unmanaged'
    BY AsideUnmanaged DEF AloneInv, Aside, SetLimitAndCall
  <1>5. Unfilled'
    BY DEF AloneInv, Unfilled, SetLimitAndCall
  <1>6. Called'
    <2>. SUFFICES ASSUME NEW h \in Groups, gstate[h] = "up", CanTake(h)', ~noSched[h]
                  PROVE  calls'[h] > 0
      BY DEF Called, SetLimitAndCall
    <2>1. CASE h = g
      BY <2>1 DEF AloneInv, SetLimitAndCall, GrpTypeOK, CanTake, RunningCount
    <2>2. CASE h # g
      <3>1. CanTake(h) /\ calls'[h] = calls[h]
        BY <1>2, <2>2 DEF AloneInv, SetLimitAndCall, GrpTypeOK, CanTake, RunningCount
      <3>. QED
        BY <3>1 DEF AloneInv, Called
    <2>. QED
      BY <2>1, <2>2
  <1>. QED
    BY <1>3, <1>4, <1>5, <1>6 DEF AloneInv

\* What the scheduler does, and what is left to DeferredRemove and KillTasks, does
\* not happen.
LEMMA AloneStep ==
    ASSUME AloneInv, ~scheduled, Next
    PROVE  AloneInv'
  <1>1. ~Unlocked /\ swap = {}
    BY DEF Unlocked, AloneInv, Unmanaged
  <1>2. ~GetNextTaskGrpAAR /\ ~GetNextTaskGrpOCC /\ ~Exchange
    BY <1>1 DEF GetNextTaskGrpAAR, GetNextTaskGrpOCC, Exchange
  <1>3. ASSUME NEW c \in Conns PROVE ~CloseConn(c) /\ \A n \in SlotCounts : ~SetSlotCount(c, n)
    BY <1>1 DEF CloseConn, SetSlotCount
  <1>4. PICK g \in Groups :
        \/ CreateGrpRfc(g) \/ RemoveGrpRfcs(g) \/ LifeStep(g)
        \/ Submit(g) \/ AddAndRun(g) \/ RequestStep(g) \/ GroupStep(g)
        \/ LimitToRunning(g)
        \/ \E n \in 1..MaxReqs : RefreshReqLimit(g, n)
    BY <1>2, <1>3 DEF Next
  <1>5. ~AddTaskGrp(g) /\ ~AddConn(g)
    BY <1>1 DEF AddTaskGrp, AddConn
  <1>6. ~DeferredRemove(g) /\ ~KillTask(g)
    BY DEF AloneInv, Unmanaged, DeferredRemove, KillTask
  <1>7. ASSUME LimitToRunning(g) PROVE AloneInv'
    <2>1. RunningCount(g) \in Nat
      BY <1>7 DEF LimitToRunning, RunningCount, AloneInv, GrpTypeOK
    <2>. QED
      BY <1>7, <2>1, LimitAlone DEF LimitToRunning, schedVars, listVars
  <1>8. ASSUME NEW n \in 1..MaxReqs, RefreshReqLimit(g, n) PROVE AloneInv'
    BY <1>8, LimitAlone DEF RefreshReqLimit, listVars
  <1>. QED
    BY <1>4, <1>5, <1>6, <1>7, <1>8, CreateAlone, RemoveAlone, CreateFailsAlone, CancelAlone,
       SubmitAlone, CompleteAlone, RequeueAlone, GroupStepAlone DEF LifeStep, RequestStep

\* HasScheduler() is decided when the router starts.
LEMMA SchedulerFixed == Next => UNCHANGED scheduled
  <1>1. GetNextTaskGrpAAR \/ GetNextTaskGrpOCC \/ Exchange => UNCHANGED scheduled
    <2>1. GetNextTaskGrpAAR => UNCHANGED scheduled
      BY Zenon DEF GetNextTaskGrpAAR
    <2>2. GetNextTaskGrpOCC => UNCHANGED scheduled
      BY Zenon DEF GetNextTaskGrpOCC
    <2>3. Exchange => UNCHANGED scheduled
      BY Zenon DEF Exchange
    <2>. QED
      BY <2>1, <2>2, <2>3
  <1>2. ASSUME NEW c \in Conns, NEW n, CloseConn(c) \/ SetSlotCount(c, n)
        PROVE  UNCHANGED scheduled
    BY <1>2 DEF CloseConn, SetSlotCount
  <1>3. ASSUME NEW g \in Groups, CreateGrpRfc(g) \/ RemoveGrpRfcs(g) \/ LifeStep(g)
        PROVE  UNCHANGED scheduled
    <2>1. CreateGrpRfc(g) \/ CreateFails(g) \/ Cancel(g) => UNCHANGED scheduled
      BY DEF CreateGrpRfc, CreateFails, Cancel
    <2>2. RemoveGrpRfcs(g) => UNCHANGED scheduled
      BY DEF RemoveGrpRfcs
    <2>3. AddTaskGrp(g) => UNCHANGED scheduled
      BY Zenon DEF AddTaskGrp
    <2>4. AddConn(g) => UNCHANGED scheduled
      BY DEF AddConn
    <2>. QED
      BY <1>3, <2>1, <2>2, <2>3, <2>4 DEF LifeStep
  <1>4. ASSUME NEW g \in Groups, Submit(g) \/ AddAndRun(g) \/ RequestStep(g)
        PROVE  UNCHANGED scheduled
    BY <1>4 DEF Submit, AddAndRun, RequestStep, OnChildComplete, DeferredRemove, KillTask,
       RequeueInvTask, schedVars
  <1>5. ASSUME NEW g \in Groups, NEW n,
               GroupStep(g) \/ LimitToRunning(g) \/ RefreshReqLimit(g, n)
        PROVE  UNCHANGED scheduled
    BY <1>5 DEF GroupStep, LimitToRunning, RefreshReqLimit, schedVars
  <1>. QED
    BY <1>1, <1>2, <1>3, <1>4, <1>5 DEF Next

\* Without a scheduler nothing but the calls it makes for its own requests drives
\* a group of a bridge or a proxy.  None of them is lost: AddAndRun, OnChildComplete,
\* RequeueInvTask and SetLimit call the group whenever they leave it a request and a
\* free slot, unless a thread is in RunTaskInternal, which looks at the queue again
\* before it clears m_bNoSched.  This holds for any number of groups, requests and
\* calls under way, and any limits.
THEOREM NoRequestForgotten == Spec => []NoLostWakeup
  <1>. DEFINE Inv == ~scheduled => AloneInv
  <1>1. Init => Inv
    BY GroupsAssumption DEF Init, GrpInit, AloneInv, GrpTypeOK, Unmanaged, Unfilled, Called, CanTake
  <1>2. Inv /\ [Next]_vars => Inv'
    <2>1. Inv /\ Next => Inv'
      BY AloneStep, SchedulerFixed
    <2>2. Inv /\ UNCHANGED vars => Inv'
      BY DEF vars, grpVars, schedVars, listVars, AloneInv, GrpTypeOK, Unmanaged, Unfilled, Called,
         CanTake, RunningCount
    <2>. QED
      BY <2>1, <2>2
  <1>3. Inv => NoLostWakeup
    BY DEF AloneInv, Called, NoLostWakeup
  <1>. QED
    BY <1>1, <1>2, <1>3, PTL DEF Spec

-----------------------------------------------------------------------------
(* Numbers and lists.                                                      *)

\* A set of numbers that is not empty has a least one.
LEMMA LeastNat ==
    ASSUME NEW T, T \subseteq Nat, T # {}
    PROVE  \E m \in T : \A k \in T : m <= k
  <1>. DEFINE R == {ss \in Nat \X Nat : ss[1] < ss[2]}
  <1>1. IsWellFoundedOn(R, Nat)
    BY NatLessThanWellFounded DEF OpToRel
  <1>. HIDE DEF R
  <1>2. PICK x \in T : \A y \in T : ~(<<y, x>> \in R)
    BY <1>1, WFMin
  <1>3. \A y \in T : ~(y < x)
    BY <1>2 DEF R
  <1>. QED
    BY <1>3

\* Induction over the natural numbers, for the members of a set.
LEMMA NatStep ==
    ASSUME NEW T, 0 \in T, \A n \in Nat : n \in T => n + 1 \in T
    PROVE  Nat \subseteq T
  <1>. DEFINE D == Nat \ T
  <1>. SUFFICES ASSUME D # {} PROVE FALSE
    OBVIOUS
  <1>1. PICK m \in D : \A k \in D : m <= k
    BY LeastNat
  <1>2. m # 0 /\ m - 1 \in Nat /\ m - 1 \notin D
    BY <1>1
  <1>. QED
    BY <1>1, <1>2

\* FirstIn finds an element of S if there is one.
LEMMA FirstInSpec ==
    ASSUME NEW A, NEW s \in Seq(A), NEW S
    PROVE  /\ FirstIn(s, S) \in 0..Len(s)
           /\ FirstIn(s, S) # 0 => FirstIn(s, S) \in DOMAIN s /\ s[FirstIn(s, S)] \in S
           /\ FirstIn(s, S) = 0 <=> ToSet(s) \cap S = {}
  <1>. DEFINE I == {i \in DOMAIN s : s[i] \in S}
  <1>1. CASE ToSet(s) \cap S = {}
    BY <1>1 DEF FirstIn
  <1>2. CASE ToSet(s) \cap S # {}
    <2>1. I \subseteq Nat /\ I # {}
      BY <1>2 DEF ToSet
    <2>2. PICK m \in I : \A k \in I : m <= k
      BY <2>1, LeastNat
    <2>3. Min(I) \in I
      BY <2>2 DEF Min
    <2>4. FirstIn(s, S) = Min(I)
      BY <1>2 DEF FirstIn
    <2>. QED
      BY <1>2, <2>3, <2>4
  <1>. QED
    BY <1>1, <1>2

\* The list s without g.
LEMMA RemoveFirstSpec ==
    ASSUME NEW A, NEW s \in Seq(A), NEW g, g \in ToSet(s)
    PROVE  \E i \in DOMAIN s : s[i] = g /\ RemoveFirst(s, g) = RemoveAt(s, i)
  <1>. DEFINE I == {i \in 1..Len(s) : s[i] = g}
  <1>1. I \subseteq Nat /\ I # {}
    BY DEF ToSet
  <1>2. PICK m \in I : \A k \in I : m <= k
    BY <1>1, LeastNat
  <1>3. Min(I) \in I
    BY <1>2 DEF Min
  <1>4. RemoveFirst(s, g) = RemoveAt(s, Min(I))
    BY <1>1 DEF RemoveFirst, SelectInSeq
  <1>5. PICK i : i = Min(I)
    OBVIOUS
  <1>6. i \in DOMAIN s /\ s[i] = g
    BY <1>3, <1>5
  <1>7. RemoveFirst(s, g) = RemoveAt(s, i)
    BY <1>4, <1>5
  <1>. QED
    BY <1>6, <1>7

Rising(f) == \A i, j \in DOMAIN f : i < j => f[i] < f[j]
Onto(f, I) == \A x \in I : \E i \in DOMAIN f : f[i] = x

\* The members of a finite set of numbers can be put in order.
LEMMA InOrder ==
    ASSUME NEW n \in Nat, NEW I \in SUBSET (1..n)
    PROVE  \E k \in Nat : \E f \in [1..k -> I] : Rising(f) /\ Onto(f, I)
  <1>. DEFINE Ordered(J) == \E k \in Nat : \E f \in [1..k -> J] : Rising(f) /\ Onto(f, J)
              T == {m \in Nat : \A J \in SUBSET (1..m) : Ordered(J)}
  <1>1. 0 \in T
    <2>. SUFFICES ASSUME NEW J \in SUBSET (1..0) PROVE Ordered(J)
      OBVIOUS
    <2>1. J = {}
      OBVIOUS
    <2>2. PICK f : f = [i \in 1..0 |-> i]
      OBVIOUS
    <2>3. f \in [1..0 -> J] /\ DOMAIN f = {}
      BY <2>2
    <2>4. Rising(f) /\ Onto(f, J)
      BY <2>1, <2>3 DEF Rising, Onto
    <2>. QED
      BY <2>3, <2>4
  <1>2. ASSUME NEW m \in Nat, m \in T PROVE m + 1 \in T
    <2>. SUFFICES ASSUME NEW J \in SUBSET (1..(m + 1)) PROVE Ordered(J)
      OBVIOUS
    <2>1. CASE m + 1 \notin J
      <3>1. J \in SUBSET (1..m)
        BY <2>1
      <3>. QED
        BY <3>1, <1>2
    <2>2. CASE m + 1 \in J
      <3>1. J \ {m + 1} \in SUBSET (1..m)
        OBVIOUS
      <3>2. PICK k \in Nat : \E f \in [1..k -> J \ {m + 1}] : Rising(f) /\ Onto(f, J \ {m + 1})
        BY <3>1, <1>2
      <3>3. PICK f \in [1..k -> J \ {m + 1}] : Rising(f) /\ Onto(f, J \ {m + 1})
        BY <3>2
      <3>4. PICK h : h = [i \in 1..(k + 1) |-> IF i <= k THEN f[i] ELSE m + 1]
        OBVIOUS
      <3>5. h \in [1..(k + 1) -> J]
        BY <3>4, <2>2
      <3>6. \A i \in 1..k : f[i] \in 1..m /\ h[i] = f[i]
        <4>. TAKE i \in 1..k
        <4>1. f[i] \in J \ {m + 1}
          BY <3>3
        <4>2. i \in 1..(k + 1) /\ i <= k
          OBVIOUS
        <4>. QED
          BY <4>1, <4>2, <3>1, <3>4
      <3>7. h[k + 1] = m + 1
        BY <3>4
      <3>8. Rising(h)
        <4>1. DOMAIN f = 1..k /\ DOMAIN h = 1..(k + 1)
          BY <3>3, <3>4
        <4>. SUFFICES ASSUME NEW i \in 1..(k + 1), NEW j \in 1..(k + 1), i < j
                      PROVE  h[i] < h[j]
          BY <4>1 DEF Rising
        <4>2. CASE j = k + 1
          BY <4>2, <3>6, <3>7
        <4>3. CASE j # k + 1
          <5>1. i \in 1..k /\ j \in 1..k
            BY <4>3
          <5>. QED
            BY <5>1, <4>1, <3>3, <3>6 DEF Rising
        <4>. QED
          BY <4>2, <4>3
      <3>9. Onto(h, J)
        <4>. SUFFICES ASSUME NEW x \in J PROVE \E i \in 1..(k + 1) : h[i] = x
          BY <3>5 DEF Onto
        <4>1. CASE x = m + 1
          BY <4>1, <3>7
        <4>2. CASE x # m + 1
          BY <4>2, <3>3, <3>6 DEF Onto
        <4>. QED
          BY <4>1, <4>2
      <3>. QED
        BY <3>5, <3>8, <3>9
    <2>. QED
      BY <2>1, <2>2
  <1>. HIDE DEF T, Ordered
  <1>3. n \in T
    BY <1>1, <1>2, NatStep
  <1>. QED
    BY <1>3 DEF T, Ordered

\* t has the elements of s at the places in I, in their order.
Picks(s, I, t) ==
    \E k \in Nat : \E f \in [1..k -> I] :
        Rising(f) /\ Onto(f, I) /\ t = [i \in 1..k |-> s[f[i]]]

\* Sublist keeps the elements in S, in their order.
LEMMA SublistSpec ==
    ASSUME NEW A, NEW s \in Seq(A), NEW S
    PROVE  Picks(s, {i \in DOMAIN s : s[i] \in S}, Sublist(s, S))
  <1>. DEFINE I == {i \in DOMAIN s : s[i] \in S}
  <1>0. Len(s) \in Nat /\ I \in SUBSET (1..Len(s))
    OBVIOUS
  <1>1. PICK k \in Nat : \E f \in [1..k -> I] : Rising(f) /\ Onto(f, I)
    BY <1>0, InOrder
  <1>. HIDE DEF I
  <1>2. PICK h \in [1..k -> I] : Rising(h) /\ Onto(h, I)
    BY <1>1
  <1>3. \A x \in I : x \in Nat
    BY <1>0
  <1>4. ASSUME NEW f \in [1..k -> I], Rising(f) PROVE f \in Injection(1..k, I)
    BY <1>3, <1>4 DEF Rising, Injection, IsInjective
  <1>5. h \in Surjection(1..k, I)
    BY <1>2 DEF Onto, Surjection
  <1>6. Cardinality(I) = k /\ IsFiniteSet(I)
    <2>1. ExistsBijection(1..k, I)
      BY <1>2, <1>4, <1>5 DEF ExistsBijection, Bijection
    <2>. QED
      BY <2>1, FS_CountingElements, FS_NatBijection
  <1>7. PICK f : f = CHOOSE e \in [1..Cardinality(I) -> I] :
                       \A i, j \in DOMAIN e : i < j => e[i] < e[j]
    OBVIOUS
  <1>8. f \in [1..k -> I] /\ Rising(f)
    BY <1>2, <1>6, <1>7 DEF Rising
  <1>9. f \in Surjection(1..k, I)
    <2>1. f \in Injection(1..k, I)
      BY <1>4, <1>8
    <2>2. IsFiniteSet(1..k) /\ Cardinality(1..k) = k
      BY FS_Interval
    <2>. QED
      BY <2>1, <2>2, <1>6, FS_Injection
  <1>10. Onto(f, I)
    BY <1>8, <1>9 DEF Surjection, Onto
  <1>11. Sublist(s, S) = [i \in 1..k |-> s[f[i]]]
    BY <1>7, <1>8 DEF Sublist, I
  <1>. QED
    BY <1>8, <1>10, <1>11 DEF Picks, I

\* No element occurs twice.
Once(s) == \A i, j \in DOMAIN s : s[i] = s[j] => i = j

\* u is s and then t.
Joined(A, s, t, u) ==
    /\ u \in Seq(A) /\ Len(u) = Len(s) + Len(t)
    /\ ToSet(u) = ToSet(s) \cup ToSet(t)
    /\ Once(s) /\ Once(t) /\ ToSet(s) \cap ToSet(t) = {} => Once(u)

\* Two lists one after the other.
LEMMA ConcatList ==
    ASSUME NEW A, NEW s \in Seq(A), NEW t \in Seq(A)
    PROVE  Joined(A, s, t, s \o t)
  <1>1. PICK m \in Nat : m = Len(s)
    OBVIOUS
  <1>2. PICK n \in Nat : n = Len(t)
    OBVIOUS
  <1>3. PICK u : u = s \o t
    OBVIOUS
  <1>4. /\ u \in Seq(A) /\ Len(u) = m + n /\ DOMAIN u = 1..(m + n)
        /\ DOMAIN s = 1..m /\ DOMAIN t = 1..n
        /\ \A i \in 1..m : u[i] = s[i]
        /\ \A i \in 1..n : u[m + i] = t[i]
    BY <1>1, <1>2, <1>3
  <1>5. \A i \in 1..(m + n) : i \in 1..m \/ (i - m \in 1..n /\ i = m + (i - m))
    OBVIOUS
  <1>6. \A i \in 1..(m + n) : \/ i \in 1..m /\ u[i] = s[i]
                              \/ i - m \in 1..n /\ u[i] = t[i - m]
    BY <1>4, <1>5
  <1>7. ToSet(u) = ToSet(s) \cup ToSet(t)
    <2>1. \A i \in 1..n : m + i \in 1..(m + n)
      OBVIOUS
    <2>2. \A i \in 1..m : i \in 1..(m + n)
      OBVIOUS
    <2>3. \A x \in ToSet(u) : x \in ToSet(s) \cup ToSet(t)
      BY <1>4, <1>6 DEF ToSet
    <2>4. \A x \in ToSet(s) : x \in ToSet(u)
      BY <1>4, <2>2 DEF ToSet
    <2>5. \A x \in ToSet(t) : x \in ToSet(u)
      BY <1>4, <2>1 DEF ToSet
    <2>. QED
      BY <2>3, <2>4, <2>5
  <1>8. ASSUME Once(s), Once(t), ToSet(s) \cap ToSet(t) = {} PROVE Once(u)
    <2>. SUFFICES ASSUME NEW i \in 1..(m + n), NEW j \in 1..(m + n), u[i] = u[j]
                  PROVE  i = j
      BY <1>4 DEF Once
    <2>1. CASE i \in 1..m /\ j \in 1..m
      BY <2>1, <1>4, <1>8 DEF Once
    <2>2. CASE i - m \in 1..n /\ j - m \in 1..n
      <3>1. t[i - m] = t[j - m]
        BY <2>2, <1>4, <1>5
      <3>2. i - m = j - m
        BY <3>1, <2>2, <1>4, <1>8 DEF Once
      <3>. QED
        BY <3>2
    <2>3. CASE i \in 1..m /\ j - m \in 1..n
      <3>1. u[i] = s[i] /\ u[j] = t[j - m]
        BY <2>3, <1>4, <1>5
      <3>2. u[i] \in ToSet(s) /\ u[j] \in ToSet(t)
        BY <3>1, <2>3, <1>4 DEF ToSet
      <3>. QED
        BY <3>2, <1>8
    <2>4. CASE i - m \in 1..n /\ j \in 1..m
      <3>1. u[j] = s[j] /\ u[i] = t[i - m]
        BY <2>4, <1>4, <1>5
      <3>2. u[j] \in ToSet(s) /\ u[i] \in ToSet(t)
        BY <3>1, <2>4, <1>4 DEF ToSet
      <3>. QED
        BY <3>2, <1>8
    <2>. QED
      BY <1>5, <2>1, <2>2, <2>3, <2>4
  <1>. QED
    BY <1>1, <1>2, <1>3, <1>4, <1>7, <1>8 DEF Joined

\* a and b are the first k and the other elements of s.
Parts(A, s, k, a, b) ==
    /\ a \in Seq(A) /\ Len(a) = k /\ \A i \in 1..k : a[i] = s[i]
    /\ b \in Seq(A) /\ Len(b) = Len(s) - k
    /\ \A i \in 1..(Len(s) - k) : b[i] = s[k + i]
    /\ ToSet(a) \cup ToSet(b) = ToSet(s)
    /\ Once(s) => Once(a) /\ Once(b) /\ ToSet(a) \cap ToSet(b) = {}

\* A list is cut in two.
LEMMA CutList ==
    ASSUME NEW A, NEW s \in Seq(A), NEW k \in 0..Len(s)
    PROVE  Parts(A, s, k, SubSeq(s, 1, k), SubSeq(s, k + 1, Len(s)))
  <1>1. PICK n \in Nat : n = Len(s)
    OBVIOUS
  <1>0. k \in 0..n
    BY <1>1
  <1>2. PICK a : a = SubSeq(s, 1, k)
    OBVIOUS
  <1>3. PICK b : b = SubSeq(s, k + 1, Len(s))
    OBVIOUS
  <1>4. /\ a \in Seq(A) /\ Len(a) = k /\ DOMAIN a = 1..k /\ \A i \in 1..k : a[i] = s[i]
    BY <1>1, <1>2
  <1>5. /\ b \in Seq(A) /\ Len(b) = n - k /\ DOMAIN b = 1..(n - k)
        /\ \A i \in 1..(n - k) : b[i] = s[k + i]
    BY <1>1, <1>3
  <1>6. DOMAIN s = 1..n
    BY <1>1
  <1>7. \A i \in 1..n : i \in 1..k \/ (i - k \in 1..(n - k) /\ i = k + (i - k))
    BY <1>0
  <1>8. (\A i \in 1..k : i \in 1..n) /\ \A i \in 1..(n - k) : k + i \in 1..n
    BY <1>0
  <1>9. ToSet(a) \cup ToSet(b) = ToSet(s)
    <2>1. \A x \in ToSet(a) : x \in ToSet(s)
      BY <1>4, <1>6, <1>8 DEF ToSet
    <2>2. \A x \in ToSet(b) : x \in ToSet(s)
      BY <1>5, <1>6, <1>8 DEF ToSet
    <2>3. ASSUME NEW i \in 1..n PROVE s[i] \in ToSet(a) \cup ToSet(b)
      <3>1. CASE i \in 1..k
        BY <3>1, <1>4 DEF ToSet
      <3>2. CASE i - k \in 1..(n - k) /\ i = k + (i - k)
        BY <3>2, <1>5 DEF ToSet
      <3>. QED
        BY <3>1, <3>2, <1>7
    <2>4. \A x \in ToSet(s) : x \in ToSet(a) \cup ToSet(b)
      BY <2>3, <1>6 DEF ToSet
    <2>. QED
      BY <2>1, <2>2, <2>4
  <1>10. ASSUME Once(s) PROVE Once(a) /\ Once(b) /\ ToSet(a) \cap ToSet(b) = {}
    <2>1. Once(a)
      BY <1>10, <1>4, <1>6, <1>8 DEF Once
    <2>2. ASSUME NEW i \in 1..(n - k), NEW j \in 1..(n - k), b[i] = b[j] PROVE i = j
      <3>1. k + i \in 1..n /\ k + j \in 1..n /\ s[k + i] = s[k + j]
        BY <2>2, <1>5, <1>8
      <3>2. k + i = k + j
        BY <3>1, <1>10, <1>6 DEF Once
      <3>. QED
        BY <3>2
    <2>3. Once(b)
      BY <2>2, <1>5 DEF Once
    <2>4. ASSUME NEW i \in 1..k, NEW j \in 1..(n - k), a[i] = b[j] PROVE FALSE
      <3>1. i = k + j
        BY <2>4, <1>10, <1>4, <1>5, <1>6, <1>8 DEF Once
      <3>. QED
        BY <3>1
    <2>5. ToSet(a) \cap ToSet(b) = {}
      <3>1. ASSUME NEW x \in ToSet(a), x \in ToSet(b) PROVE FALSE
        <4>1. PICK i \in 1..k : x = a[i]
          BY <1>4 DEF ToSet
        <4>2. PICK j \in 1..(n - k) : x = b[j]
          BY <3>1, <1>5 DEF ToSet
        <4>. QED
          BY <4>1, <4>2, <2>4
      <3>. QED
        BY <3>1
    <2>. QED
      BY <2>1, <2>3, <2>5
  <1>. QED
    BY <1>1, <1>2, <1>3, <1>4, <1>5, <1>9, <1>10 DEF Parts

\* A list of one element.
LEMMA OneList ==
    ASSUME NEW A, NEW g \in A
    PROVE  /\ <<g>> \in Seq(A) /\ Len(<<g>>) = 1 /\ ToSet(<<g>>) = {g} /\ Once(<<g>>)
  BY DEF ToSet, Once

\* An element is put at the end.
LEMMA AppendList ==
    ASSUME NEW A, NEW s \in Seq(A), NEW g \in A
    PROVE  /\ Append(s, g) \in Seq(A) /\ Len(Append(s, g)) = Len(s) + 1
           /\ ToSet(Append(s, g)) = ToSet(s) \cup {g}
           /\ Once(s) /\ g \notin ToSet(s) => Once(Append(s, g))
  <1>1. PICK n \in Nat : n = Len(s)
    OBVIOUS
  <1>2. PICK u : u = Append(s, g)
    OBVIOUS
  <1>3. /\ u \in Seq(A) /\ Len(u) = n + 1 /\ DOMAIN u = 1..(n + 1) /\ DOMAIN s = 1..n
        /\ u[n + 1] = g /\ \A i \in 1..n : u[i] = s[i]
    BY <1>1, <1>2
  <1>4. \A i \in 1..(n + 1) : i \in 1..n \/ i = n + 1
    OBVIOUS
  <1>5. n + 1 \in 1..(n + 1) /\ \A i \in 1..n : i \in 1..(n + 1)
    OBVIOUS
  <1>6. ToSet(u) = ToSet(s) \cup {g}
    <2>1. \A x \in ToSet(u) : x \in ToSet(s) \cup {g}
      BY <1>3, <1>4 DEF ToSet
    <2>2. \A x \in ToSet(s) : x \in ToSet(u)
      BY <1>3, <1>5 DEF ToSet
    <2>3. g \in ToSet(u)
      BY <1>3, <1>5 DEF ToSet
    <2>. QED
      BY <2>1, <2>2, <2>3
  <1>7. ASSUME Once(s), g \notin ToSet(s) PROVE Once(u)
    <2>1. \A i \in 1..n : u[i] # g
      BY <1>3, <1>7 DEF ToSet
    <2>. QED
      BY <2>1, <1>3, <1>4, <1>7 DEF Once
  <1>. QED
    BY <1>1, <1>2, <1>3, <1>6, <1>7

\* A list is turned.
LEMMA TurnList ==
    ASSUME NEW A, NEW s \in Seq(A), NEW k \in 0..Len(s)
    PROVE  /\ Turn(s, k) \in Seq(A) /\ Len(Turn(s, k)) = Len(s)
           /\ ToSet(Turn(s, k)) = ToSet(s)
           /\ Once(s) => Once(Turn(s, k))
           /\ k > 0 => Turn(s, k)[Len(s)] = s[k]
           /\ k < Len(s) => Turn(s, k)[1] = s[k + 1]
  <1>1. PICK n \in Nat : n = Len(s)
    OBVIOUS
  <1>2. PICK a : a = SubSeq(s, 1, k)
    OBVIOUS
  <1>3. PICK b : b = SubSeq(s, k + 1, Len(s))
    OBVIOUS
  <1>4. /\ a \in Seq(A) /\ Len(a) = k /\ \A i \in 1..k : a[i] = s[i]
        /\ b \in Seq(A) /\ Len(b) = n - k /\ \A i \in 1..(n - k) : b[i] = s[k + i]
        /\ ToSet(a) \cup ToSet(b) = ToSet(s)
        /\ Once(s) => Once(a) /\ Once(b) /\ ToSet(a) \cap ToSet(b) = {}
    <2>1. Parts(A, s, k, a, b)
      BY <1>2, <1>3, CutList
    <2>. QED
      BY <2>1, <1>1 DEF Parts
  <1>5. Turn(s, k) = b \o a
    BY <1>2, <1>3 DEF Turn
  <1>6. /\ b \o a \in Seq(A) /\ Len(b \o a) = (n - k) + k
        /\ ToSet(b \o a) = ToSet(b) \cup ToSet(a)
        /\ Once(b) /\ Once(a) /\ ToSet(b) \cap ToSet(a) = {} => Once(b \o a)
    BY <1>4, ConcatList DEF Joined
  <1>7. k > 0 => (b \o a)[n] = s[k]
    BY <1>1, <1>4
  <1>8. k < n => (b \o a)[1] = s[k + 1]
    BY <1>1, <1>4
  <1>9. PICK t : t = Turn(s, k)
    OBVIOUS
  <1>10. (n - k) + k = n
    BY <1>1
  <1>11. /\ t \in Seq(A) /\ Len(t) = n /\ ToSet(t) = ToSet(s) /\ (Once(s) => Once(t))
         /\ (k > 0 => t[n] = s[k]) /\ (k < n => t[1] = s[k + 1])
    BY <1>4, <1>5, <1>6, <1>7, <1>8, <1>9, <1>10
  <1>. QED
    BY <1>1, <1>9, <1>11

\* One element is taken out.
LEMMA RemoveAtList ==
    ASSUME NEW A, NEW s \in Seq(A), NEW i \in DOMAIN s, Once(s)
    PROVE  /\ RemoveAt(s, i) \in Seq(A) /\ Len(RemoveAt(s, i)) = Len(s) - 1
           /\ ToSet(RemoveAt(s, i)) = ToSet(s) \ {s[i]} /\ Once(RemoveAt(s, i))
  <1>1. PICK n \in Nat : n = Len(s)
    OBVIOUS
  <1>2. i \in 1..n /\ i \in 0..n /\ i - 1 \in 0..n /\ i - 1 + 1 = i
    BY <1>1
  <1>3. PICK a : a = SubSeq(s, 1, i - 1)
    OBVIOUS
  <1>4. PICK b : b = SubSeq(s, i - 1 + 1, Len(s))
    OBVIOUS
  <1>5. /\ a \in Seq(A) /\ Len(a) = i - 1
        /\ ToSet(a) \cup ToSet(b) = ToSet(s)
        /\ Once(a) /\ ToSet(a) \cap ToSet(b) = {} /\ b \in Seq(A) /\ Len(b) = n - (i - 1)
        /\ (\A j \in 1..(n - (i - 1)) : b[j] = s[i - 1 + j])
        /\ \A j \in 1..(i - 1) : a[j] = s[j]
    <2>1. PICK k \in 0..Len(s) : k = i - 1
      BY <1>1, <1>2
    <2>2. a = SubSeq(s, 1, k) /\ b = SubSeq(s, k + 1, Len(s))
      BY <2>1, <1>3, <1>4
    <2>3. Parts(A, s, k, a, b)
      BY <2>2, CutList
    <2>. QED
      BY <2>1, <2>3, <1>1 DEF Parts
  <1>6. PICK c : c = SubSeq(s, 1, i)
    OBVIOUS
  <1>7. PICK d : d = SubSeq(s, i + 1, Len(s))
    OBVIOUS
  <1>8. /\ c \in Seq(A) /\ Len(c) = i /\ \A j \in 1..i : c[j] = s[j]
        /\ d \in Seq(A) /\ Len(d) = n - i /\ \A j \in 1..(n - i) : d[j] = s[i + j]
        /\ ToSet(c) \cup ToSet(d) = ToSet(s)
        /\ Once(c) /\ Once(d) /\ ToSet(c) \cap ToSet(d) = {}
    <2>1. i \in 0..Len(s)
      BY <1>1, <1>2
    <2>2. Parts(A, s, i, c, d)
      BY <2>1, <1>6, <1>7, CutList
    <2>. QED
      BY <2>2, <1>1 DEF Parts
  <1>9. ToSet(c) = ToSet(a) \cup {s[i]}
    <2>1. \A j \in 1..(i - 1) : a[j] = s[j]
      BY <1>5
    <2>2. DOMAIN a = 1..(i - 1) /\ DOMAIN c = 1..i
      BY <1>5, <1>8
    <2>3. \A j \in 1..i : j \in 1..(i - 1) \/ j = i
      BY <1>2
    <2>4. i \in 1..i /\ \A j \in 1..(i - 1) : j \in 1..i
      BY <1>2
    <2>5. \A x \in ToSet(c) : x \in ToSet(a) \cup {s[i]}
      BY <2>1, <2>2, <2>3, <1>8 DEF ToSet
    <2>6. \A x \in ToSet(a) : x \in ToSet(c)
      <3>. SUFFICES ASSUME NEW j \in 1..(i - 1) PROVE a[j] \in ToSet(c)
        BY <2>2 DEF ToSet
      <3>1. j \in 1..i /\ a[j] = c[j]
        BY <2>1, <2>4, <1>8
      <3>. QED
        BY <3>1, <2>2 DEF ToSet
    <2>7. s[i] \in ToSet(c)
      BY <2>2, <2>4, <1>8 DEF ToSet
    <2>. QED
      BY <2>5, <2>6, <2>7
  <1>10. s[i] \in ToSet(b)
    <2>1. 1 \in 1..(n - (i - 1)) /\ i - 1 + 1 = i
      BY <1>2
    <2>2. b[1] = s[i] /\ 1 \in DOMAIN b
      BY <2>1, <1>5
    <2>. QED
      BY <2>2 DEF ToSet
  <1>11. ToSet(a) \cap ToSet(d) = {} /\ ToSet(a) \cup ToSet(d) = ToSet(s) \ {s[i]}
    BY <1>5, <1>8, <1>9, <1>10
  <1>12. PICK u : u = a \o d
    OBVIOUS
  <1>13. /\ u \in Seq(A) /\ Len(u) = Len(a) + Len(d) /\ ToSet(u) = ToSet(s) \ {s[i]} /\ Once(u)
    <2>1. Joined(A, a, d, u)
      BY <1>5, <1>8, <1>12, ConcatList
    <2>. QED
      BY <2>1, <1>5, <1>8, <1>11 DEF Joined
  <1>14. Len(a) + Len(d) = n - 1
    BY <1>2, <1>5, <1>8
  <1>15. RemoveAt(s, i) = u
    BY <1>3, <1>7, <1>12 DEF RemoveAt
  <1>. QED
    BY <1>1, <1>13, <1>14, <1>15

\* The list without g.
LEMMA RemoveList ==
    ASSUME NEW A, NEW s \in Seq(A), NEW g, Once(s)
    PROVE  /\ RemoveFirst(s, g) \in Seq(A) /\ Once(RemoveFirst(s, g))
           /\ ToSet(RemoveFirst(s, g)) = ToSet(s) \ {g}
           /\ Len(RemoveFirst(s, g)) = IF g \in ToSet(s) THEN Len(s) - 1 ELSE Len(s)
  <1>1. CASE g \in ToSet(s)
    <2>1. PICK i \in DOMAIN s : s[i] = g /\ RemoveFirst(s, g) = RemoveAt(s, i)
      BY <1>1, RemoveFirstSpec
    <2>. QED
      BY <1>1, <2>1, RemoveAtList
  <1>2. CASE g \notin ToSet(s)
    <2>1. RemoveFirst(s, g) = s
      BY <1>2 DEF RemoveFirst, ToSet
    <2>. QED
      BY <1>2, <2>1
  <1>. QED
    BY <1>1, <1>2

\* Part of a list, in the same order.
LEMMA SublistList ==
    ASSUME NEW A, NEW s \in Seq(A), NEW S, Once(s)
    PROVE  /\ Sublist(s, S) \in Seq(A) /\ Once(Sublist(s, S))
           /\ ToSet(Sublist(s, S)) = ToSet(s) \cap S
  <1>0. PICK I : I = {i \in DOMAIN s : s[i] \in S}
    OBVIOUS
  <1>1. PICK k \in Nat : \E f \in [1..k -> I] :
                 /\ Rising(f) /\ Onto(f, I)
                 /\ Sublist(s, S) = [i \in 1..k |-> s[f[i]]]
    <2>1. Picks(s, I, Sublist(s, S))
      BY <1>0, SublistSpec
    <2>. QED
      BY <2>1 DEF Picks
  <1>2. PICK f \in [1..k -> I] : /\ Rising(f) /\ Onto(f, I)
                                /\ Sublist(s, S) = [i \in 1..k |-> s[f[i]]]
    BY <1>1
  <1>3. PICK t : t = Sublist(s, S)
    OBVIOUS
  <1>4. DOMAIN t = 1..k /\ \A i \in 1..k : t[i] = s[f[i]] /\ f[i] \in DOMAIN s /\ s[f[i]] \in S
    BY <1>0, <1>2, <1>3
  <1>5. t \in [1..k -> A]
    BY <1>2, <1>3, <1>4
  <1>6. t \in Seq(A)
    BY <1>5
  <1>7. \A i, j \in 1..k : i # j => f[i] # f[j]
    <2>1. \A i \in 1..k : f[i] \in Nat
      BY <1>4
    <2>2. DOMAIN f = 1..k
      BY <1>2
    <2>. QED
      BY <1>2, <2>1, <2>2 DEF Rising
  <1>8. Once(t)
    BY <1>4, <1>7 DEF Once
  <1>9. \A x \in ToSet(t) : x \in ToSet(s) /\ x \in S
    BY <1>4 DEF ToSet
  <1>10. ASSUME NEW i \in DOMAIN s, s[i] \in S PROVE s[i] \in ToSet(t)
    <2>1. i \in I
      BY <1>0, <1>10
    <2>2. PICK j \in 1..k : f[j] = i
      BY <1>2, <2>1 DEF Onto
    <2>3. t[j] = s[i]
      BY <1>4, <2>2
    <2>. QED
      BY <1>4, <2>3 DEF ToSet
  <1>11. \A x \in ToSet(s) : x \in S => x \in ToSet(t)
    BY <1>10 DEF ToSet
  <1>12. ToSet(t) = ToSet(s) \cap S
    BY <1>9, <1>11
  <1>. QED
    BY <1>3, <1>6, <1>8, <1>12

\* A list in which nothing occurs twice is as long as the set of its elements.
LEMMA ListCardinality ==
    ASSUME NEW A, NEW s \in Seq(A), Once(s)
    PROVE  IsFiniteSet(ToSet(s)) /\ Cardinality(ToSet(s)) = Len(s)
  <1>1. PICK n \in Nat : n = Len(s)
    OBVIOUS
  <1>2. PICK T : T = ToSet(s)
    OBVIOUS
  <1>3. s \in [1..n -> T]
    BY <1>1, <1>2 DEF ToSet
  <1>4. DOMAIN s = 1..n
    BY <1>1
  <1>5. s \in Injection(1..n, T)
    BY <1>3, <1>4 DEF Once, Injection, IsInjective
  <1>6. s \in Surjection(1..n, T)
    BY <1>2, <1>3, <1>4 DEF Surjection, ToSet
  <1>7. ExistsBijection(1..n, T)
    BY <1>5, <1>6 DEF ExistsBijection, Bijection
  <1>. QED
    BY <1>1, <1>2, <1>7, FS_CountingElements, FS_NatBijection

-----------------------------------------------------------------------------
(* Dealing out the slots of a connection.                                  *)

Limits == [Groups -> 0..MaxReqs]
QueueType == [rdy : Seq(Groups), wai : Seq(Groups), lim : Limits]
Members(q) == ToSet(q.rdy) \cup ToSet(q.wai)

\* A group is on one list and only once, and has no slot while it waits.
Queued(q) ==
    /\ q \in QueueType
    /\ Once(q.rdy) /\ Once(q.wai) /\ ToSet(q.rdy) \cap ToSet(q.wai) = {}
    /\ \A g \in ToSet(q.wai) : gstate[g] = "up" => q.lim[g] = 0

\* p has the groups of q, and the limits of all others are those of q.
Redealt(q, p) ==
    /\ Queued(p) /\ Members(p) = Members(q)
    /\ \A g \in Groups : g \notin Members(q) => p.lim[g] = q.lim[g]

\* SetLimit changes the limits of the groups of S that are up.
LEMMA SetLimitType ==
    ASSUME NEW l \in Limits, NEW S, NEW n \in Nat
    PROVE  /\ SetLimit(l, S, n) \in Limits
           /\ \A g \in Groups : SetLimit(l, S, n)[g] =
                 IF g \in S /\ gstate[g] = "up" THEN Least(n, MaxReqs) ELSE l[g]
  <1>1. Least(n, MaxReqs) \in 0..MaxReqs
    BY GroupsAssumption DEF Least
  <1>. QED
    BY <1>1 DEF SetLimit, Limits

\* The elements of a list of groups are groups.
LEMMA ListGroups ==
    ASSUME NEW s \in Seq(Groups), NEW g \in ToSet(s)
    PROVE  g \in Groups
  BY DEF ToSet

\* The parts of what the scheduler knows of a connection.
LEMMA QueueParts ==
    ASSUME NEW q \in QueueType
    PROVE  /\ q.rdy \in Seq(Groups) /\ q.wai \in Seq(Groups) /\ q.lim \in Limits
           /\ Len(q.rdy) \in Nat /\ Len(q.wai) \in Nat /\ TaskGrpCount(q) \in Nat
           /\ TaskGrpCount(q) = Len(q.rdy) + Len(q.wai)
  BY DEF QueueType, TaskGrpCount

\* There are as many groups as members.
LEMMA MembersCount ==
    ASSUME NEW q, Queued(q)
    PROVE  IsFiniteSet(Members(q)) /\ Cardinality(Members(q)) = TaskGrpCount(q)
  <1>1. q.rdy \in Seq(Groups) /\ q.wai \in Seq(Groups) /\ Once(q.rdy) /\ Once(q.wai)
    BY QueueParts DEF Queued
  <1>2. PICK R : R = ToSet(q.rdy)
    OBVIOUS
  <1>3. PICK W : W = ToSet(q.wai)
    OBVIOUS
  <1>4. IsFiniteSet(R) /\ Cardinality(R) = Len(q.rdy) /\ IsFiniteSet(W) /\ Cardinality(W) = Len(q.wai)
    BY <1>1, <1>2, <1>3, ListCardinality
  <1>5. R \cap W = {}
    BY <1>2, <1>3 DEF Queued
  <1>6. IsFiniteSet(R \cup W) /\ Cardinality(R \cup W) = Cardinality(R) + Cardinality(W)
                                                         - Cardinality(R \cap W)
    BY <1>4, FS_Union
  <1>7. Cardinality(R \cap W) = 0
    BY <1>5, FS_EmptySet
  <1>8. Len(q.rdy) \in Nat /\ Len(q.wai) \in Nat
    BY <1>1
  <1>9. Cardinality(R) + Cardinality(W) - Cardinality(R \cap W) = TaskGrpCount(q)
    BY <1>4, <1>7, <1>8 DEF TaskGrpCount
  <1>. QED
    BY <1>2, <1>3, <1>6, <1>9 DEF Members

\* A new limit for the ready groups; with a limit of zero they wait.
LEMMA SetLimitRunningDealt ==
    ASSUME NEW q, Queued(q), NEW n \in Nat
    PROVE  Redealt(q, SetLimitRunningGrps(q, n))
  <1>1. PICK p : p = SetLimitRunningGrps(q, n)
    OBVIOUS
  <1>2. /\ q.rdy \in Seq(Groups) /\ q.wai \in Seq(Groups) /\ q.lim \in Limits
        /\ Once(q.rdy) /\ Once(q.wai) /\ ToSet(q.rdy) \cap ToSet(q.wai) = {}
        /\ \A g \in ToSet(q.wai) : gstate[g] = "up" => q.lim[g] = 0
    BY QueueParts DEF Queued
  <1>3. PICK l : l = SetLimit(q.lim, ToSet(q.rdy), n)
    OBVIOUS
  <1>4. /\ l \in Limits
        /\ \A g \in Groups : l[g] =
             IF g \in ToSet(q.rdy) /\ gstate[g] = "up" THEN Least(n, MaxReqs) ELSE q.lim[g]
    BY <1>2, <1>3, SetLimitType
  <1>5. CASE n = 0
    <2>1. PICK w : w = q.rdy \o q.wai
      OBVIOUS
    <2>2. Joined(Groups, q.rdy, q.wai, w)
      BY <1>2, <2>1, ConcatList
    <2>3. p.rdy = <<>> /\ p.wai = w /\ p.lim = l /\ p = [rdy |-> <<>>, wai |-> w, lim |-> l]
      BY <1>1, <1>3, <1>5, <2>1 DEF SetLimitRunningGrps
    <2>4. p \in QueueType
      BY <2>2, <2>3, <1>4 DEF QueueType, Joined
    <2>5. ToSet(p.rdy) = {} /\ Once(p.rdy)
      BY <2>3 DEF ToSet, Once
    <2>6. ToSet(p.wai) = ToSet(q.rdy) \cup ToSet(q.wai) /\ Once(p.wai)
      BY <2>2, <2>3, <1>2 DEF Joined
    <2>7. Least(n, MaxReqs) = 0
      BY <1>5, GroupsAssumption DEF Least
    <2>8. \A g \in ToSet(p.wai) : gstate[g] = "up" => p.lim[g] = 0
      BY <1>2, <1>4, <2>3, <2>6, <2>7, ListGroups
    <2>9. Queued(p)
      BY <2>4, <2>5, <2>6, <2>8 DEF Queued
    <2>. QED
      BY <1>1, <1>4, <2>3, <2>5, <2>6, <2>9 DEF Redealt, Members
  <1>6. CASE n # 0
    <2>1. p.rdy = q.rdy /\ p.wai = q.wai /\ p.lim = l /\ p = [rdy |-> q.rdy, wai |-> q.wai, lim |-> l]
      BY <1>1, <1>3, <1>6 DEF SetLimitRunningGrps
    <2>2. p \in QueueType
      BY <2>1, <1>2, <1>4 DEF QueueType
    <2>3. \A g \in ToSet(p.wai) : gstate[g] = "up" => p.lim[g] = 0
      BY <1>2, <1>4, <2>1, ListGroups
    <2>4. Queued(p)
      BY <1>2, <2>1, <2>2, <2>3 DEF Queued
    <2>. QED
      BY <1>1, <1>4, <2>1, <2>4 DEF Redealt, Members
  <1>. QED
    BY <1>5, <1>6

\* A new limit for all groups of the connection.
LEMMA SetLimitDealt ==
    ASSUME NEW q, Queued(q), NEW n \in Nat
    PROVE  /\ Redealt(q, SetLimitGrps(q, n))
           /\ n # 0 => /\ SetLimitGrps(q, n).rdy = q.rdy \o q.wai /\ SetLimitGrps(q, n).wai = <<>>
                       /\ \A g \in Members(q) : gstate[g] = "up" =>
                            SetLimitGrps(q, n).lim[g] = Least(n, MaxReqs)
  <1>1. CASE n = 0
    <2>1. SetLimitGrps(q, n) = SetLimitRunningGrps(q, n)
      BY <1>1 DEF SetLimitGrps
    <2>. QED
      BY <1>1, <2>1, SetLimitRunningDealt
  <1>2. CASE n # 0
    <2>1. PICK p : p = SetLimitGrps(q, n)
      OBVIOUS
    <2>2. /\ q.rdy \in Seq(Groups) /\ q.wai \in Seq(Groups) /\ q.lim \in Limits
          /\ Once(q.rdy) /\ Once(q.wai) /\ ToSet(q.rdy) \cap ToSet(q.wai) = {}
      BY QueueParts DEF Queued
    <2>3. PICK r : r = q.rdy \o q.wai
      OBVIOUS
    <2>4. Joined(Groups, q.rdy, q.wai, r)
      BY <2>2, <2>3, ConcatList
    <2>5. PICK l : l = SetLimit(q.lim, ToSet(r), n)
      OBVIOUS
    <2>6. /\ l \in Limits
          /\ \A g \in Groups : l[g] =
               IF g \in ToSet(r) /\ gstate[g] = "up" THEN Least(n, MaxReqs) ELSE q.lim[g]
      BY <2>2, <2>5, SetLimitType
    <2>7. p.rdy = r /\ p.wai = <<>> /\ p.lim = l /\ p = [rdy |-> r, wai |-> <<>>, lim |-> l]
      BY <1>2, <2>1, <2>3, <2>5 DEF SetLimitGrps
    <2>8. p \in QueueType
      BY <2>4, <2>6, <2>7 DEF QueueType, Joined
    <2>9. ToSet(p.wai) = {} /\ Once(p.wai)
      BY <2>7 DEF ToSet, Once
    <2>10. ToSet(p.rdy) = Members(q) /\ Once(p.rdy)
      BY <2>2, <2>4, <2>7 DEF Joined, Members
    <2>11. Queued(p)
      BY <2>8, <2>9, <2>10 DEF Queued
    <2>12. Redealt(q, p)
      BY <2>6, <2>7, <2>9, <2>10, <2>11 DEF Redealt, Members
    <2>13. \A g \in Members(q) : gstate[g] = "up" => p.lim[g] = Least(n, MaxReqs)
      BY <2>2, <2>6, <2>7, <2>10, ListGroups DEF Members
    <2>. QED
      BY <2>1, <2>3, <2>7, <2>12, <2>13
  <1>. QED
    BY <1>1, <1>2

\* IncRunningGrps gives one more slot to the first n ready groups that are up.
LEMMA IncRunningDealt ==
    ASSUME NEW q, Queued(q), NEW n \in Nat
    PROVE  LET p == IncRunningGrps(q, n)
           IN  /\ Redealt(q, p) /\ p.rdy = q.rdy /\ p.wai = q.wai
               /\ \A i \in DOMAIN q.rdy : gstate[q.rdy[i]] = "up" =>
                    p.lim[q.rdy[i]] = IF i <= n THEN Least(q.lim[q.rdy[i]] + 1, MaxReqs)
                                      ELSE q.lim[q.rdy[i]]
  <1>1. PICK p : p = IncRunningGrps(q, n)
    OBVIOUS
  <1>2. /\ q.rdy \in Seq(Groups) /\ q.wai \in Seq(Groups) /\ q.lim \in Limits
        /\ Once(q.rdy) /\ Once(q.wai) /\ ToSet(q.rdy) \cap ToSet(q.wai) = {}
        /\ \A g \in ToSet(q.wai) : gstate[g] = "up" => q.lim[g] = 0
        /\ q \in QueueType
    BY QueueParts DEF Queued
  <1>3. PICK k \in Nat : k = Least(n, Len(q.rdy))
    BY <1>2 DEF Least
  <1>4. k \in 0..Len(q.rdy) /\ \A i \in 1..Len(q.rdy) : i <= k <=> i <= n
    BY <1>2, <1>3 DEF Least
  <1>5. PICK a : a = SubSeq(q.rdy, 1, k)
    OBVIOUS
  <1>6. PICK b : b = SubSeq(q.rdy, k + 1, Len(q.rdy))
    OBVIOUS
  <1>7. Parts(Groups, q.rdy, k, a, b)
    BY <1>2, <1>4, <1>5, <1>6, CutList
  <1>8. PICK l : l = [g \in Groups |->
            IF g \in ToSet(a) THEN SetLimit(q.lim, {g}, q.lim[g] + 1)[g] ELSE q.lim[g]]
    OBVIOUS
  <1>9. p = [q EXCEPT !.lim = l]
    BY <1>1, <1>3, <1>5, <1>8 DEF IncRunningGrps
  <1>10. p.rdy = q.rdy /\ p.wai = q.wai /\ p.lim = l
    BY <1>2, <1>9 DEF QueueType
  <1>11. \A g \in Groups : /\ q.lim[g] \in 0..MaxReqs /\ q.lim[g] + 1 \in Nat
                           /\ Least(q.lim[g] + 1, MaxReqs) \in 0..MaxReqs
    BY <1>2, GroupsAssumption DEF Limits, Least
  <1>12. \A g \in Groups : l[g] = IF g \in ToSet(a) /\ gstate[g] = "up"
                                  THEN Least(q.lim[g] + 1, MaxReqs) ELSE q.lim[g]
    BY <1>8, <1>11 DEF SetLimit
  <1>13. l \in Limits
    BY <1>8, <1>11, <1>12 DEF Limits
  <1>14. p \in QueueType
    BY <1>2, <1>9, <1>13 DEF QueueType
  <1>15. ToSet(a) \subseteq ToSet(q.rdy)
    BY <1>7 DEF Parts
  <1>16. \A g \in ToSet(p.wai) : gstate[g] = "up" => p.lim[g] = 0
    BY <1>2, <1>10, <1>12, <1>15, ListGroups
  <1>17. Queued(p)
    BY <1>2, <1>10, <1>14, <1>16 DEF Queued
  <1>18. Redealt(q, p)
    BY <1>10, <1>12, <1>15, <1>17 DEF Redealt, Members
  <1>19. ASSUME NEW i \in DOMAIN q.rdy, gstate[q.rdy[i]] = "up"
         PROVE  p.lim[q.rdy[i]] = IF i <= n THEN Least(q.lim[q.rdy[i]] + 1, MaxReqs)
                                  ELSE q.lim[q.rdy[i]]
    <2>1. i \in 1..Len(q.rdy) /\ q.rdy[i] \in Groups /\ Len(q.rdy) \in Nat
      BY <1>2
    <2>2. q.rdy[i] \in ToSet(a) <=> i <= k
      <3>1. DOMAIN a = 1..k /\ \A j \in 1..k : a[j] = q.rdy[j] /\ j \in DOMAIN q.rdy
        BY <1>2, <1>4, <1>7 DEF Parts
      <3>2. ASSUME i <= k PROVE q.rdy[i] \in ToSet(a)
        <4>1. i \in 1..k
          BY <2>1, <3>2
        <4>. QED
          BY <4>1, <3>1 DEF ToSet
      <3>3. ASSUME q.rdy[i] \in ToSet(a) PROVE i <= k
        <4>1. PICK j \in 1..k : q.rdy[i] = a[j]
          BY <3>1, <3>3 DEF ToSet
        <4>2. i = j
          BY <4>1, <3>1, <1>2 DEF Once
        <4>. QED
          BY <4>2
      <3>. QED
        BY <3>2, <3>3
    <2>. QED
      BY <1>4, <1>10, <1>12, <1>19, <2>1, <2>2
  <1>. QED
    BY <1>1, <1>10, <1>18, <1>19

\* IncWaitingGrp makes n of the waiting groups ready, or all of them.
Chosen(q, n, p, chosen) ==
    /\ chosen \in Seq(Groups) /\ Once(chosen) /\ ToSet(chosen) \subseteq ToSet(q.wai)
    /\ Len(chosen) = Least(n, Len(q.wai))
    /\ p.rdy = q.rdy \o chosen
    /\ ToSet(p.wai) = ToSet(q.wai) \ ToSet(chosen)
    /\ p.lim = SetLimit(q.lim, ToSet(chosen), 1)

\* Waiting groups that get a slot each become ready.
LEMMA IncWaitingDealt ==
    ASSUME NEW q, Queued(q), NEW n \in Nat
    PROVE  /\ Redealt(q, IncWaitingGrp(q, n))
           /\ \E chosen : Chosen(q, n, IncWaitingGrp(q, n), chosen)
  <1>1. PICK p : p = IncWaitingGrp(q, n)
    OBVIOUS
  <1>2. /\ q.rdy \in Seq(Groups) /\ q.wai \in Seq(Groups) /\ q.lim \in Limits
        /\ Once(q.rdy) /\ Once(q.wai) /\ ToSet(q.rdy) \cap ToSet(q.wai) = {}
        /\ \A g \in ToSet(q.wai) : gstate[g] = "up" => q.lim[g] = 0
        /\ Len(q.rdy) \in Nat /\ Len(q.wai) \in Nat
    BY QueueParts DEF Queued
  <1>3. PICK busy : busy = Sublist(q.wai, Busy)
    OBVIOUS
  <1>4. busy \in Seq(Groups) /\ Once(busy) /\ ToSet(busy) \subseteq ToSet(q.wai) /\ Len(busy) \in Nat
    BY <1>2, <1>3, SublistList
  <1>5. PICK j \in 0..Len(busy) : j = Least(n, Len(busy))
    BY <1>4 DEF Least
  <1>6. PICK first : first = SubSeq(busy, 1, j)
    OBVIOUS
  <1>7. /\ first \in Seq(Groups) /\ Once(first) /\ Len(first) = j
        /\ ToSet(first) \subseteq ToSet(busy)
    BY <1>4, <1>6, CutList DEF Parts
  <1>8. PICK rest : rest = Sublist(q.wai, Groups \ ToSet(first))
    OBVIOUS
  <1>9. /\ rest \in Seq(Groups) /\ Once(rest) /\ Len(rest) \in Nat
        /\ ToSet(rest) = ToSet(q.wai) \ ToSet(first)
    BY <1>2, <1>8, SublistList, ListGroups
  <1>10. Len(rest) = Len(q.wai) - j
    <2>1. PICK F : F = ToSet(first)
      OBVIOUS
    <2>2. PICK R : R = ToSet(rest)
      OBVIOUS
    <2>3. /\ IsFiniteSet(F) /\ Cardinality(F) = j /\ IsFiniteSet(R) /\ Cardinality(R) = Len(rest)
          /\ IsFiniteSet(ToSet(q.wai)) /\ Cardinality(ToSet(q.wai)) = Len(q.wai)
      BY <1>2, <1>7, <1>9, <2>1, <2>2, ListCardinality
    <2>4. F \cup R = ToSet(q.wai) /\ F \cap R = {}
      BY <1>4, <1>7, <1>9, <2>1, <2>2
    <2>5. Cardinality(F \cup R) = Cardinality(F) + Cardinality(R) - Cardinality(F \cap R)
      BY <2>3, FS_Union
    <2>6. Cardinality(F \cap R) = 0
      BY <2>4, FS_EmptySet
    <2>7. Len(q.wai) = j + Len(rest) - 0
      BY <2>3, <2>4, <2>5, <2>6
    <2>. QED
      BY <2>7, <1>2, <1>5, <1>9
  <1>11. n - Len(first) \in Nat
    BY <1>4, <1>5, <1>7 DEF Least
  <1>12. PICK k \in 0..Len(rest) : k = Least(n - Len(first), Len(rest))
    BY <1>9, <1>11 DEF Least
  <1>13. PICK more : more = SubSeq(rest, 1, k)
    OBVIOUS
  <1>14. PICK left : left = SubSeq(rest, k + 1, Len(rest))
    OBVIOUS
  <1>15. /\ more \in Seq(Groups) /\ Once(more) /\ Len(more) = k
         /\ left \in Seq(Groups) /\ Once(left)
         /\ ToSet(more) \cup ToSet(left) = ToSet(rest) /\ ToSet(more) \cap ToSet(left) = {}
    <2>1. Parts(Groups, rest, k, more, left)
      BY <1>9, <1>13, <1>14, CutList
    <2>. QED
      BY <2>1, <1>9 DEF Parts
  <1>16. PICK chosen : chosen = first \o more
    OBVIOUS
  <1>17. /\ chosen \in Seq(Groups) /\ Once(chosen) /\ Len(chosen) = j + k
         /\ ToSet(chosen) = ToSet(first) \cup ToSet(more)
    <2>1. Joined(Groups, first, more, chosen)
      BY <1>7, <1>15, <1>16, ConcatList
    <2>2. ToSet(first) \cap ToSet(more) = {}
      BY <1>9, <1>15
    <2>. QED
      BY <2>1, <2>2, <1>7, <1>15 DEF Joined
  <1>18. ToSet(chosen) \subseteq ToSet(q.wai) /\ ToSet(left) = ToSet(q.wai) \ ToSet(chosen)
    BY <1>4, <1>7, <1>9, <1>15, <1>17
  <1>19. j + k = Least(n, Len(q.wai))
    <2>1. PICK w \in Nat : w = Len(q.wai)
      BY <1>2
    <2>2. PICK b \in Nat : b = Len(busy)
      BY <1>4
    <2>3. PICK e \in Nat : e = Len(rest)
      BY <1>9
    <2>4. e = w - j /\ j = Least(n, b) /\ k = Least(n - j, e)
      BY <2>1, <2>2, <2>3, <1>5, <1>7, <1>10, <1>12
    <2>5. j + k = Least(n, w)
      BY <2>4 DEF Least
    <2>. QED
      BY <2>1, <2>5
  <1>20. PICK l : l = SetLimit(q.lim, ToSet(chosen), 1)
    OBVIOUS
  <1>21. /\ l \in Limits
         /\ \A g \in Groups : l[g] =
              IF g \in ToSet(chosen) /\ gstate[g] = "up" THEN Least(1, MaxReqs) ELSE q.lim[g]
    BY <1>2, <1>20, SetLimitType
  <1>22. PICK r : r = q.rdy \o chosen
    BY Zenon
  <1>23. p = [rdy |-> r, wai |-> left, lim |-> l] /\ p.rdy = r /\ p.wai = left /\ p.lim = l
    BY <1>1, <1>3, <1>5, <1>6, <1>8, <1>12, <1>13, <1>14, <1>16, <1>20, <1>22, Zenon DEF IncWaitingGrp
  <1>24. /\ r \in Seq(Groups) /\ Once(r) /\ ToSet(r) = ToSet(q.rdy) \cup ToSet(chosen)
    <2>1. Joined(Groups, q.rdy, chosen, r)
      BY <1>2, <1>17, <1>22, ConcatList
    <2>2. ToSet(q.rdy) \cap ToSet(chosen) = {}
      BY <1>2, <1>18
    <2>. QED
      BY <2>1, <2>2, <1>2, <1>17 DEF Joined
  <1>25. p \in QueueType
    BY <1>15, <1>21, <1>23, <1>24 DEF QueueType
  <1>26. ToSet(p.rdy) \cap ToSet(p.wai) = {}
    BY <1>2, <1>18, <1>23, <1>24
  <1>27. \A g \in ToSet(p.wai) : gstate[g] = "up" => p.lim[g] = 0
    BY <1>2, <1>18, <1>21, <1>23, ListGroups
  <1>28. Queued(p)
    BY <1>15, <1>23, <1>24, <1>25, <1>26, <1>27 DEF Queued
  <1>29. Members(p) = Members(q)
    BY <1>18, <1>23, <1>24 DEF Members
  <1>30. \A g \in Groups : g \notin Members(q) => p.lim[g] = q.lim[g]
    BY <1>18, <1>21, <1>23 DEF Members
  <1>31. Redealt(q, p)
    BY <1>28, <1>29, <1>30 DEF Redealt
  <1>32. Chosen(q, n, p, chosen)
    BY <1>17, <1>18, <1>19, <1>20, <1>22, <1>23 DEF Chosen
  <1>. QED
    BY <1>1, <1>31, <1>32

\* Two changes of the lists, one after the other.
LEMMA RedealtTwice ==
    ASSUME NEW q, NEW p, NEW r, Redealt(q, p), Redealt(p, r)
    PROVE  Redealt(q, r)
  BY DEF Redealt

\* Lists that are left alone.
LEMMA RedealtSame ==
    ASSUME NEW q, Queued(q)
    PROVE  Redealt(q, q)
  BY DEF Redealt

\* Quotients and remainders.
LEMMA DivMod ==
    ASSUME NEW n \in Nat, NEW m \in Nat, m > 0
    PROVE  /\ n \div m \in Nat /\ n % m \in Nat /\ n % m < m
           /\ n = m * (n \div m) + (n % m)
           /\ n \div m = 0 <=> n < m
  <1>1. n \div m \in Nat /\ n % m \in Nat /\ n % m < m
    OBVIOUS
  <1>2. n = m * (n \div m) + (n % m)
    OBVIOUS
  <1>3. n \div m = 0 <=> n < m
    OBVIOUS
  <1>. QED
    BY <1>1, <1>2, <1>3

\* Share makes all groups ready if there are enough slots.
LEMMA ShareDealt ==
    ASSUME NEW q, Queued(q), NEW n \in Nat, TaskGrpCount(q) > 0
    PROVE  /\ Redealt(q, Share(q, n))
           /\ n >= TaskGrpCount(q) =>
                /\ Share(q, n).rdy = q.rdy \o q.wai /\ Share(q, n).wai = <<>>
                /\ \A i \in DOMAIN (q.rdy \o q.wai) :
                     LET g == (q.rdy \o q.wai)[i]
                         k == n \div TaskGrpCount(q)
                     IN  gstate[g] = "up" =>
                           Share(q, n).lim[g] =
                             IF i <= n % TaskGrpCount(q) THEN Least(k + 1, MaxReqs)
                             ELSE Least(k, MaxReqs)
  <1>1. PICK m \in Nat : m = TaskGrpCount(q)
    BY QueueParts DEF Queued
  <1>2. PICK k \in Nat : k = n \div m
    BY <1>1, DivMod
  <1>3. PICK x \in Nat : x = n % m
    BY <1>1, DivMod
  <1>4. PICK p : p = SetLimitGrps(q, k)
    OBVIOUS
  <1>5. PICK r : r = IncRunningGrps(p, x)
    OBVIOUS
  <1>6. Share(q, n) = r
    BY <1>1, <1>2, <1>3, <1>4, <1>5 DEF Share
  <1>7. Redealt(q, p)
    BY <1>4, SetLimitDealt
  <1>8. Queued(p)
    BY <1>7 DEF Redealt
  <1>9. /\ Redealt(p, r) /\ r.rdy = p.rdy /\ r.wai = p.wai
        /\ \A i \in DOMAIN p.rdy : gstate[p.rdy[i]] = "up" =>
             r.lim[p.rdy[i]] = IF i <= x THEN Least(p.lim[p.rdy[i]] + 1, MaxReqs)
                               ELSE p.lim[p.rdy[i]]
    BY <1>5, <1>8, IncRunningDealt
  <1>10. Redealt(q, r)
    BY <1>7, <1>9, RedealtTwice
  <1>11. ASSUME n >= m
         PROVE  /\ r.rdy = q.rdy \o q.wai /\ r.wai = <<>>
                /\ \A i \in DOMAIN (q.rdy \o q.wai) :
                     LET g == (q.rdy \o q.wai)[i]
                     IN  gstate[g] = "up" =>
                           r.lim[g] = IF i <= x THEN Least(k + 1, MaxReqs) ELSE Least(k, MaxReqs)
    <2>1. k # 0
      BY <1>1, <1>2, <1>11, DivMod
    <2>2. /\ p.rdy = q.rdy \o q.wai /\ p.wai = <<>>
          /\ \A g \in Members(q) : gstate[g] = "up" => p.lim[g] = Least(k, MaxReqs)
      BY <2>1, <1>4, SetLimitDealt
    <2>3. ASSUME NEW i \in DOMAIN p.rdy, gstate[p.rdy[i]] = "up"
          PROVE  r.lim[p.rdy[i]] = IF i <= x THEN Least(k + 1, MaxReqs) ELSE Least(k, MaxReqs)
      <3>1. PICK g : g = p.rdy[i]
        OBVIOUS
      <3>2. g \in Members(q)
        BY <3>1, <1>7 DEF Redealt, Members, ToSet
      <3>3. p.lim[g] = Least(k, MaxReqs)
        BY <2>2, <2>3, <3>1, <3>2
      <3>4. Least(Least(k, MaxReqs) + 1, MaxReqs) = Least(k + 1, MaxReqs)
        BY GroupsAssumption DEF Least
      <3>. QED
        BY <1>9, <2>3, <3>1, <3>3, <3>4
    <2>. QED
      BY <1>9, <2>2, <2>3
  <1>. QED
    BY <1>1, <1>2, <1>3, <1>6, <1>10, <1>11

\* IncSlotCount keeps every group on one list.
LEMMA IncSlotDealt ==
    ASSUME NEW q, Queued(q), NEW n \in Nat, NEW d \in Nat
    PROVE  Redealt(q, IncSlotCount(q, n, d))
  <1>1. PICK m \in Nat : m = TaskGrpCount(q)
    BY QueueParts DEF Queued
  <1>2. CASE m = 0
    BY <1>1, <1>2, RedealtSame DEF IncSlotCount
  <1>3. CASE m > 0
    <2>1. n + d \in Nat /\ (n + d) \div m \in Nat /\ (n + d) % m \in Nat
      BY <1>3, DivMod
    <2>2. PICK p : p = SetLimitRunningGrps(q, (n + d) \div m)
      OBVIOUS
    <2>3. Redealt(q, p) /\ Redealt(p, IncRunningGrps(p, (n + d) % m))
      <3>1. Redealt(q, p)
        BY <2>1, <2>2, SetLimitRunningDealt
      <3>2. Queued(p)
        BY <3>1 DEF Redealt
      <3>. QED
        BY <2>1, <3>1, <3>2, IncRunningDealt
    <2>4. Redealt(q, IncRunningGrps(p, (n + d) % m))
      BY <2>3, RedealtTwice
    <2>5. Redealt(q, IncWaitingGrp(q, d))
      BY IncWaitingDealt
    <2>6. Redealt(q, Share(q, n + d))
      BY <1>1, <1>3, <2>1, ShareDealt
    <2>. QED
      BY <1>1, <1>3, <2>2, <2>4, <2>5, <2>6 DEF IncSlotCount
  <1>. QED
    BY <1>2, <1>3

\* DecSlotCount keeps every group on one list.
LEMMA DecSlotDealt ==
    ASSUME NEW q, Queued(q), NEW n \in Nat, NEW d \in Nat, n - d \in Nat
    PROVE  Redealt(q, DecSlotCount(q, n, d))
  <1>1. PICK m \in Nat : m = TaskGrpCount(q)
    BY QueueParts DEF Queued
  <1>2. CASE m = 0
    BY <1>1, <1>2, RedealtSame DEF DecSlotCount
  <1>3. CASE m > 0
    <2>1. (n - d) % m \in Nat
      BY <1>3, DivMod
    <2>2. PICK p : p = SetLimitGrps(q, 0)
      OBVIOUS
    <2>3. Redealt(q, p)
      BY <2>2, SetLimitDealt
    <2>4. Redealt(p, IncWaitingGrp(p, (n - d) % m))
      <3>1. Queued(p)
        BY <2>3 DEF Redealt
      <3>. QED
        BY <2>1, <3>1, IncWaitingDealt
    <2>5. Redealt(q, IncWaitingGrp(p, (n - d) % m))
      BY <2>3, <2>4, RedealtTwice
    <2>6. Redealt(q, Share(q, n - d))
      BY <1>1, <1>3, ShareDealt
    <2>. QED
      BY <1>1, <1>3, <2>2, <2>5, <2>6 DEF DecSlotCount
  <1>. QED
    BY <1>2, <1>3

\* ResetSlotCountRelease keeps every group on one list.
LEMMA ReleaseDealt ==
    ASSUME NEW q, Queued(q), NEW n \in Nat
    PROVE  Redealt(q, ResetSlotCountRelease(q, n))
  <1>1. PICK m \in Nat : m = TaskGrpCount(q)
    BY QueueParts DEF Queued
  <1>2. CASE m = 0
    BY <1>1, <1>2, RedealtSame DEF ResetSlotCountRelease
  <1>3. CASE m > 0
    <2>1. Len(q.rdy) \in Nat
      BY QueueParts DEF Queued
    <2>2. n > Len(q.rdy) => Redealt(q, IncWaitingGrp(q, n - Len(q.rdy)))
      <3>1. n > Len(q.rdy) => n - Len(q.rdy) \in Nat
        BY <2>1
      <3>. QED
        BY <3>1, IncWaitingDealt
    <2>3. Redealt(q, Share(q, n))
      BY <1>1, <1>3, ShareDealt
    <2>. QED
      BY <1>1, <1>3, <2>2, <2>3, RedealtSame DEF ResetSlotCountRelease
  <1>. QED
    BY <1>2, <1>3

-----------------------------------------------------------------------------
(* The lists of the scheduler and the groups on them.                      *)

\* Each group on its own.
GrpFacts(g) ==
    /\ victims[g] <= live[g] /\ live[g] <= MaxReqs
    /\ noSched[g] => gstate[g] = "up"
    /\ gstate[g] = "none" => /\ live[g] = 0 /\ g \notin inMap
                             /\ creator[g] = "no" /\ remover[g] = "no"
    /\ g \in inMap => gstate[g] = "up" /\ remover[g] = "no" /\ ConnOf[g] \notin closed
    /\ requeue[g] <= submits
    /\ scheduled /\ creator[g] # "ok" => lim[g] = 0

\* The lists of each connection.
ConnFacts(c) ==
    /\ Queued(Queues(c))
    /\ \A g \in Members(Queues(c)) : ConnOf[g] = c /\ creator[g] = "ok"
    /\ ~Connected(c) \/ ~scheduled => rdy[c] = <<>> /\ wai[c] = <<>>

\* The exchange under way.
SwapFacts ==
    \A x \in swap :
        /\ \A y \in swap : y = x
        /\ scheduled /\ Connected(x[1]) /\ x[2] # x[3]
        /\ ConnOf[x[2]] = x[1] /\ creator[x[2]] = "ok" /\ x[2] \notin Members(Queues(x[1]))
        /\ ConnOf[x[3]] = x[1] /\ creator[x[3]] = "ok" /\ x[3] \notin Members(Queues(x[1]))
        /\ gstate[x[3]] = "up" => lim[x[3]] = 0

\* A client that has been added is on a list.
KnownFacts ==
    scheduled => \A g \in inMap : creator[g] = "ok" => g \in Listed(ConnOf[g])

SeatInv ==
    /\ TypeOK
    /\ \A g \in Groups : GrpFacts(g)
    /\ \A c \in Conns : ConnFacts(c)
    /\ SwapFacts /\ Once(conns)
    /\ KnownFacts

\* The groups of a connection that have slots, and those that wait for one; during
\* an exchange x[2] still has its slot and x[3] does not have it yet.
Seats(c) == Ready(c) \cup {x[2] : x \in {y \in swap : y[1] = c}}
Queuing(c) == Waiting(c) \cup {x[3] : x \in {y \in swap : y[1] = c}}

\* What is left alone by the steps of requests.
Quiet == UNCHANGED <<gstate, lim, rdy, wai, conns, swap, scheduled, creator, inMap>>

\* A step that touches no list and no limit keeps what is known of the lists.
LEMMA QuietKeeps ==
    ASSUME SeatInv, Quiet
    PROVE  (\A c \in Conns : ConnFacts(c)') /\ SwapFacts' /\ KnownFacts' /\ Once(conns)'
  <1>1. \A c \in Conns : Queues(c)' = Queues(c)
    BY DEF Quiet, Queues
  <1>2. \A c \in Conns : ConnFacts(c)'
    BY <1>1 DEF SeatInv, Quiet, ConnFacts, Queued, Members, Connected
  <1>3. SwapFacts'
    BY <1>1 DEF SeatInv, Quiet, SwapFacts, TypeOK, Members, Connected
  <1>4. KnownFacts'
    BY DEF SeatInv, Quiet, KnownFacts, Listed, Ready, Waiting, Swapped
  <1>5. Once(conns)'
    BY DEF SeatInv, Quiet
  <1>. QED
    BY <1>2, <1>3, <1>4, <1>5

\* A batch leaves no more requests running than the limit allows.
LEMMA BatchType ==
    ASSUME SeatInv, NEW g \in Groups, TakeBatch(g), CanTake(g), gstate[g] = "up"
    PROVE  /\ que' \in [Groups -> Nat] /\ live' \in [Groups -> Nat]
           /\ \A h \in Groups : live'[h] >= live[h]
           /\ live'[g] + done[g] <= lim[g]
           /\ \A h \in Groups : h # g => live'[h] = live[h]
  <1>1. PICK n : n = Least(lim[g] - RunningCount(g), que[g])
    OBVIOUS
  <1>2. /\ que' = [que EXCEPT ![g] = @ - n] /\ live' = [live EXCEPT ![g] = @ + n]
        /\ que[g] > 0 /\ live[g] + done[g] < lim[g] /\ n = Least(lim[g] - (live[g] + done[g]), que[g])
    BY <1>1 DEF TakeBatch, CanTake, RunningCount
  <1>3. /\ que \in [Groups -> Nat] /\ live \in [Groups -> Nat] /\ done[g] \in Nat /\ lim[g] \in Nat
    BY GroupsAssumption DEF SeatInv, TypeOK, GrpTypeOK
  <1>4. n \in Nat /\ n <= que[g] /\ n <= lim[g] - (live[g] + done[g])
    BY <1>2, <1>3 DEF Least
  <1>. QED
    BY <1>2, <1>3, <1>4

\* RunTaskInternal starts requests of one group.
LEMMA GroupStepKeeps ==
    ASSUME SeatInv, NEW g \in Groups, GroupStep(g)
    PROVE  SeatInv'
  <1>1. UNCHANGED <<gstate, lim, done, victims>> /\ UNCHANGED schedVars
    BY DEF GroupStep, RunBegin, RunEnd
  <1>2. Quiet
    BY <1>1 DEF Quiet, schedVars, lifeVars, listVars
  <1>3. noSched[g] => gstate[g] = "up"
    BY DEF SeatInv, GrpFacts
  <1>4. calls' \in [Groups -> Nat]
    <2>1. calls \in [Groups -> Nat]
      BY DEF SeatInv, TypeOK, GrpTypeOK
    <2>2. CASE RunBegin(g)
      BY <2>1, <2>2 DEF RunBegin
    <2>3. CASE RunEnd(g)
      BY <2>1, <2>3 DEF RunEnd
    <2>. QED
      BY <2>2, <2>3 DEF GroupStep
  <1>5. \/ UNCHANGED noSched
        \/ noSched' = [noSched EXCEPT ![g] = FALSE]
        \/ gstate[g] = "up" /\ noSched' = [noSched EXCEPT ![g] = TRUE]
    BY Zenon DEF GroupStep, RunBegin, RunEnd
  <1>6. /\ noSched' \in [Groups -> BOOLEAN]
        /\ \A h \in Groups : noSched'[h] => noSched[h] \/ gstate[h] = "up"
    <2>1. noSched \in [Groups -> BOOLEAN]
      BY DEF SeatInv, TypeOK, GrpTypeOK
    <2>2. CASE UNCHANGED noSched
      BY <2>1, <2>2
    <2>3. CASE noSched' = [noSched EXCEPT ![g] = FALSE]
      BY <2>1, <2>3
    <2>4. CASE gstate[g] = "up" /\ noSched' = [noSched EXCEPT ![g] = TRUE]
      BY <2>1, <2>4
    <2>. QED
      BY <1>5, <2>2, <2>3, <2>4
  <1>7. \/ UNCHANGED <<que, live>>
        \/ TakeBatch(g) /\ CanTake(g) /\ gstate[g] = "up"
    BY <1>3, Zenon DEF GroupStep, RunBegin, RunEnd
  <1>8. /\ que' \in [Groups -> Nat] /\ live' \in [Groups -> Nat]
        /\ \A h \in Groups : /\ live'[h] >= live[h] /\ live'[h] <= MaxReqs
                             /\ gstate[h] = "none" => live'[h] = live[h]
    <2>1. /\ que \in [Groups -> Nat] /\ live \in [Groups -> Nat]
          /\ \A h \in Groups : live[h] <= MaxReqs
      BY DEF SeatInv, TypeOK, GrpTypeOK, GrpFacts
    <2>2. CASE UNCHANGED <<que, live>>
      BY <2>1, <2>2
    <2>3. CASE TakeBatch(g) /\ CanTake(g) /\ gstate[g] = "up"
      <3>1. /\ que' \in [Groups -> Nat] /\ live' \in [Groups -> Nat]
            /\ \A h \in Groups : live'[h] >= live[h]
            /\ live'[g] + done[g] <= lim[g]
            /\ \A h \in Groups : h # g => live'[h] = live[h]
        BY <2>3, BatchType
      <3>2. lim[g] \in 0..MaxReqs /\ done[g] \in Nat /\ MaxReqs \in Nat
        BY GroupsAssumption DEF SeatInv, TypeOK, GrpTypeOK
      <3>3. live'[g] <= MaxReqs
        BY <3>1, <3>2
      <3>. QED
        BY <2>1, <2>3, <3>1, <3>3
    <2>. QED
      BY <1>7, <2>2, <2>3
  <1>9. TypeOK'
    BY <1>1, <1>4, <1>6, <1>8 DEF SeatInv, TypeOK, GrpTypeOK, schedVars, lifeVars, listVars, callVars
  <1>10. ASSUME NEW h \in Groups PROVE GrpFacts(h)'
    <2>1. GrpFacts(h) /\ victims[h] \in Nat /\ live[h] \in Nat
      BY DEF SeatInv, TypeOK, GrpTypeOK
    <2>2. /\ victims'[h] <= live'[h] /\ live'[h] <= MaxReqs
          /\ gstate[h] = "none" => live'[h] = 0
          /\ noSched'[h] => gstate[h] = "up"
      BY <1>1, <1>6, <1>8, <2>1 DEF GrpFacts
    <2>. QED
      BY <1>1, <2>1, <2>2 DEF GrpFacts, schedVars, lifeVars, callVars
  <1>. QED
    BY <1>2, <1>9, <1>10, QuietKeeps DEF SeatInv

-----------------------------------------------------------------------------
(* The steps of requests.                                                  *)

\* There is work left: the counters stay below their bound.
LEMMA WorkLeft ==
    ASSUME SeatInv, MoreWork
    PROVE  submits + 1 \in 0..MaxWork /\ resized + 1 \in 0..MaxWork
  <1>1. PICK S : S = {g \in Groups : gstate[g] # "none"}
    OBVIOUS
  <1>2. S \subseteq Groups
    BY <1>1
  <1>3. Cardinality(S) \in Nat
    BY <1>2, GroupsAssumption, FS_Subset, FS_CardinalityType
  <1>4. submits + resized + Cardinality(S) < MaxWork
    BY <1>1 DEF MoreWork
  <1>5. submits \in Nat /\ resized \in Nat /\ MaxWork \in Nat
    BY SchedAssumption DEF SeatInv, TypeOK
  <1>. QED
    BY <1>3, <1>4, <1>5

\* What a step that leaves the lists and the limits alone has to keep.
LEMMA RequestKeeps ==
    ASSUME SeatInv, Quiet, UNCHANGED <<remover, closed, slots, noSched, resized>>,
           que' \in [Groups -> Nat], live' \in [Groups -> Nat], done' \in [Groups -> Nat],
           victims' \in [Groups -> Nat], calls' \in [Groups -> Nat],
           aar' \in Nat, occ' \in Nat, requeue' \in [Groups -> Nat],
           submits' \in 0..MaxWork, \A h \in Groups : requeue'[h] <= submits',
           \A h \in Groups : victims'[h] <= live'[h] /\ live'[h] <= live[h]
    PROVE  SeatInv'
  <1>1. requeue' \in [Groups -> 0..MaxWork]
    BY SchedAssumption
  <1>2. TypeOK'
    BY <1>1 DEF SeatInv, TypeOK, GrpTypeOK, Quiet
  <1>3. ASSUME NEW h \in Groups PROVE GrpFacts(h)'
    <2>1. GrpFacts(h) /\ live[h] \in Nat /\ live'[h] \in Nat /\ MaxReqs \in Nat
      BY GroupsAssumption DEF SeatInv, TypeOK, GrpTypeOK
    <2>2. /\ live'[h] <= MaxReqs
          /\ gstate[h] = "none" => live'[h] = 0
      BY <2>1 DEF GrpFacts
    <2>. QED
      BY <2>1, <2>2 DEF GrpFacts, Quiet
  <1>. QED
    BY <1>2, <1>3, QuietKeeps DEF SeatInv

\* The parts of the type that the steps of requests change.
LEMMA RequestTypes ==
    ASSUME SeatInv
    PROVE  /\ que \in [Groups -> Nat] /\ live \in [Groups -> Nat] /\ done \in [Groups -> Nat]
           /\ victims \in [Groups -> Nat] /\ calls \in [Groups -> Nat]
           /\ aar \in Nat /\ occ \in Nat /\ requeue \in [Groups -> Nat]
           /\ submits \in 0..MaxWork /\ resized \in 0..MaxWork
           /\ \A h \in Groups : /\ requeue[h] <= submits
                                /\ victims[h] <= live[h] /\ live[h] <= live[h]
  <1>1. requeue \in [Groups -> 0..MaxWork] /\ MaxWork \in Nat
    BY SchedAssumption DEF SeatInv, TypeOK
  <1>2. requeue \in [Groups -> Nat]
    BY <1>1
  <1>. QED
    BY <1>2 DEF SeatInv, TypeOK, GrpTypeOK, GrpFacts

\* A request enters the queue.
LEMMA SubmitKeeps ==
    ASSUME SeatInv, NEW g \in Groups, Submit(g) \/ AddAndRun(g)
    PROVE  SeatInv'
  <1>1. /\ Quiet /\ UNCHANGED <<remover, closed, slots, noSched, resized, live, done, victims,
                                occ, requeue>>
        /\ MoreWork /\ submits' = submits + 1
        /\ que' = [que EXCEPT ![g] = @ + 1]
    BY DEF Submit, AddAndRun, Quiet, lifeVars, listVars, Count, AppendTask
  <1>2. aar' \in Nat /\ calls' \in [Groups -> Nat]
    <2>1. aar \in Nat /\ calls \in [Groups -> Nat]
      BY RequestTypes
    <2>2. CASE UNCHANGED calls /\ aar' = aar + 1
      BY <2>1, <2>2
    <2>3. CASE UNCHANGED aar /\ calls' = [calls EXCEPT ![g] = @ + 1]
      BY <2>1, <2>3
    <2>4. CASE UNCHANGED aar /\ calls' = [calls EXCEPT ![g] = @]
      BY <2>1, <2>4
    <2>. QED
      BY <2>2, <2>3, <2>4, Zenon DEF Submit, AddAndRun
  <1>3. submits' \in 0..MaxWork /\ submits <= submits'
    BY <1>1, WorkLeft, RequestTypes
  <1>. QED
    BY <1>1, <1>2, <1>3, RequestTypes, RequestKeeps

\* OnChildComplete ends a request.
LEMMA ChildKeeps ==
    ASSUME SeatInv, NEW g \in Groups, OnChildComplete(g)
    PROVE  SeatInv'
  <1>0. /\ que \in [Groups -> Nat] /\ live \in [Groups -> Nat] /\ done \in [Groups -> Nat]
        /\ victims \in [Groups -> Nat] /\ calls \in [Groups -> Nat]
        /\ aar \in Nat /\ occ \in Nat /\ requeue \in [Groups -> Nat]
        /\ submits \in 0..MaxWork /\ resized \in 0..MaxWork
        /\ \A h \in Groups : /\ requeue[h] <= submits
                             /\ victims[h] <= live[h] /\ live[h] <= live[h]
    BY RequestTypes
  <1>1. /\ Quiet /\ UNCHANGED <<remover, closed, slots, noSched, resized, que, aar, occ>>
        /\ EndsLive(g)
    BY DEF OnChildComplete, Quiet, lifeVars, listVars
  <1>2. /\ live' \in [Groups -> Nat] /\ victims' \in [Groups -> Nat]
        /\ \A h \in Groups : victims'[h] <= live'[h] /\ live'[h] <= live[h]
    <2>1. live[g] > 0 /\ live' = [live EXCEPT ![g] = @ - 1]
      BY <1>1 DEF EndsLive
    <2>2. CASE victims[g] > 0 /\ victims' = [victims EXCEPT ![g] = @ - 1]
      BY <1>0, <2>1, <2>2
    <2>3. CASE live[g] > victims[g] /\ UNCHANGED victims
      BY <1>0, <2>1, <2>3
    <2>. QED
      BY <1>1, <2>2, <2>3 DEF EndsLive
  <1>3. done' \in [Groups -> Nat]
    BY <1>0 DEF OnChildComplete
  <1>4. calls' \in [Groups -> Nat]
    <2>1. \/ UNCHANGED calls
          \/ \E b \in BOOLEAN : calls' = [calls EXCEPT ![g] = IF b THEN @ + 1 ELSE @]
      BY Zenon DEF OnChildComplete
    <2>. QED
      BY <1>0, <2>1
  <1>5. /\ submits' \in 0..MaxWork /\ requeue' \in [Groups -> Nat]
        /\ \A h \in Groups : requeue'[h] <= submits'
    <2>1. CASE UNCHANGED <<requeue, submits>>
      BY <1>0, <2>1
    <2>2. CASE Count /\ requeue' = [requeue EXCEPT ![g] = @ + 1]
      BY <1>0, <2>2, WorkLeft DEF Count
    <2>. QED
      BY <2>1, <2>2 DEF OnChildComplete
  <1>. QED
    BY <1>0, <1>1, <1>2, <1>3, <1>4, <1>5, RequestKeeps

\* DeferredRemove and KillTasks take a request out of m_setTasks.
LEMMA DeferredKeeps ==
    ASSUME SeatInv, NEW g \in Groups, DeferredRemove(g) \/ KillTask(g)
    PROVE  SeatInv'
  <1>1. CASE DeferredRemove(g)
    <2>1. /\ Quiet /\ UNCHANGED <<remover, closed, slots, noSched, resized, que, live, victims,
                                  calls, aar, requeue, submits>>
          /\ done[g] > 0 /\ done' = [done EXCEPT ![g] = @ - 1]
          /\ occ' = occ \/ occ' = occ + 1
      BY <1>1 DEF DeferredRemove, Quiet, lifeVars, listVars
    <2>2. done' \in [Groups -> Nat] /\ occ' \in Nat
      BY <2>1, RequestTypes
    <2>. QED
      BY <2>1, <2>2, RequestTypes, RequestKeeps
  <1>2. CASE KillTask(g)
    <2>1. /\ Quiet /\ UNCHANGED <<remover, closed, slots, noSched, resized, que, done, occ,
                                  calls, aar, requeue, submits>>
          /\ victims[g] > 0 /\ victims' = [victims EXCEPT ![g] = @ - 1]
          /\ live' = [live EXCEPT ![g] = @ - 1]
      BY <1>2 DEF KillTask, Quiet, schedVars, lifeVars, listVars, callVars
    <2>2. /\ live' \in [Groups -> Nat] /\ victims' \in [Groups -> Nat]
          /\ \A h \in Groups : victims'[h] <= live'[h] /\ live'[h] <= live[h]
      <3>1. victims \in [Groups -> Nat] /\ live \in [Groups -> Nat]
        BY RequestTypes
      <3>2. \A h \in Groups : victims[h] <= live[h]
        BY RequestTypes
      <3>. QED
        BY <2>1, <3>1, <3>2
    <2>. QED
      BY <2>1, <2>2, RequestTypes, RequestKeeps
  <1>. QED
    BY <1>1, <1>2

\* RequeueInvTask puts a request back in the queue.
LEMMA RequeueKeeps ==
    ASSUME SeatInv, NEW g \in Groups, RequeueInvTask(g)
    PROVE  SeatInv'
  <1>0. /\ que \in [Groups -> Nat] /\ live \in [Groups -> Nat] /\ done \in [Groups -> Nat]
        /\ victims \in [Groups -> Nat] /\ calls \in [Groups -> Nat]
        /\ aar \in Nat /\ occ \in Nat /\ requeue \in [Groups -> Nat]
        /\ submits \in 0..MaxWork /\ resized \in 0..MaxWork
        /\ \A h \in Groups : /\ requeue[h] <= submits
                             /\ victims[h] <= live[h] /\ live[h] <= live[h]
    BY RequestTypes
  <1>1. /\ Quiet /\ UNCHANGED <<remover, closed, slots, noSched, resized, live, done, victims,
                                aar, occ, submits>>
        /\ requeue[g] > 0 /\ requeue' = [requeue EXCEPT ![g] = @ - 1]
    BY DEF RequeueInvTask, Quiet, lifeVars, listVars
  <1>2. que' \in [Groups -> Nat]
    BY <1>0 DEF RequeueInvTask, InsertTask
  <1>3. calls' \in [Groups -> Nat]
    <2>1. \/ UNCHANGED calls
          \/ \E b \in BOOLEAN : calls' = [calls EXCEPT ![g] = IF b THEN @ + 1 ELSE @]
      BY Zenon DEF RequeueInvTask
    <2>. QED
      BY <1>0, <2>1
  <1>4. requeue' \in [Groups -> Nat] /\ \A h \in Groups : requeue'[h] <= submits'
    BY <1>0, <1>1
  <1>. QED
    BY <1>0, <1>1, <1>2, <1>3, <1>4, RequestKeeps

-----------------------------------------------------------------------------
(* The steps of clients and connections that leave the lists alone.        *)

\* The lists stay, and with them what they say of the groups on them.
LEMMA ListsSame ==
    ASSUME SeatInv, UNCHANGED <<rdy, wai, swap, scheduled>>, lim' \in Limits,
           \A g \in Groups : scheduled /\ creator[g] = "ok" =>
              creator'[g] = "ok" /\ (gstate'[g] = "up" => gstate[g] = "up" /\ lim'[g] = lim[g]),
           \A c \in Conns : Connected(c) => Connected(c)'
    PROVE  (\A c \in Conns : ConnFacts(c)' /\ Listed(c)' = Listed(c)) /\ SwapFacts'
  <1>1. \A c \in Conns : Queues(c)' = [rdy |-> rdy[c], wai |-> wai[c], lim |-> lim']
    BY DEF Queues
  <1>2. \A c \in Conns : Members(Queues(c))' = Members(Queues(c)) /\ Members(Queues(c)) \subseteq Groups
    BY <1>1, ListGroups DEF Queues, Members, SeatInv, TypeOK
  <1>3. ASSUME NEW c \in Conns PROVE ConnFacts(c)'
    <2>1. ConnFacts(c) /\ rdy[c] \in Seq(Groups) /\ wai[c] \in Seq(Groups)
      BY DEF SeatInv, TypeOK
    <2>2. CASE ~scheduled
      <3>1. rdy[c] = <<>> /\ wai[c] = <<>>
        BY <2>1, <2>2 DEF ConnFacts
      <3>2. ToSet(<<>>) = {} /\ Once(<<>>)
        BY DEF ToSet, Once
      <3>3. Queued(Queues(c))'
        <4>1. /\ Queues(c)'.rdy = <<>> /\ Queues(c)'.wai = <<>>
              /\ Queues(c)' = [rdy |-> <<>>, wai |-> <<>>, lim |-> lim']
          BY <1>1, <3>1
        <4>2. Queues(c)' \in QueueType
          BY <2>1, <3>1, <4>1 DEF QueueType
        <4>. QED
          BY <3>2, <4>1, <4>2 DEF Queued
      <3>4. Members(Queues(c))' = {}
        BY <1>1, <3>1, <3>2 DEF Members
      <3>. QED
        BY <3>1, <3>3, <3>4 DEF ConnFacts
    <2>3. CASE scheduled
      <3>1. \A g \in Members(Queues(c)) : /\ ConnOf[g] = c /\ creator'[g] = "ok"
                                          /\ gstate'[g] = "up" => gstate[g] = "up" /\ lim'[g] = lim[g]
        BY <1>2, <2>1, <2>3 DEF ConnFacts
      <3>2. Queued(Queues(c))'
        BY <1>1, <2>1, <3>1 DEF ConnFacts, Queued, QueueType, Queues, Members
      <3>. QED
        BY <1>2, <2>1, <3>1, <3>2 DEF ConnFacts
    <2>. QED
      BY <2>2, <2>3
  <1>4. SwapFacts'
    <2>. SUFFICES ASSUME NEW x \in swap
                  PROVE  /\ \A y \in swap : y = x
                         /\ scheduled /\ Connected(x[1])' /\ x[2] # x[3]
                         /\ ConnOf[x[2]] = x[1] /\ creator'[x[2]] = "ok" /\ x[2] \notin Members(Queues(x[1]))'
                         /\ ConnOf[x[3]] = x[1] /\ creator'[x[3]] = "ok" /\ x[3] \notin Members(Queues(x[1]))'
                         /\ gstate'[x[3]] = "up" => lim'[x[3]] = 0
      BY DEF SwapFacts
    <2>1. x[1] \in Conns /\ x[2] \in Groups /\ x[3] \in Groups
      BY DEF SeatInv, TypeOK
    <2>2. /\ \A y \in swap : y = x
          /\ scheduled /\ Connected(x[1]) /\ x[2] # x[3]
          /\ ConnOf[x[2]] = x[1] /\ creator[x[2]] = "ok" /\ x[2] \notin Members(Queues(x[1]))
          /\ ConnOf[x[3]] = x[1] /\ creator[x[3]] = "ok" /\ x[3] \notin Members(Queues(x[1]))
          /\ gstate[x[3]] = "up" => lim[x[3]] = 0
      BY DEF SeatInv, SwapFacts
    <2>. QED
      BY <1>2, <2>1, <2>2
  <1>5. \A c \in Conns : Listed(c)' = Listed(c)
    BY DEF Listed, Ready, Waiting, Swapped
  <1>. QED
    BY <1>3, <1>4, <1>5

\* Without a scheduler no group is on a list.
LEMMA LimitKeeps ==
    ASSUME SeatInv, NEW g \in Groups, NEW n \in Nat, ~scheduled, gstate[g] = "up",
           SetLimitAndCall(g, n), UNCHANGED <<scheduled, lifeVars, listVars, callVars>>,
           resized' \in 0..MaxWork
    PROVE  SeatInv'
  <1>0. lim \in Limits /\ calls \in [Groups -> Nat]
    BY DEF SeatInv, TypeOK, GrpTypeOK, Limits
  <1>1. lim' \in Limits
    BY <1>0, SetLimitType DEF SetLimitAndCall
  <1>2. calls' \in [Groups -> Nat]
    <2>1. \E b \in BOOLEAN : calls' = [calls EXCEPT ![g] = IF b THEN @ + 1 ELSE @]
      BY Zenon DEF SetLimitAndCall
    <2>. QED
      BY <1>0, <2>1
  <1>3. UNCHANGED <<gstate, que, live, done, victims, noSched>>
    BY DEF SetLimitAndCall
  <1>4. TypeOK'
    BY <1>1, <1>2, <1>3 DEF SeatInv, TypeOK, GrpTypeOK, Limits, lifeVars, listVars, callVars
  <1>5. \A h \in Groups : GrpFacts(h)'
    BY <1>3 DEF SeatInv, GrpFacts, lifeVars, listVars, callVars
  <1>6. (\A c \in Conns : ConnFacts(c)') /\ SwapFacts'
    BY <1>1, ListsSame DEF listVars, Connected
  <1>7. KnownFacts' /\ Once(conns)'
    BY DEF SeatInv, KnownFacts, listVars
  <1>. QED
    BY <1>4, <1>5, <1>6, <1>7 DEF SeatInv

\* RefreshReqLimit, without a scheduler.
LEMMA RefreshKeeps ==
    ASSUME SeatInv, NEW g \in Groups, NEW n \in 1..MaxReqs, RefreshReqLimit(g, n)
    PROVE  SeatInv'
  <1>1. resized' \in 0..MaxWork
    BY WorkLeft DEF RefreshReqLimit
  <1>. QED
    BY <1>1, LimitKeeps DEF RefreshReqLimit

\* The limit becomes the number of running requests, without a scheduler.
LEMMA ToRunningKeeps ==
    ASSUME SeatInv, NEW g \in Groups, LimitToRunning(g)
    PROVE  SeatInv'
  <1>1. RunningCount(g) \in Nat
    BY DEF LimitToRunning, RunningCount, SeatInv, TypeOK, GrpTypeOK
  <1>2. resized' \in 0..MaxWork
    BY DEF LimitToRunning, schedVars, SeatInv, TypeOK
  <1>. QED
    BY <1>1, <1>2, LimitKeeps DEF LimitToRunning, schedVars

\* A group that has just been created is on no list.
LEMMA CreateKeeps ==
    ASSUME SeatInv, NEW g \in Groups, CreateGrpRfc(g)
    PROVE  SeatInv'
  <1>1. /\ gstate[g] = "none" /\ ConnOf[g] \notin closed
        /\ inMap' = inMap \cup {g} /\ gstate' = [gstate EXCEPT ![g] = "up"]
        /\ lim' = [lim EXCEPT ![g] = IF scheduled THEN 0 ELSE MaxReqs]
        /\ creator' = [creator EXCEPT ![g] = IF scheduled THEN "add" ELSE "ok"]
        /\ UNCHANGED <<que, live, done, victims, noSched, calls>>
        /\ UNCHANGED <<scheduled, remover, closed, conns, rdy, wai, slots, swap,
                       aar, occ, requeue, submits, resized>>
    BY DEF CreateGrpRfc, listVars, callVars
  <1>2. GrpFacts(g) /\ creator[g] = "no" /\ g \notin inMap /\ remover[g] = "no"
    BY <1>1 DEF SeatInv, GrpFacts
  <1>3. /\ gstate \in [Groups -> {"none", "up", "dead"}] /\ lim \in Limits
        /\ creator \in [Groups -> Creators] /\ inMap \subseteq Groups /\ MaxReqs \in Nat
    BY GroupsAssumption DEF SeatInv, TypeOK, GrpTypeOK, Limits
  <1>4. /\ gstate' \in [Groups -> {"none", "up", "dead"}] /\ lim' \in Limits
        /\ creator' \in [Groups -> Creators] /\ inMap' \subseteq Groups
        /\ \A h \in Groups : h # g => /\ gstate'[h] = gstate[h] /\ lim'[h] = lim[h]
                                      /\ creator'[h] = creator[h]
        /\ gstate'[g] = "up" /\ scheduled => lim'[g] = 0 /\ creator'[g] = "add"
    BY <1>1, <1>3 DEF Limits, Creators
  <1>5. TypeOK'
    BY <1>1, <1>4 DEF SeatInv, TypeOK, GrpTypeOK, Limits
  <1>6. ASSUME NEW h \in Groups PROVE GrpFacts(h)'
    <2>1. CASE h = g
      BY <1>1, <1>2, <1>3, <1>4, <2>1 DEF GrpFacts
    <2>2. CASE h # g
      BY <1>1, <1>4, <2>2 DEF GrpFacts, SeatInv
    <2>. QED
      BY <2>1, <2>2
  <1>7. (\A c \in Conns : ConnFacts(c)' /\ Listed(c)' = Listed(c)) /\ SwapFacts'
    <2>1. \A h \in Groups : scheduled /\ creator[h] = "ok" =>
              creator'[h] = "ok" /\ (gstate'[h] = "up" => gstate[h] = "up" /\ lim'[h] = lim[h])
      BY <1>2, <1>4
    <2>2. \A c \in Conns : Connected(c) => Connected(c)'
      BY <1>1 DEF Connected
    <2>. QED
      BY <1>1, <1>4, <2>1, <2>2, ListsSame
  <1>8. KnownFacts' /\ Once(conns)'
    <2>1. ASSUME scheduled, NEW h \in inMap', creator'[h] = "ok" PROVE h \in Listed(ConnOf[h])
      BY <1>1, <1>3, <1>4, <2>1 DEF SeatInv, KnownFacts
    <2>2. \A h \in Groups : ConnOf[h] \in Conns
      BY SchedAssumption
    <2>. QED
      BY <1>1, <1>4, <1>7, <2>1, <2>2 DEF KnownFacts, SeatInv
  <1>. QED
    BY <1>5, <1>6, <1>7, <1>8 DEF SeatInv

\* The creation of a group goes on: it is not yet on a list.
LEMMA CreatorKeeps ==
    ASSUME SeatInv, NEW g \in Groups, creator[g] \in {"add", "conn"},
           NEW v \in {"add", "conn", "failed"}, creator' = [creator EXCEPT ![g] = v],
           UNCHANGED <<scheduled, inMap, remover, closed, rdy, wai, swap, callVars, resized>>,
           UNCHANGED grpVars,
           conns' \in Seq(Conns), Once(conns'), ToSet(conns) \subseteq ToSet(conns'),
           slots' \in [Conns -> SlotCounts]
    PROVE  SeatInv'
  <1>1. /\ creator \in [Groups -> Creators] /\ v \in Creators
    BY DEF SeatInv, TypeOK, Creators
  <1>2. creator' \in [Groups -> Creators] /\ \A h \in Groups : h # g => creator'[h] = creator[h]
    BY <1>1
  <1>3. TypeOK'
    BY <1>2 DEF SeatInv, TypeOK, GrpTypeOK, callVars, grpVars
  <1>4. gstate[g] # "none" /\ (scheduled => lim[g] = 0) /\ creator'[g] = v
    BY <1>1 DEF SeatInv, GrpFacts
  <1>5. ASSUME NEW h \in Groups PROVE GrpFacts(h)'
    <2>1. CASE h = g
      BY <1>4, <2>1 DEF GrpFacts, SeatInv, callVars, grpVars
    <2>2. CASE h # g
      BY <1>2, <2>2 DEF GrpFacts, SeatInv, callVars, grpVars
    <2>. QED
      BY <2>1, <2>2
  <1>6. (\A c \in Conns : ConnFacts(c)' /\ Listed(c)' = Listed(c)) /\ SwapFacts'
    <2>1. lim' \in Limits
      BY DEF SeatInv, TypeOK, GrpTypeOK, Limits, grpVars
    <2>2. \A h \in Groups : scheduled /\ creator[h] = "ok" =>
              creator'[h] = "ok" /\ (gstate'[h] = "up" => gstate[h] = "up" /\ lim'[h] = lim[h])
      BY <1>2 DEF grpVars
    <2>3. \A c \in Conns : Connected(c) => Connected(c)'
      BY DEF Connected
    <2>. QED
      BY <2>1, <2>2, <2>3, ListsSame
  <1>7. KnownFacts'
    <2>1. \A h \in Groups : ConnOf[h] \in Conns
      BY SchedAssumption
    <2>2. inMap \subseteq Groups
      BY DEF SeatInv, TypeOK
    <2>. QED
      BY <1>2, <1>4, <1>6, <2>1, <2>2 DEF KnownFacts, SeatInv
  <1>. QED
    BY <1>3, <1>5, <1>6, <1>7 DEF SeatInv

\* CreateGrpRfc fails.
LEMMA FailsKeeps ==
    ASSUME SeatInv, NEW g \in Groups, CreateFails(g)
    PROVE  SeatInv'
  <1>1. conns \in Seq(Conns) /\ Once(conns) /\ slots \in [Conns -> SlotCounts]
    BY DEF SeatInv, TypeOK
  <1>. QED
    BY <1>1, CreatorKeeps DEF CreateFails, listVars

\* AddConn adds a connection that has no groups.
LEMMA AddConnKeeps ==
    ASSUME SeatInv, NEW g \in Groups, AddConn(g)
    PROVE  SeatInv'
  <1>1. conns \in Seq(Conns) /\ Once(conns) /\ slots \in [Conns -> SlotCounts] /\ ConnOf[g] \in Conns
    BY SchedAssumption DEF SeatInv, TypeOK
  <1>2. /\ creator[g] = "conn"
        /\ UNCHANGED <<scheduled, inMap, remover, closed, rdy, wai, swap, callVars, resized>>
        /\ UNCHANGED grpVars
    BY DEF AddConn
  <1>3. CASE Connected(ConnOf[g])
    <2>1. creator' = [creator EXCEPT ![g] = "failed"] /\ UNCHANGED <<conns, slots>>
      BY <1>3 DEF AddConn
    <2>. QED
      BY <1>1, <1>2, <2>1, CreatorKeeps
  <1>4. CASE ~Connected(ConnOf[g])
    <2>1. creator' = [creator EXCEPT ![g] = "add"] /\ conns' = Append(conns, ConnOf[g])
      BY <1>4 DEF AddConn
    <2>2. slots' \in [Conns -> SlotCounts]
      BY <1>1, <1>4 DEF AddConn
    <2>3. conns' \in Seq(Conns) /\ Once(conns') /\ ToSet(conns) \subseteq ToSet(conns')
      BY <1>1, <1>4, <2>1, AppendList DEF Connected
    <2>. QED
      BY <1>2, <2>1, <2>2, <2>3, CreatorKeeps
  <1>. QED
    BY <1>3, <1>4

\* A group that is cancelled is not in the map any more; it may still be listed.
LEMMA CancelKeeps ==
    ASSUME SeatInv, NEW g \in Groups, Cancel(g)
    PROVE  SeatInv'
  <1>1. /\ remover[g] = "cancel" /\ remover' = [remover EXCEPT ![g] = "end"]
        /\ UNCHANGED <<lim, noSched, calls, scheduled, inMap, creator, closed, conns, rdy, wai,
                       slots, swap, aar, requeue, submits, resized>>
        /\ gstate[g] = "up" /\ ~noSched[g]
        /\ gstate' = [gstate EXCEPT ![g] = "dead"]
        /\ que' = [que EXCEPT ![g] = 0] /\ live' = [live EXCEPT ![g] = 0]
        /\ done' = [done EXCEPT ![g] = 0] /\ victims' = [victims EXCEPT ![g] = 0]
    BY DEF Cancel, OnCancel, listVars
  <1>2. /\ gstate \in [Groups -> {"none", "up", "dead"}] /\ remover \in [Groups -> Removers]
        /\ que \in [Groups -> Nat] /\ live \in [Groups -> Nat] /\ done \in [Groups -> Nat]
        /\ victims \in [Groups -> Nat] /\ occ \in Nat /\ MaxReqs \in Nat /\ lim \in Limits
    BY GroupsAssumption DEF SeatInv, TypeOK, GrpTypeOK, Limits
  <1>3. /\ gstate' \in [Groups -> {"none", "up", "dead"}] /\ remover' \in [Groups -> Removers]
        /\ que' \in [Groups -> Nat] /\ live' \in [Groups -> Nat] /\ done' \in [Groups -> Nat]
        /\ victims' \in [Groups -> Nat]
        /\ \A h \in Groups : h # g => /\ gstate'[h] = gstate[h] /\ remover'[h] = remover[h]
                                      /\ live'[h] = live[h] /\ victims'[h] = victims[h]
        /\ gstate'[g] = "dead" /\ live'[g] = 0 /\ victims'[g] = 0
    BY <1>1, <1>2 DEF Removers
  <1>4. occ' \in Nat
    <2>1. PICK n \in 0..(que[g] + live[g] + done[g]) : occ' = IF scheduled THEN occ + n ELSE occ
      BY DEF Cancel
    <2>. QED
      BY <1>2, <2>1
  <1>5. TypeOK'
    BY <1>1, <1>3, <1>4 DEF SeatInv, TypeOK, GrpTypeOK
  <1>6. ASSUME NEW h \in Groups PROVE GrpFacts(h)'
    <2>1. CASE h = g
      BY <1>1, <1>2, <1>3, <2>1 DEF GrpFacts, SeatInv
    <2>2. CASE h # g
      BY <1>1, <1>3, <2>2 DEF GrpFacts, SeatInv
    <2>. QED
      BY <2>1, <2>2
  <1>7. (\A c \in Conns : ConnFacts(c)' /\ Listed(c)' = Listed(c)) /\ SwapFacts'
    <2>1. \A h \in Groups : scheduled /\ creator[h] = "ok" =>
              creator'[h] = "ok" /\ (gstate'[h] = "up" => gstate[h] = "up" /\ lim'[h] = lim[h])
      BY <1>1, <1>3
    <2>2. \A c \in Conns : Connected(c) => Connected(c)'
      BY <1>1 DEF Connected
    <2>. QED
      BY <1>1, <1>2, <2>1, <2>2, ListsSame
  <1>8. KnownFacts' /\ Once(conns)'
    <2>1. \A h \in Groups : ConnOf[h] \in Conns
      BY SchedAssumption
    <2>2. inMap \subseteq Groups
      BY DEF SeatInv, TypeOK
    <2>. QED
      BY <1>1, <1>7, <2>1, <2>2 DEF KnownFacts, SeatInv
  <1>. QED
    BY <1>5, <1>6, <1>7, <1>8 DEF SeatInv

-----------------------------------------------------------------------------
(* The steps that change the lists.                                        *)

\* The lists of one connection become those of p; the others stay.
LEMMA DealLists ==
    ASSUME SeatInv, NEW c \in Conns, NEW p, Queued(p), SetQueues(c, p),
           UNCHANGED <<gstate, scheduled>>, scheduled, Connected(c)',
           \A d \in Conns : Connected(d) => Connected(d)',
           \A g \in Members(p) : ConnOf[g] = c /\ creator'[g] = "ok",
           \A g \in Groups : ConnOf[g] # c => lim'[g] = lim[g],
           \A g \in Groups : creator[g] = "ok" => creator'[g] = "ok"
    PROVE  /\ \A d \in Conns : ConnFacts(d)'
           /\ Members(Queues(c))' = Members(p)
           /\ \A d \in Conns : d # c => Members(Queues(d))' = Members(Queues(d))
           /\ rdy' \in [Conns -> Seq(Groups)] /\ wai' \in [Conns -> Seq(Groups)]
           /\ lim' \in Limits
  <1>1. p \in QueueType /\ p = [rdy |-> p.rdy, wai |-> p.wai, lim |-> p.lim]
    BY DEF Queued, QueueType
  <1>2. p.rdy \in Seq(Groups) /\ p.wai \in Seq(Groups) /\ p.lim \in Limits
    BY <1>1 DEF QueueType
  <1>3. rdy \in [Conns -> Seq(Groups)] /\ wai \in [Conns -> Seq(Groups)]
    BY DEF SeatInv, TypeOK
  <1>4. /\ rdy'[c] = p.rdy /\ wai'[c] = p.wai /\ lim' = p.lim
        /\ \A d \in Conns : d # c => rdy'[d] = rdy[d] /\ wai'[d] = wai[d]
        /\ rdy' \in [Conns -> Seq(Groups)] /\ wai' \in [Conns -> Seq(Groups)] /\ lim' \in Limits
    BY <1>2, <1>3 DEF SetQueues
  <1>5. Queues(c)' = p
    BY <1>1, <1>4 DEF Queues
  <1>6. ConnFacts(c)'
    <2>1. Queued(Queues(c))'
      BY <1>5 DEF Queued
    <2>2. Members(Queues(c))' = Members(p)
      BY <1>5 DEF Members
    <2>. QED
      BY <2>1, <2>2 DEF ConnFacts
  <1>7. ASSUME NEW d \in Conns, d # c
        PROVE  ConnFacts(d)' /\ Members(Queues(d))' = Members(Queues(d))
    <2>1. ConnFacts(d)
      BY DEF SeatInv
    <2>2. Queues(d)' = [rdy |-> rdy[d], wai |-> wai[d], lim |-> lim']
      BY <1>4, <1>7 DEF Queues
    <2>3. Members(Queues(d))' = Members(Queues(d)) /\ Members(Queues(d)) \subseteq Groups
      BY <1>3, <2>2, ListGroups DEF Queues, Members
    <2>4. \A g \in Members(Queues(d)) : ConnOf[g] = d /\ creator'[g] = "ok" /\ lim'[g] = lim[g]
      BY <1>7, <2>1, <2>3 DEF ConnFacts
    <2>5. Queued(Queues(d))'
      BY <1>4, <2>1, <2>2, <2>4 DEF ConnFacts, Queued, QueueType, Queues, Members
    <2>. QED
      BY <1>4, <1>7, <2>1, <2>3, <2>4, <2>5 DEF ConnFacts
  <1>. QED
    BY <1>4, <1>5, <1>6, <1>7 DEF Members

\* What a step on the lists has to keep for each group.
LEMMA GrpSame ==
    ASSUME SeatInv,
           UNCHANGED <<gstate, live, noSched, requeue, submits, inMap, remover, closed, scheduled>>,
           \A h \in Groups : victims'[h] <= live[h],
           \A h \in Groups : scheduled /\ creator'[h] # "ok" => creator[h] # "ok" /\ lim'[h] = lim[h],
           \A h \in Groups : creator[h] = "no" => creator'[h] = "no"
    PROVE  \A h \in Groups : GrpFacts(h)'
  BY DEF SeatInv, GrpFacts

\* The listed groups are those on the lists and those being exchanged.
LEMMA ListedMembers ==
    ASSUME NEW c
    PROVE  Listed(c) = Members(Queues(c)) \cup Swapped(c)
  BY DEF Listed, Ready, Waiting, Members, Queues

\* During an exchange two groups of the connection are on no list.
LEMMA SwappedOne ==
    ASSUME NEW c, NEW x, swap = {x}
    PROVE  Swapped(c) = IF x[1] = c THEN {x[2], x[3]} ELSE {}
  BY DEF Swapped

\* Between exchanges all listed groups are on the lists.
LEMMA SwappedNone ==
    ASSUME NEW c, swap = {}
    PROVE  Swapped(c) = {}
  BY DEF Swapped

\* SelTasksToKill picks requests that run.
LEMMA KillType ==
    ASSUME SeatInv, NEW l \in Limits, NEW S, SelTasksToKill(l, S)
    PROVE  /\ victims' \in [Groups -> Nat]
           /\ \A h \in Groups : victims'[h] <= live[h] /\ victims'[h] >= victims[h]
  <1>1. victims \in [Groups -> Nat] /\ live \in [Groups -> Nat] /\ MaxReqs \in Nat
    BY GroupsAssumption DEF SeatInv, TypeOK, GrpTypeOK
  <1>2. \A h \in Groups : victims[h] <= live[h]
    BY DEF SeatInv, GrpFacts
  <1>3. victims' \in [Groups -> Nat]
    BY <1>1 DEF SelTasksToKill
  <1>4. ASSUME NEW h \in Groups PROVE victims'[h] <= live[h] /\ victims'[h] >= victims[h]
    <2>1. PICK e : e = RunningCount(h) - l[h]
      OBVIOUS
    <2>2. IF h \in S /\ gstate[h] = "up" /\ e > 0
          THEN victims'[h] >= victims[h] /\ victims'[h] <= Least(live[h], victims[h] + e)
          ELSE victims'[h] = victims[h]
      BY <2>1 DEF SelTasksToKill
    <2>3. victims[h] \in Nat /\ live[h] \in Nat /\ victims[h] <= live[h] /\ victims'[h] \in Nat
      BY <1>1, <1>2, <1>3
    <2>4. CASE h \in S /\ gstate[h] = "up" /\ e > 0
      <3>1. e \in Int
        BY <2>1, GroupsAssumption DEF RunningCount, SeatInv, TypeOK, GrpTypeOK, Limits
      <3>. QED
        BY <2>2, <2>3, <2>4, <3>1 DEF Least
    <2>5. CASE ~(h \in S /\ gstate[h] = "up" /\ e > 0)
      BY <2>2, <2>3, <2>5
    <2>. QED
      BY <2>4, <2>5
  <1>. QED
    BY <1>3, <1>4

\* What the scheduler knows of a connection.
LEMMA ConnQueued ==
    ASSUME SeatInv, NEW c \in Conns
    PROVE  /\ Queued(Queues(c)) /\ Members(Queues(c)) \subseteq Groups
           /\ Queues(c).rdy = rdy[c] /\ Queues(c).wai = wai[c] /\ Queues(c).lim = lim
           /\ rdy[c] \in Seq(Groups) /\ wai[c] \in Seq(Groups) /\ lim \in Limits
           /\ Once(rdy[c]) /\ Once(wai[c]) /\ ToSet(rdy[c]) \cap ToSet(wai[c]) = {}
           /\ Members(Queues(c)) = ToSet(rdy[c]) \cup ToSet(wai[c])
           /\ \A g \in ToSet(wai[c]) : gstate[g] = "up" => lim[g] = 0
           /\ \A g \in Members(Queues(c)) : ConnOf[g] = c /\ creator[g] = "ok"
           /\ ~Connected(c) \/ ~scheduled => rdy[c] = <<>> /\ wai[c] = <<>>
  <1>1. ConnFacts(c)
    BY DEF SeatInv
  <1>2. Queues(c) = [rdy |-> rdy[c], wai |-> wai[c], lim |-> lim]
    BY DEF Queues
  <1>3. /\ Queues(c).rdy = rdy[c] /\ Queues(c).wai = wai[c] /\ Queues(c).lim = lim
        /\ Members(Queues(c)) = ToSet(rdy[c]) \cup ToSet(wai[c])
    BY <1>2 DEF Members
  <1>4. rdy[c] \in Seq(Groups) /\ wai[c] \in Seq(Groups) /\ lim \in Limits
    BY DEF SeatInv, TypeOK, GrpTypeOK, Limits
  <1>. QED
    BY <1>1, <1>3, <1>4, ListGroups DEF ConnFacts, Queued

\* Lists with limits make up what the scheduler knows of a connection.
LEMMA QueuedRecord ==
    ASSUME NEW r \in Seq(Groups), NEW w \in Seq(Groups), NEW l \in Limits,
           Once(r), Once(w), ToSet(r) \cap ToSet(w) = {},
           \A g \in ToSet(w) : gstate[g] = "up" => l[g] = 0
    PROVE  /\ Queued([rdy |-> r, wai |-> w, lim |-> l])
           /\ Members([rdy |-> r, wai |-> w, lim |-> l]) = ToSet(r) \cup ToSet(w)
  <1>1. PICK q : q = [rdy |-> r, wai |-> w, lim |-> l]
    OBVIOUS
  <1>2. q.rdy = r /\ q.wai = w /\ q.lim = l
    BY <1>1
  <1>3. q \in QueueType
    BY <1>1 DEF QueueType
  <1>. QED
    BY <1>1, <1>2, <1>3 DEF Queued, Members

\* The last element, and the first one, leave a list.
LEMMA DropLast ==
    ASSUME NEW A, NEW s \in Seq(A), Once(s), Len(s) > 0
    PROVE  /\ SubSeq(s, 1, Len(s) - 1) \in Seq(A) /\ Once(SubSeq(s, 1, Len(s) - 1))
           /\ ToSet(SubSeq(s, 1, Len(s) - 1)) = ToSet(s) \ {s[Len(s)]}
  <1>1. PICK n \in Nat : n = Len(s)
    OBVIOUS
  <1>2. n - 1 \in 0..n /\ n > 0
    BY <1>1
  <1>3. PICK a : a = SubSeq(s, 1, n - 1)
    OBVIOUS
  <1>4. PICK b : b = SubSeq(s, n - 1 + 1, n)
    OBVIOUS
  <1>5. Parts(A, s, n - 1, a, b)
    BY <1>1, <1>2, <1>3, <1>4, CutList
  <1>6. b \in Seq(A) /\ Len(b) = 1 /\ b[1] = s[n]
    <2>1. b \in Seq(A) /\ Len(b) = n - (n - 1) /\ \A i \in 1..(n - (n - 1)) : b[i] = s[n - 1 + i]
      BY <1>1, <1>5 DEF Parts
    <2>2. n - (n - 1) = 1 /\ n - 1 + 1 = n
      BY <1>2
    <2>. QED
      BY <2>1, <2>2
  <1>7. ToSet(b) = {s[n]}
    BY <1>6 DEF ToSet
  <1>. QED
    BY <1>1, <1>3, <1>5, <1>7 DEF Parts

\* A list without its first element.
LEMMA DropFirst ==
    ASSUME NEW A, NEW s \in Seq(A), Once(s), Len(s) > 0
    PROVE  Tail(s) \in Seq(A) /\ Once(Tail(s)) /\ ToSet(Tail(s)) = ToSet(s) \ {s[1]}
  <1>1. PICK n \in Nat : n = Len(s)
    OBVIOUS
  <1>2. 1 \in 0..n /\ n > 0
    BY <1>1
  <1>3. PICK a : a = SubSeq(s, 1, 1)
    OBVIOUS
  <1>4. PICK b : b = SubSeq(s, 1 + 1, n)
    OBVIOUS
  <1>5. Parts(A, s, 1, a, b)
    BY <1>1, <1>2, <1>3, <1>4, CutList
  <1>6. ToSet(a) = {s[1]}
    <2>1. a \in Seq(A) /\ Len(a) = 1 /\ a[1] = s[1]
      BY <1>5 DEF Parts
    <2>. QED
      BY <2>1 DEF ToSet
  <1>7. Tail(s) = b
    <2>1. PICK t : t = Tail(s)
      OBVIOUS
    <2>2. t \in Seq(A) /\ Len(t) = n - 1 /\ \A i \in 1..(n - 1) : t[i] = s[i + 1]
      BY <1>1, <1>2, <2>1
    <2>3. b \in Seq(A) /\ Len(b) = n - 1 /\ \A i \in 1..(n - 1) : b[i] = s[1 + i]
      BY <1>1, <1>5 DEF Parts
    <2>4. \A i \in 1..(n - 1) : t[i] = b[i]
      BY <2>2, <2>3
    <2>. QED
      BY <2>1, <2>2, <2>3, <2>4
  <1>. QED
    BY <1>5, <1>6, <1>7 DEF Parts

\* The walks over the lists turn them: nobody gets or loses a seat.
LEMMA AARKeeps ==
    ASSUME SeatInv, GetNextTaskGrpAAR
    PROVE  SeatInv' /\ \A d \in Conns : Seats(d)' = Seats(d) /\ Queuing(d)' = Queuing(d)
  <1>1. /\ aar > 0 /\ scheduled /\ swap = {} /\ aar' = aar - 1
        /\ UNCHANGED <<gstate, lim, que, live, done, victims, noSched>>
        /\ UNCHANGED <<scheduled, inMap, creator, remover, closed, wai, slots, swap, occ, requeue,
                       submits, resized>>
    BY DEF GetNextTaskGrpAAR, Unlocked, lifeVars
  <1>2. PICK T : T = {c \in Conns : ToSet(rdy[c]) \cap Runnable # {}}
    OBVIOUS
  <1>3. PICK i : i = FirstIn(conns, T)
    OBVIOUS
  <1>4. IF i = 0 THEN UNCHANGED <<conns, rdy, calls>>
        ELSE /\ conns' = Turn(conns, i)
             /\ rdy' = [rdy EXCEPT ![conns[i]] = Turn(@, FirstIn(rdy[conns[i]], Runnable))]
             /\ calls' = [calls EXCEPT ![rdy[conns[i]][FirstIn(rdy[conns[i]], Runnable)]] = @ + 1]
    BY <1>2, <1>3 DEF GetNextTaskGrpAAR
  <1>5. conns \in Seq(Conns) /\ Once(conns) /\ calls \in [Groups -> Nat] /\ aar \in Nat
    BY DEF SeatInv, TypeOK, GrpTypeOK
  <1>6. aar' \in Nat
    BY <1>1, <1>5
  <1>7. \A h \in Groups : GrpFacts(h)'
    BY <1>1, GrpSame DEF SeatInv, GrpFacts
  <1>8. CASE i = 0
    <2>1. Quiet /\ calls' = calls
      BY <1>1, <1>4, <1>8 DEF Quiet
    <2>2. TypeOK'
      BY <1>1, <1>6, <2>1 DEF SeatInv, TypeOK, GrpTypeOK, Quiet
    <2>3. \A d \in Conns : Seats(d)' = Seats(d) /\ Queuing(d)' = Queuing(d)
      BY <2>1 DEF Quiet, Seats, Queuing, Ready, Waiting
    <2>. QED
      BY <1>7, <2>1, <2>2, <2>3, QuietKeeps DEF SeatInv
  <1>9. CASE i # 0
    <2>1. i \in DOMAIN conns /\ conns[i] \in T /\ i \in 0..Len(conns)
      BY <1>3, <1>5, <1>9, FirstInSpec
    <2>2. PICK c \in Conns : c = conns[i]
      BY <1>2, <2>1
    <2>3. PICK j : j = FirstIn(rdy[c], Runnable)
      OBVIOUS
    <2>4. c \in ToSet(conns)
      BY <2>1, <2>2 DEF ToSet
    <2>5. /\ Members(Queues(c)) \subseteq Groups
          /\ rdy[c] \in Seq(Groups) /\ wai[c] \in Seq(Groups) /\ lim \in Limits
          /\ Once(rdy[c]) /\ Once(wai[c]) /\ ToSet(rdy[c]) \cap ToSet(wai[c]) = {}
          /\ Members(Queues(c)) = ToSet(rdy[c]) \cup ToSet(wai[c])
          /\ \A g \in ToSet(wai[c]) : gstate[g] = "up" => lim[g] = 0
          /\ \A g \in Members(Queues(c)) : ConnOf[g] = c /\ creator[g] = "ok"
      BY ConnQueued
    <2>6. ToSet(rdy[c]) \cap Runnable # {}
      BY <1>2, <2>1, <2>2
    <2>7. j \in DOMAIN rdy[c] /\ j \in 0..Len(rdy[c]) /\ rdy[c][j] \in Groups
      BY <2>3, <2>5, <2>6, FirstInSpec
    <2>8. /\ conns' = Turn(conns, i) /\ rdy' = [rdy EXCEPT ![c] = Turn(@, j)]
          /\ calls' = [calls EXCEPT ![rdy[c][j]] = @ + 1]
      BY <1>4, <1>9, <2>2, <2>3
    <2>9. conns' \in Seq(Conns) /\ Once(conns') /\ ToSet(conns') = ToSet(conns)
      BY <1>5, <2>1, <2>8, TurnList
    <2>10. PICK r : r = Turn(rdy[c], j)
      OBVIOUS
    <2>11. r \in Seq(Groups) /\ ToSet(r) = ToSet(rdy[c]) /\ Once(r)
      BY <2>5, <2>7, <2>10, TurnList
    <2>12. PICK p : p = [rdy |-> r, wai |-> wai[c], lim |-> lim]
      OBVIOUS
    <2>13. Queued(p) /\ Members(p) = ToSet(r) \cup ToSet(wai[c])
      BY <2>5, <2>11, <2>12, QueuedRecord
    <2>14. SetQueues(c, p)
      <3>1. wai \in [Conns -> Seq(Groups)] /\ rdy \in [Conns -> Seq(Groups)]
        BY DEF SeatInv, TypeOK
      <3>2. p.rdy = r /\ p.wai = wai[c] /\ p.lim = lim
        BY <2>12
      <3>3. rdy' = [rdy EXCEPT ![c] = r]
        BY <2>8, <2>10
      <3>4. wai' = [wai EXCEPT ![c] = wai[c]]
        BY <1>1, <3>1
      <3>. QED
        BY <1>1, <3>2, <3>3, <3>4 DEF SetQueues
    <2>15. \A d \in Conns : Connected(d)' <=> Connected(d)
      BY <2>9 DEF Connected
    <2>16. /\ \A d \in Conns : ConnFacts(d)'
           /\ Members(Queues(c))' = Members(p)
           /\ \A d \in Conns : d # c => Members(Queues(d))' = Members(Queues(d))
           /\ rdy' \in [Conns -> Seq(Groups)] /\ wai' \in [Conns -> Seq(Groups)]
           /\ lim' \in Limits
      <3>1. Connected(c)'
        BY <2>4, <2>15 DEF Connected
      <3>2. \A g \in Members(p) : ConnOf[g] = c /\ creator'[g] = "ok"
        BY <1>1, <2>5, <2>11, <2>13
      <3>. QED
        BY <1>1, <2>13, <2>14, <2>15, <3>1, <3>2, DealLists
    <2>17. calls' \in [Groups -> Nat]
      BY <1>5, <2>7, <2>8
    <2>18. TypeOK'
      BY <1>1, <1>6, <2>9, <2>16, <2>17 DEF SeatInv, TypeOK, GrpTypeOK
    <2>19. SwapFacts'
      BY <1>1 DEF SwapFacts
    <2>20. \A d \in Conns : Members(Queues(d))' = Members(Queues(d))
      BY <2>5, <2>11, <2>13, <2>16
    <2>21. KnownFacts'
      <3>1. \A d \in Conns : Listed(d)' = Listed(d)
        BY <1>1, <2>20 DEF Listed, Ready, Waiting, Swapped, Members, Queues
      <3>2. \A h \in Groups : ConnOf[h] \in Conns
        BY SchedAssumption
      <3>3. inMap \subseteq Groups
        BY DEF SeatInv, TypeOK
      <3>. QED
        BY <1>1, <3>1, <3>2, <3>3 DEF KnownFacts, SeatInv
    <2>22. ASSUME NEW d \in Conns PROVE Seats(d)' = Seats(d) /\ Queuing(d)' = Queuing(d)
      <3>1. rdy'[c] = r /\ (d # c => rdy'[d] = rdy[d]) /\ wai' = wai
        <4>1. rdy \in [Conns -> Seq(Groups)]
          BY DEF SeatInv, TypeOK
        <4>. QED
          BY <1>1, <2>8, <2>10, <4>1
      <3>2. ToSet(rdy'[d]) = ToSet(rdy[d])
        BY <2>11, <3>1
      <3>. QED
        BY <1>1, <3>1, <3>2 DEF Seats, Queuing, Ready, Waiting
    <2>. QED
      BY <1>7, <2>9, <2>16, <2>18, <2>19, <2>21, <2>22 DEF SeatInv
  <1>. QED
    BY <1>8, <1>9

\* GetNextTaskGrpOCC turns the lists or takes the two groups of an exchange off them.
LEMMA OCCKeeps ==
    ASSUME SeatInv, GetNextTaskGrpOCC
    PROVE  SeatInv' /\ \A d \in Conns : Seats(d)' = Seats(d) /\ Queuing(d)' = Queuing(d)
  <1>1. /\ occ > 0 /\ scheduled /\ swap = {} /\ occ' = occ - 1
        /\ UNCHANGED <<gstate, lim, que, live, done, victims, noSched>>
        /\ UNCHANGED <<scheduled, inMap, creator, remover, closed, slots, aar, requeue,
                       submits, resized>>
    BY DEF GetNextTaskGrpOCC, Unlocked, lifeVars
  <1>2. PICK T : T = {c \in Conns : ToSet(rdy[c]) \cap StopsAt(c) # {}}
    OBVIOUS
  <1>3. PICK i : i = FirstIn(conns, T)
    OBVIOUS
  <1>5. conns \in Seq(Conns) /\ Once(conns) /\ calls \in [Groups -> Nat] /\ occ \in Nat
    BY DEF SeatInv, TypeOK, GrpTypeOK
  <1>6. occ' \in Nat
    BY <1>1, <1>5
  <1>7. \A h \in Groups : GrpFacts(h)'
    BY <1>1, GrpSame DEF SeatInv, GrpFacts
  <1>8. CASE i = 0
    <2>1. Quiet /\ calls' = calls
      BY <1>1, <1>2, <1>3, <1>8 DEF Quiet, GetNextTaskGrpOCC
    <2>2. TypeOK'
      BY <1>1, <1>6, <2>1 DEF SeatInv, TypeOK, GrpTypeOK, Quiet
    <2>3. \A d \in Conns : Seats(d)' = Seats(d) /\ Queuing(d)' = Queuing(d)
      BY <2>1 DEF Quiet, Seats, Queuing, Ready, Waiting
    <2>. QED
      BY <1>7, <2>1, <2>2, <2>3, QuietKeeps DEF SeatInv
  <1>9. CASE i # 0
    <2>1. i \in DOMAIN conns /\ conns[i] \in T /\ i \in 0..Len(conns)
      BY <1>3, <1>5, <1>9, FirstInSpec
    <2>2. PICK c \in Conns : c = conns[i]
      BY <1>2, <2>1
    <2>3. PICK j : j = FirstIn(rdy[c], StopsAt(c))
      OBVIOUS
    <2>21. PICK k : k = FirstIn(wai[c], Busy)
      OBVIOUS
    <2>4. c \in ToSet(conns)
      BY <2>1, <2>2 DEF ToSet
    <2>5. /\ Members(Queues(c)) \subseteq Groups
          /\ rdy[c] \in Seq(Groups) /\ wai[c] \in Seq(Groups) /\ lim \in Limits
          /\ Once(rdy[c]) /\ Once(wai[c]) /\ ToSet(rdy[c]) \cap ToSet(wai[c]) = {}
          /\ Members(Queues(c)) = ToSet(rdy[c]) \cup ToSet(wai[c])
          /\ \A g \in ToSet(wai[c]) : gstate[g] = "up" => lim[g] = 0
          /\ \A g \in Members(Queues(c)) : ConnOf[g] = c /\ creator[g] = "ok"
      BY ConnQueued
    <2>6. ToSet(rdy[c]) \cap StopsAt(c) # {}
      BY <1>2, <2>1, <2>2
    <2>7. /\ j \in DOMAIN rdy[c] /\ j \in 0..Len(rdy[c]) /\ rdy[c][j] \in Groups
          /\ rdy[c][j] \in ToSet(rdy[c]) /\ j \in 1..Len(rdy[c])
      <3>1. j \in DOMAIN rdy[c] /\ j \in 0..Len(rdy[c])
        BY <2>3, <2>5, <2>6, FirstInSpec
      <3>. QED
        BY <2>5, <3>1 DEF ToSet
    <2>8. /\ conns' = Turn(conns, i)
          /\ IF k = 0
             THEN /\ rdy' = [rdy EXCEPT ![c] = Turn(@, j)]
                  /\ calls' = [calls EXCEPT ![rdy[c][j]] = @ + 1]
                  /\ UNCHANGED <<wai, swap>>
             ELSE /\ rdy' = [rdy EXCEPT ![c] = SubSeq(Turn(@, j), 1, Len(@) - 1)]
                  /\ wai' = [wai EXCEPT ![c] = Tail(Turn(@, k - 1))]
                  /\ swap' = {<<c, rdy[c][j], wai[c][k]>>}
                  /\ UNCHANGED calls
      BY <1>2, <1>3, <1>9, <2>2, <2>3, <2>21, Zenon DEF GetNextTaskGrpOCC
    <2>9. conns' \in Seq(Conns) /\ Once(conns') /\ ToSet(conns') = ToSet(conns)
      BY <1>5, <2>1, <2>8, TurnList
    <2>10. PICK t : t = Turn(rdy[c], j)
      OBVIOUS
    <2>11. /\ t \in Seq(Groups) /\ ToSet(t) = ToSet(rdy[c]) /\ Once(t)
           /\ Len(t) = Len(rdy[c]) /\ t[Len(t)] = rdy[c][j] /\ Len(t) > 0
      BY <2>5, <2>7, <2>10, TurnList
    <2>12. wai \in [Conns -> Seq(Groups)] /\ rdy \in [Conns -> Seq(Groups)]
      BY DEF SeatInv, TypeOK
    <2>15. (\A d \in Conns : Connected(d)' <=> Connected(d)) /\ Connected(c)'
      BY <2>4, <2>9 DEF Connected
    <2>16. \A h \in Groups : ConnOf[h] \in Conns
      BY SchedAssumption
    <2>17. inMap \subseteq Groups
      BY DEF SeatInv, TypeOK
    <2>18. CASE k = 0
      <3>1. PICK p : p = [rdy |-> t, wai |-> wai[c], lim |-> lim]
        OBVIOUS
      <3>2. Queued(p) /\ Members(p) = ToSet(t) \cup ToSet(wai[c])
        BY <2>5, <2>11, <3>1, QueuedRecord
      <3>3. SetQueues(c, p)
        <4>1. p.rdy = t /\ p.wai = wai[c] /\ p.lim = lim
          BY <3>1
        <4>2. rdy' = [rdy EXCEPT ![c] = t]
          BY <2>8, <2>10, <2>18
        <4>3. wai' = [wai EXCEPT ![c] = wai[c]]
          BY <2>8, <2>12, <2>18
        <4>. QED
          BY <1>1, <4>1, <4>2, <4>3 DEF SetQueues
      <3>4. /\ \A d \in Conns : ConnFacts(d)'
            /\ Members(Queues(c))' = Members(p)
            /\ \A d \in Conns : d # c => Members(Queues(d))' = Members(Queues(d))
            /\ rdy' \in [Conns -> Seq(Groups)] /\ wai' \in [Conns -> Seq(Groups)]
            /\ lim' \in Limits
        <4>1. \A g \in Members(p) : ConnOf[g] = c /\ creator'[g] = "ok"
          BY <1>1, <2>5, <2>11, <3>2
        <4>. QED
          BY <1>1, <2>15, <3>2, <3>3, <4>1, DealLists
      <3>5. calls' \in [Groups -> Nat]
        BY <1>5, <2>7, <2>8, <2>18
      <3>6. TypeOK'
        BY <1>1, <1>6, <2>8, <2>9, <2>18, <3>4, <3>5 DEF SeatInv, TypeOK, GrpTypeOK
      <3>7. SwapFacts'
        BY <1>1, <2>8, <2>18 DEF SwapFacts
      <3>8. \A d \in Conns : Members(Queues(d))' = Members(Queues(d))
        BY <2>5, <2>11, <3>2, <3>4
      <3>9. \A d \in Conns : Listed(d)' = Listed(d)
        BY <2>8, <2>18, <3>8 DEF Listed, Ready, Waiting, Swapped, Members, Queues
      <3>10. KnownFacts'
        BY <1>1, <2>16, <2>17, <3>9 DEF KnownFacts, SeatInv
      <3>11. ASSUME NEW d \in Conns PROVE Seats(d)' = Seats(d) /\ Queuing(d)' = Queuing(d)
        <4>1. rdy'[c] = t /\ (d # c => rdy'[d] = rdy[d]) /\ wai' = wai
          BY <2>8, <2>10, <2>12, <2>18
        <4>2. ToSet(rdy'[d]) = ToSet(rdy[d])
          BY <2>11, <4>1
        <4>. QED
          BY <2>8, <2>18, <4>1, <4>2 DEF Seats, Queuing, Ready, Waiting
      <3>. QED
        BY <1>7, <2>9, <3>4, <3>6, <3>7, <3>10, <3>11 DEF SeatInv
    <2>19. CASE k # 0
      <3>0. k \in DOMAIN wai[c] /\ k - 1 \in 0..Len(wai[c]) /\ k - 1 < Len(wai[c]) /\ k - 1 + 1 = k
        BY <2>5, <2>21, <2>19, FirstInSpec
      <3>1. PICK g : g = rdy[c][j]
        OBVIOUS
      <3>2. PICK w : w = wai[c][k]
        OBVIOUS
      <3>3. g \in ToSet(rdy[c]) /\ w \in ToSet(wai[c]) /\ g # w /\ g \in Groups /\ w \in Groups
        BY <2>5, <2>7, <3>0, <3>1, <3>2 DEF ToSet
      <3>4. PICK u : u = Turn(wai[c], k - 1)
        OBVIOUS
      <3>5. /\ u \in Seq(Groups) /\ ToSet(u) = ToSet(wai[c]) /\ Once(u) /\ Len(u) > 0 /\ u[1] = w
        BY <2>5, <3>0, <3>2, <3>4, TurnList
      <3>6. PICK a : a = SubSeq(t, 1, Len(t) - 1)
        OBVIOUS
      <3>7. PICK b : b = Tail(u)
        OBVIOUS
      <3>8. a \in Seq(Groups) /\ Once(a) /\ ToSet(a) = ToSet(rdy[c]) \ {g}
        BY <2>11, <3>1, <3>6, DropLast
      <3>9. b \in Seq(Groups) /\ Once(b) /\ ToSet(b) = ToSet(wai[c]) \ {w}
        BY <3>5, <3>7, DropFirst
      <3>10. PICK p : p = [rdy |-> a, wai |-> b, lim |-> lim]
        OBVIOUS
      <3>11. Queued(p) /\ Members(p) = ToSet(a) \cup ToSet(b)
        <4>1. ToSet(a) \cap ToSet(b) = {} /\ \A h \in ToSet(b) : gstate[h] = "up" => lim[h] = 0
          BY <2>5, <3>8, <3>9
        <4>. QED
          BY <2>5, <3>8, <3>9, <3>10, <4>1, QueuedRecord
      <3>12. SetQueues(c, p)
        <4>1. p.rdy = a /\ p.wai = b /\ p.lim = lim
          BY <3>10
        <4>2. rdy' = [rdy EXCEPT ![c] = a]
          BY <2>8, <2>10, <2>11, <2>19, <3>6
        <4>3. wai' = [wai EXCEPT ![c] = b]
          BY <2>8, <2>19, <3>4, <3>7
        <4>. QED
          BY <1>1, <4>1, <4>2, <4>3 DEF SetQueues
      <3>13. Members(p) = Members(Queues(c)) \ {g, w}
        BY <2>5, <3>3, <3>8, <3>9, <3>11
      <3>14. /\ \A d \in Conns : ConnFacts(d)'
             /\ Members(Queues(c))' = Members(p)
             /\ \A d \in Conns : d # c => Members(Queues(d))' = Members(Queues(d))
             /\ rdy' \in [Conns -> Seq(Groups)] /\ wai' \in [Conns -> Seq(Groups)]
             /\ lim' \in Limits
        <4>1. \A h \in Members(p) : ConnOf[h] = c /\ creator'[h] = "ok"
          BY <1>1, <2>5, <3>13
        <4>. QED
          BY <1>1, <2>15, <3>11, <3>12, <4>1, DealLists
      <3>15. PICK x : x = <<c, g, w>>
        OBVIOUS
      <3>16. swap' = {x} /\ x[1] = c /\ x[2] = g /\ x[3] = w /\ x \in Conns \X Groups \X Groups
        BY <2>8, <2>19, <3>1, <3>2, <3>3, <3>15
      <3>17. Cardinality(swap') <= 1
        <4>1. Cardinality({x}) = 1
          BY FS_Singleton
        <4>. QED
          BY <3>16, <4>1
      <3>18. TypeOK'
        BY <1>1, <1>6, <2>8, <2>9, <2>19, <3>14, <3>16, <3>17 DEF SeatInv, TypeOK, GrpTypeOK
      <3>19. SwapFacts'
        <4>1. /\ ConnOf[g] = c /\ creator[g] = "ok" /\ ConnOf[w] = c /\ creator[w] = "ok"
              /\ gstate[w] = "up" => lim[w] = 0
          BY <2>5, <3>3
        <4>2. g \notin Members(Queues(c))' /\ w \notin Members(Queues(c))'
          BY <3>13, <3>14
        <4>. QED
          BY <1>1, <2>15, <3>3, <3>16, <4>1, <4>2 DEF SwapFacts
      <3>20. ASSUME NEW d \in Conns PROVE Listed(d)' = Listed(d)
        <4>1. Listed(d) = Members(Queues(d))
          BY <1>1, ListedMembers, SwappedNone
        <4>2. Listed(d)' = Members(Queues(d))' \cup (IF c = d THEN {g, w} ELSE {})
          BY <3>16 DEF Listed, Ready, Waiting, Swapped, Members, Queues
        <4>3. {g, w} \subseteq Members(Queues(c))
          BY <2>5, <3>3
        <4>. QED
          BY <3>13, <3>14, <4>1, <4>2, <4>3
      <3>21. KnownFacts'
        BY <1>1, <2>16, <2>17, <3>20 DEF KnownFacts, SeatInv
      <3>22. ASSUME NEW d \in Conns PROVE Seats(d)' = Seats(d) /\ Queuing(d)' = Queuing(d)
        <4>1. /\ rdy'[c] = a /\ wai'[c] = b
              /\ d # c => rdy'[d] = rdy[d] /\ wai'[d] = wai[d]
          BY <2>12, <3>10, <3>12 DEF SetQueues
        <4>2. Seats(d) = ToSet(rdy[d]) /\ Queuing(d) = ToSet(wai[d])
          BY <1>1 DEF Seats, Queuing, Ready, Waiting
        <4>3. /\ Seats(d)' = ToSet(rdy'[d]) \cup (IF c = d THEN {g} ELSE {})
              /\ Queuing(d)' = ToSet(wai'[d]) \cup (IF c = d THEN {w} ELSE {})
          BY <3>16 DEF Seats, Queuing, Ready, Waiting
        <4>. QED
          BY <3>3, <3>8, <3>9, <4>1, <4>2, <4>3
      <3>. QED
        BY <1>7, <2>9, <3>14, <3>18, <3>19, <3>21, <3>22 DEF SeatInv
    <2>. QED
      BY <2>18, <2>19
  <1>. QED
    BY <1>8, <1>9

\* The exchange puts both groups back, each on the other list.
LEMMA ExchangeKeeps ==
    ASSUME SeatInv, Exchange
    PROVE  SeatInv'
  <1>1. PICK x \in swap :
          /\ swap' = {}
          /\ lim' = SetLimit(SetLimit(lim, {x[2]}, 0), {x[3]}, 1)
          /\ rdy' = [rdy EXCEPT ![x[1]] = Append(@, x[3])]
          /\ wai' = [wai EXCEPT ![x[1]] = Append(@, x[2])]
          /\ calls' = [calls EXCEPT ![x[3]] = @ + 1]
          /\ UNCHANGED <<gstate, que, live, done, victims, noSched>>
          /\ UNCHANGED <<scheduled, lifeVars, conns, slots, callVars, resized>>
    BY DEF Exchange
  <1>2. x[1] \in Conns /\ x[2] \in Groups /\ x[3] \in Groups
    BY DEF SeatInv, TypeOK
  <1>3. PICK c \in Conns : c = x[1]
    BY <1>2
  <1>4. PICK g \in Groups : g = x[2]
    BY <1>2
  <1>5. PICK w \in Groups : w = x[3]
    BY <1>2
  <1>6. /\ \A y \in swap : y = x
        /\ scheduled /\ Connected(c) /\ g # w
        /\ ConnOf[g] = c /\ creator[g] = "ok" /\ g \notin Members(Queues(c))
        /\ ConnOf[w] = c /\ creator[w] = "ok" /\ w \notin Members(Queues(c))
    BY <1>3, <1>4, <1>5 DEF SeatInv, SwapFacts
  <1>7. /\ Members(Queues(c)) \subseteq Groups
        /\ rdy[c] \in Seq(Groups) /\ wai[c] \in Seq(Groups) /\ lim \in Limits
        /\ Once(rdy[c]) /\ Once(wai[c]) /\ ToSet(rdy[c]) \cap ToSet(wai[c]) = {}
        /\ Members(Queues(c)) = ToSet(rdy[c]) \cup ToSet(wai[c])
        /\ \A h \in ToSet(wai[c]) : gstate[h] = "up" => lim[h] = 0
        /\ \A h \in Members(Queues(c)) : ConnOf[h] = c /\ creator[h] = "ok"
    BY ConnQueued
  <1>8. PICK l0 : l0 = SetLimit(lim, {g}, 0)
    OBVIOUS
  <1>9. /\ l0 \in Limits
        /\ \A h \in Groups : l0[h] =
             IF h \in {g} /\ gstate[h] = "up" THEN Least(0, MaxReqs) ELSE lim[h]
    BY <1>7, <1>8, SetLimitType
  <1>10. PICK l : l = SetLimit(l0, {w}, 1)
    OBVIOUS
  <1>11. /\ l \in Limits
         /\ \A h \in Groups : l[h] =
              IF h \in {w} /\ gstate[h] = "up" THEN Least(1, MaxReqs) ELSE l0[h]
    BY <1>9, <1>10, SetLimitType
  <1>12. /\ \A h \in Groups : h # g /\ h # w => l[h] = lim[h]
         /\ gstate[g] = "up" => l[g] = 0
    BY <1>6, <1>9, <1>11, GroupsAssumption DEF Least
  <1>13. PICK a : a = Append(rdy[c], w)
    OBVIOUS
  <1>14. PICK b : b = Append(wai[c], g)
    OBVIOUS
  <1>15. a \in Seq(Groups) /\ Once(a) /\ ToSet(a) = ToSet(rdy[c]) \cup {w}
    BY <1>6, <1>7, <1>13, AppendList
  <1>16. b \in Seq(Groups) /\ Once(b) /\ ToSet(b) = ToSet(wai[c]) \cup {g}
    BY <1>6, <1>7, <1>14, AppendList
  <1>17. PICK p : p = [rdy |-> a, wai |-> b, lim |-> l]
    OBVIOUS
  <1>18. Queued(p) /\ Members(p) = ToSet(a) \cup ToSet(b)
    <2>1. ToSet(a) \cap ToSet(b) = {}
      BY <1>6, <1>7, <1>15, <1>16
    <2>2. \A h \in ToSet(b) : gstate[h] = "up" => l[h] = 0
      BY <1>6, <1>7, <1>12, <1>16
    <2>. QED
      BY <1>11, <1>15, <1>16, <1>17, <2>1, <2>2, QueuedRecord
  <1>19. SetQueues(c, p)
    <2>1. p.rdy = a /\ p.wai = b /\ p.lim = l
      BY <1>17
    <2>2. rdy' = [rdy EXCEPT ![c] = a] /\ wai' = [wai EXCEPT ![c] = b] /\ lim' = l
      BY <1>1, <1>3, <1>4, <1>5, <1>8, <1>10, <1>13, <1>14
    <2>. QED
      BY <2>1, <2>2 DEF SetQueues
  <1>20. Members(p) = Members(Queues(c)) \cup {g, w}
    BY <1>7, <1>15, <1>16, <1>18
  <1>21. \A d \in Conns : Connected(d)' <=> Connected(d)
    BY <1>1 DEF Connected
  <1>22. lim' = l /\ UNCHANGED <<inMap, creator, remover, closed, aar, occ, requeue, submits>>
    BY <1>1, <1>4, <1>5, <1>8, <1>10 DEF lifeVars, callVars
  <1>23. /\ \A d \in Conns : ConnFacts(d)'
         /\ Members(Queues(c))' = Members(p)
         /\ \A d \in Conns : d # c => Members(Queues(d))' = Members(Queues(d))
         /\ rdy' \in [Conns -> Seq(Groups)] /\ wai' \in [Conns -> Seq(Groups)]
         /\ lim' \in Limits
    <2>1. \A h \in Members(p) : ConnOf[h] = c /\ creator'[h] = "ok"
      BY <1>6, <1>7, <1>20, <1>22
    <2>2. \A h \in Groups : ConnOf[h] # c => lim'[h] = lim[h]
      BY <1>6, <1>12, <1>22
    <2>. QED
      BY <1>1, <1>6, <1>18, <1>19, <1>21, <1>22, <2>1, <2>2, DealLists
  <1>24. calls' \in [Groups -> Nat]
    <2>1. calls \in [Groups -> Nat]
      BY DEF SeatInv, TypeOK, GrpTypeOK
    <2>. QED
      BY <1>1, <1>5, <2>1
  <1>25. swap' = {} /\ Cardinality(swap') = 0
    BY <1>1, FS_EmptySet
  <1>26. TypeOK'
    <2>1. GrpTypeOK'
      BY <1>1, <1>23, <1>24 DEF SeatInv, TypeOK, GrpTypeOK, Limits
    <2>2. swap' \subseteq (Conns \X Groups \X Groups) /\ Cardinality(swap') <= 1
      BY <1>25
    <2>. QED
      BY <1>1, <1>22, <1>23, <2>1, <2>2 DEF SeatInv, TypeOK
  <1>27. \A h \in Groups : GrpFacts(h)'
    <2>1. \A h \in Groups : victims'[h] <= live[h]
      BY <1>1 DEF SeatInv, GrpFacts
    <2>2. \A h \in Groups : creator'[h] # "ok" => creator[h] # "ok" /\ lim'[h] = lim[h]
      BY <1>6, <1>12, <1>22
    <2>. QED
      BY <1>1, <1>22, <2>1, <2>2, GrpSame
  <1>28. SwapFacts'
    BY <1>1 DEF SwapFacts
  <1>29. ASSUME NEW d \in Conns PROVE Listed(d)' = Listed(d)
    <2>1. swap = {x}
      BY <1>6
    <2>2. Listed(d) = Members(Queues(d)) \cup (IF c = d THEN {g, w} ELSE {})
      BY <1>3, <1>4, <1>5, <2>1, ListedMembers, SwappedOne
    <2>3. Listed(d)' = Members(Queues(d))'
      BY <1>1 DEF Listed, Ready, Waiting, Swapped, Members, Queues
    <2>. QED
      BY <1>20, <1>23, <2>2, <2>3
  <1>30. KnownFacts'
    <2>1. \A h \in Groups : ConnOf[h] \in Conns
      BY SchedAssumption
    <2>2. inMap \subseteq Groups
      BY DEF SeatInv, TypeOK
    <2>. QED
      BY <1>1, <1>22, <1>29, <2>1, <2>2 DEF KnownFacts, SeatInv
  <1>. QED
    BY <1>1, <1>23, <1>26, <1>27, <1>28, <1>30 DEF SeatInv

\* A list of a connection is replaced.
LEMMA ExceptWai ==
    ASSUME NEW r, NEW w, NEW l, NEW v, NEW q, q = [rdy |-> r, wai |-> w, lim |-> l]
    PROVE  q.wai = w /\ [q EXCEPT !.wai = v] = [rdy |-> r, wai |-> v, lim |-> l]
  OBVIOUS

\* The lists with another ready list.
LEMMA ExceptRdy ==
    ASSUME NEW r, NEW w, NEW l, NEW v, NEW q, q = [rdy |-> r, wai |-> w, lim |-> l]
    PROVE  q.rdy = r /\ [q EXCEPT !.rdy = v] = [rdy |-> v, wai |-> w, lim |-> l]
  OBVIOUS

\* The slots of a connection are dealt out anew among the groups on its lists,
\* with one group more or less.
LEMMA RedealKeeps ==
    ASSUME SeatInv, NEW c \in Conns, NEW q, NEW p, Queued(q), Redealt(q, p), SetQueues(c, p),
           \A g \in Members(q) : ConnOf[g] = c /\ creator'[g] = "ok",
           \A g \in Groups : q.lim[g] = lim[g],
           \A g \in Groups : creator[g] = "ok" => creator'[g] = "ok",
           \A g \in Groups : creator'[g] = "ok" \/ creator'[g] = creator[g],
           \A g \in Groups : ConnOf[g] # c => creator'[g] = creator[g],
           \A g \in Groups : creator[g] = "no" => creator'[g] = "no",
           creator' \in [Groups -> Creators],
           scheduled, swap = {}, Connected(c),
           UNCHANGED <<gstate, que, live, done, noSched, scheduled, conns, swap, closed, callVars>>,
           victims' \in [Groups -> Nat], \A h \in Groups : victims'[h] <= live[h],
           calls' \in [Groups -> Nat], slots' \in [Conns -> SlotCounts], resized' \in 0..MaxWork,
           inMap' \subseteq inMap, remover' \in [Groups -> Removers],
           \A h \in Groups : h \in inMap' \/ gstate[h] = "none" => remover'[h] = remover[h],
           \A h \in inMap' : ConnOf[h] = c /\ creator'[h] = "ok" => h \in Members(q)
    PROVE  SeatInv' /\ Listed(c)' = Members(q) /\ \A d \in Conns : d # c => Listed(d)' = Listed(d)
  <1>1. Queued(p) /\ Members(p) = Members(q) /\ \A g \in Groups : g \notin Members(q) => p.lim[g] = lim[g]
    BY DEF Redealt
  <1>2. lim' = p.lim
    BY DEF SetQueues
  <1>3. \A d \in Conns : Connected(d)' <=> Connected(d)
    BY DEF Connected
  <1>4. /\ \A d \in Conns : ConnFacts(d)'
        /\ Members(Queues(c))' = Members(p)
        /\ \A d \in Conns : d # c => Members(Queues(d))' = Members(Queues(d))
        /\ rdy' \in [Conns -> Seq(Groups)] /\ wai' \in [Conns -> Seq(Groups)]
        /\ lim' \in Limits
    <2>1. \A h \in Members(p) : ConnOf[h] = c /\ creator'[h] = "ok"
      BY <1>1
    <2>2. \A h \in Groups : ConnOf[h] # c => lim'[h] = lim[h]
      BY <1>1, <1>2
    <2>. QED
      BY <1>1, <1>3, <2>1, <2>2, DealLists
  <1>5. inMap' \subseteq Groups
    BY DEF SeatInv, TypeOK
  <1>6. TypeOK'
    BY <1>4, <1>5 DEF SeatInv, TypeOK, GrpTypeOK, Limits, callVars
  <1>7. ASSUME NEW h \in Groups PROVE GrpFacts(h)'
    <2>1. GrpFacts(h)
      BY DEF SeatInv
    <2>2. creator'[h] # "ok" => creator[h] # "ok" /\ lim'[h] = lim[h]
      BY <1>1, <1>2
    <2>. QED
      BY <2>1, <2>2 DEF GrpFacts, callVars
  <1>8. SwapFacts'
    BY DEF SwapFacts
  <1>9. \A d \in Conns : Listed(d)' = Members(Queues(d))' /\ Listed(d) = Members(Queues(d))
    BY DEF Listed, Ready, Waiting, Swapped, Members, Queues
  <1>10. Listed(c)' = Members(q) /\ \A d \in Conns : d # c => Listed(d)' = Listed(d)
    BY <1>1, <1>4, <1>9
  <1>11. KnownFacts'
    <2>. SUFFICES ASSUME NEW h \in inMap', creator'[h] = "ok" PROVE h \in Listed(ConnOf[h])'
      BY DEF KnownFacts
    <2>1. h \in Groups /\ ConnOf[h] \in Conns /\ h \in inMap
      BY <1>5, SchedAssumption
    <2>2. CASE ConnOf[h] = c
      BY <1>10, <2>2
    <2>3. CASE ConnOf[h] # c
      <3>1. creator[h] = "ok" => h \in Listed(ConnOf[h])
        BY <2>1 DEF SeatInv, KnownFacts
      <3>. QED
        BY <1>10, <2>1, <2>3, <3>1
    <2>. QED
      BY <2>2, <2>3
  <1>. QED
    BY <1>4, <1>6, <1>7, <1>8, <1>10, <1>11 DEF SeatInv

\* What AddTaskGrp does with the lists of a connection that is there: the group is
\* put on one of them (a), and the slots are dealt out again if there are enough (p).
AddOutcome(c, g, a, p) ==
    /\ Queued(a) /\ a.lim = lim /\ Members(a) = Members(Queues(c)) \cup {g}
    /\ Redealt(a, p) /\ SetQueues(c, p)
    /\ \/ /\ wai[c] # <<>> \/ slots[c] < TaskGrpCount(a)
          /\ p = a /\ a.rdy = rdy[c] /\ UNCHANGED victims
       \/ /\ wai[c] = <<>> /\ slots[c] >= TaskGrpCount(a)
          /\ p = Share(a, slots[c]) /\ SelTasksToKill(p.lim, ToSet(p.rdy))

\* AddTaskGrp has one of these outcomes.
LEMMA AddShape ==
    ASSUME SeatInv, NEW g \in Groups, NEW c \in Conns, c = ConnOf[g], AddTaskGrp(g), Connected(c)
    PROVE  \E a, p : AddOutcome(c, g, a, p)
  <1>1. creator[g] = "add" /\ scheduled
    BY DEF AddTaskGrp, Unlocked
  <1>2. slots[c] \in Nat
    BY SchedAssumption DEF SeatInv, TypeOK
  <1>3. PICK q : q = Queues(c)
    OBVIOUS
  <1>4. /\ q = [rdy |-> rdy[c], wai |-> wai[c], lim |-> lim]
        /\ rdy[c] \in Seq(Groups) /\ wai[c] \in Seq(Groups) /\ lim \in Limits
        /\ Once(rdy[c]) /\ Once(wai[c]) /\ ToSet(rdy[c]) \cap ToSet(wai[c]) = {}
        /\ Members(q) = ToSet(rdy[c]) \cup ToSet(wai[c])
        /\ \A h \in ToSet(wai[c]) : gstate[h] = "up" => lim[h] = 0
        /\ \A h \in Members(q) : ConnOf[h] = c /\ creator[h] = "ok"
    BY <1>3, ConnQueued DEF Queues
  <1>5. g \notin Members(q) /\ lim[g] = 0
    BY <1>1, <1>4 DEF SeatInv, GrpFacts
  <1>6. PICK m \in Nat : m = Len(rdy[c])
    BY <1>4
  <1>7. PICK k \in Nat : k = Len(wai[c])
    BY <1>4
  <1>8. TaskGrpCount(q) = m + k
    BY <1>3, <1>6, <1>7 DEF TaskGrpCount, Queues
  <1>9. (slots[c] \div (TaskGrpCount(q) + 1) = 0) <=> slots[c] < m + k + 1
    BY <1>2, <1>8, DivMod
  <1>10. CASE wai[c] # <<>> \/ slots[c] \div (TaskGrpCount(q) + 1) = 0
    <2>1. PICK w : w = Append(wai[c], g)
      OBVIOUS
    <2>2. PICK a : a = [rdy |-> rdy[c], wai |-> w, lim |-> lim]
      OBVIOUS
    <2>3. SetQueues(c, a) /\ UNCHANGED victims
      <3>1. [q EXCEPT !.wai = Append(@, g)] = a
        <4>1. q = [rdy |-> rdy[c], wai |-> wai[c], lim |-> lim]
          BY <1>4
        <4>2. q.wai = wai[c] /\ [q EXCEPT !.wai = w] = a
          BY <2>2, <4>1, ExceptWai
        <4>. QED
          BY <2>1, <4>2
      <3>2. SetQueues(c, [q EXCEPT !.wai = Append(@, g)]) /\ UNCHANGED victims
        BY <1>3, <1>10 DEF AddTaskGrp
      <3>. QED
        BY <3>1, <3>2
    <2>4. /\ w \in Seq(Groups) /\ Once(w) /\ ToSet(w) = ToSet(wai[c]) \cup {g}
          /\ Len(w) = k + 1
      BY <1>4, <1>5, <1>7, <2>1, AppendList
    <2>5. ToSet(rdy[c]) \cap ToSet(w) = {} /\ \A h \in ToSet(w) : gstate[h] = "up" => lim[h] = 0
      BY <1>4, <1>5, <2>4
    <2>6. Queued(a) /\ Members(a) = ToSet(rdy[c]) \cup ToSet(w)
      BY <1>4, <2>2, <2>4, <2>5, QueuedRecord
    <2>7. a.rdy = rdy[c] /\ a.wai = w /\ a.lim = lim
      BY <2>2
    <2>8. TaskGrpCount(a) = m + k + 1
      BY <1>6, <2>4, <2>7 DEF TaskGrpCount
    <2>9. Redealt(a, a)
      BY <2>6, RedealtSame
    <2>10. Members(a) = Members(q) \cup {g}
      BY <1>4, <2>4, <2>6
    <2>. QED
      BY <1>3, <1>9, <1>10, <2>3, <2>6, <2>7, <2>8, <2>9, <2>10 DEF AddOutcome
  <1>11. CASE ~(wai[c] # <<>> \/ slots[c] \div (TaskGrpCount(q) + 1) = 0)
    <2>1. PICK r : r = Append(rdy[c], g)
      OBVIOUS
    <2>2. PICK a : a = [rdy |-> r, wai |-> wai[c], lim |-> lim]
      OBVIOUS
    <2>3. PICK p : p = Share(a, slots[c])
      OBVIOUS
    <2>4. SetQueues(c, p) /\ SelTasksToKill(p.lim, ToSet(p.rdy))
      <3>1. [q EXCEPT !.rdy = Append(@, g)] = a
        <4>1. q = [rdy |-> rdy[c], wai |-> wai[c], lim |-> lim]
          BY <1>4
        <4>2. q.rdy = rdy[c] /\ [q EXCEPT !.rdy = r] = a
          BY <2>2, <4>1, ExceptRdy
        <4>. QED
          BY <2>1, <4>2
      <3>2. PICK b : b = Share([q EXCEPT !.rdy = Append(@, g)], slots[c])
        OBVIOUS
      <3>3. SetQueues(c, b) /\ SelTasksToKill(b.lim, ToSet(b.rdy))
        BY <1>3, <1>11, <3>2 DEF AddTaskGrp
      <3>. QED
        BY <2>3, <3>1, <3>2, <3>3
    <2>5. /\ r \in Seq(Groups) /\ Once(r) /\ ToSet(r) = ToSet(rdy[c]) \cup {g}
          /\ Len(r) = m + 1
      BY <1>4, <1>5, <1>6, <2>1, AppendList
    <2>6. ToSet(r) \cap ToSet(wai[c]) = {}
      BY <1>4, <1>5, <2>5
    <2>7. Queued(a) /\ Members(a) = ToSet(r) \cup ToSet(wai[c])
      BY <1>4, <2>2, <2>5, <2>6, QueuedRecord
    <2>8. a.rdy = r /\ a.wai = wai[c] /\ a.lim = lim
      BY <2>2
    <2>9. TaskGrpCount(a) = m + k + 1
      BY <1>7, <2>5, <2>8 DEF TaskGrpCount
    <2>10. Redealt(a, p)
      <3>1. TaskGrpCount(a) > 0
        BY <2>9
      <3>. QED
        BY <1>2, <2>3, <2>7, <3>1, ShareDealt
    <2>11. Members(a) = Members(q) \cup {g}
      BY <1>4, <2>5, <2>7
    <2>12. slots[c] >= TaskGrpCount(a)
      BY <1>2, <1>9, <1>11, <2>9
    <2>. QED
      BY <1>3, <1>11, <2>3, <2>4, <2>7, <2>8, <2>10, <2>11, <2>12 DEF AddOutcome
  <1>. QED
    BY <1>10, <1>11

\* AddTaskGrp puts the group on one list.
LEMMA AddKeeps ==
    ASSUME SeatInv, NEW g \in Groups, AddTaskGrp(g)
    PROVE  SeatInv'
  <1>1. PICK c \in Conns : c = ConnOf[g]
    BY SchedAssumption
  <1>2. /\ creator[g] = "add" /\ c \notin closed /\ scheduled /\ swap = {}
        /\ UNCHANGED <<gstate, que, live, done, noSched, calls>>
        /\ UNCHANGED <<scheduled, inMap, remover, closed, conns, slots, swap, callVars, resized>>
    BY <1>1 DEF AddTaskGrp, Unlocked
  <1>3. /\ creator \in [Groups -> Creators] /\ conns \in Seq(Conns) /\ Once(conns)
        /\ slots \in [Conns -> SlotCounts] /\ victims \in [Groups -> Nat] /\ calls \in [Groups -> Nat]
        /\ remover \in [Groups -> Removers] /\ resized \in 0..MaxWork
    BY DEF SeatInv, TypeOK, GrpTypeOK
  <1>4. CASE ~Connected(c)
    <2>1. creator' = [creator EXCEPT ![g] = "conn"] /\ UNCHANGED <<lim, victims, rdy, wai>>
      BY <1>1, <1>4 DEF AddTaskGrp
    <2>2. UNCHANGED grpVars
      BY <1>2, <2>1 DEF grpVars
    <2>. QED
      BY <1>2, <1>3, <2>1, <2>2, CreatorKeeps
  <1>5. CASE Connected(c)
    <2>1. creator' = [creator EXCEPT ![g] = "ok"]
      BY <1>1, <1>5 DEF AddTaskGrp
    <2>2. /\ creator' \in [Groups -> Creators] /\ creator'[g] = "ok"
          /\ \A h \in Groups : h # g => creator'[h] = creator[h]
      BY <1>3, <2>1 DEF Creators
    <2>3. PICK q : q = Queues(c)
      OBVIOUS
    <2>4. Members(q) \subseteq Groups /\ \A h \in Members(q) : ConnOf[h] = c /\ creator[h] = "ok"
      BY <2>3, ConnQueued
    <2>5. PICK a, p : AddOutcome(c, g, a, p)
      BY <1>1, <1>5, AddShape
    <2>6. /\ Queued(a) /\ a.lim = lim /\ Members(a) = Members(q) \cup {g}
          /\ Redealt(a, p) /\ SetQueues(c, p)
      BY <2>3, <2>5 DEF AddOutcome
    <2>7. \A h \in Members(a) : ConnOf[h] = c /\ creator'[h] = "ok"
      BY <1>1, <2>2, <2>4, <2>6
    <2>8. \A h \in inMap : ConnOf[h] = c /\ creator'[h] = "ok" => h \in Members(a)
      <3>1. Listed(c) = Members(q)
        BY <1>2, <2>3, ListedMembers, SwappedNone
      <3>2. inMap \subseteq Groups
        BY DEF SeatInv, TypeOK
      <3>. QED
        BY <1>2, <2>2, <2>6, <3>1, <3>2 DEF SeatInv, KnownFacts
    <2>9. victims' \in [Groups -> Nat] /\ \A h \in Groups : victims'[h] <= live[h]
      <3>1. CASE UNCHANGED victims
        BY <1>3, <3>1 DEF SeatInv, GrpFacts
      <3>2. CASE SelTasksToKill(p.lim, ToSet(p.rdy))
        <4>1. p.lim \in Limits
          BY <2>6 DEF Redealt, Queued, QueueType
        <4>. QED
          BY <3>2, <4>1, KillType
      <3>. QED
        BY <2>5, <3>1, <3>2 DEF AddOutcome
    <2>10. /\ \A h \in Groups : creator[h] = "ok" => creator'[h] = "ok"
           /\ \A h \in Groups : creator'[h] = "ok" \/ creator'[h] = creator[h]
           /\ \A h \in Groups : ConnOf[h] # c => creator'[h] = creator[h]
           /\ \A h \in Groups : creator[h] = "no" => creator'[h] = "no"
      BY <1>1, <1>2, <2>2
    <2>11. /\ inMap' \subseteq inMap /\ remover' \in [Groups -> Removers]
           /\ \A h \in Groups : h \in inMap' \/ gstate[h] = "none" => remover'[h] = remover[h]
           /\ calls' \in [Groups -> Nat] /\ slots' \in [Conns -> SlotCounts]
           /\ resized' \in 0..MaxWork
           /\ UNCHANGED <<gstate, que, live, done, noSched, scheduled, conns, swap, closed, callVars>>
           /\ \A h \in inMap' : ConnOf[h] = c /\ creator'[h] = "ok" => h \in Members(a)
      BY <1>2, <1>3, <2>8
    <2>. QED
      BY <1>2, <1>3, <1>5, <2>2, <2>6, <2>7, <2>9, <2>10, <2>11, RedealKeeps
  <1>. QED
    BY <1>4, <1>5

\* SetSlotCount moves groups between the lists.
LEMMA ResizeKeeps ==
    ASSUME SeatInv, NEW c \in Conns, NEW n \in SlotCounts, SetSlotCount(c, n)
    PROVE  SeatInv'
  <1>1. /\ MoreWork /\ resized' = resized + 1 /\ Connected(c) /\ scheduled /\ swap = {}
        /\ slots' = [slots EXCEPT ![c] = n]
        /\ UNCHANGED <<gstate, que, live, done, noSched, calls>>
        /\ UNCHANGED <<scheduled, inMap, creator, remover, closed, conns, swap, callVars>>
    BY DEF SetSlotCount, Unlocked, lifeVars
  <1>2. /\ creator \in [Groups -> Creators] /\ victims \in [Groups -> Nat] /\ calls \in [Groups -> Nat]
        /\ slots \in [Conns -> SlotCounts] /\ remover \in [Groups -> Removers]
    BY DEF SeatInv, TypeOK, GrpTypeOK
  <1>3. resized' \in 0..MaxWork /\ slots' \in [Conns -> SlotCounts]
    BY <1>1, <1>2, WorkLeft
  <1>4. PICK q : q = Queues(c)
    OBVIOUS
  <1>5. /\ Queued(q) /\ q.lim = lim
        /\ \A h \in Members(q) : ConnOf[h] = c /\ creator[h] = "ok"
    BY <1>4, ConnQueued
  <1>6. \A h \in inMap : ConnOf[h] = c /\ creator'[h] = "ok" => h \in Members(q)
    <2>1. Listed(c) = Members(q)
      BY <1>1, <1>4, ListedMembers, SwappedNone
    <2>. QED
      BY <1>1, <2>1 DEF SeatInv, KnownFacts
  <1>7. \E p : /\ Redealt(q, p) /\ SetQueues(c, p)
               /\ victims' \in [Groups -> Nat] /\ \A h \in Groups : victims'[h] <= live[h]
    <2>1. slots[c] \in Nat /\ n \in Nat /\ n <= 2 * slots[c]
      BY <1>2, SchedAssumption
    <2>2. CASE n < slots[c]
      <3>1. PICK p : p = IncSlotCount(q, slots[c], slots[c] - n)
        OBVIOUS
      <3>2. SetQueues(c, p) /\ UNCHANGED victims
        BY <1>4, <2>2, <3>1 DEF SetSlotCount
      <3>3. slots[c] - n \in Nat
        BY <2>1, <2>2
      <3>4. Redealt(q, p)
        BY <1>5, <2>1, <3>1, <3>3, IncSlotDealt
      <3>5. \A h \in Groups : victims'[h] <= live[h]
        BY <3>2 DEF SeatInv, GrpFacts
      <3>. QED
        BY <1>2, <3>2, <3>4, <3>5
    <2>3. CASE ~(n < slots[c])
      <3>1. PICK p : p = DecSlotCount(q, slots[c], n - slots[c])
        OBVIOUS
      <3>2. SetQueues(c, p) /\ SelTasksToKill(p.lim, ToSet(p.rdy \o p.wai))
        BY <1>4, <2>3, <3>1 DEF SetSlotCount
      <3>3. n - slots[c] \in Nat /\ slots[c] - (n - slots[c]) \in Nat
        BY <2>1, <2>3
      <3>4. Redealt(q, p)
        BY <1>5, <2>1, <3>1, <3>3, DecSlotDealt
      <3>5. p.lim \in Limits
        BY <3>4 DEF Redealt, Queued, QueueType
      <3>6. victims' \in [Groups -> Nat] /\ \A h \in Groups : victims'[h] <= live[h]
        BY <3>2, <3>5, KillType
      <3>. QED
        BY <3>2, <3>4, <3>6
    <2>. QED
      BY <2>2, <2>3
  <1>8. PICK p : /\ Redealt(q, p) /\ SetQueues(c, p)
                 /\ victims' \in [Groups -> Nat] /\ \A h \in Groups : victims'[h] <= live[h]
    BY <1>7
  <1>. QED
    BY <1>1, <1>2, <1>3, <1>5, <1>6, <1>8, RedealKeeps

\* What RemoveGrpRfcs does with the lists of a connection that is there: the group
\* leaves them (a), and if it had slots these are dealt out (p).
RemoveOutcome(c, g, a, p) ==
    /\ Queued(a) /\ a.lim = lim /\ Members(a) = Members(Queues(c)) \ {g}
    /\ Redealt(a, p) /\ SetQueues(c, p) /\ calls' \in [Groups -> Nat]
    /\ \/ /\ g \in ToSet(rdy[c]) /\ ToSet(a.rdy) = ToSet(rdy[c]) \ {g} /\ a.wai = wai[c]
          /\ Len(a.rdy) = Len(rdy[c]) - 1
          /\ p = ResetSlotCountRelease(a, slots[c])
       \/ g \notin ToSet(rdy[c]) /\ p = a /\ a.rdy = rdy[c]

\* RemoveGrpRfcs has one of these outcomes.
LEMMA RemoveShape ==
    ASSUME SeatInv, NEW g \in Groups, NEW c \in Conns, c = ConnOf[g], RemoveGrpRfcs(g),
           Connected(c), scheduled
    PROVE  \E a, p : RemoveOutcome(c, g, a, p)
  <1>1. /\ calls \in [Groups -> Nat] /\ slots[c] \in Nat
        /\ rdy \in [Conns -> Seq(Groups)] /\ wai \in [Conns -> Seq(Groups)]
    BY SchedAssumption DEF SeatInv, TypeOK, GrpTypeOK
  <1>2. PICK q : q = Queues(c)
    OBVIOUS
  <1>3. /\ q = [rdy |-> rdy[c], wai |-> wai[c], lim |-> lim]
        /\ rdy[c] \in Seq(Groups) /\ wai[c] \in Seq(Groups) /\ lim \in Limits
        /\ Once(rdy[c]) /\ Once(wai[c]) /\ ToSet(rdy[c]) \cap ToSet(wai[c]) = {}
        /\ Members(q) = ToSet(rdy[c]) \cup ToSet(wai[c])
        /\ \A h \in ToSet(wai[c]) : gstate[h] = "up" => lim[h] = 0
    BY <1>2, ConnQueued DEF Queues
  <1>4. CASE g \in ToSet(rdy[c])
    <2>1. PICK r : r = RemoveFirst(rdy[c], g)
      OBVIOUS
    <2>2. PICK a : a = [rdy |-> r, wai |-> wai[c], lim |-> lim]
      OBVIOUS
    <2>3. PICK p : p = ResetSlotCountRelease(a, slots[c])
      OBVIOUS
    <2>4. /\ SetQueues(c, p)
          /\ calls' = [h \in Groups |->
                IF h \in ToSet(p.rdy) /\ ~noSched[h] /\ que[h] > 0 /\ RunningCount(h) < p.lim[h]
                THEN calls[h] + 1 ELSE calls[h]]
      <3>1. [q EXCEPT !.rdy = RemoveFirst(@, g)] = a
        <4>1. q = [rdy |-> rdy[c], wai |-> wai[c], lim |-> lim]
          BY <1>3
        <4>2. q.rdy = rdy[c] /\ [q EXCEPT !.rdy = r] = a
          BY <2>2, <4>1, ExceptRdy
        <4>. QED
          BY <2>1, <4>2
      <3>2. PICK b : b = ResetSlotCountRelease([q EXCEPT !.rdy = RemoveFirst(@, g)], slots[c])
        OBVIOUS
      <3>3. /\ SetQueues(c, b)
            /\ calls' = [h \in Groups |->
                  IF h \in ToSet(b.rdy) /\ ~noSched[h] /\ que[h] > 0 /\ RunningCount(h) < b.lim[h]
                  THEN calls[h] + 1 ELSE calls[h]]
        BY <1>2, <1>4, <3>2 DEF RemoveGrpRfcs
      <3>. QED
        BY <2>3, <3>1, <3>2, <3>3
    <2>5. calls' \in [Groups -> Nat]
      BY <1>1, <2>4
    <2>6. /\ r \in Seq(Groups) /\ Once(r) /\ ToSet(r) = ToSet(rdy[c]) \ {g}
          /\ Len(r) = Len(rdy[c]) - 1
      BY <1>3, <1>4, <2>1, RemoveList
    <2>7. ToSet(r) \cap ToSet(wai[c]) = {}
      BY <1>3, <2>6
    <2>8. Queued(a) /\ Members(a) = ToSet(r) \cup ToSet(wai[c])
      BY <1>3, <2>2, <2>6, <2>7, QueuedRecord
    <2>9. Redealt(a, p)
      BY <1>1, <2>3, <2>8, ReleaseDealt
    <2>10. a.rdy = r /\ a.wai = wai[c] /\ a.lim = lim
      BY <2>2
    <2>11. Members(a) = Members(q) \ {g}
      BY <1>3, <1>4, <2>6, <2>8
    <2>. QED
      BY <1>2, <1>4, <2>3, <2>4, <2>5, <2>6, <2>8, <2>9, <2>10, <2>11 DEF RemoveOutcome
  <1>5. CASE g \notin ToSet(rdy[c])
    <2>1. PICK w : w = RemoveFirst(wai[c], g)
      OBVIOUS
    <2>2. PICK a : a = [rdy |-> rdy[c], wai |-> w, lim |-> lim]
      OBVIOUS
    <2>3. wai' = [wai EXCEPT ![c] = w] /\ UNCHANGED <<rdy, lim, calls>>
      BY <1>5, <2>1 DEF RemoveGrpRfcs
    <2>4. a.rdy = rdy[c] /\ a.wai = w /\ a.lim = lim
      BY <2>2
    <2>5. SetQueues(c, a)
      <3>1. rdy' = [rdy EXCEPT ![c] = rdy[c]]
        BY <1>1, <2>3
      <3>. QED
        BY <2>3, <2>4, <3>1 DEF SetQueues
    <2>6. w \in Seq(Groups) /\ Once(w) /\ ToSet(w) = ToSet(wai[c]) \ {g}
      BY <1>3, <2>1, RemoveList
    <2>7. ToSet(rdy[c]) \cap ToSet(w) = {} /\ \A h \in ToSet(w) : gstate[h] = "up" => lim[h] = 0
      BY <1>3, <2>6
    <2>8. Queued(a) /\ Members(a) = ToSet(rdy[c]) \cup ToSet(w)
      BY <1>3, <2>2, <2>6, <2>7, QueuedRecord
    <2>9. Redealt(a, a)
      BY <2>8, RedealtSame
    <2>10. Members(a) = Members(q) \ {g}
      BY <1>3, <1>5, <2>6, <2>8
    <2>. QED
      BY <1>1, <1>2, <1>5, <2>3, <2>4, <2>5, <2>8, <2>9, <2>10 DEF RemoveOutcome
  <1>. QED
    BY <1>4, <1>5

\* A group that leaves is on no list afterwards, and only its own connection's
\* slots are dealt out anew.
LEMMA RemoveKeeps ==
    ASSUME SeatInv, NEW g \in Groups, RemoveGrpRfcs(g)
    PROVE  SeatInv'
  <1>1. PICK c \in Conns : c = ConnOf[g]
    BY SchedAssumption
  <1>2. /\ g \in inMap /\ (scheduled => swap = {})
        /\ inMap' = inMap \ {g} /\ remover' = [remover EXCEPT ![g] = "cancel"]
        /\ UNCHANGED <<gstate, que, live, done, victims, noSched>>
        /\ UNCHANGED <<scheduled, creator, closed, conns, slots, swap, callVars, resized>>
    BY DEF RemoveGrpRfcs, Unlocked
  <1>3. /\ creator \in [Groups -> Creators] /\ victims \in [Groups -> Nat] /\ calls \in [Groups -> Nat]
        /\ slots \in [Conns -> SlotCounts] /\ remover \in [Groups -> Removers] /\ resized \in 0..MaxWork
        /\ rdy \in [Conns -> Seq(Groups)] /\ wai \in [Conns -> Seq(Groups)] /\ inMap \subseteq Groups
    BY DEF SeatInv, TypeOK, GrpTypeOK
  <1>4. /\ remover' \in [Groups -> Removers] /\ inMap' \subseteq inMap
        /\ \A h \in Groups : h # g => remover'[h] = remover[h]
        /\ gstate[g] = "up"
    BY <1>2, <1>3 DEF Removers, SeatInv, GrpFacts
  <1>5. \A h \in Groups : h \in inMap' \/ gstate[h] = "none" => remover'[h] = remover[h]
    BY <1>2, <1>4
  <1>6. PICK q : q = Queues(c)
    OBVIOUS
  <1>7. /\ q = [rdy |-> rdy[c], wai |-> wai[c], lim |-> lim]
        /\ Members(q) \subseteq Groups
        /\ rdy[c] \in Seq(Groups) /\ wai[c] \in Seq(Groups) /\ lim \in Limits
        /\ Once(rdy[c]) /\ Once(wai[c]) /\ ToSet(rdy[c]) \cap ToSet(wai[c]) = {}
        /\ Members(q) = ToSet(rdy[c]) \cup ToSet(wai[c])
        /\ \A h \in ToSet(wai[c]) : gstate[h] = "up" => lim[h] = 0
        /\ \A h \in Members(q) : ConnOf[h] = c /\ creator[h] = "ok"
        /\ ~Connected(c) \/ ~scheduled => rdy[c] = <<>> /\ wai[c] = <<>>
    BY <1>6, ConnQueued DEF Queues
  <1>8. ASSUME scheduled
        PROVE  \A h \in inMap' : ConnOf[h] = c /\ creator'[h] = "ok" => h \in Members(q) \ {g}
    <2>1. Listed(c) = Members(q)
      BY <1>2, <1>6, <1>8, ListedMembers, SwappedNone
    <2>. QED
      BY <1>2, <1>8, <2>1 DEF SeatInv, KnownFacts
  <1>9. CASE ~Connected(c) \/ ~scheduled
    <2>1. rdy[c] = <<>> /\ wai[c] = <<>>
      BY <1>7, <1>9
    <2>2. ToSet(<<>>) = {}
      BY DEF ToSet
    <2>3. g \notin ToSet(rdy[c]) /\ g \notin ToSet(wai[c])
      BY <2>1, <2>2
    <2>4. wai' = [wai EXCEPT ![c] = RemoveFirst(@, g)] /\ UNCHANGED <<rdy, lim, calls>>
      BY <1>1, <2>3 DEF RemoveGrpRfcs
    <2>5. PICK w : w = RemoveFirst(wai[c], g)
      OBVIOUS
    <2>6. w \in Seq(Groups) /\ Len(w) = 0
      <3>1. Len(wai[c]) = 0
        BY <2>1
      <3>. QED
        BY <1>7, <2>3, <2>5, <3>1, RemoveList
    <2>7. w = wai[c]
      BY <2>1, <2>6
    <2>8. wai' = wai
      BY <1>3, <2>4, <2>5, <2>7
    <2>9. TypeOK'
      BY <1>2, <1>4, <2>4, <2>8 DEF SeatInv, TypeOK, GrpTypeOK, callVars
    <2>10. ASSUME NEW h \in Groups PROVE GrpFacts(h)'
      BY <1>2, <1>4, <1>5, <2>4 DEF SeatInv, GrpFacts, callVars
    <2>11. (\A d \in Conns : ConnFacts(d)' /\ Listed(d)' = Listed(d)) /\ SwapFacts'
      <3>1. \A d \in Conns : Connected(d) => Connected(d)'
        BY <1>2 DEF Connected
      <3>. QED
        BY <1>2, <1>7, <2>4, <2>8, <3>1, ListsSame
    <2>12. KnownFacts' /\ Once(conns)'
      <3>1. \A h \in Groups : ConnOf[h] \in Conns
        BY SchedAssumption
      <3>. QED
        BY <1>2, <1>3, <2>11, <3>1 DEF KnownFacts, SeatInv
    <2>. QED
      BY <2>9, <2>10, <2>11, <2>12 DEF SeatInv
  <1>10. CASE Connected(c) /\ scheduled
    <2>0. \A h \in Groups : victims'[h] <= live[h]
      BY <1>2 DEF SeatInv, GrpFacts
    <2>1. PICK a, p : RemoveOutcome(c, g, a, p)
      BY <1>1, <1>10, RemoveShape
    <2>2. /\ Queued(a) /\ a.lim = lim /\ Members(a) = Members(q) \ {g}
          /\ Redealt(a, p) /\ SetQueues(c, p) /\ calls' \in [Groups -> Nat]
      BY <1>6, <2>1 DEF RemoveOutcome
    <2>3. \A h \in Members(a) : ConnOf[h] = c /\ creator'[h] = "ok"
      BY <1>2, <1>7, <2>2
    <2>. QED
      BY <1>2, <1>3, <1>4, <1>5, <1>8, <1>10, <2>0, <2>2, <2>3, RedealKeeps
  <1>. QED
    BY <1>9, <1>10

\* A connection that closes takes its lists with it.
LEMMA CloseKeeps ==
    ASSUME SeatInv, NEW c \in Conns, CloseConn(c)
    PROVE  SeatInv'
  <1>1. /\ scheduled /\ swap = {} /\ closed' = closed \cup {c}
        /\ conns' = RemoveFirst(conns, c)
        /\ rdy' = [rdy EXCEPT ![c] = <<>>] /\ wai' = [wai EXCEPT ![c] = <<>>]
        /\ UNCHANGED <<scheduled, creator, slots, swap, aar, occ, requeue, submits, resized>>
        /\ UNCHANGED <<gstate, lim, que, live, done, victims, noSched, calls>>
    BY DEF CloseConn, Unlocked, callVars, grpVars
  <1>2. PICK S : S = {g \in inMap : ConnOf[g] = c}
    OBVIOUS
  <1>3. inMap' = inMap \ S /\ remover' = [g \in Groups |-> IF g \in S THEN "cancel" ELSE remover[g]]
    BY <1>2 DEF CloseConn
  <1>4. /\ rdy \in [Conns -> Seq(Groups)] /\ wai \in [Conns -> Seq(Groups)]
        /\ conns \in Seq(Conns) /\ Once(conns) /\ inMap \subseteq Groups /\ lim \in Limits
        /\ remover \in [Groups -> Removers]
    BY DEF SeatInv, TypeOK, GrpTypeOK, Limits
  <1>5. conns' \in Seq(Conns) /\ Once(conns') /\ ToSet(conns') = ToSet(conns) \ {c}
    BY <1>1, <1>4, RemoveList
  <1>6. /\ rdy' \in [Conns -> Seq(Groups)] /\ wai' \in [Conns -> Seq(Groups)]
        /\ rdy'[c] = <<>> /\ wai'[c] = <<>>
        /\ \A d \in Conns : d # c => rdy'[d] = rdy[d] /\ wai'[d] = wai[d]
    <2>1. <<>> \in Seq(Groups)
      OBVIOUS
    <2>. QED
      BY <1>1, <1>4, <2>1
  <1>7. remover' \in [Groups -> Removers] /\ inMap' \subseteq Groups
    BY <1>3, <1>4 DEF Removers
  <1>8. TypeOK'
    BY <1>1, <1>5, <1>6, <1>7 DEF SeatInv, TypeOK, GrpTypeOK
  <1>9. ASSUME NEW h \in Groups PROVE GrpFacts(h)'
    <2>1. GrpFacts(h)
      BY DEF SeatInv
    <2>2. gstate[h] = "none" => h \notin inMap' /\ remover'[h] = "no"
      BY <1>2, <1>3, <2>1 DEF GrpFacts
    <2>3. h \in inMap' => gstate[h] = "up" /\ remover'[h] = "no" /\ ConnOf[h] \notin closed'
      BY <1>1, <1>2, <1>3, <2>1 DEF GrpFacts
    <2>. QED
      BY <1>1, <2>1, <2>2, <2>3 DEF GrpFacts
  <1>10. ConnFacts(c)'
    <2>1. ToSet(<<>>) = {} /\ Once(<<>>) /\ <<>> \in Seq(Groups)
      BY DEF ToSet, Once
    <2>2. Queues(c)' = [rdy |-> <<>>, wai |-> <<>>, lim |-> lim]
      BY <1>1, <1>6 DEF Queues
    <2>3. Queues(c)'.rdy = <<>> /\ Queues(c)'.wai = <<>>
      BY <2>2
    <2>4. Queued(Queues(c))'
      <3>1. Queues(c)' \in QueueType
        BY <1>4, <2>1, <2>2 DEF QueueType
      <3>. QED
        BY <2>1, <2>3, <3>1 DEF Queued
    <2>5. Members(Queues(c))' = {}
      BY <2>1, <2>3 DEF Members
    <2>. QED
      BY <1>6, <2>4, <2>5 DEF ConnFacts
  <1>11. ASSUME NEW d \in Conns, d # c PROVE ConnFacts(d)'
    <2>1. ConnFacts(d) /\ Queues(d)' = Queues(d)
      BY <1>1, <1>6, <1>11 DEF SeatInv, Queues
    <2>2. Connected(d)' <=> Connected(d)
      BY <1>5, <1>11 DEF Connected
    <2>. QED
      BY <1>1, <1>6, <1>11, <2>1, <2>2 DEF ConnFacts, Queued, Members
  <1>12. SwapFacts'
    BY <1>1 DEF SwapFacts
  <1>13. KnownFacts'
    <2>1. \A d \in Conns : d # c => Listed(d)' = Listed(d)
      BY <1>1, <1>6 DEF Listed, Ready, Waiting, Swapped
    <2>2. \A h \in Groups : ConnOf[h] \in Conns
      BY SchedAssumption
    <2>. QED
      BY <1>1, <1>2, <1>3, <1>4, <2>1, <2>2 DEF KnownFacts, SeatInv
  <1>. QED
    BY <1>5, <1>8, <1>9, <1>10, <1>11, <1>12, <1>13 DEF SeatInv

\* Nobody is listed at first.
LEMMA SeatInit == Init => SeatInv
  <1>. SUFFICES ASSUME Init PROVE SeatInv
    OBVIOUS
  <1>. USE DEF Init, GrpInit
  <1>0. MaxReqs \in Nat /\ MaxWork \in Nat
    BY GroupsAssumption, SchedAssumption
  <1>1. ToSet(<<>>) = {} /\ Once(<<>>) /\ <<>> \in Seq(Groups) /\ <<>> \in Seq(Conns)
    BY DEF ToSet, Once
  <1>2. TypeOK
    <2>1. Cardinality(swap) = 0 /\ 0 <= 1
      BY FS_EmptySet
    <2>2. GrpTypeOK
      BY <1>0 DEF GrpTypeOK
    <2>. QED
      BY <1>0, <1>1, <2>1, <2>2 DEF TypeOK, Creators, Removers
  <1>3. \A g \in Groups : GrpFacts(g)
    BY <1>0 DEF GrpFacts
  <1>4. ASSUME NEW c \in Conns PROVE ConnFacts(c)
    <2>1. Queues(c) = [rdy |-> <<>>, wai |-> <<>>, lim |-> lim]
      BY DEF Queues
    <2>2. Queues(c).rdy = <<>> /\ Queues(c).wai = <<>>
      BY <2>1
    <2>3. lim \in Limits
      BY <1>0 DEF Limits
    <2>4. Queues(c) \in QueueType
      BY <1>1, <2>1, <2>3 DEF QueueType
    <2>5. Queued(Queues(c)) /\ Members(Queues(c)) = {}
      BY <1>1, <2>2, <2>4 DEF Queued, Members
    <2>. QED
      BY <2>5 DEF ConnFacts
  <1>5. SwapFacts /\ Once(conns) /\ KnownFacts
    BY <1>1 DEF SwapFacts, KnownFacts
  <1>. QED
    BY <1>2, <1>3, <1>4, <1>5 DEF SeatInv

\* Every step keeps the lists in order.
LEMMA SeatStep == SeatInv /\ [Next]_vars => SeatInv'
  <1>. SUFFICES ASSUME SeatInv, [Next]_vars PROVE SeatInv'
    OBVIOUS
  <1>1. CASE UNCHANGED vars
    <2>1. Quiet /\ UNCHANGED <<que, live, done, victims, noSched, calls, remover, closed, slots,
                               aar, occ, requeue, submits, resized>>
      BY <1>1 DEF vars, grpVars, schedVars, lifeVars, listVars, callVars, Quiet
    <2>. QED
      BY <2>1, RequestTypes, RequestKeeps
  <1>2. CASE GetNextTaskGrpAAR
    BY <1>2, AARKeeps
  <1>3. CASE GetNextTaskGrpOCC
    BY <1>3, OCCKeeps
  <1>4. CASE Exchange
    BY <1>4, ExchangeKeeps
  <1>5. ASSUME NEW c \in Conns, CloseConn(c) PROVE SeatInv'
    BY <1>5, CloseKeeps
  <1>6. ASSUME NEW c \in Conns, NEW n \in SlotCounts, SetSlotCount(c, n) PROVE SeatInv'
    BY <1>6, ResizeKeeps
  <1>7. ASSUME NEW g \in Groups, CreateGrpRfc(g) PROVE SeatInv'
    BY <1>7, CreateKeeps
  <1>8. ASSUME NEW g \in Groups, RemoveGrpRfcs(g) PROVE SeatInv'
    BY <1>8, RemoveKeeps
  <1>9. ASSUME NEW g \in Groups, LifeStep(g) PROVE SeatInv'
    BY <1>9, AddKeeps, AddConnKeeps, FailsKeeps, CancelKeeps DEF LifeStep
  <1>10. ASSUME NEW g \in Groups, Submit(g) \/ AddAndRun(g) PROVE SeatInv'
    BY <1>10, SubmitKeeps
  <1>11. ASSUME NEW g \in Groups, RequestStep(g) PROVE SeatInv'
    BY <1>11, ChildKeeps, DeferredKeeps, RequeueKeeps DEF RequestStep
  <1>12. ASSUME NEW g \in Groups, GroupStep(g) PROVE SeatInv'
    BY <1>12, GroupStepKeeps
  <1>13. ASSUME NEW g \in Groups, LimitToRunning(g) PROVE SeatInv'
    BY <1>13, ToRunningKeeps
  <1>14. ASSUME NEW g \in Groups, NEW n \in 1..MaxReqs, RefreshReqLimit(g, n) PROVE SeatInv'
    BY <1>14, RefreshKeeps
  <1>. QED
    BY <1>1, <1>2, <1>3, <1>4, <1>5, <1>6, <1>7, <1>8, <1>9, <1>10, <1>11, <1>12, <1>13, <1>14 DEF Next

\* The invariant of the lists.
LEMMA SeatAlways == Spec => []SeatInv
  BY SeatInit, SeatStep, PTL DEF Spec

\* A ready group is seated, and so is the one that is about to lose its slot.
LEMMA SeatedGroups ==
    /\ \A c \in Conns : Ready(c) \subseteq Seated
    /\ \A x \in swap : x[2] \in Seated
  <1>1. \A x \in swap : x[2] \in Seated
    BY DEF Seated
  <1>2. \A c \in Conns : Ready(c) \subseteq Seated
    BY DEF Seated
  <1>. QED
    BY <1>1, <1>2

\* The groups that are listed: those on the lists and those being exchanged.
LEMMA SeatsFollow == SeatInv => SeatsKept
  <1>. SUFFICES ASSUME SeatInv PROVE SeatsKept
    OBVIOUS
  <1>1. ASSUME NEW c \in Conns
        PROVE  /\ Len(rdy[c]) + Len(wai[c]) + Cardinality(Swapped(c)) = Cardinality(Listed(c))
               /\ \A g \in Listed(c) : ConnOf[g] = c
    <2>1. PICK q : q = Queues(c)
      OBVIOUS
    <2>2. /\ Queued(q) /\ q.rdy = rdy[c] /\ q.wai = wai[c]
          /\ \A g \in Members(q) : ConnOf[g] = c
          /\ rdy[c] \in Seq(Groups) /\ wai[c] \in Seq(Groups)
      BY <2>1, ConnQueued
    <2>3. IsFiniteSet(Members(q)) /\ Cardinality(Members(q)) = Len(rdy[c]) + Len(wai[c])
      BY <2>2, MembersCount DEF TaskGrpCount
    <2>4. Listed(c) = Members(q) \cup Swapped(c)
      BY <2>1, ListedMembers
    <2>8. TaskGrpCount(q) \in Nat
      BY <2>2, QueueParts DEF Queued
    <2>5. PICK n \in Nat : n = Len(rdy[c]) + Len(wai[c])
      BY <2>2, <2>8, Zenon DEF TaskGrpCount
    <2>6. CASE Swapped(c) = {}
      <3>1. Cardinality(Swapped(c)) = 0
        BY <2>6, FS_EmptySet
      <3>2. Listed(c) = Members(q)
        BY <2>4, <2>6
      <3>. QED
        BY <2>2, <2>3, <2>5, <3>1, <3>2
    <2>7. CASE Swapped(c) # {}
      <3>1. PICK x \in swap : x[1] = c
        BY <2>7 DEF Swapped
      <3>2. /\ swap = {x} /\ x[2] # x[3]
            /\ ConnOf[x[2]] = c /\ x[2] \notin Members(q)
            /\ ConnOf[x[3]] = c /\ x[3] \notin Members(q)
        BY <2>1, <3>1 DEF SeatInv, SwapFacts
      <3>3. Swapped(c) = {x[2], x[3]}
        BY <3>1, <3>2, SwappedOne
      <3>4. Cardinality({x[2], x[3]}) = 2
        <4>1. IsFiniteSet({x[2]}) /\ Cardinality({x[2]}) = 1
          BY FS_Singleton
        <4>4. x[3] \notin {x[2]}
          BY <3>2
        <4>2. Cardinality({x[2]} \cup {x[3]}) = 1 + 1
          BY <4>1, <4>4, FS_AddElement
        <4>3. {x[2]} \cup {x[3]} = {x[2], x[3]}
          OBVIOUS
        <4>. QED
          BY <4>2, <4>3
      <3>5. Cardinality(Listed(c)) = n + 1 + 1
        <4>1. PICK M : M = Members(q) \cup {x[2]}
          OBVIOUS
        <4>2. IsFiniteSet(M) /\ Cardinality(M) = n + 1
          BY <2>3, <2>5, <3>2, <4>1, FS_AddElement
        <4>3. x[3] \notin M
          BY <3>2, <4>1
        <4>4. Cardinality(M \cup {x[3]}) = n + 1 + 1
          BY <4>2, <4>3, FS_AddElement
        <4>5. Listed(c) = M \cup {x[3]}
          BY <2>4, <3>3, <4>1
        <4>. QED
          BY <4>4, <4>5
      <3>. QED
        BY <2>2, <2>4, <2>5, <3>2, <3>3, <3>4, <3>5
    <2>. QED
      BY <2>6, <2>7
  <1>2. ASSUME scheduled, NEW g \in inMap
        PROVE  /\ creator[g] = "ok" => g \in Listed(ConnOf[g])
               /\ g \notin Seated => lim[g] = 0
    <2>1. g \in Groups /\ ConnOf[g] \in Conns
      BY SchedAssumption DEF SeatInv, TypeOK
    <2>2. GrpFacts(g) /\ gstate[g] = "up"
      BY <2>1 DEF SeatInv, GrpFacts
    <2>3. creator[g] = "ok" => g \in Listed(ConnOf[g])
      BY <1>2 DEF SeatInv, KnownFacts
    <2>4. CASE creator[g] # "ok"
      BY <1>2, <2>2, <2>4 DEF GrpFacts
    <2>5. CASE creator[g] = "ok"
      <3>. SUFFICES ASSUME g \notin Seated PROVE lim[g] = 0
        BY <2>3
      <3>1. g \notin ToSet(rdy[ConnOf[g]]) /\ \A x \in swap : g # x[2]
        BY <2>1, SeatedGroups DEF Ready
      <3>2. g \in ToSet(wai[ConnOf[g]]) \/ \E x \in swap : g = x[3]
        BY <2>3, <2>5, <3>1 DEF Listed, Ready, Waiting, Swapped
      <3>3. \A h \in ToSet(wai[ConnOf[g]]) : gstate[h] = "up" => lim[h] = 0
        BY <2>1, ConnQueued
      <3>4. \A x \in swap : gstate[x[3]] = "up" => lim[x[3]] = 0
        BY DEF SeatInv, SwapFacts
      <3>. QED
        BY <2>2, <3>2, <3>3, <3>4
    <2>. QED
      BY <2>3, <2>4, <2>5
  <1>. QED
    BY <1>1, <1>2 DEF SeatsKept

\* The lists hold only groups, the limits stay between zero and RFC_MAX_REQS and
\* the counters of running and killed requests never become negative.
THEOREM SchedTyped == Spec => []TypeOK
  <1>1. SeatInv => TypeOK
    BY DEF SeatInv
  <1>. QED
    BY <1>1, SeatAlways, PTL

\* A group is on one list of its own connection and only once, and it stays listed
\* as long as its client and its connection are there; one that is not ready has no
\* slot.  The turns of the lists, exchanges, AddTaskGrp, RemoveGrpRfcs, CloseConn
\* and SetSlotCount all keep this.
THEOREM SeatsAlwaysKept == Spec => []SeatsKept
  BY SeatAlways, SeatsFollow, PTL

-----------------------------------------------------------------------------
(* How the slots are dealt out as long as no remote bridge has changed its  *)
(* limit.                                                                   *)

\* One slot for each of as many groups as there are slots.
Crowded(c) ==
    /\ Cardinality(Seats(c)) = slots[c]
    /\ \A g \in Seats(c) : gstate[g] = "up" => lim[g] = 1

\* Equal shares, with one slot more for the groups of B.
Extra(g, B) == IF g \in B THEN 1 ELSE 0
Shares(L, n, B, l) ==
    /\ B \subseteq L /\ Cardinality(B) = n % Cardinality(L)
    /\ \A g \in L : gstate[g] = "up" => l[g] = Least(n \div Cardinality(L) + Extra(g, B), MaxReqs)

Roomy(c) ==
    Listed(c) # {} =>
        /\ Cardinality(Listed(c)) <= slots[c]
        /\ \E B : Shares(Listed(c), slots[c], B, lim)

\* Either every slot is given to one group and others wait, or nobody waits.
Dealt(c) == IF Queuing(c) # {} THEN Crowded(c) ELSE Roomy(c)

DealInv == scheduled /\ resized = 0 => \A c \in Conns : Dealt(c)

\* The groups that have slots and those that wait are the listed ones.
LEMMA SeatsParts ==
    ASSUME SeatInv, NEW c \in Conns
    PROVE  /\ Listed(c) = Seats(c) \cup Queuing(c) /\ Seats(c) \cap Queuing(c) = {}
           /\ Listed(c) \subseteq Groups
           /\ IsFiniteSet(Listed(c)) /\ IsFiniteSet(Seats(c)) /\ IsFiniteSet(Queuing(c))
           /\ Cardinality(Listed(c)) = Cardinality(Seats(c)) + Cardinality(Queuing(c))
           /\ Cardinality(Listed(c)) \in Nat /\ Cardinality(Seats(c)) \in Nat
           /\ Cardinality(Queuing(c)) \in Nat
  <1>1. Listed(c) = Seats(c) \cup Queuing(c)
    BY DEF Listed, Seats, Queuing, Swapped
  <1>2. /\ Members(Queues(c)) \subseteq Groups /\ Members(Queues(c)) = ToSet(rdy[c]) \cup ToSet(wai[c])
        /\ ToSet(rdy[c]) \cap ToSet(wai[c]) = {}
    BY ConnQueued
  <1>3. Seats(c) \subseteq Groups /\ Queuing(c) \subseteq Groups /\ Seats(c) \cap Queuing(c) = {}
    <2>1. CASE \A y \in swap : y[1] # c
      <3>1. Seats(c) = ToSet(rdy[c]) /\ Queuing(c) = ToSet(wai[c])
        BY <2>1 DEF Seats, Queuing, Ready, Waiting
      <3>. QED
        BY <1>2, <3>1
    <2>2. ASSUME NEW x \in swap, x[1] = c
          PROVE  Seats(c) \subseteq Groups /\ Queuing(c) \subseteq Groups /\ Seats(c) \cap Queuing(c) = {}
      <3>1. /\ swap = {x} /\ x[2] # x[3] /\ x[2] \notin Members(Queues(c)) /\ x[3] \notin Members(Queues(c))
        BY <2>2 DEF SeatInv, SwapFacts
      <3>2. x[2] \in Groups /\ x[3] \in Groups
        BY DEF SeatInv, TypeOK
      <3>3. Seats(c) = ToSet(rdy[c]) \cup {x[2]} /\ Queuing(c) = ToSet(wai[c]) \cup {x[3]}
        BY <2>2, <3>1 DEF Seats, Queuing, Ready, Waiting
      <3>. QED
        BY <1>2, <3>1, <3>2, <3>3
    <2>. QED
      BY <2>1, <2>2
  <1>4. IsFiniteSet(Groups)
    BY GroupsAssumption
  <1>5. IsFiniteSet(Seats(c)) /\ IsFiniteSet(Queuing(c))
    BY <1>3, <1>4, FS_Subset
  <1>6. IsFiniteSet(Seats(c) \cup Queuing(c)) /\ Cardinality(Seats(c) \cup Queuing(c)) =
            Cardinality(Seats(c)) + Cardinality(Queuing(c)) - Cardinality(Seats(c) \cap Queuing(c))
    BY <1>5, FS_Union
  <1>7. Cardinality(Seats(c) \cap Queuing(c)) = 0
    BY <1>3, FS_EmptySet
  <1>8. Cardinality(Seats(c)) \in Nat /\ Cardinality(Queuing(c)) \in Nat
    BY <1>5, FS_CardinalityType
  <1>9. Cardinality(Listed(c)) = Cardinality(Seats(c)) + Cardinality(Queuing(c))
    BY <1>1, <1>6, <1>7, <1>8
  <1>. QED
    BY <1>1, <1>3, <1>5, <1>6, <1>8, <1>9

\* Between exchanges these are the groups on the lists.
LEMMA SeatsAtRest ==
    ASSUME SeatInv, NEW c \in Conns, swap = {}
    PROVE  /\ Seats(c) = ToSet(rdy[c]) /\ Queuing(c) = ToSet(wai[c])
           /\ Cardinality(Seats(c)) = Len(rdy[c]) /\ Cardinality(Queuing(c)) = Len(wai[c])
           /\ (Queuing(c) = {} <=> wai[c] = <<>>)
  <1>1. Seats(c) = ToSet(rdy[c]) /\ Queuing(c) = ToSet(wai[c])
    BY DEF Seats, Queuing, Ready, Waiting
  <1>2. rdy[c] \in Seq(Groups) /\ wai[c] \in Seq(Groups) /\ Once(rdy[c]) /\ Once(wai[c])
    BY ConnQueued
  <1>3. Cardinality(Seats(c)) = Len(rdy[c]) /\ Cardinality(Queuing(c)) = Len(wai[c])
    BY <1>1, <1>2, ListCardinality
  <1>4. Queuing(c) = {} <=> wai[c] = <<>>
    <2>1. ASSUME Queuing(c) = {} PROVE wai[c] = <<>>
      <3>1. Len(wai[c]) = 0
        BY <1>3, <2>1, FS_EmptySet
      <3>. QED
        BY <1>2, <3>1
    <2>2. ASSUME wai[c] = <<>> PROVE Queuing(c) = {}
      BY <1>1, <2>2 DEF ToSet
    <2>. QED
      BY <2>1, <2>2
  <1>. QED
    BY <1>1, <1>3, <1>4

\* A step that leaves seats and limits alone leaves the deal alone.
LEMMA DealtSame ==
    ASSUME SeatInv, NEW c \in Conns, Dealt(c), Seats(c)' = Seats(c), Queuing(c)' = Queuing(c),
           slots'[c] = slots[c],
           \A g \in Groups : g \in Listed(c) /\ gstate'[g] = "up" => gstate[g] = "up" /\ lim'[g] = lim[g]
    PROVE  Dealt(c)' /\ Listed(c)' = Listed(c)
  <1>1. Listed(c) = Seats(c) \cup Queuing(c) /\ Listed(c) \subseteq Groups
    BY SeatsParts
  <1>2. Listed(c)' = Seats(c)' \cup Queuing(c)'
    BY DEF Listed, Seats, Queuing, Swapped
  <1>3. Listed(c)' = Listed(c)
    BY <1>1, <1>2
  <1>4. CASE Queuing(c) # {}
    <2>1. Crowded(c)
      BY <1>4 DEF Dealt
    <2>2. Crowded(c)'
      BY <1>1, <2>1 DEF Crowded
    <2>. QED
      BY <1>3, <1>4, <2>2 DEF Dealt
  <1>5. CASE Queuing(c) = {}
    <2>1. Roomy(c)
      BY <1>5 DEF Dealt
    <2>2. ASSUME NEW B, Shares(Listed(c), slots[c], B, lim)
          PROVE  Shares(Listed(c), slots[c], B, lim)'
      BY <1>1, <1>3, <2>2 DEF Shares
    <2>3. Roomy(c)'
      BY <1>3, <2>1, <2>2 DEF Roomy
    <2>. QED
      BY <1>3, <1>5, <2>3 DEF Dealt
  <1>. QED
    BY <1>4, <1>5

\* Share deals out all slots in equal shares.
LEMMA ShareRoomy ==
    ASSUME NEW q, Queued(q), NEW n \in Nat, TaskGrpCount(q) > 0, n >= TaskGrpCount(q),
           NEW p, p = Share(q, n)
    PROVE  /\ p.wai = <<>> /\ ToSet(p.rdy) = Members(q)
           /\ \E B : Shares(Members(q), n, B, p.lim)
  <1>1. PICK m \in Nat : m = TaskGrpCount(q)
    BY QueueParts DEF Queued
  <1>2. /\ q.rdy \in Seq(Groups) /\ q.wai \in Seq(Groups)
        /\ Len(q.rdy) \in Nat /\ Len(q.wai) \in Nat /\ m = Len(q.rdy) + Len(q.wai)
        /\ Once(q.rdy) /\ Once(q.wai) /\ ToSet(q.rdy) \cap ToSet(q.wai) = {}
    BY <1>1, QueueParts DEF Queued
  <1>3. PICK s : s = q.rdy \o q.wai
    OBVIOUS
  <1>4. s \in Seq(Groups) /\ Len(s) = m /\ ToSet(s) = Members(q) /\ Once(s)
    BY <1>2, <1>3, ConcatList DEF Joined, Members
  <1>5. PICK x : x = n % m
    OBVIOUS
  <1>6. PICK k : k = n \div m
    OBVIOUS
  <1>7. x \in Nat /\ x < m /\ k \in Nat
    BY <1>1, <1>5, <1>6, DivMod
  <1>8. /\ p.rdy = s /\ p.wai = <<>>
        /\ \A i \in DOMAIN s : gstate[s[i]] = "up" =>
             p.lim[s[i]] = IF i <= x THEN Least(k + 1, MaxReqs) ELSE Least(k, MaxReqs)
    BY <1>1, <1>3, <1>5, <1>6, ShareDealt
  <1>9. x \in 0..Len(s)
    BY <1>4, <1>7
  <1>10. PICK a : a = SubSeq(s, 1, x)
    OBVIOUS
  <1>11. PICK b : b = SubSeq(s, x + 1, Len(s))
    OBVIOUS
  <1>12. Parts(Groups, s, x, a, b)
    BY <1>4, <1>9, <1>10, <1>11, CutList
  <1>13. /\ a \in Seq(Groups) /\ Len(a) = x /\ Once(a) /\ (\A i \in 1..x : a[i] = s[i])
         /\ ToSet(a) \subseteq ToSet(s)
    BY <1>4, <1>12 DEF Parts
  <1>14. Cardinality(ToSet(a)) = x
    BY <1>13, ListCardinality
  <1>15. Cardinality(Members(q)) = m
    BY <1>1, MembersCount
  <1>16. ASSUME NEW g \in Members(q), gstate[g] = "up"
         PROVE  p.lim[g] = Least(k + Extra(g, ToSet(a)), MaxReqs)
    <2>1. PICK i \in 1..m : s[i] = g
      BY <1>4 DEF ToSet
    <2>2. p.lim[g] = IF i <= x THEN Least(k + 1, MaxReqs) ELSE Least(k, MaxReqs)
      BY <1>4, <1>8, <1>16, <2>1
    <2>3. CASE i <= x
      <3>1. i \in 1..x
        BY <1>7, <2>1, <2>3
      <3>2. g \in ToSet(a)
        BY <1>13, <2>1, <3>1 DEF ToSet
      <3>. QED
        BY <2>2, <2>3, <3>2 DEF Extra
    <2>4. CASE ~(i <= x)
      <3>1. g \notin ToSet(a)
        <4>. SUFFICES ASSUME g \in ToSet(a) PROVE FALSE
          OBVIOUS
        <4>1. PICK j \in 1..x : a[j] = g
          BY <1>13 DEF ToSet
        <4>2. j \in 1..m /\ s[j] = g
          BY <1>7, <1>13, <4>1
        <4>3. i = j
          BY <1>4, <2>1, <4>2 DEF Once
        <4>. QED
          BY <2>4, <4>1, <4>3, <1>7
      <3>2. k + 0 = k
        BY <1>7
      <3>. QED
        BY <2>2, <2>4, <3>1, <3>2 DEF Extra
    <2>. QED
      BY <2>3, <2>4
  <1>17. Shares(Members(q), n, ToSet(a), p.lim)
    BY <1>4, <1>5, <1>6, <1>13, <1>14, <1>15, <1>16 DEF Shares
  <1>. QED
    BY <1>4, <1>8, <1>17

\* Dealing out the slots of one connection does not touch the others.
LEMMA DealtOthers ==
    ASSUME SeatInv, NEW c \in Conns, NEW q, NEW p, Redealt(q, p), SetQueues(c, p), q.lim = lim,
           \A g \in Members(q) : ConnOf[g] = c, UNCHANGED <<gstate, swap>>, swap = {},
           NEW d \in Conns, d # c, slots'[d] = slots[d], Dealt(d)
    PROVE  Dealt(d)' /\ Listed(d)' = Listed(d)
  <1>1. rdy'[d] = rdy[d] /\ wai'[d] = wai[d]
    BY DEF SetQueues, SeatInv, TypeOK
  <1>2. Seats(d)' = Seats(d) /\ Queuing(d)' = Queuing(d)
    BY <1>1 DEF Seats, Queuing, Ready, Waiting
  <1>3. \A g \in Groups : g \in Listed(d) => lim'[g] = lim[g]
    <2>1. Listed(d) = Members(Queues(d))
      BY ListedMembers, SwappedNone
    <2>2. \A g \in Members(Queues(d)) : ConnOf[g] = d
      BY ConnQueued
    <2>3. lim' = p.lim /\ \A g \in Groups : g \notin Members(q) => p.lim[g] = lim[g]
      BY DEF SetQueues, Redealt
    <2>. QED
      BY <2>1, <2>2, <2>3
  <1>. QED
    BY <1>2, <1>3, DealtSame

\* The lists of a connection after they have been set.
LEMMA DealtHere ==
    ASSUME SeatInv, NEW c \in Conns, NEW p, Queued(p), SetQueues(c, p), swap' = {}
    PROVE  /\ Seats(c)' = ToSet(p.rdy) /\ Queuing(c)' = ToSet(p.wai) /\ Listed(c)' = Members(p)
           /\ lim' = p.lim
  <1>1. rdy'[c] = p.rdy /\ wai'[c] = p.wai /\ lim' = p.lim
    BY DEF SetQueues, SeatInv, TypeOK
  <1>. QED
    BY <1>1 DEF Seats, Queuing, Ready, Waiting, Listed, Swapped, Members

\* A connection has at least one slot.
LEMMA SlotsType ==
    ASSUME SeatInv, NEW c \in Conns
    PROVE  slots[c] \in Nat /\ slots[c] >= 1 /\ MaxReqs \in Nat /\ MaxReqs >= 1
  <1>1. slots[c] \in SlotCounts
    BY DEF SeatInv, TypeOK
  <1>2. slots[c] \in Nat \ {0}
    BY <1>1, SchedAssumption
  <1>3. MaxReqs \in Nat \ {0}
    BY GroupsAssumption
  <1>. QED
    BY <1>2, <1>3

\* As many slots as groups: one for each.
LEMMA OneEach ==
    ASSUME SeatInv, NEW c \in Conns, Roomy(c), Listed(c) # {}, Cardinality(Listed(c)) = slots[c]
    PROVE  \A g \in Listed(c) : gstate[g] = "up" => lim[g] = 1
  <1>1. PICK n \in Nat : n = slots[c] /\ n >= 1
    BY SlotsType
  <1>2. PICK B : Shares(Listed(c), slots[c], B, lim)
    BY DEF Roomy
  <1>3. n % n = 0 /\ n \div n = 1
    BY <1>1
  <1>4. IsFiniteSet(Listed(c))
    BY SeatsParts
  <1>5. B \subseteq Listed(c) /\ Cardinality(B) = 0
    BY <1>1, <1>2, <1>3 DEF Shares
  <1>6. IsFiniteSet(B)
    BY <1>4, <1>5, FS_Subset
  <1>7. B = {}
    BY <1>5, <1>6, FS_EmptySet
  <1>8. MaxReqs \in Nat /\ MaxReqs >= 1
    BY SlotsType
  <1>9. Least(1 + 0, MaxReqs) = 1
    BY <1>8 DEF Least
  <1>. QED
    BY <1>1, <1>2, <1>3, <1>7, <1>9 DEF Shares, Extra

\* A group that has no seat waits; with enough slots all are dealt out again.
LEMMA AddDealt ==
    ASSUME SeatInv, NEW g \in Groups, AddTaskGrp(g), \A d \in Conns : Dealt(d)
    PROVE  \A d \in Conns : Dealt(d)'
  <1>1. PICK c \in Conns : c = ConnOf[g]
    BY SchedAssumption
  <1>2. creator[g] = "add" /\ swap = {} /\ UNCHANGED <<gstate, slots, swap>>
    BY DEF AddTaskGrp, Unlocked
  <1>3. CASE ~Connected(c)
    <2>1. UNCHANGED <<lim, rdy, wai>>
      BY <1>1, <1>3 DEF AddTaskGrp
    <2>2. \A d \in Conns : Seats(d)' = Seats(d) /\ Queuing(d)' = Queuing(d)
      BY <1>2, <2>1 DEF Seats, Queuing, Ready, Waiting
    <2>. QED
      BY <1>2, <2>1, <2>2, DealtSame
  <1>4. CASE Connected(c)
    <2>1. PICK a, p : AddOutcome(c, g, a, p)
      BY <1>1, <1>4, AddShape
    <2>2. /\ Queued(a) /\ a.lim = lim /\ Members(a) = Members(Queues(c)) \cup {g}
          /\ Redealt(a, p) /\ SetQueues(c, p)
      BY <2>1 DEF AddOutcome
    <2>3. \A h \in Members(Queues(c)) : ConnOf[h] = c /\ creator[h] = "ok"
      BY ConnQueued
    <2>4. \A h \in Members(a) : ConnOf[h] = c
      BY <1>1, <2>2, <2>3
    <2>5. \A d \in Conns : d # c => Dealt(d)'
      BY <1>2, <2>2, <2>4, DealtOthers
    <2>6. Queued(p) /\ Members(p) = Members(a)
      BY <2>2 DEF Redealt
    <2>7. /\ Seats(c)' = ToSet(p.rdy) /\ Queuing(c)' = ToSet(p.wai) /\ Listed(c)' = Members(a)
          /\ lim' = p.lim
      BY <1>2, <2>2, <2>6, DealtHere
    <2>8. PICK n \in Nat : n = slots[c] /\ n >= 1
      BY SlotsType
    <2>9. PICK m \in Nat : m = TaskGrpCount(a) /\ m = Cardinality(Members(a))
      BY <2>2, MembersCount, QueueParts DEF Queued
    <2>10. CASE /\ wai[c] # <<>> \/ slots[c] < TaskGrpCount(a)
                /\ p = a /\ a.rdy = rdy[c]
      <3>1. Seats(c) = ToSet(rdy[c]) /\ (Queuing(c) = {} <=> wai[c] = <<>>)
        BY <1>2, SeatsAtRest
      <3>2. Seats(c)' = Seats(c) /\ lim' = lim
        BY <2>2, <2>7, <2>10, <3>1
      <3>3. Listed(c) = Members(Queues(c)) /\ g \notin Listed(c)
        BY <1>2, <2>3, ListedMembers, SwappedNone
      <3>4. Queuing(c)' # {}
        <4>1. g \in ToSet(a.rdy) \cup ToSet(a.wai) /\ g \notin ToSet(rdy[c])
          BY <2>2, <3>1, <3>3, SeatsParts DEF Members
        <4>. QED
          BY <2>7, <2>10, <4>1
      <3>5. Crowded(c)
        <4>1. CASE wai[c] # <<>>
          BY <3>1, <4>1 DEF Dealt
        <4>2. CASE wai[c] = <<>>
          <5>1. Queuing(c) = {} /\ Roomy(c)
            BY <3>1, <4>2 DEF Dealt
          <5>2. Listed(c) = Seats(c) /\ IsFiniteSet(Listed(c))
            BY <5>1, SeatsParts
          <5>3. m = Cardinality(Listed(c)) + 1
            <6>1. Members(a) = Listed(c) \cup {g}
              BY <2>2, <3>3
            <6>2. Cardinality(Listed(c) \cup {g}) = Cardinality(Listed(c)) + 1
              BY <3>3, <5>2, FS_AddElement
            <6>. QED
              BY <2>9, <6>1, <6>2
          <5>4. PICK k \in Nat : k = Cardinality(Listed(c))
            BY <5>2, FS_CardinalityType
          <5>5. n < k + 1 /\ k >= 1
            BY <2>8, <2>9, <2>10, <4>2, <5>3, <5>4
          <5>6. Listed(c) # {}
            <6>1. Cardinality({}) = 0
              BY FS_EmptySet
            <6>. QED
              BY <5>4, <5>5, <6>1
          <5>7. k = n
            BY <2>8, <5>1, <5>4, <5>5, <5>6 DEF Roomy
          <5>. QED
            BY <2>8, <5>1, <5>2, <5>4, <5>6, <5>7, OneEach DEF Crowded
        <4>. QED
          BY <4>1, <4>2
      <3>6. Crowded(c)'
        BY <1>2, <3>2, <3>5 DEF Crowded
      <3>. QED
        BY <2>5, <3>4, <3>6 DEF Dealt
    <2>11. CASE wai[c] = <<>> /\ slots[c] >= TaskGrpCount(a) /\ p = Share(a, slots[c])
      <3>1. m > 0
        <4>1. IsFiniteSet(Members(a)) /\ g \in Members(a)
          BY <2>2, MembersCount
        <4>. QED
          BY <2>9, <4>1, FS_EmptySet
      <3>2. p.wai = <<>> /\ \E B : Shares(Members(a), n, B, p.lim)
        BY <2>2, <2>8, <2>9, <2>11, <3>1, ShareRoomy
      <3>3. PICK B : Shares(Members(a), n, B, p.lim)
        BY <3>2
      <3>4. Queuing(c)' = {}
        BY <2>7, <3>2 DEF ToSet
      <3>5. Shares(Listed(c), slots[c], B, lim)'
        BY <1>2, <2>7, <2>8, <3>3 DEF Shares
      <3>6. Roomy(c)'
        BY <1>2, <2>7, <2>8, <2>9, <2>11, <3>5 DEF Roomy
      <3>. QED
        BY <2>5, <3>4, <3>6 DEF Dealt
    <2>. QED
      BY <2>1, <2>10, <2>11 DEF AddOutcome
  <1>. QED
    BY <1>3, <1>4

\* The slot of a group that leaves goes to one that waits, or all are dealt out.
LEMMA RemoveDealt ==
    ASSUME SeatInv, NEW g \in Groups, RemoveGrpRfcs(g), scheduled, \A d \in Conns : Dealt(d)
    PROVE  \A d \in Conns : Dealt(d)'
  <1>1. PICK c \in Conns : c = ConnOf[g]
    BY SchedAssumption
  <1>2. swap = {} /\ UNCHANGED <<gstate, slots, swap>>
    BY DEF RemoveGrpRfcs, Unlocked
  <1>3. CASE ~Connected(c)
    <2>1. rdy[c] = <<>> /\ wai[c] = <<>>
      BY <1>3, ConnQueued
    <2>2. ToSet(<<>>) = {} /\ Once(<<>>) /\ <<>> \in Seq(Groups)
      BY DEF ToSet, Once
    <2>3. wai' = [wai EXCEPT ![c] = RemoveFirst(@, g)] /\ UNCHANGED <<rdy, lim>>
      BY <1>1, <2>1, <2>2 DEF RemoveGrpRfcs
    <2>4. ToSet(RemoveFirst(wai[c], g)) = {}
      <3>1. wai[c] \in Seq(Groups) /\ Once(wai[c])
        BY ConnQueued
      <3>2. ToSet(RemoveFirst(wai[c], g)) = ToSet(wai[c]) \ {g}
        BY <3>1, RemoveList
      <3>. QED
        BY <2>1, <2>2, <3>2
    <2>5. \A d \in Conns : ToSet(wai'[d]) = ToSet(wai[d])
      BY <2>1, <2>2, <2>3, <2>4 DEF SeatInv, TypeOK
    <2>6. \A d \in Conns : Seats(d)' = Seats(d) /\ Queuing(d)' = Queuing(d)
      BY <1>2, <2>3, <2>5 DEF Seats, Queuing, Ready, Waiting
    <2>. QED
      BY <1>2, <2>3, <2>6, DealtSame
  <1>4. CASE Connected(c)
    <2>1. PICK a, p : RemoveOutcome(c, g, a, p)
      BY <1>1, <1>4, RemoveShape
    <2>2. /\ Queued(a) /\ a.lim = lim /\ Members(a) = Members(Queues(c)) \ {g}
          /\ Redealt(a, p) /\ SetQueues(c, p)
      BY <2>1 DEF RemoveOutcome
    <2>3. \A h \in Members(a) : ConnOf[h] = c
      BY <2>2, ConnQueued
    <2>4. \A d \in Conns : d # c => Dealt(d)'
      BY <1>2, <2>2, <2>3, DealtOthers
    <2>5. Queued(p) /\ Members(p) = Members(a)
      BY <2>2 DEF Redealt
    <2>6. /\ Seats(c)' = ToSet(p.rdy) /\ Queuing(c)' = ToSet(p.wai) /\ Listed(c)' = Members(a)
          /\ lim' = p.lim
      BY <1>2, <2>2, <2>5, DealtHere
    <2>7. PICK n \in Nat : n = slots[c] /\ n >= 1
      BY SlotsType
    <2>8. PICK m \in Nat : m = TaskGrpCount(a) /\ m = Cardinality(Members(a))
      BY <2>2, MembersCount, QueueParts DEF Queued
    <2>9. /\ Seats(c) = ToSet(rdy[c]) /\ Queuing(c) = ToSet(wai[c])
          /\ Cardinality(Seats(c)) = Len(rdy[c]) /\ Cardinality(Queuing(c)) = Len(wai[c])
          /\ (Queuing(c) = {} <=> wai[c] = <<>>)
      BY <1>2, SeatsAtRest
    <2>10. Listed(c) = Members(Queues(c)) /\ IsFiniteSet(Members(a))
      BY <1>2, <2>2, ListedMembers, SwappedNone, MembersCount
    <2>11. m = 0 => Dealt(c)'
      <3>. SUFFICES ASSUME m = 0 PROVE Dealt(c)'
        OBVIOUS
      <3>1. Members(a) = {}
        BY <2>8, <2>10, FS_EmptySet
      <3>2. Listed(c)' = {} /\ Queuing(c)' = {}
        BY <2>5, <2>6, <3>1 DEF Members
      <3>. QED
        BY <3>2 DEF Dealt, Roomy
    <2>12. CASE g \notin ToSet(rdy[c]) /\ p = a /\ a.rdy = rdy[c]
      <3>1. Seats(c)' = Seats(c) /\ lim' = lim
        BY <2>2, <2>6, <2>9, <2>12
      <3>2. Queuing(c)' \subseteq Queuing(c)
        <4>1. ToSet(p.wai) \subseteq Members(Queues(c)) /\ ToSet(p.rdy) \cap ToSet(p.wai) = {}
          BY <2>2, <2>5 DEF Members, Queued
        <4>2. Members(Queues(c)) = ToSet(rdy[c]) \cup ToSet(wai[c])
          BY ConnQueued
        <4>. QED
          BY <2>6, <2>9, <2>12, <4>1, <4>2
      <3>3. CASE Queuing(c)' # {}
        <4>1. Crowded(c)
          BY <3>2, <3>3 DEF Dealt
        <4>2. Crowded(c)'
          BY <1>2, <3>1, <4>1 DEF Crowded
        <4>. QED
          BY <2>4, <3>3, <4>2 DEF Dealt
      <3>4. CASE Queuing(c)' = {} /\ Queuing(c) = {}
        BY <1>2, <2>4, <3>1, <3>4, DealtSame
      <3>5. CASE Queuing(c)' = {} /\ Queuing(c) # {}
        <4>1. Crowded(c)
          BY <3>5 DEF Dealt
        <4>2. Listed(c)' = Seats(c)
          BY <2>5, <2>6, <2>9, <2>12, <3>5 DEF Members
        <4>3. Cardinality(Seats(c)) = n /\ \A h \in Seats(c) : gstate[h] = "up" => lim[h] = 1
          BY <2>7, <4>1 DEF Crowded
        <4>4. n % n = 0 /\ n \div n = 1
          BY <2>7
        <4>5. Cardinality({}) = 0
          BY FS_EmptySet
        <4>6. MaxReqs \in Nat /\ MaxReqs >= 1
          BY SlotsType
        <4>7. Least(1 + 0, MaxReqs) = 1
          BY <4>6 DEF Least
        <4>8. Shares(Listed(c), slots[c], {}, lim)'
          BY <1>2, <2>7, <3>1, <4>2, <4>3, <4>4, <4>5, <4>7 DEF Shares, Extra
        <4>9. Roomy(c)'
          BY <1>2, <2>7, <4>2, <4>3, <4>8 DEF Roomy
        <4>. QED
          BY <2>4, <3>5, <4>9 DEF Dealt
      <3>. QED
        BY <3>3, <3>4, <3>5
    <2>13. CASE /\ g \in ToSet(rdy[c]) /\ ToSet(a.rdy) = ToSet(rdy[c]) \ {g} /\ a.wai = wai[c]
                /\ Len(a.rdy) = Len(rdy[c]) - 1
                /\ p = ResetSlotCountRelease(a, slots[c]) /\ m # 0
      <3>1. CASE n >= m
        <4>1. n \div m > 0
          BY <2>13, <3>1, DivMod
        <4>2. p = Share(a, n)
          BY <2>7, <2>8, <2>13, <4>1 DEF ResetSlotCountRelease
        <4>3. p.wai = <<>> /\ \E B : Shares(Members(a), n, B, p.lim)
          <5>1. TaskGrpCount(a) > 0 /\ n >= TaskGrpCount(a)
            BY <2>8, <2>13, <3>1
          <5>. QED
            BY <2>2, <4>2, <5>1, ShareRoomy
        <4>4. PICK B : Shares(Members(a), n, B, p.lim)
          BY <4>3
        <4>5. Queuing(c)' = {}
          BY <2>6, <4>3 DEF ToSet
        <4>6. Shares(Listed(c), slots[c], B, lim)'
          BY <1>2, <2>6, <2>7, <4>4 DEF Shares
        <4>7. Roomy(c)'
          BY <1>2, <2>6, <2>7, <2>8, <3>1, <4>6 DEF Roomy
        <4>. QED
          BY <2>4, <4>5, <4>7 DEF Dealt
      <3>2. CASE n < m
        <4>1. PICK r \in Nat : r = Len(rdy[c])
          BY ConnQueued
        <4>2. PICK w \in Nat : w = Len(wai[c])
          BY ConnQueued
        <4>3. m = r - 1 + w
          BY <2>8, <2>13, <4>1, <4>2 DEF TaskGrpCount
        <4>4. Queuing(c) # {}
          <5>. SUFFICES ASSUME Queuing(c) = {} PROVE FALSE
            OBVIOUS
          <5>1. Roomy(c)
            BY DEF Dealt
          <5>2. w = 0
            BY <2>9, <4>2
          <5>3. Listed(c) = Seats(c) /\ Listed(c) # {}
            BY <2>9, <2>13, SeatsParts
          <5>4. r <= n
            BY <2>7, <2>9, <4>1, <5>1, <5>3 DEF Roomy
          <5>. QED
            BY <3>2, <4>1, <4>3, <5>2, <5>4
        <4>5. Crowded(c)
          BY <4>4 DEF Dealt
        <4>6. r = n
          BY <2>7, <2>9, <4>1, <4>5 DEF Crowded
        <4>7. n \div m = 0 /\ n > Len(a.rdy) /\ n - Len(a.rdy) = 1 /\ w >= 1
          <5>1. Len(a.rdy) = n - 1
            BY <2>13, <4>1, <4>6
          <5>2. n \div m = 0
            BY <2>7, <2>8, <3>2
          <5>3. w >= 1
            BY <2>7, <2>8, <3>2, <4>2, <4>3, <4>6
          <5>. QED
            BY <2>7, <5>1, <5>2, <5>3
        <4>8. p = IncWaitingGrp(a, 1)
          <5>1. p = ResetSlotCountRelease(a, n) /\ TaskGrpCount(a) = m /\ m # 0
            BY <2>7, <2>8, <2>13
          <5>2. ~(n \div m > 0)
            BY <4>7
          <5>. QED
            BY <4>7, <5>1, <5>2 DEF ResetSlotCountRelease
        <4>9. PICK chosen : Chosen(a, 1, p, chosen)
          BY <2>2, <4>8, IncWaitingDealt
        <4>10. /\ chosen \in Seq(Groups) /\ Once(chosen) /\ ToSet(chosen) \subseteq ToSet(wai[c])
               /\ Len(chosen) = 1 /\ p.rdy = a.rdy \o chosen
               /\ p.lim = SetLimit(lim, ToSet(chosen), 1)
          BY <2>2, <2>13, <4>2, <4>7, <4>9 DEF Chosen, Least
        <4>11. p.rdy \in Seq(Groups) /\ Once(p.rdy) /\ Len(p.rdy) = n
               /\ ToSet(p.rdy) = ToSet(a.rdy) \cup ToSet(chosen)
          <5>1. a.rdy \in Seq(Groups)
            BY <2>2, QueueParts DEF Queued
          <5>2. Joined(Groups, a.rdy, chosen, p.rdy)
            BY <4>10, <5>1, ConcatList
          <5>3. p.rdy \in Seq(Groups) /\ Once(p.rdy)
            BY <2>5, QueueParts DEF Queued
          <5>4. Len(p.rdy) = n
            <6>1. Len(a.rdy) = n - 1 /\ Len(p.rdy) = Len(a.rdy) + Len(chosen)
              BY <2>13, <4>1, <4>6, <5>2 DEF Joined
            <6>. QED
              BY <2>7, <4>10, <6>1
          <5>. QED
            BY <5>2, <5>3, <5>4 DEF Joined
        <4>12. Cardinality(ToSet(p.rdy)) = n
          BY <4>11, ListCardinality
        <4>13. lim \in Limits /\ MaxReqs \in Nat /\ MaxReqs >= 1
          BY ConnQueued, SlotsType
        <4>14. Least(1, MaxReqs) = 1
          BY <4>13 DEF Least
        <4>15. \A h \in Groups : p.lim[h] = IF h \in ToSet(chosen) /\ gstate[h] = "up" THEN 1 ELSE lim[h]
          BY <4>10, <4>13, <4>14, SetLimitType
        <4>16. \A h \in ToSet(p.rdy) : gstate[h] = "up" => p.lim[h] = 1
          <5>1. ToSet(p.rdy) \subseteq Groups
            BY <4>11, ListGroups
          <5>2. \A h \in ToSet(a.rdy) : gstate[h] = "up" => lim[h] = 1
            BY <2>9, <2>13, <4>5 DEF Crowded
          <5>. QED
            BY <4>11, <4>15, <5>1, <5>2
        <4>17. Crowded(c)'
          BY <1>2, <2>6, <2>7, <4>12, <4>16 DEF Crowded
        <4>18. Queuing(c)' # {}
          <5>. SUFFICES ASSUME ToSet(p.wai) = {} PROVE FALSE
            BY <2>6
          <5>1. Members(a) = ToSet(p.rdy)
            BY <2>5 DEF Members
          <5>. QED
            BY <2>8, <3>2, <4>12, <5>1
        <4>. QED
          BY <2>4, <4>17, <4>18 DEF Dealt
      <3>. QED
        BY <3>1, <3>2
    <2>. QED
      BY <2>1, <2>4, <2>11, <2>12, <2>13 DEF RemoveOutcome
  <1>. QED
    BY <1>3, <1>4

\* The listed groups of a connection are its own.
LEMMA ListedOwn ==
    ASSUME SeatInv, NEW c \in Conns
    PROVE  Listed(c) \subseteq Groups /\ \A g \in Listed(c) : ConnOf[g] = c
  BY SeatsParts, SeatsFollow DEF SeatsKept

\* In an exchange one group gets the slot that the other had.
LEMMA ExchangeDealt ==
    ASSUME SeatInv, Exchange, \A d \in Conns : Dealt(d)
    PROVE  /\ \A d \in Conns : Dealt(d)'
           /\ \A d \in Conns : Listed(d)' = Listed(d)
  <1>1. PICK x \in swap :
          /\ swap' = {}
          /\ lim' = SetLimit(SetLimit(lim, {x[2]}, 0), {x[3]}, 1)
          /\ rdy' = [rdy EXCEPT ![x[1]] = Append(@, x[3])]
          /\ wai' = [wai EXCEPT ![x[1]] = Append(@, x[2])]
          /\ UNCHANGED <<gstate, slots>>
    BY DEF Exchange
  <1>2. x[1] \in Conns /\ x[2] \in Groups /\ x[3] \in Groups
    BY DEF SeatInv, TypeOK
  <1>3. PICK c \in Conns : c = x[1]
    BY <1>2
  <1>4. PICK g \in Groups : g = x[2]
    BY <1>2
  <1>5. PICK w \in Groups : w = x[3]
    BY <1>2
  <1>6. /\ swap = {x} /\ g # w /\ g \notin Members(Queues(c)) /\ w \notin Members(Queues(c))
        /\ ConnOf[g] = c /\ ConnOf[w] = c
    BY <1>3, <1>4, <1>5 DEF SeatInv, SwapFacts
  <1>7. /\ rdy[c] \in Seq(Groups) /\ wai[c] \in Seq(Groups) /\ lim \in Limits
        /\ Once(rdy[c]) /\ Once(wai[c])
        /\ Members(Queues(c)) = ToSet(rdy[c]) \cup ToSet(wai[c])
    BY ConnQueued
  <1>8. PICK l : l = SetLimit(lim, {g}, 0)
    OBVIOUS
  <1>9. /\ l \in Limits
        /\ \A h \in Groups : l[h] =
             IF h \in {g} /\ gstate[h] = "up" THEN Least(0, MaxReqs) ELSE lim[h]
    BY <1>7, <1>8, SetLimitType
  <1>10. \A h \in Groups : lim'[h] = IF h \in {w} /\ gstate[h] = "up" THEN Least(1, MaxReqs) ELSE l[h]
    BY <1>1, <1>4, <1>5, <1>8, <1>9, SetLimitType
  <1>11. MaxReqs \in Nat /\ MaxReqs >= 1
    BY SlotsType
  <1>12. Least(1, MaxReqs) = 1
    BY <1>11 DEF Least
  <1>13. \A h \in Groups : /\ h # g /\ h # w => lim'[h] = lim[h]
                           /\ h = w /\ gstate[h] = "up" => lim'[h] = 1
    BY <1>9, <1>10, <1>12
  <1>14. PICK a : a = Append(rdy[c], w)
    OBVIOUS
  <1>15. PICK b : b = Append(wai[c], g)
    OBVIOUS
  <1>16. ToSet(a) = ToSet(rdy[c]) \cup {w} /\ ToSet(b) = ToSet(wai[c]) \cup {g}
    BY <1>6, <1>7, <1>14, <1>15, AppendList
  <1>17. /\ rdy'[c] = a /\ wai'[c] = b
         /\ \A d \in Conns : d # c => rdy'[d] = rdy[d] /\ wai'[d] = wai[d]
    <2>1. rdy \in [Conns -> Seq(Groups)] /\ wai \in [Conns -> Seq(Groups)]
      BY DEF SeatInv, TypeOK
    <2>. QED
      BY <1>1, <1>3, <1>4, <1>5, <1>14, <1>15, <2>1
  <1>18. ASSUME NEW d \in Conns, d # c PROVE Dealt(d)' /\ Listed(d)' = Listed(d)
    <2>1. Seats(d)' = Seats(d) /\ Queuing(d)' = Queuing(d)
      BY <1>1, <1>3, <1>6, <1>17, <1>18 DEF Seats, Queuing, Ready, Waiting
    <2>2. \A h \in Groups : h \in Listed(d) => lim'[h] = lim[h]
      BY <1>6, <1>13, <1>18, ListedOwn
    <2>. QED
      BY <1>1, <2>1, <2>2, DealtSame
  <1>19. Seats(c) = ToSet(rdy[c]) \cup {g} /\ Queuing(c) = ToSet(wai[c]) \cup {w}
    BY <1>3, <1>4, <1>5, <1>6 DEF Seats, Queuing, Ready, Waiting
  <1>20. Seats(c)' = ToSet(rdy[c]) \cup {w} /\ Queuing(c)' = ToSet(wai[c]) \cup {g}
    BY <1>1, <1>16, <1>17 DEF Seats, Queuing, Ready, Waiting
  <1>21. Listed(c)' = Seats(c)' \cup Queuing(c)' /\ Listed(c) = Seats(c) \cup Queuing(c)
    BY DEF Listed, Seats, Queuing, Swapped
  <1>22. Listed(c)' = Listed(c)
    BY <1>19, <1>20, <1>21
  <1>23. Crowded(c)
    BY <1>19 DEF Dealt
  <1>24. IsFiniteSet(ToSet(rdy[c])) /\ ToSet(rdy[c]) \subseteq Groups
    BY <1>7, ListGroups, GroupsAssumption, FS_Subset
  <1>25. Cardinality(Seats(c)') = Cardinality(Seats(c))
    <2>1. Cardinality(ToSet(rdy[c]) \cup {g}) = Cardinality(ToSet(rdy[c])) + 1
      BY <1>6, <1>7, <1>24, FS_AddElement
    <2>2. Cardinality(ToSet(rdy[c]) \cup {w}) = Cardinality(ToSet(rdy[c])) + 1
      BY <1>6, <1>7, <1>24, FS_AddElement
    <2>. QED
      BY <1>19, <1>20, <2>1, <2>2
  <1>26. \A h \in Seats(c)' : gstate[h] = "up" => lim'[h] = 1
    BY <1>6, <1>7, <1>13, <1>19, <1>20, <1>23, <1>24 DEF Crowded
  <1>27. Crowded(c)'
    BY <1>1, <1>23, <1>25, <1>26 DEF Crowded
  <1>28. Dealt(c)'
    BY <1>20, <1>27 DEF Dealt
  <1>. QED
    BY <1>18, <1>22, <1>28

\* What a step that moves no group has to keep.
LEMMA DealtStays ==
    ASSUME SeatInv, \A d \in Conns : Dealt(d),
           \A d \in Conns : Seats(d)' = Seats(d) /\ Queuing(d)' = Queuing(d), UNCHANGED slots,
           \A d \in Conns : \A g \in Listed(d) :
                gstate'[g] = "up" => gstate[g] = "up" /\ lim'[g] = lim[g]
    PROVE  /\ \A d \in Conns : Dealt(d)'
           /\ \A d \in Conns : Listed(d)' = Listed(d)
  BY DealtSame

\* Nobody comes to a list or leaves it.
LEMMA ListsStay ==
    ASSUME UNCHANGED <<rdy, wai, swap>>
    PROVE  \A d \in Conns : Seats(d)' = Seats(d) /\ Queuing(d)' = Queuing(d)
  BY DEF Seats, Queuing, Ready, Waiting

\* A connection without groups is dealt with.
LEMMA NoneDealt ==
    ASSUME NEW c \in Conns, rdy'[c] = <<>>, wai'[c] = <<>>, \A x \in swap' : x[1] # c
    PROVE  Dealt(c)' /\ Listed(c)' = {}
  <1>1. ToSet(<<>>) = {}
    BY DEF ToSet
  <1>2. Queuing(c)' = {} /\ Listed(c)' = {}
    BY <1>1 DEF Queuing, Waiting, Listed, Ready, Swapped
  <1>. QED
    BY <1>2 DEF Dealt, Roomy

\* A new group is on no list yet.
LEMMA CreateDealt ==
    ASSUME SeatInv, NEW g \in Groups, CreateGrpRfc(g), scheduled, \A d \in Conns : Dealt(d)
    PROVE  /\ \A d \in Conns : Dealt(d)'
           /\ \A d \in Conns : Listed(d)' = Listed(d) /\ g \notin Listed(d)
  <1>1. gstate[g] = "none" /\ UNCHANGED <<rdy, wai, swap, slots>>
    BY DEF CreateGrpRfc, listVars
  <1>2. creator[g] = "no"
    BY <1>1 DEF SeatInv, GrpFacts
  <1>3. ASSUME NEW d \in Conns PROVE g \notin Listed(d)
    <2>1. g \notin Members(Queues(d))
      BY <1>2, ConnQueued
    <2>2. \A x \in swap : x[2] # g /\ x[3] # g
      BY <1>2 DEF SeatInv, SwapFacts
    <2>3. g \notin Swapped(d)
      BY <2>2 DEF Swapped
    <2>. QED
      BY <2>1, <2>3, ListedMembers
  <1>4. \A h \in Groups : h # g => gstate'[h] = gstate[h] /\ lim'[h] = lim[h]
    BY DEF CreateGrpRfc, SeatInv, TypeOK, GrpTypeOK
  <1>5. \A d \in Conns : \A h \in Listed(d) : gstate'[h] = gstate[h] /\ lim'[h] = lim[h]
    BY <1>3, <1>4, ListedOwn
  <1>. QED
    BY <1>1, <1>3, <1>5, ListsStay, DealtStays

\* A cancelled group stays where it is; its limit no longer counts.
LEMMA CancelDealt ==
    ASSUME SeatInv, NEW g \in Groups, Cancel(g), \A d \in Conns : Dealt(d)
    PROVE  /\ \A d \in Conns : Dealt(d)'
           /\ \A d \in Conns : Listed(d)' = Listed(d)
  <1>1. UNCHANGED <<rdy, wai, swap, slots, lim>> /\ gstate' = [gstate EXCEPT ![g] = "dead"]
    BY DEF Cancel, OnCancel, listVars
  <1>2. \A h \in Groups : gstate'[h] = "up" => gstate[h] = "up" /\ lim'[h] = lim[h]
    BY <1>1 DEF SeatInv, TypeOK, GrpTypeOK
  <1>. QED
    BY <1>1, <1>2, ListsStay, DealtStays, ListedOwn

\* The slots of a new connection are not given to anybody.
LEMMA AddConnDealt ==
    ASSUME SeatInv, NEW g \in Groups, AddConn(g), \A d \in Conns : Dealt(d)
    PROVE  /\ \A d \in Conns : Dealt(d)'
           /\ \A d \in Conns : Listed(d)' = Listed(d)
           /\ \A d \in Conns : Listed(d) # {} => slots'[d] = slots[d]
  <1>1. PICK c \in Conns : c = ConnOf[g]
    BY SchedAssumption
  <1>2. swap = {} /\ UNCHANGED <<rdy, wai, swap, gstate, lim>>
    BY DEF AddConn, Unlocked, grpVars
  <1>3. CASE Connected(c)
    <2>1. slots' = slots
      BY <1>1, <1>3 DEF AddConn
    <2>. QED
      BY <1>2, <2>1, ListsStay, DealtStays, ListedOwn
  <1>4. CASE ~Connected(c)
    <2>1. \E n \in SlotCounts : slots' = [slots EXCEPT ![c] = n]
      BY <1>1, <1>4 DEF AddConn
    <2>2. \A d \in Conns : d # c => slots'[d] = slots[d]
      BY <2>1 DEF SeatInv, TypeOK
    <2>3. rdy[c] = <<>> /\ wai[c] = <<>>
      BY <1>4 DEF SeatInv, ConnFacts
    <2>4. Dealt(c)' /\ Listed(c)' = {}
      BY <1>2, <2>3, NoneDealt
    <2>5. Listed(c) = {}
      BY <1>2, <2>4 DEF Listed, Ready, Waiting, Swapped
    <2>6. ASSUME NEW d \in Conns, d # c PROVE Dealt(d)' /\ Listed(d)' = Listed(d)
      BY <1>2, <2>2, <2>6, ListsStay, DealtSame
    <2>. QED
      BY <2>2, <2>4, <2>5, <2>6
  <1>. QED
    BY <1>3, <1>4

\* A connection that closes takes its groups with it.
LEMMA CloseDealt ==
    ASSUME SeatInv, NEW c \in Conns, CloseConn(c), \A d \in Conns : Dealt(d)
    PROVE  /\ \A d \in Conns : Dealt(d)'
           /\ \A d \in Conns : d # c => Listed(d)' = Listed(d)
  <1>1. /\ swap = {} /\ swap' = {} /\ UNCHANGED <<slots, gstate, lim>>
        /\ rdy' = [rdy EXCEPT ![c] = <<>>] /\ wai' = [wai EXCEPT ![c] = <<>>]
    BY DEF CloseConn, Unlocked, grpVars
  <1>2. /\ rdy'[c] = <<>> /\ wai'[c] = <<>>
        /\ \A d \in Conns : d # c => rdy'[d] = rdy[d] /\ wai'[d] = wai[d]
    BY <1>1 DEF SeatInv, TypeOK
  <1>3. Dealt(c)'
    BY <1>1, <1>2, NoneDealt
  <1>4. ASSUME NEW d \in Conns, d # c PROVE Dealt(d)' /\ Listed(d)' = Listed(d)
    <2>1. Seats(d)' = Seats(d) /\ Queuing(d)' = Queuing(d)
      BY <1>1, <1>2, <1>4 DEF Seats, Queuing, Ready, Waiting
    <2>. QED
      BY <1>1, <2>1, DealtSame
  <1>. QED
    BY <1>3, <1>4

\* The steps that move no group and deal out nothing.
LEMMA RestDealt ==
    ASSUME SeatInv, \A d \in Conns : Dealt(d), UNCHANGED <<rdy, wai, swap, slots, gstate, lim>>
    PROVE  /\ \A d \in Conns : Dealt(d)'
           /\ \A d \in Conns : Listed(d)' = Listed(d)
  BY ListsStay, DealtStays

\* The limits change without a scheduler or by what a remote bridge sends.
LEMMA ResizedSteps ==
    ASSUME SeatInv, [Next]_vars
    PROVE  /\ scheduled' = scheduled
           /\ resized' = 0 => resized = 0
           /\ scheduled /\ resized' = 0 =>
                ~ \/ \E c \in Conns : \E n \in SlotCounts : SetSlotCount(c, n)
                  \/ \E g \in Groups : \/ LimitToRunning(g) \/ AddAndRun(g)
                                       \/ \E n \in 1..MaxReqs : RefreshReqLimit(g, n)
  <1>1. resized \in Nat
    BY SchedAssumption DEF SeatInv, TypeOK
  <1>2. resized + 1 # 0
    BY <1>1
  <1>3. /\ \A c \in Conns : \A n \in SlotCounts : SetSlotCount(c, n) => scheduled' = scheduled /\ resized' = resized + 1
        /\ \A g \in Groups : LimitToRunning(g) \/ AddAndRun(g) => ~scheduled
        /\ \A g \in Groups : \A n \in 1..MaxReqs :
             RefreshReqLimit(g, n) => scheduled' = scheduled /\ resized' = resized + 1
    BY DEF SetSlotCount, LimitToRunning, AddAndRun, RefreshReqLimit
  <1>4. UNCHANGED vars => UNCHANGED <<scheduled, resized>>
    BY DEF vars, schedVars
  <1>5. GetNextTaskGrpAAR \/ GetNextTaskGrpOCC \/ Exchange => UNCHANGED <<scheduled, resized>>
    BY Zenon DEF GetNextTaskGrpAAR, GetNextTaskGrpOCC, Exchange
  <1>6. \A c \in Conns : CloseConn(c) => UNCHANGED <<scheduled, resized>>
    BY DEF CloseConn
  <1>7. \A g \in Groups : CreateGrpRfc(g) \/ RemoveGrpRfcs(g) \/ LifeStep(g) => UNCHANGED <<scheduled, resized>>
    BY DEF CreateGrpRfc, RemoveGrpRfcs, LifeStep, AddTaskGrp, AddConn, CreateFails, Cancel
  <1>8. \A g \in Groups : Submit(g) \/ AddAndRun(g) \/ RequestStep(g) \/ GroupStep(g) \/ LimitToRunning(g)
            => UNCHANGED <<scheduled, resized>>
    BY DEF Submit, AddAndRun, RequestStep, OnChildComplete, DeferredRemove, KillTask, RequeueInvTask,
           GroupStep, LimitToRunning, schedVars
  <1>9. CASE UNCHANGED <<scheduled, resized>>
    BY <1>1, <1>2, <1>3, <1>9
  <1>10. CASE scheduled' = scheduled /\ resized' = resized + 1
    BY <1>1, <1>2, <1>3, <1>10
  <1>. QED
    BY <1>3, <1>4, <1>5, <1>6, <1>7, <1>8, <1>9, <1>10 DEF Next

\* Every step deals the slots out as described, while no remote bridge resizes them.
LEMMA DealStep == SeatInv /\ DealInv /\ [Next]_vars => DealInv'
  <1>. SUFFICES ASSUME SeatInv, DealInv, [Next]_vars, scheduled', resized' = 0
                PROVE  \A d \in Conns : Dealt(d)'
    BY DEF DealInv
  <1>1. scheduled /\ resized = 0 /\ \A d \in Conns : Dealt(d)
    BY ResizedSteps, Zenon DEF DealInv
  <1>2. CASE UNCHANGED vars
    BY <1>1, <1>2, RestDealt DEF vars, grpVars, schedVars, listVars
  <1>3. CASE GetNextTaskGrpAAR
    <2>1. UNCHANGED <<slots, gstate, lim>>
      BY <1>3 DEF GetNextTaskGrpAAR
    <2>. QED
      BY <1>1, <1>3, <2>1, AARKeeps, DealtStays
  <1>4. CASE GetNextTaskGrpOCC
    <2>1. UNCHANGED <<slots, gstate, lim>>
      BY <1>4 DEF GetNextTaskGrpOCC
    <2>. QED
      BY <1>1, <1>4, <2>1, OCCKeeps, DealtStays
  <1>5. CASE Exchange
    BY <1>1, <1>5, ExchangeDealt
  <1>6. ASSUME NEW c \in Conns, CloseConn(c) PROVE \A d \in Conns : Dealt(d)'
    BY <1>1, <1>6, CloseDealt
  <1>7. ASSUME NEW g \in Groups, CreateGrpRfc(g) PROVE \A d \in Conns : Dealt(d)'
    BY <1>1, <1>7, CreateDealt
  <1>8. ASSUME NEW g \in Groups, RemoveGrpRfcs(g) PROVE \A d \in Conns : Dealt(d)'
    BY <1>1, <1>8, RemoveDealt
  <1>9. ASSUME NEW g \in Groups, LifeStep(g) PROVE \A d \in Conns : Dealt(d)'
    <2>1. CASE CreateFails(g)
      BY <1>1, <2>1, RestDealt DEF CreateFails, grpVars, listVars
    <2>. QED
      BY <1>1, <1>9, <2>1, AddDealt, AddConnDealt, CancelDealt DEF LifeStep
  <1>10. ASSUME NEW g \in Groups, Submit(g) \/ RequestStep(g) \/ GroupStep(g)
         PROVE  \A d \in Conns : Dealt(d)'
    <2>1. UNCHANGED <<rdy, wai, swap, slots, gstate, lim>>
      BY <1>10 DEF Submit, RequestStep, OnChildComplete, DeferredRemove, KillTask, RequeueInvTask,
                   GroupStep, RunBegin, RunEnd, schedVars, listVars
    <2>. QED
      BY <1>1, <2>1, RestDealt
  <1>11. ~ \/ \E c \in Conns : \E n \in SlotCounts : SetSlotCount(c, n)
           \/ \E g \in Groups : \/ LimitToRunning(g) \/ AddAndRun(g)
                                \/ \E n \in 1..MaxReqs : RefreshReqLimit(g, n)
    BY <1>1, ResizedSteps
  <1>. QED
    BY <1>2, <1>3, <1>4, <1>5, <1>6, <1>7, <1>8, <1>9, <1>10, <1>11 DEF Next

\* Nothing is dealt out at first.
LEMMA DealInit == Init => DealInv
  <1>. SUFFICES ASSUME Init, NEW c \in Conns PROVE Dealt(c)
    BY DEF DealInv
  <1>1. rdy[c] = <<>> /\ wai[c] = <<>> /\ swap = {} /\ ToSet(<<>>) = {}
    BY DEF Init, ToSet
  <1>2. Queuing(c) = {} /\ Listed(c) = {}
    BY <1>1 DEF Queuing, Waiting, Listed, Ready, Swapped
  <1>. QED
    BY <1>2 DEF Dealt, Roomy

\* The invariant of the deal.
LEMMA DealAlways == Spec => []DealInv
  <1>1. SeatInv /\ DealInv /\ [Next]_vars => (SeatInv /\ DealInv)'
    BY SeatStep, DealStep
  <1>. QED
    BY <1>1, SeatInit, DealInit, PTL DEF Spec

-----------------------------------------------------------------------------
(* How many requests of a group run.                                       *)

Ceil(n, m) == (n + m - 1) \div m

\* The largest share of n slots among m groups.
LEMMA CeilFacts ==
    ASSUME NEW n \in Nat, NEW m \in Nat, m > 0, n >= 1
    PROVE  /\ Ceil(n, m) \in Nat /\ Ceil(n, m) >= 1
           /\ n <= m => Ceil(n, m) = 1
           /\ Ceil(n, m) >= n \div m
           /\ n % m > 0 => Ceil(n, m) >= n \div m + 1
  <1>1. Ceil(n, m) \in Nat /\ Ceil(n, m) >= 1
    BY DEF Ceil
  <1>2. n <= m => Ceil(n, m) = 1
    BY DEF Ceil
  <1>3. Ceil(n, m) >= n \div m
    BY DEF Ceil
  <1>4. n % m > 0 => Ceil(n, m) >= n \div m + 1
    BY DEF Ceil
  <1>. QED
    BY <1>1, <1>2, <1>3, <1>4

\* The largest share of fewer groups is no smaller.
LEMMA CeilMono ==
    ASSUME NEW n \in Nat, NEW m \in Nat, NEW k \in Nat, k > 0, k <= m
    PROVE  Ceil(n, m) <= Ceil(n, k)
  BY DEF Ceil

\* The share that bounds what group g runs.
Cap(g) == IF g \in Listed(ConnOf[g]) THEN LargestShare(ConnOf[g]) ELSE 0

\* OverrunBounded in terms of the bound on each group.
LEMMA OverrunCap ==
    OverrunBounded <=> (scheduled /\ resized = 0 => \A g \in inMap : live[g] <= victims[g] + Cap(g))
  BY DEF OverrunBounded, Cap

\* The largest share of a connection that has groups.
LEMMA ShareCeil ==
    ASSUME SeatInv, NEW c \in Conns, Listed(c) # {}
    PROVE  /\ LargestShare(c) = Ceil(slots[c], Cardinality(Listed(c)))
           /\ Cardinality(Listed(c)) \in Nat /\ Cardinality(Listed(c)) > 0
           /\ LargestShare(c) \in Nat /\ LargestShare(c) >= 1
  <1>1. PICK m \in Nat : m = Cardinality(Listed(c))
    BY SeatsParts
  <1>2. m # 0
    BY <1>1, SeatsParts, FS_EmptySet
  <1>3. LargestShare(c) = Ceil(slots[c], m)
    BY <1>1, <1>2 DEF LargestShare, Ceil
  <1>4. m > 0
    BY <1>2
  <1>. QED
    BY <1>1, <1>3, <1>4, SlotsType, CeilFacts

\* The numbers that the bound relates.
LEMMA CapType ==
    ASSUME SeatInv, NEW g \in Groups
    PROVE  Cap(g) \in Nat /\ live[g] \in Nat /\ victims[g] \in Nat /\ done[g] \in Nat /\ lim[g] \in Nat
  <1>1. ConnOf[g] \in Conns
    BY SchedAssumption
  <1>2. live[g] \in Nat /\ victims[g] \in Nat /\ done[g] \in Nat /\ lim[g] \in Nat
    BY GroupsAssumption DEF SeatInv, TypeOK, GrpTypeOK
  <1>3. CASE g \in Listed(ConnOf[g])
    BY <1>1, <1>2, <1>3, ShareCeil DEF Cap
  <1>4. CASE g \notin Listed(ConnOf[g])
    BY <1>2, <1>4 DEF Cap
  <1>. QED
    BY <1>3, <1>4

CapsTyped == \A g \in Groups : Cap(g) \in Nat /\ lim[g] \in Nat

\* The same, for use after a step.
LEMMA CapTypes == SeatInv => CapsTyped
  BY CapType DEF CapsTyped

\* A limit is no larger than the largest share.
LimitsCapped == \A g \in inMap : lim[g] <= Cap(g)

\* As the slots are dealt out, no limit exceeds the largest share.
LEMMA CapLimit == SeatInv /\ DealInv /\ scheduled /\ resized = 0 => LimitsCapped
  <1>. SUFFICES ASSUME SeatInv, DealInv, scheduled, resized = 0, NEW g \in inMap
                PROVE  lim[g] <= Cap(g)
    BY DEF LimitsCapped
  <1>1. g \in Groups /\ gstate[g] = "up"
    BY DEF SeatInv, TypeOK, GrpFacts
  <1>2. PICK c \in Conns : c = ConnOf[g]
    BY <1>1, SchedAssumption
  <1>3. lim[g] \in Nat
    BY <1>1, CapType
  <1>4. CASE g \notin Listed(c)
    <2>1. creator[g] # "ok"
      BY <1>2, <1>4 DEF SeatInv, KnownFacts
    <2>2. lim[g] = 0
      BY <1>1, <2>1 DEF SeatInv, GrpFacts
    <2>. QED
      BY <1>2, <1>4, <2>2 DEF Cap
  <1>5. CASE g \in Listed(c)
    <2>1. PICK m \in Nat : m = Cardinality(Listed(c)) /\ m > 0
      BY <1>5, ShareCeil
    <2>2. PICK n \in Nat : n = slots[c] /\ n >= 1
      BY SlotsType
    <2>3. Cap(g) = Ceil(n, m)
      BY <1>2, <1>5, <2>1, <2>2, ShareCeil DEF Cap
    <2>4. Dealt(c)
      BY DEF DealInv
    <2>5. CASE Queuing(c) # {}
      <3>1. g \in Seats(c) => lim[g] = 1
        BY <1>1, <2>4, <2>5 DEF Dealt, Crowded
      <3>2. g \in Queuing(c) => lim[g] = 0
        <4>1. \A h \in ToSet(wai[c]) : gstate[h] = "up" => lim[h] = 0
          BY ConnQueued
        <4>2. \A x \in swap : gstate[x[3]] = "up" => lim[x[3]] = 0
          BY DEF SeatInv, SwapFacts
        <4>. QED
          BY <1>1, <4>1, <4>2 DEF Queuing, Waiting
      <3>3. lim[g] = 1 \/ lim[g] = 0
        BY <1>5, <3>1, <3>2, SeatsParts
      <3>4. Ceil(n, m) \in Nat /\ Ceil(n, m) >= 1
        BY <2>1, <2>2, CeilFacts
      <3>. QED
        BY <2>3, <3>3, <3>4
    <2>6. CASE Queuing(c) = {}
      <3>1. PICK B : Shares(Listed(c), slots[c], B, lim)
        BY <1>5, <2>4, <2>6 DEF Dealt, Roomy
      <3>2. /\ B \subseteq Listed(c) /\ Cardinality(B) = n % m
            /\ lim[g] = Least(n \div m + Extra(g, B), MaxReqs)
        BY <1>1, <1>5, <2>1, <2>2, <3>1 DEF Shares
      <3>3. n \div m \in Nat /\ n % m \in Nat
        BY <2>1, DivMod
      <3>4. MaxReqs \in Nat
        BY SlotsType
      <3>5. /\ Ceil(n, m) \in Nat /\ Ceil(n, m) >= n \div m
            /\ n % m > 0 => Ceil(n, m) >= n \div m + 1
        BY <2>1, <2>2, CeilFacts
      <3>6. CASE g \in B
        <4>1. IsFiniteSet(B)
          BY <3>2, SeatsParts, FS_Subset
        <4>2. n % m # 0
          BY <3>2, <3>6, <4>1, FS_EmptySet
        <4>3. lim[g] = Least(n \div m + 1, MaxReqs)
          BY <3>2, <3>6 DEF Extra
        <4>4. lim[g] <= n \div m + 1
          BY <3>3, <3>4, <4>3 DEF Least
        <4>. QED
          BY <1>3, <2>3, <3>3, <3>5, <4>2, <4>4
      <3>7. CASE g \notin B
        <4>1. lim[g] = Least(n \div m + 0, MaxReqs)
          BY <3>2, <3>7 DEF Extra
        <4>2. lim[g] <= n \div m
          BY <3>3, <3>4, <4>1 DEF Least
        <4>. QED
          BY <1>3, <2>3, <3>3, <3>5, <4>2
      <3>. QED
        BY <3>6, <3>7
    <2>. QED
      BY <2>5, <2>6
  <1>. QED
    BY <1>4, <1>5

\* A step that leaves the lists alone and starts nothing.
LEMMA CapStays ==
    ASSUME SeatInv, NEW g \in Groups, Listed(ConnOf[g])' = Listed(ConnOf[g]),
           g \in Listed(ConnOf[g]) => slots'[ConnOf[g]] = slots[ConnOf[g]]
    PROVE  Cap(g)' = Cap(g)
  BY DEF Cap, LargestShare

\* The bound on one group stays when its connection is left alone.
LEMMA OverrunStays ==
    ASSUME SeatInv, OverrunBounded, scheduled, resized = 0, NEW g \in inMap,
           Listed(ConnOf[g])' = Listed(ConnOf[g]),
           g \in Listed(ConnOf[g]) => slots'[ConnOf[g]] = slots[ConnOf[g]],
           live'[g] \in Nat, victims'[g] \in Nat, live'[g] - victims'[g] <= live[g] - victims[g]
    PROVE  live'[g] <= victims'[g] + Cap(g)'
  <1>1. g \in Groups
    BY DEF SeatInv, TypeOK
  <1>2. live[g] <= victims[g] + Cap(g)
    BY OverrunCap
  <1>3. Cap(g)' = Cap(g)
    BY <1>1, CapStays
  <1>. QED
    BY <1>1, <1>2, <1>3, CapType

\* The scheduler has as many requests killed as a group runs beyond its new limit.
LEMMA KilledEnough ==
    ASSUME SeatInv, NEW l \in Limits, NEW S, SelTasksToKill(l, S), NEW g \in S, g \in Groups, gstate[g] = "up"
    PROVE  live[g] <= victims'[g] + l[g]
  <1>1. live[g] \in Nat /\ victims[g] \in Nat /\ done[g] \in Nat /\ victims'[g] \in Nat /\ l[g] \in Nat
    BY CapType, KillType, GroupsAssumption DEF Limits
  <1>2. PICK e \in Int : e = live[g] + done[g] - l[g]
    BY <1>1
  <1>3. RunningCount(g) = live[g] + done[g]
    BY DEF RunningCount
  <1>4. e > 0 => victims'[g] >= e - done[g]
    <2>1. g \in S /\ gstate[g] = "up" /\ RunningCount(g) - l[g] > 0
            => victims'[g] >= RunningCount(g) - l[g] - done[g]
      BY DEF SelTasksToKill
    <2>. QED
      BY <1>1, <1>2, <1>3, <2>1
  <1>. QED
    BY <1>1, <1>2, <1>4

\* The lists of the other connections and the group that came.
LEMMA AddListed ==
    ASSUME SeatInv, NEW g \in Groups, AddTaskGrp(g), \A d \in Conns : Dealt(d),
           NEW c \in Conns, c = ConnOf[g], Connected(c), NEW a, NEW p, AddOutcome(c, g, a, p)
    PROVE  /\ Listed(c)' = Listed(c) \cup {g} /\ g \notin Listed(c)
           /\ Members(p) = Listed(c)'
           /\ \A d \in Conns : d # c => Listed(d)' = Listed(d)
  <1>1. creator[g] = "add" /\ swap = {} /\ UNCHANGED <<gstate, slots, swap>>
    BY DEF AddTaskGrp, Unlocked
  <1>2. /\ Queued(a) /\ a.lim = lim /\ Members(a) = Members(Queues(c)) \cup {g}
        /\ Redealt(a, p) /\ SetQueues(c, p)
    BY DEF AddOutcome
  <1>3. \A h \in Members(Queues(c)) : ConnOf[h] = c /\ creator[h] = "ok"
    BY ConnQueued
  <1>4. \A h \in Members(a) : ConnOf[h] = c
    BY <1>2, <1>3
  <1>5. \A d \in Conns : d # c => Listed(d)' = Listed(d)
    BY <1>1, <1>2, <1>4, DealtOthers
  <1>6. Queued(p) /\ Members(p) = Members(a)
    BY <1>2 DEF Redealt
  <1>7. Listed(c)' = Members(a)
    BY <1>1, <1>2, <1>6, DealtHere
  <1>8. Listed(c) = Members(Queues(c)) /\ g \notin Listed(c)
    BY <1>1, <1>3, ListedMembers, SwappedNone
  <1>. QED
    BY <1>2, <1>5, <1>6, <1>7, <1>8

\* With at least as many groups as slots the largest share is one slot.
LEMMA CrowdedShare ==
    ASSUME SeatInv, NEW c \in Conns, Dealt(c), Listed(c) # {},
           Queuing(c) # {} \/ slots[c] < Cardinality(Listed(c)) + 1
    PROVE  slots[c] <= Cardinality(Listed(c)) /\ LargestShare(c) = 1
  <1>1. PICK m \in Nat : m = Cardinality(Listed(c)) /\ m > 0
    BY ShareCeil
  <1>2. PICK n \in Nat : n = slots[c] /\ n >= 1
    BY SlotsType
  <1>3. n <= m
    <2>1. CASE Queuing(c) # {}
      <3>1. Cardinality(Seats(c)) = n
        BY <1>2, <2>1 DEF Dealt, Crowded
      <3>. QED
        BY <1>1, <1>2, <3>1, SeatsParts
    <2>2. CASE slots[c] < Cardinality(Listed(c)) + 1
      BY <1>1, <1>2, <2>2
    <2>. QED
      BY <2>1, <2>2
  <1>4. Ceil(n, m) = 1
    BY <1>1, <1>2, <1>3, CeilFacts
  <1>. QED
    BY <1>1, <1>2, <1>3, <1>4, ShareCeil

\* AddTaskGrp cuts the limits and picks as many victims, or leaves the share at one.
LEMMA AddOverrun ==
    ASSUME SeatInv, OverrunBounded, scheduled, resized = 0, \A d \in Conns : Dealt(d),
           NEW g \in Groups, AddTaskGrp(g), CapsTyped', LimitsCapped', NEW h \in inMap'
    PROVE  live'[h] <= victims'[h] + Cap(h)'
  <1>1. /\ h \in inMap /\ h \in Groups /\ gstate[h] = "up"
        /\ UNCHANGED <<gstate, live, slots, swap>> /\ swap = {}
    BY DEF AddTaskGrp, Unlocked, SeatInv, TypeOK, GrpFacts
  <1>2. PICK c \in Conns : c = ConnOf[g]
    BY SchedAssumption
  <1>3. /\ live[h] \in Nat /\ victims[h] \in Nat /\ Cap(h) \in Nat /\ live[h] <= victims[h] + Cap(h)
        /\ live'[h] = live[h]
    BY <1>1, CapType, OverrunCap
  <1>4. CASE ~Connected(c)
    <2>1. UNCHANGED <<rdy, wai, victims>>
      BY <1>2, <1>4 DEF AddTaskGrp
    <2>2. \A d \in Conns : Listed(d)' = Listed(d)
      BY <1>1, <2>1 DEF Listed, Ready, Waiting, Swapped
    <2>3. ConnOf[h] \in Conns
      BY <1>1, SchedAssumption
    <2>. QED
      BY <1>1, <1>3, <2>1, <2>2, <2>3, OverrunStays
  <1>5. CASE Connected(c)
    <2>1. PICK a, p : AddOutcome(c, g, a, p)
      BY <1>2, <1>5, AddShape
    <2>2. /\ Listed(c)' = Listed(c) \cup {g} /\ g \notin Listed(c) /\ Members(p) = Listed(c)'
          /\ \A d \in Conns : d # c => Listed(d)' = Listed(d)
      BY <1>2, <1>5, <2>1, AddListed
    <2>3. /\ Queued(a) /\ Members(a) = Members(Queues(c)) \cup {g} /\ Redealt(a, p) /\ SetQueues(c, p)
      BY <2>1 DEF AddOutcome
    <2>4. Queued(p) /\ p.lim \in Limits /\ lim' = p.lim
      BY <2>3, QueueParts DEF Redealt, Queued, SetQueues
    <2>5. victims'[h] \in Nat /\ victims'[h] >= victims[h]
      <3>1. CASE UNCHANGED victims
        BY <1>3, <3>1
      <3>2. CASE SelTasksToKill(p.lim, ToSet(p.rdy))
        BY <1>1, <2>4, <3>2, KillType
      <3>. QED
        BY <2>1, <3>1, <3>2 DEF AddOutcome
    <2>6. CASE ConnOf[h] # c
      <3>1. ConnOf[h] \in Conns
        BY <1>1, SchedAssumption
      <3>2. Listed(ConnOf[h])' = Listed(ConnOf[h])
        BY <2>2, <2>6, <3>1
      <3>3. live'[h] - victims'[h] <= live[h] - victims[h]
        BY <1>3, <2>5
      <3>. QED
        BY <1>1, <1>3, <2>5, <3>2, <3>3, OverrunStays
    <2>7. CASE ConnOf[h] = c /\ h \notin Listed(c)
      <3>1. Cap(h) = 0
        BY <2>7 DEF Cap
      <3>2. Cap(h)' \in Nat
        BY <1>1 DEF CapsTyped
      <3>. QED
        BY <1>3, <2>5, <3>1, <3>2
    <2>8. CASE ConnOf[h] = c /\ h \in Listed(c)
      <3>1. PICK m \in Nat : m = Cardinality(Listed(c)) /\ m > 0
        BY <2>8, ShareCeil
      <3>2. PICK n \in Nat : n = slots[c] /\ n >= 1
        BY SlotsType
      <3>3. Cardinality(Listed(c)') = m + 1
        BY <2>2, <3>1, SeatsParts, FS_AddElement
      <3>4. Cap(h) = LargestShare(c) /\ Cap(h)' = Ceil(n, m + 1)
        <4>1. Cap(h) = LargestShare(c)
          BY <2>8 DEF Cap
        <4>2. Cap(h)' = LargestShare(c)'
          BY <2>2, <2>8 DEF Cap
        <4>3. m + 1 # 0
          BY <3>1
        <4>4. LargestShare(c)' = Ceil(n, m + 1)
          BY <1>1, <3>2, <3>3, <4>3 DEF LargestShare, Ceil
        <4>. QED
          BY <4>1, <4>2, <4>4
      <3>5. TaskGrpCount(a) = m + 1
        <4>1. TaskGrpCount(a) = Cardinality(Members(a))
          BY <2>3, MembersCount
        <4>2. Members(a) = Listed(c)'
          BY <2>2, <2>3 DEF Redealt
        <4>. QED
          BY <3>3, <4>1, <4>2
      <3>6. CASE (wai[c] # <<>> \/ slots[c] < TaskGrpCount(a)) /\ UNCHANGED victims
        <4>1. Queuing(c) # {} \/ slots[c] < Cardinality(Listed(c)) + 1
          BY <1>1, <3>1, <3>5, <3>6, SeatsAtRest
        <4>2. slots[c] <= Cardinality(Listed(c)) /\ LargestShare(c) = 1
          BY <2>8, <4>1, CrowdedShare
        <4>3. n <= m + 1 /\ m + 1 \in Nat /\ m + 1 > 0
          BY <3>1, <3>2, <4>2
        <4>4. Ceil(n, m + 1) = 1
          BY <3>2, <4>3, CeilFacts
        <4>. QED
          BY <1>3, <3>4, <3>6, <4>2, <4>4
      <3>7. CASE wai[c] = <<>> /\ slots[c] >= TaskGrpCount(a) /\ p = Share(a, slots[c])
                 /\ SelTasksToKill(p.lim, ToSet(p.rdy))
        <4>1. TaskGrpCount(a) > 0
          BY <3>1, <3>5
        <4>2. ToSet(p.rdy) = Members(a)
          BY <2>3, <3>2, <3>7, <4>1, ShareRoomy
        <4>3. h \in ToSet(p.rdy)
          BY <2>2, <2>3, <2>8, <4>2 DEF Redealt
        <4>4. live[h] <= victims'[h] + p.lim[h]
          BY <1>1, <2>4, <3>7, <4>3, KilledEnough
        <4>5. lim'[h] <= Cap(h)'
          BY DEF LimitsCapped
        <4>6. Cap(h)' \in Nat /\ lim'[h] \in Nat
          BY <1>1 DEF CapsTyped
        <4>. QED
          BY <1>3, <2>4, <2>5, <4>4, <4>5, <4>6
      <3>. QED
        BY <2>1, <3>6, <3>7 DEF AddOutcome
    <2>. QED
      BY <2>6, <2>7, <2>8
  <1>. QED
    BY <1>4, <1>5

\* The others share the slots of a group that leaves.
LEMMA RemoveListed ==
    ASSUME SeatInv, NEW g \in Groups, RemoveGrpRfcs(g), scheduled, \A d \in Conns : Dealt(d),
           NEW c \in Conns, c = ConnOf[g]
    PROVE  /\ Listed(c)' = Listed(c) \ {g}
           /\ \A d \in Conns : d # c => Listed(d)' = Listed(d)
  <1>1. swap = {} /\ UNCHANGED <<gstate, slots, swap>>
    BY DEF RemoveGrpRfcs, Unlocked
  <1>2. Listed(c) = Members(Queues(c))
    BY <1>1, ListedMembers, SwappedNone
  <1>3. CASE ~Connected(c)
    <2>1. rdy[c] = <<>> /\ wai[c] = <<>> /\ ToSet(<<>>) = {}
      BY <1>3, ConnQueued DEF ToSet
    <2>2. wai' = [wai EXCEPT ![c] = RemoveFirst(@, g)] /\ UNCHANGED rdy
      BY <2>1 DEF RemoveGrpRfcs
    <2>3. wai[c] \in Seq(Groups) /\ Once(wai[c]) /\ wai \in [Conns -> Seq(Groups)]
      BY ConnQueued DEF SeatInv, TypeOK
    <2>4. ToSet(RemoveFirst(wai[c], g)) = ToSet(wai[c]) \ {g}
      BY <2>3, RemoveList
    <2>5. ToSet(wai'[c]) = {} /\ \A d \in Conns : d # c => wai'[d] = wai[d]
      BY <2>1, <2>2, <2>3, <2>4
    <2>. QED
      BY <1>1, <2>1, <2>2, <2>5 DEF Listed, Ready, Waiting, Swapped
  <1>4. CASE Connected(c)
    <2>1. PICK a, p : RemoveOutcome(c, g, a, p)
      BY <1>4, RemoveShape
    <2>2. /\ Queued(a) /\ a.lim = lim /\ Members(a) = Members(Queues(c)) \ {g}
          /\ Redealt(a, p) /\ SetQueues(c, p)
      BY <2>1 DEF RemoveOutcome
    <2>3. \A h \in Members(a) : ConnOf[h] = c
      BY <2>2, ConnQueued
    <2>4. \A d \in Conns : d # c => Listed(d)' = Listed(d)
      BY <1>1, <2>2, <2>3, DealtOthers
    <2>5. Queued(p) /\ Members(p) = Members(a)
      BY <2>2 DEF Redealt
    <2>6. Listed(c)' = Members(a)
      BY <1>1, <2>2, <2>5, DealtHere
    <2>. QED
      BY <1>2, <2>2, <2>4, <2>6
  <1>. QED
    BY <1>3, <1>4

\* The largest share of the groups that remain is no smaller.
LEMMA RemoveOverrun ==
    ASSUME SeatInv, OverrunBounded, scheduled, resized = 0, \A d \in Conns : Dealt(d),
           NEW g \in Groups, RemoveGrpRfcs(g), NEW h \in inMap'
    PROVE  live'[h] <= victims'[h] + Cap(h)'
  <1>1. h \in inMap /\ h # g /\ h \in Groups /\ UNCHANGED <<gstate, live, victims, slots>>
    BY DEF RemoveGrpRfcs, SeatInv, TypeOK
  <1>2. PICK c \in Conns : c = ConnOf[g]
    BY SchedAssumption
  <1>3. Listed(c)' = Listed(c) \ {g} /\ \A d \in Conns : d # c => Listed(d)' = Listed(d)
    BY <1>2, RemoveListed
  <1>4. /\ live[h] \in Nat /\ victims[h] \in Nat /\ Cap(h) \in Nat /\ live[h] <= victims[h] + Cap(h)
        /\ live'[h] = live[h] /\ victims'[h] = victims[h] /\ ConnOf[h] \in Conns
    BY <1>1, CapType, OverrunCap, SchedAssumption
  <1>5. CASE ConnOf[h] # c
    BY <1>1, <1>3, <1>4, <1>5, OverrunStays
  <1>6. CASE ConnOf[h] = c /\ h \notin Listed(c)
    <2>1. Cap(h) = 0 /\ Cap(h)' = 0
      BY <1>3, <1>6 DEF Cap
    <2>. QED
      BY <1>4, <2>1
  <1>7. CASE ConnOf[h] = c /\ h \in Listed(c)
    <2>1. PICK m \in Nat : m = Cardinality(Listed(c)) /\ m > 0
      BY <1>7, ShareCeil
    <2>2. PICK n \in Nat : n = slots[c] /\ n >= 1
      BY SlotsType
    <2>3. IsFiniteSet(Listed(c))
      BY SeatsParts
    <2>4. PICK k \in Nat : k = Cardinality(Listed(c)') /\ k > 0 /\ k <= m
      <3>1. Listed(c)' \subseteq Listed(c) /\ h \in Listed(c)'
        BY <1>1, <1>3, <1>7
      <3>2. IsFiniteSet(Listed(c)') /\ Cardinality(Listed(c)') <= Cardinality(Listed(c))
        BY <2>3, <3>1, FS_Subset
      <3>3. Cardinality(Listed(c)') \in Nat /\ Cardinality(Listed(c)') # 0
        BY <3>1, <3>2, FS_CardinalityType, FS_EmptySet
      <3>. QED
        BY <2>1, <3>2, <3>3
    <2>5. Cap(h) = Ceil(n, m)
      BY <1>7, <2>1, <2>2, ShareCeil DEF Cap
    <2>6. Cap(h)' = LargestShare(c)'
      BY <1>1, <1>3, <1>7 DEF Cap
    <2>7. k # 0
      BY <2>4
    <2>8. LargestShare(c)' = Ceil(n, k)
      BY <1>1, <2>2, <2>4, <2>7 DEF LargestShare, Ceil
    <2>9. Ceil(n, m) <= Ceil(n, k) /\ Ceil(n, k) \in Nat /\ Ceil(n, m) \in Nat
      BY <2>1, <2>2, <2>4, CeilMono, CeilFacts
    <2>. QED
      BY <1>4, <2>5, <2>6, <2>8, <2>9
  <1>. QED
    BY <1>5, <1>6, <1>7

\* What a group runs is bounded where a step starts nothing and moves nobody.
LEMMA OverrunQuiet ==
    ASSUME SeatInv, OverrunBounded, scheduled, resized = 0,
           \A d \in Conns : Listed(d)' = Listed(d) /\ (Listed(d) # {} => slots'[d] = slots[d]),
           NEW h \in inMap, live'[h] \in Nat, victims'[h] \in Nat,
           live'[h] - victims'[h] <= live[h] - victims[h]
    PROVE  live'[h] <= victims'[h] + Cap(h)'
  <1>1. h \in Groups
    BY DEF SeatInv, TypeOK
  <1>2. ConnOf[h] \in Conns
    BY <1>1, SchedAssumption
  <1>. QED
    BY <1>2, OverrunStays

\* A batch fills the free slots of the group.
LEMMA BatchOverrun ==
    ASSUME SeatInv, OverrunBounded, scheduled, resized = 0, LimitsCapped,
           \A d \in Conns : Listed(d)' = Listed(d),
           NEW g \in Groups, GroupStep(g), NEW h \in inMap'
    PROVE  live'[h] <= victims'[h] + Cap(h)'
  <1>1. UNCHANGED <<gstate, lim, done, victims, inMap, slots>>
    BY DEF GroupStep, RunBegin, RunEnd, schedVars, lifeVars, listVars
  <1>2. h \in inMap /\ h \in Groups
    BY <1>1 DEF SeatInv, TypeOK
  <1>3. /\ live[h] \in Nat /\ victims[h] \in Nat /\ Cap(h) \in Nat /\ done[h] \in Nat /\ lim[h] \in Nat
        /\ victims'[h] = victims[h] /\ ConnOf[h] \in Conns
    BY <1>1, <1>2, CapType, SchedAssumption
  <1>4. noSched[g] => gstate[g] = "up"
    BY DEF SeatInv, GrpFacts
  <1>5. \/ UNCHANGED <<que, live>>
        \/ TakeBatch(g) /\ CanTake(g) /\ gstate[g] = "up"
    BY <1>4, Zenon DEF GroupStep, RunBegin, RunEnd
  <1>6. CASE live'[h] = live[h]
    <2>1. live'[h] - victims'[h] <= live[h] - victims[h]
      BY <1>3, <1>6
    <2>. QED
      BY <1>1, <1>2, <1>3, <1>6, <2>1, OverrunQuiet
  <1>7. CASE TakeBatch(g) /\ CanTake(g) /\ gstate[g] = "up" /\ h = g
    <2>1. live'[h] + done[h] <= lim[h] /\ live'[h] \in Nat
      BY <1>7, BatchType
    <2>2. lim[h] <= Cap(h)
      BY <1>2 DEF LimitsCapped
    <2>3. Cap(h)' = Cap(h)
      BY <1>1, <1>2, <1>3, CapStays
    <2>. QED
      BY <1>3, <2>1, <2>2, <2>3
  <1>8. CASE TakeBatch(g) /\ CanTake(g) /\ gstate[g] = "up" /\ h # g
    <2>1. live'[h] = live[h]
      BY <1>2, <1>8, BatchType
    <2>. QED
      BY <1>6, <2>1
  <1>. QED
    BY <1>5, <1>6, <1>7, <1>8

\* Every step keeps the bound.
LEMMA OverrunStep ==
    SeatInv /\ DealInv /\ OverrunBounded /\ [Next]_vars => OverrunBounded'
  <1>. SUFFICES ASSUME SeatInv, DealInv, OverrunBounded, [Next]_vars, scheduled', resized' = 0,
                       NEW h \in inMap'
                PROVE  live'[h] <= victims'[h] + Cap(h)'
    BY DEF OverrunBounded, Cap
  <1>2. scheduled /\ resized = 0
    BY ResizedSteps, Zenon
  <1>3. (\A d \in Conns : Dealt(d)) /\ LimitsCapped
    BY <1>2, CapLimit DEF DealInv
  <1>4. SeatInv' /\ DealInv'
    BY SeatStep, DealStep
  <1>5. CapsTyped' /\ LimitsCapped'
    <2>1. SeatInv' /\ DealInv' /\ scheduled' /\ (resized = 0)' => LimitsCapped'
      BY CapLimit, PTL
    <2>2. SeatInv' => CapsTyped'
      BY CapTypes, PTL
    <2>. QED
      BY <1>4, <2>1, <2>2
  <1>6. h \in Groups /\ live'[h] \in Nat /\ victims'[h] \in Nat
    BY <1>4 DEF SeatInv, TypeOK, GrpTypeOK
  <1>7. /\ live[h] \in Nat /\ victims[h] \in Nat /\ Cap(h)' \in Nat
        /\ h \in inMap => live[h] <= victims[h] + Cap(h)
    BY <1>2, <1>5, <1>6, CapType, OverrunCap DEF CapsTyped
  <1>8. ASSUME \A d \in Conns : Listed(d)' = Listed(d), UNCHANGED slots, h \in inMap,
               live'[h] = live[h], victims'[h] = victims[h]
        PROVE  live'[h] <= victims'[h] + Cap(h)'
    BY <1>2, <1>6, <1>7, <1>8, OverrunQuiet
  <1>9. CASE UNCHANGED vars
    <2>1. UNCHANGED <<rdy, wai, swap, slots, gstate, lim, live, victims, inMap>>
      BY <1>9 DEF vars, grpVars, schedVars, lifeVars, listVars
    <2>. QED
      BY <1>3, <1>8, <2>1, RestDealt
  <1>10. CASE GetNextTaskGrpAAR
    <2>1. UNCHANGED <<slots, gstate, lim, live, victims, inMap>>
      BY <1>10 DEF GetNextTaskGrpAAR, lifeVars
    <2>2. \A d \in Conns : Listed(d)' = Listed(d)
      BY <1>3, <1>10, <2>1, AARKeeps, DealtStays
    <2>. QED
      BY <1>8, <2>1, <2>2
  <1>11. CASE GetNextTaskGrpOCC
    <2>1. UNCHANGED <<slots, gstate, lim, live, victims, inMap>>
      BY <1>11 DEF GetNextTaskGrpOCC, lifeVars
    <2>2. \A d \in Conns : Listed(d)' = Listed(d)
      BY <1>3, <1>11, <2>1, OCCKeeps, DealtStays
    <2>. QED
      BY <1>8, <2>1, <2>2
  <1>12. CASE Exchange
    <2>1. UNCHANGED <<slots, live, victims, inMap>>
      BY <1>12 DEF Exchange, lifeVars
    <2>. QED
      BY <1>3, <1>8, <1>12, <2>1, ExchangeDealt
  <1>13. ASSUME NEW c \in Conns, CloseConn(c) PROVE live'[h] <= victims'[h] + Cap(h)'
    <2>1. /\ UNCHANGED <<slots, live, victims>> /\ h \in inMap /\ ConnOf[h] # c
          /\ ConnOf[h] \in Conns
      BY <1>6, <1>13, SchedAssumption DEF CloseConn, grpVars
    <2>2. Listed(ConnOf[h])' = Listed(ConnOf[h])
      BY <1>3, <1>13, <2>1, CloseDealt
    <2>3. live'[h] - victims'[h] <= live[h] - victims[h]
      BY <1>7, <2>1
    <2>. QED
      BY <1>2, <1>6, <2>1, <2>2, <2>3, OverrunStays
  <1>14. ASSUME NEW g \in Groups, CreateGrpRfc(g) PROVE live'[h] <= victims'[h] + Cap(h)'
    <2>1. /\ UNCHANGED <<slots, live, victims>> /\ inMap' = inMap \cup {g} /\ gstate[g] = "none"
      BY <1>14 DEF CreateGrpRfc, listVars
    <2>2. CASE h = g
      <3>1. live'[h] = 0
        BY <1>6, <2>1, <2>2 DEF SeatInv, GrpFacts
      <3>. QED
        BY <1>6, <1>7, <3>1
    <2>3. CASE h # g
      BY <1>2, <1>3, <1>8, <1>14, <2>1, <2>3, CreateDealt
    <2>. QED
      BY <2>2, <2>3
  <1>15. ASSUME NEW g \in Groups, RemoveGrpRfcs(g) PROVE live'[h] <= victims'[h] + Cap(h)'
    BY <1>2, <1>3, <1>15, RemoveOverrun
  <1>16. ASSUME NEW g \in Groups, AddTaskGrp(g) PROVE live'[h] <= victims'[h] + Cap(h)'
    BY <1>2, <1>3, <1>5, <1>16, AddOverrun
  <1>17. ASSUME NEW g \in Groups, AddConn(g) PROVE live'[h] <= victims'[h] + Cap(h)'
    <2>1. UNCHANGED <<live, victims, inMap>>
      BY <1>17 DEF AddConn, grpVars
    <2>2. live'[h] - victims'[h] <= live[h] - victims[h]
      BY <1>7, <2>1
    <2>3. \A d \in Conns : Listed(d)' = Listed(d) /\ (Listed(d) # {} => slots'[d] = slots[d])
      BY <1>3, <1>17, AddConnDealt
    <2>. QED
      BY <1>2, <1>6, <2>1, <2>2, <2>3, OverrunQuiet
  <1>18. ASSUME NEW g \in Groups, CreateFails(g) PROVE live'[h] <= victims'[h] + Cap(h)'
    <2>1. UNCHANGED <<rdy, wai, swap, slots, gstate, lim, live, victims, inMap>>
      BY <1>18 DEF CreateFails, grpVars, listVars
    <2>. QED
      BY <1>3, <1>8, <2>1, RestDealt
  <1>19. ASSUME NEW g \in Groups, Cancel(g) PROVE live'[h] <= victims'[h] + Cap(h)'
    <2>1. /\ UNCHANGED <<slots, inMap>> /\ remover[g] = "cancel"
          /\ live' = [live EXCEPT ![g] = 0] /\ victims' = [victims EXCEPT ![g] = 0]
      BY <1>19 DEF Cancel, OnCancel, listVars
    <2>2. h # g
      BY <2>1, <1>6 DEF SeatInv, GrpFacts
    <2>3. live'[h] = live[h] /\ victims'[h] = victims[h]
      BY <1>6, <2>1, <2>2 DEF SeatInv, TypeOK, GrpTypeOK
    <2>. QED
      BY <1>3, <1>8, <1>19, <2>1, <2>3, CancelDealt
  <1>20. ASSUME NEW g \in Groups, Submit(g) \/ DeferredRemove(g) \/ RequeueInvTask(g)
         PROVE  live'[h] <= victims'[h] + Cap(h)'
    <2>1. UNCHANGED <<rdy, wai, swap, slots, gstate, lim, live, victims, inMap>>
      BY <1>20 DEF Submit, DeferredRemove, RequeueInvTask, lifeVars, listVars
    <2>. QED
      BY <1>3, <1>8, <2>1, RestDealt
  <1>21. ASSUME NEW g \in Groups, OnChildComplete(g) \/ KillTask(g)
         PROVE  live'[h] <= victims'[h] + Cap(h)'
    <2>1. UNCHANGED <<rdy, wai, swap, slots, gstate, lim, inMap>>
      BY <1>21 DEF OnChildComplete, KillTask, schedVars, lifeVars, listVars
    <2>2. /\ live' = [live EXCEPT ![g] = @ - 1]
          /\ victims' = [victims EXCEPT ![g] = @ - 1] \/ UNCHANGED victims
      BY <1>21 DEF OnChildComplete, EndsLive, KillTask
    <2>3. live \in [Groups -> Nat] /\ victims \in [Groups -> Nat]
      BY DEF SeatInv, TypeOK, GrpTypeOK
    <2>4. live'[h] - victims'[h] <= live[h] - victims[h]
      <3>1. live'[h] = live[h] \/ live'[h] = live[h] - 1
        BY <1>6, <2>2, <2>3
      <3>2. CASE UNCHANGED victims
        BY <1>7, <3>1, <3>2
      <3>3. CASE victims' = [victims EXCEPT ![g] = @ - 1] /\ h = g
        BY <1>6, <1>7, <2>2, <2>3, <3>3
      <3>4. CASE victims' = [victims EXCEPT ![g] = @ - 1] /\ h # g
        BY <1>6, <1>7, <2>2, <2>3, <3>4
      <3>. QED
        BY <2>2, <3>2, <3>3, <3>4
    <2>5. \A d \in Conns : Listed(d)' = Listed(d)
      BY <1>3, <2>1, RestDealt
    <2>. QED
      BY <1>2, <1>6, <2>1, <2>4, <2>5, OverrunQuiet
  <1>22. ASSUME NEW g \in Groups, GroupStep(g) PROVE live'[h] <= victims'[h] + Cap(h)'
    <2>1. UNCHANGED <<rdy, wai, swap, slots, gstate, lim>>
      BY <1>22 DEF GroupStep, RunBegin, RunEnd, schedVars, listVars
    <2>2. \A d \in Conns : Listed(d)' = Listed(d)
      BY <1>3, <2>1, RestDealt
    <2>. QED
      BY <1>2, <1>3, <1>22, <2>2, BatchOverrun
  <1>23. ~ \/ \E c \in Conns : \E n \in SlotCounts : SetSlotCount(c, n)
           \/ \E g \in Groups : \/ LimitToRunning(g) \/ AddAndRun(g)
                                \/ \E n \in 1..MaxReqs : RefreshReqLimit(g, n)
    BY <1>2, ResizedSteps
  <1>. QED
    BY <1>9, <1>10, <1>11, <1>12, <1>13, <1>14, <1>15, <1>16, <1>17, <1>18, <1>19, <1>20, <1>21,
       <1>22, <1>23 DEF Next, LifeStep, RequestStep

\* Nothing runs at first.
LEMMA OverrunInit == Init => OverrunBounded
  BY DEF Init, OverrunBounded

\* No group of a connection runs more requests, those about to be killed aside,
\* than the largest share of the connection's slots, as long as no remote bridge
\* has changed its limit: not when AddTaskGrp cuts the limits of the groups that
\* run requests, nor when RemoveGrpRfcs deals out the slots of one that leaves, nor
\* when GetNextTaskGrpOCC takes the slot of a group that has just started a request.
THEOREM OverrunAlwaysBounded == Spec => []OverrunBounded
  <1>1. SeatInv /\ DealInv /\ OverrunBounded /\ [Next]_vars => (SeatInv /\ DealInv /\ OverrunBounded)'
    BY SeatStep, DealStep, OverrunStep
  <1>. QED
    BY <1>1, SeatInit, DealInit, OverrunInit, PTL DEF Spec

-----------------------------------------------------------------------------
(* How many slots the groups of a connection have together.                *)

Total(l, S) == MapThenSumSet(LAMBDA g : l[g], S)
Pick(s) == CHOOSE x \in s : TRUE

\* The recursion by which MapThenSumSet computes the sum.
IsSum(l, S, f) == f = [s \in SUBSET S |-> IF s = {} THEN 0 ELSE l[Pick(s)] + f[s \ {Pick(s)}]]

\* MapThenSumSet is the value of its recursion.
LEMMA TotalSum ==
    ASSUME NEW l, NEW S, NEW f, f = CHOOSE k : IsSum(l, S, k)
    PROVE  Total(l, S) = f[S]
  BY Zenon DEF Total, MapThenSumSet, MapThenFoldSet, IsSum, Pick

\* Equal shares and one more for the members of B.
Dealing(n, s, B) == n * Cardinality(s) + Cardinality(s \cap B)

\* The share of one group and those of the others.
OneAndRest(n, s, B, x) == Dealing(n, s, B) = (n + Extra(x, B)) + Dealing(n, s \ {x}, B)
EvenShares(l, S, n, B) == \A g \in S : l[g] = n + Extra(g, B)
EvenTotal(l, S, n, B) == Total(l, S) = n * Cardinality(S) + Cardinality(S \cap B)

\* The slots of one group and of the others.
LEMMA DealingOne ==
    ASSUME NEW s, IsFiniteSet(s), NEW n \in Nat, NEW B, NEW x \in s
    PROVE  /\ OneAndRest(n, s, B, x)
           /\ Dealing(n, s \ {x}, B) \in Nat /\ Dealing(n, s, B) \in Nat
           /\ IsFiniteSet(s \ {x}) /\ Cardinality(s) = Cardinality(s \ {x}) + 1
           /\ Cardinality(s \ {x}) \in Nat
  <1>1. IsFiniteSet(s \ {x}) /\ IsFiniteSet((s \ {x}) \cap B)
    BY FS_Subset
  <1>2. PICK i \in Nat : i = Cardinality(s \ {x})
    BY <1>1, FS_CardinalityType
  <1>3. PICK j \in Nat : j = Cardinality((s \ {x}) \cap B)
    BY <1>1, FS_CardinalityType
  <1>4. Cardinality(s) = i + 1
    <2>1. s = (s \ {x}) \cup {x} /\ x \notin s \ {x}
      OBVIOUS
    <2>. QED
      BY <1>1, <1>2, <2>1, FS_AddElement
  <1>5. Cardinality(s \cap B) = j + Extra(x, B)
    <2>1. CASE x \in B
      <3>1. s \cap B = ((s \ {x}) \cap B) \cup {x} /\ x \notin (s \ {x}) \cap B
        BY <2>1
      <3>2. Cardinality(s \cap B) = j + 1
        BY <1>1, <1>3, <3>1, FS_AddElement
      <3>. QED
        BY <2>1, <3>2 DEF Extra
    <2>2. CASE x \notin B
      <3>1. s \cap B = (s \ {x}) \cap B
        BY <2>2
      <3>2. j + 0 = j
        OBVIOUS
      <3>. QED
        BY <1>3, <2>2, <3>1, <3>2 DEF Extra
    <2>. QED
      BY <2>1, <2>2
  <1>6. Extra(x, B) \in Nat
    BY DEF Extra
  <1>7. PICK e \in Nat : e = Extra(x, B)
    BY <1>6
  <1>8. Dealing(n, s, B) = n * (i + 1) + (j + e)
    BY <1>4, <1>5, <1>7 DEF Dealing
  <1>9. Dealing(n, s \ {x}, B) = n * i + j
    BY <1>2, <1>3 DEF Dealing
  <1>10. n * (i + 1) + (j + e) = (n + e) + (n * i + j) /\ n * i + j \in Nat
    OBVIOUS
  <1>11. (n + e) + (n * i + j) \in Nat
    BY <1>10
  <1>12. OneAndRest(n, s, B, x)
    BY <1>7, <1>8, <1>9, <1>10 DEF OneAndRest
  <1>. QED
    BY <1>1, <1>2, <1>4, <1>8, <1>9, <1>10, <1>11, <1>12

\* No groups, no slots.
LEMMA DealingNone ==
    ASSUME NEW n \in Nat, NEW B
    PROVE  Dealing(n, {}, B) = 0
  <1>1. {} \cap B = {} /\ Cardinality({}) = 0
    BY FS_EmptySet
  <1>2. n * 0 + 0 = 0
    OBVIOUS
  <1>. QED
    BY <1>1, <1>2 DEF Dealing

\* The sum of equal shares.
LEMMA DealingTotal ==
    ASSUME NEW S, IsFiniteSet(S), NEW n \in Nat, NEW B, NEW l, EvenShares(l, S, n, B)
    PROVE  EvenTotal(l, S, n, B)
  <1>1. \A s \in SUBSET S : IsFiniteSet(s)
    BY FS_Subset
  <1>2. \A s \in SUBSET S : s # {} => Pick(s) \in s /\ Pick(s) \in S /\ s \ {Pick(s)} \in SUBSET S
    BY DEF Pick
  <1>3. \A s \in SUBSET S : s # {} =>
            Dealing(n, s, B) = l[Pick(s)] + Dealing(n, s \ {Pick(s)}, B)
    <2>1. ASSUME NEW s \in SUBSET S, s # {}
          PROVE  Dealing(n, s, B) = l[Pick(s)] + Dealing(n, s \ {Pick(s)}, B)
      <3>1. PICK x \in s : x = Pick(s) /\ x \in S
        BY <1>2, <2>1
      <3>2. OneAndRest(n, s, B, x)
        <4>1. IsFiniteSet(s)
          BY <1>1
        <4>. QED
          BY <4>1, DealingOne
      <3>. QED
        BY <3>1, <3>2 DEF OneAndRest, EvenShares
    <2>. QED
      BY <2>1
  <1>4. PICK h : h = [s \in SUBSET S |-> Dealing(n, s, B)]
    OBVIOUS
  <1>5. IsSum(l, S, h)
    <2>1. \A s \in SUBSET S : h[s] = IF s = {} THEN 0 ELSE l[Pick(s)] + h[s \ {Pick(s)}]
      BY <1>2, <1>3, <1>4, DealingNone
    <2>2. h = [s \in SUBSET S |-> h[s]]
      BY <1>4
    <2>. QED
      BY <2>1, <2>2 DEF IsSum
  <1>6. PICK f : f = CHOOSE k : IsSum(l, S, k)
    OBVIOUS
  <1>7. IsSum(l, S, f)
    BY <1>5, <1>6
  <1>8. \A s \in SUBSET S : f[s] = IF s = {} THEN 0 ELSE l[Pick(s)] + f[s \ {Pick(s)}]
    <2>1. PICK F : F = [s \in SUBSET S |-> IF s = {} THEN 0 ELSE l[Pick(s)] + f[s \ {Pick(s)}]]
      OBVIOUS
    <2>2. f = F
      BY <1>7, <2>1 DEF IsSum
    <2>. QED
      BY <2>1, <2>2
  <1>9. \A s \in SUBSET S : f[s] = Dealing(n, s, B)
    <2>. DEFINE T == {k \in Nat : \A s \in SUBSET S : Cardinality(s) = k => f[s] = Dealing(n, s, B)}
    <2>1. 0 \in T
      <3>1. \A s \in SUBSET S : Cardinality(s) = 0 => s = {}
        BY <1>1, FS_EmptySet
      <3>. QED
        BY <1>8, <3>1, DealingNone
    <2>2. ASSUME NEW k \in Nat, k \in T PROVE k + 1 \in T
      <3>. SUFFICES ASSUME NEW s \in SUBSET S, Cardinality(s) = k + 1 PROVE f[s] = Dealing(n, s, B)
        OBVIOUS
      <3>1. s # {}
        BY FS_EmptySet
      <3>2. Cardinality(s \ {Pick(s)}) = k
        <4>1. Cardinality(s) = Cardinality(s \ {Pick(s)}) + 1 /\ Cardinality(s \ {Pick(s)}) \in Nat
          BY <1>1, <1>2, <3>1, DealingOne
        <4>. QED
          BY <4>1
      <3>3. f[s \ {Pick(s)}] = Dealing(n, s \ {Pick(s)}, B)
        BY <1>2, <2>2, <3>1, <3>2
      <3>. QED
        BY <1>3, <1>8, <3>1, <3>3
    <2>. HIDE DEF T
    <2>3. Nat \subseteq T
      BY <2>1, <2>2, NatStep
    <2>4. ASSUME NEW s \in SUBSET S PROVE f[s] = Dealing(n, s, B)
      <3>1. Cardinality(s) \in Nat
        BY <1>1, FS_CardinalityType
      <3>. QED
        BY <2>3, <3>1 DEF T
    <2>. QED
      BY <2>4
  <1>10. Total(l, S) = f[S]
    BY <1>6, TotalSum
  <1>. QED
    BY <1>9, <1>10 DEF Dealing, EvenTotal

\* Products of numbers that are ordered.
LEMMA TimesMono ==
    ASSUME NEW i \in Nat, NEW j \in Nat, NEW k \in Nat, i <= j
    PROVE  k * i <= k * j /\ i * k <= j * k /\ i * k = k * i /\ k * i \in Nat /\ j * k \in Nat
  <1>1. k * i <= k * j
    OBVIOUS
  <1>2. i * k = k * i /\ j * k = k * j /\ k * i \in Nat /\ j * k \in Nat
    OBVIOUS
  <1>. QED
    BY <1>1, <1>2

\* Shares add up to the slots that are dealt out, unless the limits are reached.
LEMMA SharesTotal ==
    ASSUME NEW L, IsFiniteSet(L), L # {}, NEW n \in Nat, NEW B, NEW l, Shares(L, n, B, l),
           NEW S, S \subseteq L, \A g \in S : gstate[g] = "up"
    PROVE  /\ Total(l, S) \in Nat /\ Total(l, S) <= n
           /\ S = L => Total(l, S) = Least(n, Cardinality(L) * MaxReqs)
           /\ \A g, h \in S : l[g] <= l[h] + 1
  <1>1. MaxReqs \in Nat
    BY GroupsAssumption
  <1>2. PICK M \in Nat : M = MaxReqs
    BY <1>1
  <1>3. IsFiniteSet(S) /\ IsFiniteSet(B) /\ B \subseteq L
    BY FS_Subset DEF Shares
  <1>4. PICK m \in Nat : m = Cardinality(L) /\ m > 0
    BY FS_CardinalityType, FS_EmptySet
  <1>5. PICK i \in Nat : i = Cardinality(S) /\ i <= m
    BY <1>3, <1>4, FS_CardinalityType, FS_Subset
  <1>6. PICK k \in Nat : k = n \div m
    BY <1>4, DivMod
  <1>7. PICK x \in Nat : x = n % m /\ x < m
    BY <1>4, DivMod
  <1>8. n = m * k + x
    BY <1>4, <1>6, <1>7, DivMod
  <1>9. Cardinality(B) = x /\ \A g \in S : l[g] = Least(k + Extra(g, B), M)
    BY <1>2, <1>4, <1>6, <1>7 DEF Shares
  <1>10. PICK j \in Nat : j = Cardinality(S \cap B) /\ j <= x
    <2>1. S \cap B \subseteq B
      OBVIOUS
    <2>. QED
      BY <1>3, <1>9, <2>1, FS_CardinalityType, FS_Subset
  <1>11. \A g \in S : Extra(g, B) \in 0..1
    BY DEF Extra
  <1>12. \A g, h \in S : l[g] <= l[h] + 1
    <2>1. ASSUME NEW a \in 0..1, NEW b \in 0..1 PROVE Least(k + a, M) <= Least(k + b, M) + 1
      BY DEF Least
    <2>. QED
      BY <1>9, <1>11, <2>1
  <1>13. CASE k < M
    <2>1. ASSUME NEW g \in S PROVE l[g] = k + Extra(g, B)
      <3>1. PICK e \in 0..1 : e = Extra(g, B)
        BY <1>11
      <3>2. Least(k + e, M) = k + e
        BY <1>13 DEF Least
      <3>. QED
        BY <1>9, <3>1, <3>2
    <2>2. Total(l, S) = k * i + j
      <3>1. EvenShares(l, S, k, B)
        BY <2>1 DEF EvenShares
      <3>2. EvenTotal(l, S, k, B)
        BY <1>3, <3>1, DealingTotal
      <3>. QED
        BY <1>5, <1>10, <3>2 DEF EvenTotal
    <2>3. k * i <= m * k /\ k * i \in Nat /\ m * k \in Nat
      BY <1>5, TimesMono
    <2>4. Total(l, S) \in Nat /\ Total(l, S) <= n
      BY <1>8, <1>10, <2>2, <2>3
    <2>5. ASSUME S = L PROVE Total(l, S) = Least(n, m * M)
      <3>1. i = m /\ j = x
        <4>1. S \cap B = B
          BY <1>3, <2>5
        <4>. QED
          BY <1>4, <1>5, <1>9, <1>10, <2>5, <4>1
      <3>2. Total(l, S) = n
        BY <1>8, <2>2, <3>1
      <3>3. k + 1 <= M
        BY <1>13
      <3>4. m * (k + 1) <= m * M /\ m * (k + 1) = m * k + m /\ m * M \in Nat
        BY <3>3, TimesMono
      <3>5. n <= m * M
        BY <1>7, <1>8, <3>4
      <3>. QED
        BY <3>2, <3>5 DEF Least
    <2>. QED
      BY <1>2, <1>4, <1>12, <2>4, <2>5
  <1>14. CASE k >= M
    <2>1. ASSUME NEW g \in S PROVE l[g] = M + Extra(g, {})
      <3>1. PICK e \in 0..1 : e = Extra(g, B)
        BY <1>11
      <3>2. Least(k + e, M) = M
        BY <1>14 DEF Least
      <3>3. M + 0 = M
        OBVIOUS
      <3>. QED
        BY <1>9, <3>1, <3>2, <3>3 DEF Extra
    <2>2. Cardinality(S \cap {}) = 0
      <3>1. S \cap {} = {}
        OBVIOUS
      <3>. QED
        BY <3>1, FS_EmptySet
    <2>3. Total(l, S) = M * i + 0
      <3>1. EvenShares(l, S, M, {})
        BY <2>1 DEF EvenShares
      <3>2. EvenTotal(l, S, M, {})
        BY <1>3, <3>1, DealingTotal
      <3>. QED
        BY <1>5, <2>2, <3>2 DEF EvenTotal
    <2>4. M * i <= M * m /\ M * i \in Nat /\ M * m <= k * m /\ M * m = m * M /\ k * m = m * k
          /\ m * k \in Nat /\ m * M \in Nat
      BY <1>5, <1>14, TimesMono
    <2>5. Total(l, S) \in Nat /\ Total(l, S) <= n /\ m * M <= n
      BY <1>8, <2>3, <2>4
    <2>6. ASSUME S = L PROVE Total(l, S) = Least(n, m * M)
      <3>1. i = m
        BY <1>4, <1>5, <2>6
      <3>2. Total(l, S) = m * M
        BY <2>3, <2>4, <3>1
      <3>. QED
        BY <2>4, <2>5, <3>2 DEF Least
    <2>. QED
      BY <1>2, <1>4, <1>12, <2>5, <2>6
  <1>. QED
    BY <1>13, <1>14

\* The groups that wait have no slots.
LEMMA QueuingNone ==
    ASSUME SeatInv, NEW c \in Conns
    PROVE  \A g \in Queuing(c) : gstate[g] = "up" => lim[g] = 0
  <1>1. \A h \in ToSet(wai[c]) : gstate[h] = "up" => lim[h] = 0
    BY ConnQueued
  <1>2. \A x \in swap : gstate[x[3]] = "up" => lim[x[3]] = 0
    BY DEF SeatInv, SwapFacts
  <1>. QED
    BY <1>1, <1>2 DEF Queuing, Waiting

\* Without a scheduler no group is listed.
LEMMA UnscheduledNone ==
    ASSUME SeatInv, ~scheduled, NEW c \in Conns
    PROVE  Listed(c) = {}
  <1>1. rdy[c] = <<>> /\ wai[c] = <<>> /\ swap = {} /\ ToSet(<<>>) = {}
    BY DEF SeatInv, ConnFacts, SwapFacts, ToSet
  <1>. QED
    BY <1>1 DEF Listed, Ready, Waiting, Swapped

\* The deal gives away no more slots than there are.
LEMMA SlotsFollow == SeatInv /\ DealInv => SlotsBound
  <1>. SUFFICES ASSUME SeatInv, DealInv, resized = 0, NEW c \in Conns
                PROVE  Total(lim, {g \in Listed(c) : gstate[g] = "up"}) <= slots[c]
    BY DEF SlotsBound, Total
  <1>1. PICK S : S = {g \in Listed(c) : gstate[g] = "up"}
    OBVIOUS
  <1>2. S \subseteq Listed(c) /\ IsFiniteSet(S) /\ \A g \in S : gstate[g] = "up"
    BY <1>1, SeatsParts, FS_Subset
  <1>3. PICK n \in Nat : n = slots[c] /\ n >= 1
    BY SlotsType
  <1>4. CASE Queuing(c) # {}
    <2>1. Listed(c) # {}
      BY <1>4, SeatsParts
    <2>2. scheduled
      BY <2>1, UnscheduledNone
    <2>3. Cardinality(Seats(c)) = n /\ \A g \in Seats(c) : gstate[g] = "up" => lim[g] = 1
      BY <1>3, <1>4, <2>2 DEF DealInv, Dealt, Crowded
    <2>4. \A g \in S : lim[g] = 0 + Extra(g, Seats(c))
      <3>1. ASSUME NEW g \in S, g \in Seats(c) PROVE lim[g] = 0 + Extra(g, Seats(c))
        BY <1>2, <2>3, <3>1 DEF Extra
      <3>2. ASSUME NEW g \in S, g \notin Seats(c) PROVE lim[g] = 0 + Extra(g, Seats(c))
        BY <1>2, <3>2, QueuingNone, SeatsParts DEF Extra
      <3>. QED
        BY <3>1, <3>2
    <2>5. Total(lim, S) = 0 * Cardinality(S) + Cardinality(S \cap Seats(c))
      <3>1. EvenShares(lim, S, 0, Seats(c))
        BY <2>4 DEF EvenShares
      <3>2. EvenTotal(lim, S, 0, Seats(c))
        BY <1>2, <3>1, DealingTotal
      <3>. QED
        BY <3>2 DEF EvenTotal
    <2>6. PICK i \in Nat : i = Cardinality(S)
      BY <1>2, FS_CardinalityType
    <2>7. PICK j \in Nat : j = Cardinality(S \cap Seats(c)) /\ j <= n
      <3>1. S \cap Seats(c) \subseteq Seats(c) /\ IsFiniteSet(Seats(c))
        BY SeatsParts
      <3>. QED
        BY <2>3, <3>1, FS_Subset, FS_CardinalityType
    <2>. QED
      BY <1>1, <1>3, <2>5, <2>6, <2>7
  <1>5. CASE Queuing(c) = {} /\ Listed(c) # {}
    <2>1. scheduled
      BY <1>5, UnscheduledNone
    <2>2. PICK B : Shares(Listed(c), slots[c], B, lim)
      BY <1>5, <2>1 DEF DealInv, Dealt, Roomy
    <2>. QED
      BY <1>1, <1>2, <1>3, <1>5, <2>2, SeatsParts, SharesTotal
  <1>6. CASE Listed(c) = {}
    <2>1. S = {} /\ S \cap {} = {} /\ Cardinality({}) = 0
      BY <1>2, <1>6, FS_EmptySet
    <2>2. Total(lim, S) = 0 * Cardinality(S) + Cardinality(S \cap {})
      <3>1. EvenShares(lim, S, 0, {})
        BY <2>1 DEF EvenShares
      <3>2. EvenTotal(lim, S, 0, {})
        BY <1>2, <3>1, DealingTotal
      <3>. QED
        BY <3>2 DEF EvenTotal
    <2>. QED
      BY <1>1, <1>3, <2>1, <2>2
  <1>. QED
    BY <1>4, <1>5, <1>6

\* The deal is fair.
LEMMA FairFollow == SeatInv /\ DealInv => FairShare
  <1>. SUFFICES ASSUME SeatInv, DealInv, resized = 0, swap = {}, NEW c \in Conns,
                       Listed(c) # {}, \A g \in Listed(c) : gstate[g] = "up"
                PROVE  IF Waiting(c) = {}
                       THEN /\ Total(lim, Ready(c)) = Least(slots[c], Cardinality(Ready(c)) * MaxReqs)
                            /\ \A g, h \in Ready(c) : lim[g] <= lim[h] + 1
                       ELSE /\ Cardinality(Ready(c)) = slots[c]
                            /\ \A g \in Ready(c) : lim[g] = 1
    BY DEF FairShare, Total
  <1>1. scheduled
    BY UnscheduledNone
  <1>2. Dealt(c)
    BY <1>1 DEF DealInv
  <1>3. Ready(c) = Seats(c) /\ Waiting(c) = Queuing(c)
    BY DEF Seats, Queuing
  <1>4. CASE Waiting(c) # {}
    BY <1>2, <1>3, <1>4, SeatsParts DEF Dealt, Crowded
  <1>5. CASE Waiting(c) = {}
    <2>1. Listed(c) = Ready(c)
      BY <1>3, <1>5, SeatsParts
    <2>2. PICK B : Shares(Listed(c), slots[c], B, lim)
      BY <1>2, <1>3, <1>5 DEF Dealt, Roomy
    <2>3. IsFiniteSet(Listed(c)) /\ slots[c] \in Nat
      BY SeatsParts, SlotsType
    <2>4. /\ Total(lim, Listed(c)) = Least(slots[c], Cardinality(Listed(c)) * MaxReqs)
          /\ \A g, h \in Listed(c) : lim[g] <= lim[h] + 1
      BY <2>2, <2>3, SharesTotal
    <2>. QED
      BY <1>5, <2>1, <2>4
  <1>. QED
    BY <1>4, <1>5

\* As long as no remote bridge has changed its limit, the groups of a connection
\* that can run anything never have more slots together than the connection has:
\* not after AddTaskGrp and RemoveGrpRfcs have dealt them out again, and not while
\* GetNextTaskGrpOCC exchanges two groups.
THEOREM SlotsAlwaysBounded == Spec => []SlotsBound
  BY SeatAlways, DealAlways, SlotsFollow, PTL

\* Groups wait only if every slot of the connection is given to a ready group, one
\* each; if none waits all slots are dealt out, in shares that differ by one at
\* most, whatever groups have come and gone and whoever has lost a slot to another.
THEOREM SharesAlwaysFair == Spec => []FairShare
  BY SeatAlways, DealAlways, FairFollow, PTL
=============================================================================
