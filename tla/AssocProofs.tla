----------------------------- MODULE AssocProofs -----------------------------
(***************************************************************************)
(* Proofs about module AssocIrp.  The argument is about the frames on the  *)
(* call stacks: an IRP that is finished has at most one frame, anywhere,   *)
(* that will tell its submitter (LINK or POST), a slave that is still      *)
(* being submitted is told by the one frame of its START task, and the     *)
(* frame that completes the master was pushed with the result of Local if  *)
(* the bus has a connection.                                               *)
(***************************************************************************)
EXTENDS AssocIrp, FiniteSetTheorems, SequenceTheorems, TLAPS

(* The frames on the stacks. *)
Depth(w) == 1..Len(work[w])
StartPcs == {"start", "submit", "linkStart", "callback"}
EndPcs == {"link", "post"}
Ends(w, k, i) == work[w][k].pc \in EndPcs /\ work[w][k].irp = i

\* What a call may be about, and which worker makes it at which depth.
FrameHome(w, k) ==
    LET f == work[w][k] IN
    /\ f.pc \in StartPcs => /\ f.irp \in Slaves /\ w = <<"start", f.irp>>
                            /\ k = Len(work[w])
    /\ f.pc = "link" => f.irp \in Slaves
    /\ f.pc \in {"cancelSlaves", "completing"} => f.irp = Master
Home == \A w \in Workers : \A k \in Depth(w) : FrameHome(w, k)

\* Nothing has happened before the master is pending.
Fresh ==
    ~pending[Master] =>
        /\ \A w \in Workers : work[w] = <<>>
        /\ \A s \in Slaves : /\ ~pending[s] /\ ~sent[s] /\ ~masterOf[s]
                             /\ notified[s] = 0 /\ state[s] = "READY" /\ res[s] = "none"
        /\ slaves = {}

TypeInv == TypeOK /\ Home /\ Fresh

-----------------------------------------------------------------------------
\* The setting of the bus never changes: NoDBusConn is expanded throughout.
USE DEF NoDBusConn

\* What a frame knows of its IRP.
FrameFacts(f) ==
    /\ f.pc \in StartPcs => ~pending[f.irp] /\ notified[f.irp] = 0
    /\ f.pc \in {"start", "submit"} => ~sent[f.irp]
    /\ f.pc = "linkStart" /\ sent[f.irp] => state[f.irp] \in Finished
    /\ f.pc \in EndPcs => state[f.irp] \in Finished
    /\ f.pc \in EndPcs /\ pending[f.irp] => notified[f.irp] = 0
    /\ f.pc \in {"complete", "completing"} /\ f.irp = Master /\ status[Master] = "OK"
          => NoDBusConn \/ res[Local] = "OK"
Facts == \A w \in Workers : \A k \in Depth(w) : FrameFacts(work[w][k])

OneEnd ==
    \A i \in Irps : \A w, v \in Workers : \A j \in Depth(w), k \in Depth(v) :
        Ends(w, j, i) /\ Ends(v, k, i) => w = v /\ j = k

Told ==
    /\ NotifiedOnce
    /\ \A i \in Irps : pending[i] /\ state[i] = "READY" => notified[i] = 0
    /\ state[Master] = "READY" => notified[Master] = 0

\* A recorded success is that of a slave that has finished, and a master that
\* has succeeded has the success of Local on record, if the bus has a connection.
Recorded ==
    /\ \A s \in Slaves : res[s] = "OK" =>
          sent[s] /\ state[s] \in Finished /\ status[s] = "OK"
    /\ state[Master] = "COMPLETED" /\ status[Master] = "OK" =>
          NoDBusConn \/ res[Local] = "OK"

IInv == TypeInv /\ Facts /\ OneEnd /\ Told /\ Recorded

-----------------------------------------------------------------------------
\* While nobody cancels the master, it waits for those that have not come yet
\* (minSlaves) and for those that have not ended (slaves).
Absent == {s \in Slaves : ~masterOf[s] /\ notified[s] = 0}
Calm(f) ==
    /\ f.pc \notin {"cancelSlaves", "completing"}
    /\ f.pc = "cancel" => f.irp # Master
    /\ f.pc \in {"complete", "cancel"} \cup EndPcs /\ f.irp \in Slaves => pending[f.irp]
    /\ f.pc = "start" => ~masterOf[f.irp]
    /\ f.pc = "submit" => f.irp \in slaves
    /\ f.pc \in StartPcs \ {"start"} /\ state[Master] = "READY" => masterOf[f.irp]
    /\ f.pc = "complete" /\ f.irp = Master => slaves = {} /\ minSlaves = 0
CalmState ==
    /\ slaves \subseteq Slaves
    /\ pending[Master] /\ state[Master] = "READY" => minSlaves = Cardinality(Absent)
    /\ pending[Master] /\ state[Master] \in Finished => slaves = {}
    /\ \A s \in Slaves : pending[s] /\ s \notin slaves => state[s] \in Finished
    /\ \A s \in Slaves : pending[s] /\ notified[s] = 0 => masterOf[s]
CalmFrames == \A w \in Workers : \A k \in Depth(w) : Calm(work[w][k])
CalmInv == Undisturbed => CalmFrames /\ CalmState

-----------------------------------------------------------------------------
(* Call stacks.                                                            *)

LEMMA TopFrame ==
    ASSUME work \in [Workers -> Seq(Frames)], NEW w \in Workers, work[w] # <<>>
    PROVE  /\ Len(work[w]) \in Nat /\ Len(work[w]) >= 1 /\ 1 \in Depth(w)
           /\ Head(work[w]) = work[w][1] /\ Head(work[w]) \in Frames
           /\ Tail(work[w]) \in Seq(Frames)
           /\ Len(Tail(work[w])) = Len(work[w]) - 1
           /\ \A k \in 1..(Len(work[w]) - 1) : Tail(work[w])[k] = work[w][k + 1]
           /\ Cur(w) \in Irps /\ Cur(w) = work[w][1].irp
  <1>1. work[w] \in Seq(Frames)
    OBVIOUS
  <1>2. Len(work[w]) \in Nat /\ Len(work[w]) >= 1
    BY <1>1
  <1>3. Head(work[w]) = work[w][1] /\ Head(work[w]) \in Frames
    BY <1>1, <1>2
  <1>4. /\ Tail(work[w]) \in Seq(Frames)
        /\ Len(Tail(work[w])) = Len(work[w]) - 1
        /\ \A k \in 1..(Len(work[w]) - 1) : Tail(work[w])[k] = work[w][k + 1]
    BY <1>1, <1>2
  <1>. QED
    BY <1>2, <1>3, <1>4 DEF Depth, Cur, Frames

\* Where the frames of a stack come from after a call, a return or a jump.
LEMMA Stacks ==
    ASSUME work \in [Workers -> Seq(Frames)], NEW w \in Workers, work[w] # <<>>,
           NEW fs \in Seq(Frames), Continue(w, fs)
    PROVE  /\ work' \in [Workers -> Seq(Frames)]
           /\ \A v \in Workers : v # w => work'[v] = work[v]
           /\ Len(work'[w]) = Len(fs) + Len(work[w]) - 1
           /\ \A k \in 1..Len(fs) : work'[w][k] = fs[k]
           /\ \A k \in Len(fs) + 1..Len(work'[w]) :
                 work'[w][k] = work[w][k - Len(fs) + 1]
  <1>. DEFINE t == Tail(work[w])
  <1>1. /\ t \in Seq(Frames) /\ Len(t) = Len(work[w]) - 1 /\ Len(work[w]) \in Nat
        /\ \A k \in 1..(Len(work[w]) - 1) : t[k] = work[w][k + 1]
    BY TopFrame
  <1>2. work' = [work EXCEPT ![w] = fs \o t]
    BY DEF Continue
  <1>. HIDE DEF t
  <1>3. /\ fs \o t \in Seq(Frames) /\ Len(fs \o t) = Len(fs) + Len(t)
        /\ \A k \in 1..Len(fs) : (fs \o t)[k] = fs[k]
        /\ \A k \in Len(fs) + 1..Len(fs) + Len(t) : (fs \o t)[k] = t[k - Len(fs)]
    <2>1. Len(fs) \in Nat /\ Len(t) \in Nat
      BY <1>1
    <2>2. /\ fs \o t \in Seq(Frames) /\ Len(fs \o t) = Len(fs) + Len(t)
          /\ \A k \in 1..Len(fs) + Len(t) :
                (fs \o t)[k] = IF k <= Len(fs) THEN fs[k] ELSE t[k - Len(fs)]
      BY <1>1, ConcatProperties
    <2>. QED
      BY <2>1, <2>2
  <1>4. work'[w] = fs \o t /\ work' \in [Workers -> Seq(Frames)]
    BY <1>2, <1>3
  <1>5. \A k \in Len(fs) + 1..Len(work'[w]) :
           work'[w][k] = work[w][k - Len(fs) + 1]
    <2>1. SUFFICES ASSUME NEW k \in Len(fs) + 1..Len(work'[w])
                   PROVE  work'[w][k] = work[w][k - Len(fs) + 1]
      OBVIOUS
    <2>2. k \in Int /\ Len(fs) \in Nat /\ k - Len(fs) \in 1..(Len(work[w]) - 1)
      BY <1>1, <1>3, <1>4
    <2>3. work'[w][k] = t[k - Len(fs)]
      BY <1>1, <1>3, <1>4, <2>2
    <2>. QED
      BY <1>1, <2>2, <2>3
  <1>. QED
    BY <1>1, <1>2, <1>3, <1>4, <1>5

LEMMA OldOrNew ==
    ASSUME work \in [Workers -> Seq(Frames)], NEW w \in Workers, work[w] # <<>>,
           NEW fs \in Seq(Frames), Continue(w, fs),
           NEW v \in Workers, NEW k \in Depth(v)'
    PROVE  \/ v = w /\ k \in 1..Len(fs) /\ work'[v][k] = fs[k]
           \/ \E j \in Depth(v) : /\ work'[v][k] = work[v][j]
                                  /\ v = w => j >= 2 /\ k = j + Len(fs) - 1
                                  /\ v # w => j = k
                                  /\ Len(work'[v]) - k = Len(work[v]) - j
  <1>1. CASE v # w
    <2>1. work'[v] = work[v] /\ work[v] \in Seq(Frames)
      BY <1>1, Stacks
    <2>. QED
      BY <1>1, <2>1 DEF Depth
  <1>2. CASE v = w /\ k \in 1..Len(fs)
    BY <1>2, Stacks
  <1>3. CASE v = w /\ k \notin 1..Len(fs)
    <2>1. /\ Len(work'[w]) = Len(fs) + Len(work[w]) - 1 /\ Len(work[w]) \in Nat
          /\ Len(fs) \in Nat /\ k \in Int
      BY Stacks DEF Depth
    <2>2. k \in Len(fs) + 1..Len(work'[w])
      BY <1>3, <2>1 DEF Depth
    <2>3. work'[w][k] = work[w][k - Len(fs) + 1]
      BY <2>2, Stacks
    <2>4. k - Len(fs) + 1 \in Depth(w) /\ k - Len(fs) + 1 >= 2
      BY <2>1, <2>2 DEF Depth
    <2>. DEFINE j == k - Len(fs) + 1
    <2>5. /\ j \in Depth(v) /\ work'[v][k] = work[v][j] /\ j >= 2
          /\ k = j + Len(fs) - 1 /\ Len(work'[v]) - k = Len(work[v]) - j
      BY <1>3, <2>1, <2>3, <2>4
    <2>. HIDE DEF j
    <2>. QED
      BY <1>3, <2>5
  <1>. QED
    BY <1>1, <1>2, <1>3

\* The frames that the actions put on a stack.
LEMMA FrameTypes ==
    /\ <<>> \in Seq(Frames) /\ Len(<<>>) = 0
    /\ \A f \in Frames : /\ <<f>> \in Seq(Frames) /\ Len(<<f>>) = 1 /\ <<f>>[1] = f
    /\ \A f, g \in Frames : /\ <<f, g>> \in Seq(Frames) /\ Len(<<f, g>>) = 2
                            /\ <<f, g>>[1] = f /\ <<f, g>>[2] = g
    /\ \A f, g, h \in Frames : /\ <<f, g, h>> \in Seq(Frames) /\ Len(<<f, g, h>>) = 3
                               /\ <<f, g, h>>[1] = f /\ <<f, g, h>>[2] = g
                               /\ <<f, g, h>>[3] = h
    /\ \A pc \in Pcs, i \in Irps : /\ Frame(pc, i) \in Frames
                                   /\ Frame(pc, i).pc = pc /\ Frame(pc, i).irp = i
  BY DEF Frame, Frames

-----------------------------------------------------------------------------
(* Type correctness.                                                       *)

\* Frames that may be put on the stack of w.
GoodFrames(w, fs) ==
    \A k \in 1..Len(fs) :
        /\ fs[k].pc \in StartPcs => /\ fs[k].irp \in Slaves /\ w = <<"start", fs[k].irp>>
                                    /\ k = Len(fs) /\ Len(work[w]) = 1
        /\ fs[k].pc = "link" => fs[k].irp \in Slaves
        /\ fs[k].pc \in {"cancelSlaves", "completing"} => fs[k].irp = Master

Moved(w) == \E fs \in Seq(Frames) : Continue(w, fs) /\ GoodFrames(w, fs)

LEMMA HomeKept ==
    ASSUME TypeOK, Home, NEW w \in Workers, work[w] # <<>>,
           NEW fs \in Seq(Frames), Continue(w, fs), GoodFrames(w, fs)
    PROVE  Home'
  <1>1. SUFFICES ASSUME NEW v \in Workers, NEW k \in Depth(v)'
                 PROVE  FrameHome(v, k)'
    BY DEF Home
  <1>0. work \in [Workers -> Seq(Frames)] /\ Len(fs) \in Nat
    BY DEF TypeOK
  <1>2. CASE v = w /\ k \in 1..Len(fs) /\ work'[v][k] = fs[k]
    <2>0. Len(work'[w]) = Len(fs) + Len(work[w]) - 1
      BY <1>0, Stacks
    <2>1. Len(work[w]) = 1 => Len(work'[w]) = Len(fs)
      BY <1>0, <2>0
    <2>. QED
      BY <1>2, <2>1 DEF FrameHome, GoodFrames
  <1>3. CASE \E j \in Depth(v) : /\ work'[v][k] = work[v][j]
                                 /\ Len(work'[v]) - k = Len(work[v]) - j
    <2>1. PICK j \in Depth(v) : /\ work'[v][k] = work[v][j]
                                /\ Len(work'[v]) - k = Len(work[v]) - j
      BY <1>3
    <2>2. FrameHome(v, j)
      BY DEF Home
    <2>3. work' \in [Workers -> Seq(Frames)]
      BY <1>0, Stacks
    <2>4. /\ Len(work[v]) \in Nat /\ Len(work'[v]) \in Nat /\ j \in Int /\ k \in Int
      BY <1>0, <2>3 DEF Depth
    <2>. QED
      BY <2>1, <2>2, <2>4 DEF FrameHome
  <1>. QED
    BY <1>0, <1>2, <1>3, OldOrNew

LEMMA Goto1 ==
    ASSUME TypeOK, NEW w \in Workers, work[w] # <<>>, NEW pc \in Pcs, Goto(w, pc)
    PROVE  \E fs \in Seq(Frames) : /\ Continue(w, fs) /\ Len(fs) = 1
                                   /\ fs[1] = Frame(pc, Cur(w))
                                   /\ fs[1].pc = pc /\ fs[1].irp = Cur(w)
                                   /\ fs[1] \in Frames
  <1>. DEFINE f == Frame(pc, Cur(w))
  <1>1. Cur(w) \in Irps
    BY TopFrame DEF TypeOK
  <1>2. f \in Frames /\ f.pc = pc /\ f.irp = Cur(w)
    BY <1>1, FrameTypes
  <1>3. Continue(w, <<f>>)
    BY DEF Goto
  <1>. HIDE DEF f
  <1>4. <<f>> \in Seq(Frames) /\ Len(<<f>>) = 1 /\ <<f>>[1] = f
    BY <1>2, FrameTypes
  <1>. QED
    BY <1>2, <1>3, <1>4 DEF f

LEMMA Return0 ==
    ASSUME NEW w, Return(w)
    PROVE  \E fs \in Seq(Frames) : Continue(w, fs) /\ Len(fs) = 0
  BY FrameTypes DEF Return

\* The stack of w after any step of w, and the top frame that the step was for.
LEMMA StepFrames ==
    ASSUME TypeOK, Home, NEW w \in Workers, Step(w)
    PROVE  /\ work[w] # <<>> /\ Cur(w) \in Irps
           /\ Moved(w)
  <1>0. /\ work[w] # <<>>
        /\ work \in [Workers -> Seq(Frames)]
    BY DEF Step, StartAssoc, SubmitSlave, Callback, Complete, Completing, Link, Post,
       CancelSlaves, Cancel, At, TypeOK
  <1>1. Cur(w) \in Irps /\ FrameHome(w, 1) /\ Head(work[w]) = work[w][1]
        /\ Head(work[w]) \in Frames /\ Cur(w) = Head(work[w]).irp
    BY <1>0, TopFrame DEF Home, Cur
  <1>. SUFFICES Moved(w)
    BY <1>0, <1>1
  <1>2. ASSUME NEW pc \in Pcs, Goto(w, pc),
               pc \in StartPcs => At(w, "start") \/ At(w, "submit"),
               pc = "link" => Cur(w) \in Slaves,
               pc \notin {"cancelSlaves", "completing"}
        PROVE  Moved(w)
    <2>1. PICK fs \in Seq(Frames) : /\ Continue(w, fs) /\ Len(fs) = 1
                                    /\ fs[1].pc = pc /\ fs[1].irp = Cur(w)
      BY <1>0, <1>2, Goto1
    <2>2. pc \in StartPcs => /\ Cur(w) \in Slaves /\ w = <<"start", Cur(w)>>
                             /\ Len(work[w]) = 1
      BY <1>1, <1>2 DEF FrameHome, At, StartPcs
    <2>3. GoodFrames(w, fs)
      BY <1>2, <2>1, <2>2 DEF GoodFrames
    <2>. QED
      BY <2>1, <2>3 DEF Moved
  <1>3. ASSUME Return(w)
        PROVE  Moved(w)
    BY <1>3, Return0 DEF GoodFrames, Moved
  <1>. USE DEF Pcs
  <1>4. CASE StartAssoc(w)
    BY <1>2, <1>4 DEF StartAssoc, StartPcs
  <1>5. CASE SubmitSlave(w)
    BY <1>2, <1>3, <1>5 DEF SubmitSlave, StartPcs
  <1>6. CASE Callback(w) \/ Post(w)
    BY <1>3, <1>6 DEF Callback, Post
  <1>7. ASSUME FinishIrp(w)
        PROVE  Moved(w)
    BY <1>1, <1>2, <1>3, <1>7 DEF FinishIrp, Irps, StartPcs
  <1>8. CASE Complete(w)
    <2>1. ASSUME Continue(w, <<Frame("cancelSlaves", Cur(w)), Frame("completing", Cur(w))>>),
                 Cur(w) = Master
          PROVE  Moved(w)
      <3>. DEFINE f == Frame("cancelSlaves", Cur(w))
                  c == Frame("completing", Cur(w))
      <3>1. /\ f \in Frames /\ f.pc = "cancelSlaves" /\ f.irp = Master
            /\ c \in Frames /\ c.pc = "completing" /\ c.irp = Master
        BY <1>1, <2>1, FrameTypes
      <3>. HIDE DEF f, c
      <3>2. <<f, c>> \in Seq(Frames) /\ GoodFrames(w, <<f, c>>)
        BY <3>1, FrameTypes DEF GoodFrames, StartPcs
      <3>. QED
        BY <2>1, <3>2 DEF f, c, Moved
    <2>. QED
      BY <1>3, <1>7, <1>8, <2>1 DEF Complete
  <1>9. CASE Completing(w)
    BY <1>3, <1>7, <1>9 DEF Completing
  <1>10. CASE Link(w)
    <2>1. ASSUME Continue(w, <<AfterLink(w)>>)
          PROVE  Moved(w)
      <3>. DEFINE f == AfterLink(w)
      <3>1. /\ f \in Frames /\ f.pc \in {"callback", "post"} /\ f.irp = Cur(w)
            /\ f.pc = "callback" => At(w, "linkStart")
        BY <1>1, FrameTypes DEF AfterLink
      <3>. HIDE DEF f
      <3>2. <<f>> \in Seq(Frames) /\ GoodFrames(w, <<f>>)
        BY <1>1, <3>1, FrameTypes DEF GoodFrames, FrameHome, StartPcs, At
      <3>. QED
        BY <2>1, <3>2 DEF f, Moved
    <2>2. ASSUME Continue(w, <<Frame("complete", Master), AfterLink(w)>>)
          PROVE  Moved(w)
      <3>. DEFINE f == AfterLink(w)
                  c == Frame("complete", Master)
      <3>1. /\ f \in Frames /\ f.pc \in {"callback", "post"} /\ f.irp = Cur(w)
            /\ f.pc = "callback" => At(w, "linkStart")
        BY <1>1, FrameTypes DEF AfterLink
      <3>2. c \in Frames /\ c.pc = "complete"
        BY FrameTypes DEF Irps
      <3>. HIDE DEF f, c
      <3>3. <<c, f>> \in Seq(Frames) /\ GoodFrames(w, <<c, f>>)
        BY <1>1, <3>1, <3>2, FrameTypes DEF GoodFrames, FrameHome, StartPcs, At
      <3>. QED
        BY <2>2, <3>3 DEF f, c, Moved
    <2>. QED
      BY <1>10, <2>1, <2>2 DEF Link
  <1>11. CASE CancelSlaves(w)
    <2>1. Head(work[w]).pc = "cancelSlaves" /\ Cur(w) = Master
      BY <1>1, <1>11 DEF CancelSlaves, At, FrameHome
    <2>2. CASE Return(w)
      BY <1>3, <2>2
    <2>3. CASE \E x \in Slaves : Continue(w, Append(CancelIrp(x), Head(work[w])))
      <3>1. PICK x \in Slaves : Continue(w, Append(CancelIrp(x), Head(work[w])))
        BY <2>3
      <3>. DEFINE f == Head(work[w])
                  c == Frame("cancel", x)
      <3>2. f \in Frames /\ f.pc = "cancelSlaves" /\ f.irp = Master
        BY <1>1, <2>1 DEF Cur
      <3>3. c \in Frames /\ c.pc = "cancel"
        BY FrameTypes DEF Irps
      <3>4. CancelIrp(x) = <<c>>
        BY AssocAssumption DEF CancelIrp
      <3>. HIDE DEF f, c
      <3>5. /\ Append(<<c>>, f) \in Seq(Frames) /\ Len(Append(<<c>>, f)) = 2
            /\ Append(<<c>>, f)[1] = c /\ Append(<<c>>, f)[2] = f
        BY <3>2, <3>3
      <3>6. GoodFrames(w, Append(<<c>>, f))
        BY <3>2, <3>3, <3>5 DEF GoodFrames, StartPcs
      <3>. QED
        BY <3>1, <3>4, <3>5, <3>6 DEF f, Moved
    <2>4. CASE Continue(w, <<Head(work[w])>>)
      <3>. DEFINE f == Head(work[w])
      <3>2. f \in Frames /\ f.pc = "cancelSlaves" /\ f.irp = Master
        BY <1>1, <2>1 DEF Cur
      <3>. HIDE DEF f
      <3>6. <<f>> \in Seq(Frames) /\ GoodFrames(w, <<f>>)
        BY <3>2, FrameTypes DEF GoodFrames, StartPcs
      <3>. QED
        BY <2>4, <3>6 DEF f, Moved
    <2>. QED
      BY <1>11, <2>2, <2>3, <2>4 DEF CancelSlaves, TypeOK, Return
  <1>12. CASE Cancel(w)
    BY <1>1, <1>2, <1>3, <1>12 DEF Cancel, Irps, StartPcs
  <1>. QED
    BY <1>0, <1>1, <1>4, <1>5, <1>6, <1>8, <1>9, <1>10, <1>11, <1>12 DEF Step

LEMMA TopHome ==
    ASSUME TypeOK, Home, NEW w \in Workers, NEW pc, At(w, pc)
    PROVE  /\ work[w] # <<>> /\ Cur(w) \in Irps /\ 1 \in Depth(w)
           /\ work[w][1].pc = pc /\ work[w][1].irp = Cur(w) /\ work[w][1] \in Frames
           /\ pc \in StartPcs => /\ Cur(w) \in Slaves /\ w = <<"start", Cur(w)>>
                                 /\ Len(work[w]) = 1
           /\ pc = "link" => Cur(w) \in Slaves
           /\ pc \in {"cancelSlaves", "completing"} => Cur(w) = Master
  <1>1. work[w] # <<>> /\ Head(work[w]).pc = pc /\ work \in [Workers -> Seq(Frames)]
    BY DEF At, TypeOK
  <1>2. /\ 1 \in Depth(w) /\ Head(work[w]) = work[w][1] /\ Head(work[w]) \in Frames
        /\ Cur(w) \in Irps /\ Cur(w) = work[w][1].irp
    BY <1>1, TopFrame
  <1>3. FrameHome(w, 1)
    BY <1>2 DEF Home
  <1>. QED
    BY <1>1, <1>2, <1>3 DEF FrameHome

\* The rest of the state after a step of a worker.
LEMMA StepTypes ==
    ASSUME TypeOK, Home, NEW w \in Workers, Step(w), ctx > 0, UNCHANGED setting,
           work' \in [Workers -> Seq(Frames)]
    PROVE  TypeOK' /\ pending'[Master] = pending[Master]
  <1>0. Master \notin Slaves /\ Dummy \notin Irps /\ Local \in Slaves
    BY AssocAssumption DEF Irps
  <1>. USE DEF irp, assoc, Results, Finished
  <1>1. CASE StartAssoc(w)
    <2>1. Cur(w) \in Slaves
      BY <1>1, TopHome DEF StartAssoc, StartPcs
    <2>2. slaves' \subseteq Slaves \cup {Dummy} /\ minSlaves' \in Nat /\ ctx' \in 0..2
      BY <1>1, <2>1 DEF StartAssoc, TypeOK
    <2>3. masterOf' \in [Slaves -> BOOLEAN]
      BY <1>1, <2>1 DEF StartAssoc, TypeOK
    <2>4. status' \in [Irps -> Results]
      BY <1>1, <2>1 DEF StartAssoc, TypeOK, Irps
    <2>5. UNCHANGED <<state, pending, sent, notified, res>>
      BY <1>1 DEF StartAssoc
    <2>. QED
      BY <2>2, <2>3, <2>4, <2>5 DEF TypeOK
  <1>2. CASE SubmitSlave(w)
    <2>1. Cur(w) \in Slaves
      BY <1>2, TopHome DEF SubmitSlave, StartPcs
    <2>2. pending' \in [Irps -> BOOLEAN] /\ pending'[Master] = pending[Master]
      BY <1>0, <1>2, <2>1 DEF SubmitSlave, TypeOK, Irps
    <2>3. sent' \in [Slaves -> BOOLEAN]
      BY <1>2, <2>1 DEF SubmitSlave, TypeOK
    <2>4. state' \in [Irps -> {"READY"} \cup Finished]
      BY <1>2, <2>1 DEF SubmitSlave, TypeOK, Irps
    <2>5. status' \in [Irps -> Results]
      BY <1>2, <2>1 DEF SubmitSlave, TypeOK, Irps
    <2>6. UNCHANGED <<masterOf, notified, assoc>>
      BY <1>2 DEF SubmitSlave
    <2>. QED
      BY <2>2, <2>3, <2>4, <2>5, <2>6 DEF TypeOK
  <1>3. CASE Callback(w)
    <2>1. Cur(w) \in Slaves
      BY <1>3, TopHome DEF Callback, StartPcs
    <2>. QED
      BY <1>3, <2>1 DEF Callback, TypeOK, Irps
  <1>4. CASE Complete(w) \/ Completing(w)
    <2>1. Cur(w) \in Irps
      BY <1>4, TopHome DEF Complete, Completing
    <2>. QED
      BY <1>4, <2>1 DEF Complete, Completing, FinishIrp, TypeOK
  <1>5. CASE Link(w)
    <2>1. Cur(w) \in Slaves
      BY <1>5, TopHome DEF Link, StartPcs
    <2>2. slaves' \subseteq Slaves \cup {Dummy} /\ ctx' \in 0..2
      BY <1>5 DEF Link, TypeOK
    <2>3. res' \in [Slaves -> Results \cup {"none"}]
      BY <1>5, <2>1 DEF Link, TypeOK, Irps
    <2>4. status' \in [Irps -> Results]
      <3>1. \/ status' = status
            \/ \E r \in Results : status' = [status EXCEPT ![Master] = r]
        BY <1>5 DEF Link, MasterResult
      <3>. QED
        BY <3>1 DEF TypeOK, Irps
    <2>5. UNCHANGED <<state, pending, sent, masterOf, notified, minSlaves>>
      BY <1>5 DEF Link
    <2>. QED
      BY <2>2, <2>3, <2>4, <2>5 DEF TypeOK
  <1>6. CASE Post(w)
    <2>1. Cur(w) \in Irps
      BY <1>6, TopHome DEF Post
    <2>. QED
      BY <1>6, <2>1 DEF Post, TypeOK
  <1>7. CASE CancelSlaves(w)
    <2>0. /\ \/ slaves' = slaves
             \/ slaves' = {Dummy}
             \/ \E x : slaves' = slaves \ {x}
          /\ minSlaves' = minSlaves \/ minSlaves' = 0
      BY <1>7 DEF CancelSlaves
    <2>1. slaves' \subseteq Slaves \cup {Dummy} /\ minSlaves' \in Nat
      BY <2>0 DEF TypeOK
    <2>2. UNCHANGED <<irp, notified, ctx, res>>
      BY <1>7 DEF CancelSlaves
    <2>. QED
      BY <2>1, <2>2 DEF TypeOK
  <1>8. CASE Cancel(w)
    <2>1. Cur(w) \in Irps
      BY <1>8, TopHome DEF Cancel
    <2>. QED
      BY <1>8, <2>1 DEF Cancel, TypeOK
  <1>. QED
    BY <1>1, <1>2, <1>3, <1>4, <1>5, <1>6, <1>7, <1>8 DEF Step

\* A worker that is idle begins a call.
LEMMA BeginFrames ==
    ASSUME TypeOK, Home, NEW w \in Workers, work[w] = <<>>, NEW fs \in Seq(Frames),
           work' = [work EXCEPT ![w] = fs],
           \A k \in 1..Len(fs) : /\ fs[k].pc \notin StartPcs \cup {"link", "completing"}
                                 /\ fs[k].pc = "cancelSlaves" => fs[k].irp = Master
    PROVE  Home' /\ work' \in [Workers -> Seq(Frames)]
  <1>0. work \in [Workers -> Seq(Frames)]
    BY DEF TypeOK
  <1>1. work' \in [Workers -> Seq(Frames)]
    BY <1>0
  <1>2. SUFFICES ASSUME NEW v \in Workers, NEW k \in Depth(v)'
                 PROVE  FrameHome(v, k)'
    BY <1>1 DEF Home
  <1>3. CASE v = w
    <2>1. work'[v] = fs /\ k \in 1..Len(fs)
      BY <1>0, <1>3 DEF Depth
    <2>. QED
      BY <2>1 DEF FrameHome
  <1>4. CASE v # w
    <2>1. work'[v] = work[v] /\ k \in Depth(v)
      BY <1>0, <1>4 DEF Depth
    <2>2. FrameHome(v, k)
      BY <2>1 DEF Home
    <2>. QED
      BY <2>1, <2>2 DEF FrameHome
  <1>. QED
    BY <1>3, <1>4

\* The call that CancelIrp begins with.
LEMMA CancelFrames ==
    ASSUME NEW i \in Irps
    PROVE  /\ CancelIrp(i) \in Seq(Frames)
           /\ \A k \in 1..Len(CancelIrp(i)) :
                 /\ CancelIrp(i)[k] \in Frames
                 /\ CancelIrp(i)[k].irp = i
                 /\ \/ CancelIrp(i)[k].pc = "cancelSlaves" /\ i = Master
                    \/ CancelIrp(i)[k].pc = "cancel"
  <1>. DEFINE f == Frame("cancelSlaves", i)
              c == Frame("cancel", i)
  <1>1. /\ f \in Frames /\ f.pc = "cancelSlaves" /\ f.irp = i
        /\ c \in Frames /\ c.pc = "cancel" /\ c.irp = i
    BY FrameTypes DEF Pcs
  <1>2. CancelIrp(i) = IF i = Master THEN <<f, c>> ELSE <<c>>
    BY DEF CancelIrp
  <1>. HIDE DEF f, c
  <1>3. CASE i = Master
    BY <1>1, <1>2, <1>3, FrameTypes
  <1>4. CASE i # Master
    BY <1>1, <1>2, <1>4, FrameTypes
  <1>. QED
    BY <1>3, <1>4

LEMMA TypeStep == TypeInv /\ [Next]_vars => TypeInv'
  <1>. SUFFICES ASSUME TypeInv, [Next]_vars PROVE TypeInv'
    OBVIOUS
  <1>0. /\ TypeOK /\ Home /\ Fresh /\ work \in [Workers -> Seq(Frames)]
        /\ Master \notin Slaves
    BY AssocAssumption DEF TypeInv, TypeOK
  <1>. USE DEF irp, assoc, Results, Finished
  <1>1. CASE UNCHANGED vars
    <2>1. TypeOK' /\ Fresh'
      BY <1>0, <1>1 DEF vars, TypeOK, Fresh
    <2>2. Home'
      BY <1>0, <1>1 DEF vars, Home, FrameHome, Depth
    <2>. QED
      BY <2>1, <2>2 DEF TypeInv
  <1>2. ASSUME NEW w \in Workers, Step(w), ctx > 0, UNCHANGED setting
        PROVE  TypeInv'
    <2>1. work[w] # <<>> /\ Moved(w)
      BY <1>0, <1>2, StepFrames
    <2>2. PICK fs \in Seq(Frames) : Continue(w, fs) /\ GoodFrames(w, fs)
      BY <2>1 DEF Moved
    <2>3. Home' /\ work' \in [Workers -> Seq(Frames)]
      BY <1>0, <2>1, <2>2, HomeKept, Stacks
    <2>4. TypeOK' /\ pending'[Master] = pending[Master]
      BY <1>0, <1>2, <2>3, StepTypes
    <2>5. Fresh'
      BY <1>0, <2>1, <2>4 DEF Fresh
    <2>. QED
      BY <2>3, <2>4, <2>5 DEF TypeInv
  <1>3. CASE SubmitMaster /\ UNCHANGED setting
    <2>1. PICK A \in SUBSET Slaves :
             work' = [w \in Workers |-> IF w[1] = "start" /\ w[2] \in A
                                        THEN <<Frame("start", w[2])>> ELSE <<>>]
      BY <1>3 DEF SubmitMaster
    <2>2. \A s \in Slaves : /\ Frame("start", s) \in Frames
                            /\ Frame("start", s).pc = "start" /\ Frame("start", s).irp = s
      BY FrameTypes DEF Irps, Pcs
    <2>3. work' \in [Workers -> Seq(Frames)]
      BY <2>1, <2>2, FrameTypes
    <2>4. Home'
      <3>. SUFFICES ASSUME NEW w \in Workers, NEW k \in Depth(w)'
                    PROVE  FrameHome(w, k)'
        BY DEF Home
      <3>1. w[1] = "start" /\ w[2] \in Slaves /\ work'[w] = <<Frame("start", w[2])>> /\ k = 1
        BY <2>1 DEF Depth
      <3>2. w = <<"start", w[2]>>
        BY <3>1 DEF Workers
      <3>3. /\ work'[w][1].pc = "start" /\ work'[w][1].irp = w[2] /\ Len(work'[w]) = 1
        BY <2>2, <3>1
      <3>. QED
        BY <3>1, <3>2, <3>3 DEF FrameHome, StartPcs
    <2>5. /\ minSlaves' \in Nat
          /\ pending' = [pending EXCEPT ![Master] = TRUE]
          /\ UNCHANGED <<setting, state, status, sent, masterOf, notified, slaves, ctx, res>>
      BY <1>3, AssocAssumption, FS_CardinalityType DEF SubmitMaster
    <2>6. TypeOK' /\ pending'[Master]
      BY <1>0, <2>3, <2>5 DEF TypeOK, Irps
    <2>7. Fresh'
      BY <2>6 DEF Fresh
    <2>. QED
      BY <2>4, <2>6, <2>7 DEF TypeInv
  <1>4. CASE MasterFails /\ UNCHANGED setting
    <2>1. TypeOK' /\ Fresh'
      BY <1>0, <1>4 DEF MasterFails, TypeOK, Fresh, Irps
    <2>2. Home'
      BY <1>0, <1>4 DEF MasterFails, Home, FrameHome, Depth
    <2>. QED
      BY <2>1, <2>2 DEF TypeInv
  <1>5. ASSUME NEW w \in Workers, Respond(w) \/ Timeout(w) \/ StopBus(w), UNCHANGED setting
        PROVE  TypeInv'
    <2>1. w[2] \in Irps /\ (w[1] = "port" => w[2] \in Slaves)
      BY DEF Workers, Irps
    <2>2. PICK fs \in Seq(Frames) :
             /\ work' = [work EXCEPT ![w] = fs]
             /\ \A k \in 1..Len(fs) :
                   /\ fs[k].pc \notin StartPcs \cup {"link", "completing"}
                   /\ fs[k].pc = "cancelSlaves" => fs[k].irp = Master
      <3>1. CASE Respond(w)
        <4>. DEFINE f == Frame("complete", w[2])
        <4>1. f \in Frames /\ f.pc = "complete"
          BY <2>1, FrameTypes DEF Pcs
        <4>2. work' = [work EXCEPT ![w] = <<f>>]
          BY <3>1 DEF Respond
        <4>. HIDE DEF f
        <4>3. <<f>> \in Seq(Frames) /\ \A k \in 1..Len(<<f>>) : <<f>>[k] = f
          BY <4>1, FrameTypes
        <4>. QED
          BY <4>1, <4>2, <4>3 DEF StartPcs
      <3>2. CASE Timeout(w) \/ StopBus(w)
        <4>1. work' = [work EXCEPT ![w] = CancelIrp(w[2])]
          BY <3>2 DEF Timeout, StopBus
        <4>. DEFINE c == CancelIrp(w[2])
        <4>2. /\ c \in Seq(Frames)
              /\ \A k \in 1..Len(c) :
                    \/ c[k].pc = "cancelSlaves" /\ c[k].irp = Master
                    \/ c[k].pc = "cancel"
          BY <2>1, CancelFrames
        <4>. HIDE DEF c
        <4>. QED
          BY <4>1, <4>2 DEF StartPcs, c
      <3>. QED
        BY <1>5, <3>1, <3>2
    <2>3. work[w] = <<>>
      BY <1>5 DEF Respond, Timeout, StopBus
    <2>4. Home' /\ work' \in [Workers -> Seq(Frames)]
      BY <1>0, <2>2, <2>3, BeginFrames
    <2>5. TypeOK'
      BY <1>0, <1>5, <2>1, <2>4 DEF Respond, Timeout, StopBus, TypeOK
    <2>6. pending[w[2]] /\ pending' = pending
      BY <1>5 DEF Respond, Timeout, StopBus
    <2>7. Fresh'
      BY <1>0, <2>1, <2>6 DEF Fresh, Irps
    <2>. QED
      BY <2>4, <2>5, <2>7 DEF TypeInv
  <1>. QED
    BY <1>1, <1>2, <1>3, <1>4, <1>5 DEF Next

LEMMA InitType == Init => TypeInv
  <1>. SUFFICES ASSUME Init PROVE TypeInv
    OBVIOUS
  <1>1. work \in [Workers -> Seq(Frames)] /\ \A w \in Workers : work[w] = <<>>
    BY FrameTypes DEF Init
  <1>2. Home
    BY <1>1 DEF Home, Depth
  <1>3. Master \notin Slaves
    BY AssocAssumption
  <1>4. TypeOK /\ Fresh
    BY <1>1, <1>3 DEF Init, TypeOK, Fresh, Irps, Results, Finished
  <1>. QED
    BY <1>2, <1>4 DEF TypeInv

LEMMA TypeKept == Spec => []TypeInv
  BY InitType, TypeStep, PTL DEF Spec

\* The IRPs, the association of the master with its slaves and the call stacks
\* keep their types: the number of slaves to come is never negative, and only a
\* slave is ever linked to the master.
THEOREM AssocTypeCorrect == Spec => []TypeOK
  <1>1. TypeInv => TypeOK
    BY DEF TypeInv
  <1>. QED
    BY <1>1, TypeKept, PTL

-----------------------------------------------------------------------------
(* One result for each IRP, and an honest one for the master.              *)

\* All frames but the innermost of w.
Other(w, v, k) == v \in Workers /\ k \in Depth(v) /\ ~(v = w /\ k = 1)

LEMMA FactsKept ==
    ASSUME TypeOK, NEW w \in Workers, work[w] # <<>>, NEW fs \in Seq(Frames),
           Continue(w, fs),
           \A k \in 1..Len(fs) : FrameFacts(fs[k])',
           \A v, k : Other(w, v, k) => \A f \in Frames : f = work[v][k] => FrameFacts(f)'
    PROVE  Facts'
  <1>0. work \in [Workers -> Seq(Frames)]
    BY DEF TypeOK
  <1>1. SUFFICES ASSUME NEW v \in Workers, NEW k \in Depth(v)'
                 PROVE  FrameFacts(work[v][k])'
    BY DEF Facts
  <1>2. CASE v = w /\ k \in 1..Len(fs) /\ work'[v][k] = fs[k]
    BY <1>2 DEF FrameFacts
  <1>3. CASE \E j \in Depth(v) : work'[v][k] = work[v][j] /\ (v = w => j >= 2)
    <2>1. PICK j \in Depth(v) : work'[v][k] = work[v][j] /\ (v = w => j >= 2)
      BY <1>3
    <2>2. Other(w, v, j) /\ work[v][j] \in Frames
      BY <1>0, <2>1 DEF Other, Depth
    <2>3. PICK f \in Frames : f = work[v][j]
      BY <2>2
    <2>4. FrameFacts(f)'
      BY <2>2, <2>3
    <2>. QED
      BY <2>1, <2>3, <2>4 DEF FrameFacts
  <1>. QED
    BY <1>0, <1>2, <1>3, OldOrNew

\* A new LINK or POST frame belongs to an IRP that has just finished, or takes
\* the place of another.
LEMMA OneEndKept ==
    ASSUME TypeOK, Facts, OneEnd, NEW w \in Workers, work[w] # <<>>,
           NEW fs \in Seq(Frames), Continue(w, fs),
           \A k \in 1..Len(fs) : fs[k].pc \in EndPcs =>
              /\ fs[k].irp \in Irps
              /\ state[fs[k].irp] = "READY" \/ Ends(w, 1, fs[k].irp)
              /\ k = Len(fs)
    PROVE  OneEnd'
  <1>0. work \in [Workers -> Seq(Frames)] /\ 1 \in Depth(w)
    BY TopFrame DEF TypeOK
  <1>1. SUFFICES ASSUME NEW i \in Irps, NEW u \in Workers, NEW v \in Workers,
                        NEW j \in Depth(u)', NEW k \in Depth(v)',
                        Ends(u, j, i)', Ends(v, k, i)'
                 PROVE  u = v /\ j = k
    BY DEF OneEnd
  <1>2. ASSUME NEW x \in Workers, NEW l \in Depth(x)', Ends(x, l, i)'
        PROVE  \/ x = w /\ l = Len(fs) /\ (state[i] = "READY" \/ Ends(w, 1, i))
               \/ \E m \in Depth(x) : /\ Ends(x, m, i)
                                      /\ x = w => m >= 2 /\ l = m + Len(fs) - 1
                                      /\ x # w => m = l
    <2>1. CASE x = w /\ l \in 1..Len(fs) /\ work'[x][l] = fs[l]
      BY <1>2, <2>1 DEF Ends
    <2>2. CASE \E m \in Depth(x) : /\ work'[x][l] = work[x][m]
                                   /\ x = w => m >= 2 /\ l = m + Len(fs) - 1
                                   /\ x # w => m = l
      BY <1>2, <2>2 DEF Ends
    <2>. QED
      BY <1>0, <1>2, <2>1, <2>2, OldOrNew
  <1>3. ASSUME state[i] = "READY" \/ Ends(w, 1, i),
               NEW x \in Workers, NEW m \in Depth(x), Ends(x, m, i), x = w => m >= 2
        PROVE  FALSE
    <2>1. FrameFacts(work[x][m]) /\ work[x][m].pc \in EndPcs /\ work[x][m].irp = i
      BY <1>3 DEF Facts, Ends
    <2>2. state[i] \in Finished
      BY <2>1 DEF FrameFacts
    <2>3. Ends(w, 1, i)
      BY <1>3, <2>2 DEF Finished
    <2>4. x = w /\ m = 1
      BY <1>0, <1>3, <2>3 DEF OneEnd
    <2>. QED
      BY <1>3, <2>4
  <1>4. CASE /\ u = w /\ j = Len(fs) /\ (state[i] = "READY" \/ Ends(w, 1, i))
    <2>1. v = w /\ k = Len(fs)
      BY <1>1, <1>2, <1>3, <1>4
    <2>. QED
      BY <1>4, <2>1
  <1>5. CASE \E m \in Depth(u) : /\ Ends(u, m, i)
                                 /\ u = w => m >= 2 /\ j = m + Len(fs) - 1
                                 /\ u # w => m = j
    <2>1. PICK m \in Depth(u) : /\ Ends(u, m, i)
                                /\ u = w => m >= 2 /\ j = m + Len(fs) - 1
                                /\ u # w => m = j
      BY <1>5
    <2>2. PICK n \in Depth(v) : /\ Ends(v, n, i)
                                /\ v = w => n >= 2 /\ k = n + Len(fs) - 1
                                /\ v # w => n = k
      <3>1. ~(state[i] = "READY" \/ Ends(w, 1, i))
        BY <1>3, <2>1
      <3>. QED
        BY <1>1, <1>2, <3>1
    <2>3. u = v /\ m = n
      BY <2>1, <2>2 DEF OneEnd
    <2>. QED
      BY <2>1, <2>2, <2>3
  <1>. QED
    BY <1>1, <1>2, <1>4, <1>5

LEMMA OtherFacts ==
    ASSUME IInv, NEW w \in Workers, NEW pc, At(w, pc), NEW v, NEW k, Other(w, v, k),
           NEW f \in Frames, f = work[v][k]
    PROVE  /\ FrameFacts(f) /\ f.irp \in Irps
           /\ f.pc \in StartPcs => f.irp \in Slaves
           /\ f.pc \in StartPcs /\ pc \in StartPcs => f.irp # Cur(w)
           /\ f.pc \in EndPcs /\ pc \in EndPcs => f.irp # Cur(w)
  <1>0. TypeOK /\ Home /\ Facts /\ OneEnd /\ v \in Workers /\ k \in Depth(v)
    BY DEF IInv, TypeInv, Other
  <1>1. /\ 1 \in Depth(w) /\ work[w][1].pc = pc /\ work[w][1].irp = Cur(w)
        /\ Cur(w) \in Irps
        /\ pc \in StartPcs => w = <<"start", Cur(w)>> /\ Len(work[w]) = 1
    BY <1>0, TopHome
  <1>2. FrameHome(v, k) /\ FrameFacts(f)
    BY <1>0 DEF Home, Facts
  <1>3. f.pc \in EndPcs /\ pc \in EndPcs => f.irp # Cur(w)
    BY <1>0, <1>1 DEF OneEnd, Ends, Other
  <1>. QED
    BY <1>1, <1>2, <1>3 DEF FrameHome, Frames, Other

LEMMA TopFacts ==
    ASSUME IInv, NEW w \in Workers, NEW pc, At(w, pc)
    PROVE  FrameFacts(work[w][1])
  BY TopHome DEF IInv, TypeInv, Facts

LEMMA StartAssocKnown ==
    ASSUME IInv, UNCHANGED setting, NEW w \in Workers, StartAssoc(w)
    PROVE  Facts' /\ OneEnd' /\ Told' /\ Recorded'
  <1>. DEFINE s == Cur(w)
  <1>0. /\ TypeOK /\ Home /\ Facts /\ OneEnd /\ At(w, "start")
        /\ UNCHANGED <<state, pending, sent, notified, res>>
    BY DEF IInv, TypeInv, StartAssoc
  <1>1. /\ work[w] # <<>> /\ s \in Slaves /\ s # Master
        /\ work[w][1].pc = "start" /\ work[w][1].irp = s
    BY <1>0, TopHome, AssocAssumption DEF StartPcs
  <1>2. ~pending[s] /\ notified[s] = 0 /\ ~sent[s]
    BY <1>0, <1>1, TopFacts DEF FrameFacts, StartPcs
  <1>3. /\ \/ status' = status
           \/ status' = [status EXCEPT ![s] = "ERR"]
        /\ \/ Goto(w, "submit")
           \/ Goto(w, "linkStart")
    BY DEF StartAssoc
  <1>4. PICK fs \in Seq(Frames) : /\ Continue(w, fs) /\ Len(fs) = 1 /\ fs[1].irp = s
                                  /\ fs[1].pc \in {"submit", "linkStart"}
    BY <1>0, <1>1, <1>3, Goto1 DEF Pcs
  <1>. HIDE DEF s
  <1>5. status'[Master] = status[Master] /\ \A t \in Slaves : t # s => status'[t] = status[t]
    BY <1>1, <1>3 DEF IInv, TypeInv, TypeOK, Irps
  <1>6. \A k \in 1..Len(fs) : FrameFacts(fs[k])'
    BY <1>0, <1>1, <1>2, <1>4 DEF FrameFacts, EndPcs
  <1>7. \A v, k : Other(w, v, k) => \A f \in Frames : f = work[v][k] => FrameFacts(f)'
    <2>. SUFFICES ASSUME NEW v, NEW k, Other(w, v, k), NEW f \in Frames, f = work[v][k]
                  PROVE  FrameFacts(f)'
      OBVIOUS
    <2>1. FrameFacts(f)
      BY <1>0, OtherFacts
    <2>. QED
      BY <1>0, <1>5, <2>1 DEF FrameFacts
  <1>8. Facts' /\ OneEnd'
    BY <1>0, <1>1, <1>4, <1>6, <1>7, FactsKept, OneEndKept DEF EndPcs
  <1>9. Told'
    BY <1>0 DEF IInv, Told, NotifiedOnce
  <1>10. Recorded'
    BY <1>0, <1>2, <1>5 DEF IInv, Recorded
  <1>. QED
    BY <1>8, <1>9, <1>10

LEMMA SubmitSlaveKnown ==
    ASSUME IInv, UNCHANGED setting, NEW w \in Workers, SubmitSlave(w)
    PROVE  Facts' /\ OneEnd' /\ Told' /\ Recorded'
  <1>. DEFINE s == Cur(w)
  <1>0. /\ TypeOK /\ Home /\ Facts /\ OneEnd /\ At(w, "submit")
        /\ UNCHANGED <<masterOf, notified, res>>
    BY DEF IInv, TypeInv, SubmitSlave, assoc
  <1>1. /\ work[w] # <<>> /\ s \in Slaves /\ s # Master /\ s \in Irps
        /\ work[w][1].pc = "submit" /\ work[w][1].irp = s
    BY <1>0, TopHome, AssocAssumption DEF StartPcs, Irps
  <1>2. ~pending[s] /\ notified[s] = 0 /\ ~sent[s]
    BY <1>0, <1>1, TopFacts DEF FrameFacts, StartPcs
  <1>3. /\ status' = status \/ \E r \in Results : status' = [status EXCEPT ![s] = r]
        /\ state' = state
           \/ state' = [state EXCEPT ![s] = IF @ = "READY" THEN "COMPLETED" ELSE @]
        /\ pending' = pending \/ pending' = [pending EXCEPT ![s] = TRUE]
        /\ sent' = sent \/ sent' = [sent EXCEPT ![s] = TRUE]
    BY DEF SubmitSlave, Results
  <1>4. \/ Return(w)
        \/ /\ Goto(w, "linkStart") /\ pending' = pending
           /\ \/ sent' = sent
              \/ state' = [state EXCEPT ![s] = IF @ = "READY" THEN "COMPLETED" ELSE @]
    BY DEF SubmitSlave
  <1>5. PICK fs \in Seq(Frames) :
           /\ Continue(w, fs)
           /\ \/ Len(fs) = 0
              \/ /\ Len(fs) = 1 /\ fs[1].irp = s /\ fs[1].pc = "linkStart"
                 /\ pending' = pending
                 /\ \/ sent' = sent
                    \/ state' = [state EXCEPT ![s] = IF @ = "READY" THEN "COMPLETED" ELSE @]
    <2>1. CASE Return(w)
      BY <2>1, Return0
    <2>2. CASE Goto(w, "linkStart")
      <3>1. \E fs \in Seq(Frames) : /\ Continue(w, fs) /\ Len(fs) = 1
                                    /\ fs[1].pc = "linkStart" /\ fs[1].irp = s
        BY <1>0, <1>1, <2>2, Goto1 DEF Pcs
      <3>2. CASE Return(w)
        BY <3>2, Return0
      <3>. QED
        BY <1>4, <3>1, <3>2
    <2>. QED
      BY <1>4, <2>1, <2>2
  <1>. HIDE DEF s
  <1>6. /\ \A i \in Irps : i # s => /\ state'[i] = state[i] /\ pending'[i] = pending[i]
                                    /\ status'[i] = status[i]
        /\ \A t \in Slaves : t # s => sent'[t] = sent[t]
        /\ state[s] \in Finished => state'[s] \in Finished
    <2>1. \A i \in Irps : i # s => state'[i] = state[i]
      BY <1>0, <1>1, <1>3 DEF TypeOK
    <2>2. \A i \in Irps : i # s => pending'[i] = pending[i]
      BY <1>0, <1>1, <1>3 DEF TypeOK
    <2>3. \A i \in Irps : i # s => status'[i] = status[i]
      BY <1>0, <1>1, <1>3 DEF TypeOK
    <2>4. \A t \in Slaves : t # s => sent'[t] = sent[t]
      BY <1>0, <1>1, <1>3 DEF TypeOK
    <2>5. state[s] \in Finished => state'[s] \in Finished
      BY <1>0, <1>1, <1>3 DEF TypeOK, Finished
    <2>. QED
      BY <2>1, <2>2, <2>3, <2>4, <2>5
  <1>7. \A k \in 1..Len(fs) : FrameFacts(fs[k])'
    <2>1. ASSUME state' = [state EXCEPT ![s] = IF @ = "READY" THEN "COMPLETED" ELSE @]
          PROVE  state'[s] \in Finished
      BY <1>0, <1>1, <2>1 DEF TypeOK, Finished
    <2>2. SUFFICES ASSUME Len(fs) = 1, fs[1].irp = s, fs[1].pc = "linkStart",
                          pending' = pending,
                          sent' = sent \/ state'[s] \in Finished
                   PROVE  FrameFacts(fs[1])'
      BY <1>5, <2>1
    <2>. QED
      BY <1>0, <1>2, <2>2 DEF FrameFacts, EndPcs
  <1>8. \A v, k : Other(w, v, k) => \A f \in Frames : f = work[v][k] => FrameFacts(f)'
    <2>. SUFFICES ASSUME NEW v, NEW k, Other(w, v, k), NEW f \in Frames, f = work[v][k]
                  PROVE  FrameFacts(f)'
      OBVIOUS
    <2>1. /\ FrameFacts(f) /\ f.irp \in Irps
          /\ f.pc \in StartPcs => f.irp \in Slaves /\ f.irp # s
      BY <1>0, OtherFacts DEF StartPcs, s
    <2>2. UNCHANGED <<notified, res>> /\ Master \in Irps /\ status'[Master] = status[Master]
      BY <1>0, <1>1, <1>6 DEF Irps
    <2>3. CASE f.irp = s
      BY <1>1, <1>2, <1>6, <2>1, <2>2, <2>3 DEF FrameFacts, StartPcs, EndPcs
    <2>4. CASE f.irp # s
      BY <1>6, <2>1, <2>2, <2>4 DEF FrameFacts, StartPcs, EndPcs
    <2>. QED
      BY <2>3, <2>4
  <1>9. Facts' /\ OneEnd'
    BY <1>0, <1>1, <1>5, <1>7, <1>8, FactsKept, OneEndKept DEF EndPcs
  <1>10. Told'
    BY <1>0, <1>1, <1>2, <1>6 DEF IInv, Told, NotifiedOnce, Irps
  <1>11. Recorded'
    BY <1>0, <1>1, <1>2, <1>6 DEF IInv, Recorded, Irps
  <1>. QED
    BY <1>9, <1>10, <1>11

LEMMA CallbackKnown ==
    ASSUME IInv, UNCHANGED setting, NEW w \in Workers, Callback(w)
    PROVE  Facts' /\ OneEnd' /\ Told' /\ Recorded'
  <1>. DEFINE s == Cur(w)
  <1>0. /\ TypeOK /\ Home /\ Facts /\ OneEnd /\ At(w, "callback")
        /\ UNCHANGED <<state, status, pending, sent, res>>
        /\ notified' = [notified EXCEPT ![s] = @ + 1] /\ Return(w)
    BY DEF IInv, TypeInv, Callback, assoc
  <1>1. /\ work[w] # <<>> /\ s \in Slaves /\ s # Master /\ s \in Irps
        /\ work[w][1].pc = "callback" /\ work[w][1].irp = s
    BY <1>0, TopHome, AssocAssumption DEF StartPcs, Irps
  <1>2. ~pending[s] /\ notified[s] = 0
    BY <1>0, <1>1, TopFacts DEF FrameFacts, StartPcs
  <1>3. PICK fs \in Seq(Frames) : Continue(w, fs) /\ Len(fs) = 0
    BY <1>0, Return0
  <1>. HIDE DEF s
  <1>4. notified'[s] = 1 /\ \A i \in Irps : i # s => notified'[i] = notified[i]
    BY <1>0, <1>1, <1>2 DEF TypeOK
  <1>5. \A v, k : Other(w, v, k) => \A f \in Frames : f = work[v][k] => FrameFacts(f)'
    <2>. SUFFICES ASSUME NEW v, NEW k, Other(w, v, k), NEW f \in Frames, f = work[v][k]
                  PROVE  FrameFacts(f)'
      OBVIOUS
    <2>1. /\ FrameFacts(f) /\ f.irp \in Irps
          /\ f.pc \in StartPcs => f.irp \in Slaves /\ f.irp # s
      BY <1>0, OtherFacts DEF StartPcs, s
    <2>. QED
      BY <1>0, <1>2, <1>4, <2>1 DEF FrameFacts
  <1>6. Facts' /\ OneEnd'
    <2>1. \A k \in 1..Len(fs) : FALSE
      BY <1>3
    <2>. QED
      BY <1>0, <1>1, <1>3, <1>5, <2>1, FactsKept, OneEndKept
  <1>7. Told'
    BY <1>0, <1>1, <1>2, <1>4 DEF IInv, Told, NotifiedOnce, Irps
  <1>8. Recorded'
    BY <1>0 DEF IInv, Recorded
  <1>. QED
    BY <1>6, <1>7, <1>8

\* CompleteIrp and CancelIrp finish the IRP i.
LEMMA FinishKnown ==
    ASSUME IInv, UNCHANGED setting, NEW w \in Workers,
           NEW pc \in {"complete", "completing", "cancel"},
           At(w, pc), state[Cur(w)] = "READY", UNCHANGED <<pending, sent, notified, res>>,
           NEW st \in Finished, state' = [state EXCEPT ![Cur(w)] = st],
           \/ status' = status /\ pc # "cancel"
           \/ status' = [status EXCEPT ![Cur(w)] = "ERR"] /\ st = "CANCELLED",
           Goto(w, IF Cur(w) = Master THEN "post" ELSE "link")
    PROVE  Facts' /\ OneEnd' /\ Told' /\ Recorded'
  <1>. DEFINE i == Cur(w)
  <1>0. TypeOK /\ Home /\ Facts /\ OneEnd /\ Local \in Slaves /\ Master \notin Slaves
    BY AssocAssumption DEF IInv, TypeInv
  <1>1. /\ work[w] # <<>> /\ i \in Irps /\ Master \in Irps /\ Slaves \subseteq Irps
        /\ work[w][1].pc = pc /\ work[w][1].irp = i
    BY <1>0, TopHome DEF Irps
  <1>2. PICK fs \in Seq(Frames) : /\ Continue(w, fs) /\ Len(fs) = 1 /\ fs[1].irp = i
                                  /\ fs[1].pc \in EndPcs
    <2>. DEFINE p == IF i = Master THEN "post" ELSE "link"
    <2>1. p \in Pcs /\ p \in EndPcs /\ Goto(w, p)
      BY DEF Pcs, EndPcs
    <2>. HIDE DEF p
    <2>. QED
      BY <1>0, <1>1, <2>1, Goto1
  <1>3. FrameFacts(work[w][1])
    BY TopFacts
  <1>4. i = Master /\ status[Master] = "OK" /\ pc # "cancel" =>
           NoDBusConn \/ res[Local] = "OK"
    BY <1>1, <1>3 DEF FrameFacts
  <1>. HIDE DEF i
  <1>5. state[i] = "READY" /\ state'[i] = st /\ \A j \in Irps : j # i => state'[j] = state[j]
    BY <1>0, <1>1 DEF TypeOK, i
  <1>6. /\ \A j \in Irps : j # i => status'[j] = status[j]
        /\ status'[i] = status[i] \/ (status'[i] = "ERR" /\ st = "CANCELLED")
    BY <1>0, <1>1 DEF TypeOK, i
  <1>7. pending[i] => notified[i] = 0
    BY <1>1, <1>5 DEF IInv, Told
  <1>8. \A k \in 1..Len(fs) : FrameFacts(fs[k])'
    BY <1>2, <1>5, <1>7 DEF FrameFacts, EndPcs, StartPcs
  <1>9. \A v, k : Other(w, v, k) => \A f \in Frames : f = work[v][k] => FrameFacts(f)'
    <2>. SUFFICES ASSUME NEW v, NEW k, Other(w, v, k), NEW f \in Frames, f = work[v][k]
                  PROVE  FrameFacts(f)'
      OBVIOUS
    <2>1. FrameFacts(f) /\ f.irp \in Irps
      BY OtherFacts
    <2>2. state[f.irp] \in Finished => state'[f.irp] \in Finished
      BY <1>5, <2>1
    <2>3. status'[Master] = "OK" => status[Master] = "OK"
      BY <1>1, <1>6
    <2>. QED
      BY <2>1, <2>2, <2>3 DEF FrameFacts
  <1>10. Facts' /\ OneEnd'
    <2>1. \A k \in 1..Len(fs) : k = Len(fs) /\ fs[k].irp = i
      BY <1>2
    <2>. QED
      BY <1>0, <1>1, <1>2, <1>5, <1>8, <1>9, <2>1, FactsKept, OneEndKept
  <1>11. Told'
    BY <1>1, <1>5 DEF IInv, Told, NotifiedOnce, Finished
  <1>12. Recorded'
    <2>1. \A s \in Slaves : res'[s] = "OK" =>
             sent'[s] /\ state'[s] \in Finished /\ status'[s] = "OK"
      BY <1>1, <1>5, <1>6 DEF IInv, Recorded, Finished
    <2>2. state'[Master] = "COMPLETED" /\ status'[Master] = "OK" =>
             NoDBusConn' \/ res'[Local] = "OK"
      BY <1>1, <1>4, <1>5, <1>6 DEF IInv, Recorded, Finished
    <2>. QED
      BY <2>1, <2>2 DEF Recorded
  <1>. QED
    BY <1>10, <1>11, <1>12

\* A call that returns, or calls, and leaves the IRPs alone.
LEMMA IdleKnown ==
    ASSUME IInv, UNCHANGED setting, NEW w \in Workers, NEW pc, At(w, pc),
           UNCHANGED <<state, status, pending, sent, notified, res>>,
           NEW fs \in Seq(Frames), Continue(w, fs),
           \A k \in 1..Len(fs) : /\ fs[k].pc \notin StartPcs \cup EndPcs \cup {"complete"}
                                 /\ fs[k].pc = "completing" => pc = "complete"
                                                               /\ Cur(w) = Master
    PROVE  Facts' /\ OneEnd' /\ Told' /\ Recorded'
  <1>0. TypeOK /\ Home /\ Facts /\ OneEnd
    BY DEF IInv, TypeInv
  <1>1. work[w] # <<>> /\ work[w][1].pc = pc /\ work[w][1].irp = Cur(w)
    BY <1>0, TopHome
  <1>2. FrameFacts(work[w][1])
    BY TopFacts
  <1>3. \A k \in 1..Len(fs) : FrameFacts(fs[k])'
    BY <1>1, <1>2 DEF FrameFacts, StartPcs, EndPcs
  <1>4. \A v, k : Other(w, v, k) => \A f \in Frames : f = work[v][k] => FrameFacts(f)'
    <2>. SUFFICES ASSUME NEW v, NEW k, Other(w, v, k), NEW f \in Frames, f = work[v][k]
                  PROVE  FrameFacts(f)'
      OBVIOUS
    <2>1. FrameFacts(f)
      BY OtherFacts
    <2>. QED
      BY <2>1 DEF FrameFacts
  <1>5. Facts' /\ OneEnd'
    BY <1>0, <1>1, <1>3, <1>4, FactsKept, OneEndKept
  <1>6. Told' /\ Recorded'
    BY DEF IInv, Told, NotifiedOnce, Recorded
  <1>. QED
    BY <1>5, <1>6

LEMMA ReturnKnown ==
    ASSUME IInv, UNCHANGED setting, NEW w \in Workers, NEW pc, At(w, pc), Return(w),
           UNCHANGED <<state, status, pending, sent, notified, res>>
    PROVE  Facts' /\ OneEnd' /\ Told' /\ Recorded'
  <1>1. PICK fs \in Seq(Frames) : Continue(w, fs) /\ Len(fs) = 0
    BY Return0
  <1>2. \A k \in 1..Len(fs) : FALSE
    BY <1>1
  <1>. QED
    BY <1>1, <1>2, IdleKnown

LEMMA CompleteKnown ==
    ASSUME IInv, UNCHANGED setting, NEW w \in Workers,
           Complete(w) \/ Completing(w) \/ Cancel(w)
    PROVE  Facts' /\ OneEnd' /\ Told' /\ Recorded'
  <1>. USE DEF irp, assoc
  <1>0. TypeOK /\ Home
    BY DEF IInv, TypeInv
  <1>1. ASSUME NEW pc \in {"complete", "completing"}, At(w, pc), FinishIrp(w),
               state[Cur(w)] = "READY"
        PROVE  Facts' /\ OneEnd' /\ Told' /\ Recorded'
    <2>1. CASE Return(w) /\ UNCHANGED <<state, status, pending, sent, notified, res>>
      BY <1>1, <2>1, ReturnKnown
    <2>2. CASE /\ state' = [state EXCEPT ![Cur(w)] = "COMPLETED"]
               /\ Goto(w, IF Cur(w) = Master THEN "post" ELSE "link")
               /\ UNCHANGED <<status, pending, sent, notified, res>>
      <3>1. PICK st \in Finished : st = "COMPLETED"
        BY DEF Finished
      <3>. QED
        BY <1>1, <2>2, <3>1, FinishKnown
    <2>. QED
      BY <1>1, <2>1, <2>2 DEF FinishIrp
  <1>2. CASE Complete(w)
    <2>1. At(w, "complete")
      BY <1>2 DEF Complete
    <2>2. CASE Return(w) /\ UNCHANGED <<irp, notified, assoc>>
      BY <2>1, <2>2, ReturnKnown
    <2>3. CASE FinishIrp(w) /\ state[Cur(w)] = "READY"
      BY <1>1, <2>1, <2>3
    <2>4. CASE /\ Continue(w, <<Frame("cancelSlaves", Cur(w)), Frame("completing", Cur(w))>>)
               /\ Cur(w) = Master /\ UNCHANGED <<irp, notified, assoc>>
      <3>. DEFINE f == Frame("cancelSlaves", Cur(w))
                  c == Frame("completing", Cur(w))
      <3>1. /\ f \in Frames /\ f.pc = "cancelSlaves"
            /\ c \in Frames /\ c.pc = "completing"
        BY <2>4, FrameTypes DEF Pcs, Irps
      <3>. HIDE DEF f, c
      <3>2. /\ <<f, c>> \in Seq(Frames) /\ Len(<<f, c>>) = 2
            /\ <<f, c>>[1] = f /\ <<f, c>>[2] = c
        BY <3>1, FrameTypes
      <3>3. /\ Continue(w, <<f, c>>)
            /\ \A k \in 1..Len(<<f, c>>) : <<f, c>>[k].pc \in {"cancelSlaves", "completing"}
        BY <2>4, <3>1, <3>2 DEF f, c
      <3>. QED
        BY <2>1, <2>4, <3>2, <3>3, IdleKnown DEF StartPcs, EndPcs
    <2>. QED
      BY <1>2, <2>2, <2>3, <2>4 DEF Complete
  <1>3. CASE Completing(w)
    <2>1. At(w, "completing")
      BY <1>3 DEF Completing
    <2>2. CASE Return(w) /\ UNCHANGED <<irp, notified, assoc>>
      BY <2>1, <2>2, ReturnKnown
    <2>3. CASE FinishIrp(w) /\ state[Cur(w)] = "READY"
      BY <1>1, <2>1, <2>3
    <2>. QED
      BY <1>3, <2>2, <2>3 DEF Completing
  <1>4. CASE Cancel(w)
    <2>1. At(w, "cancel") /\ UNCHANGED <<pending, sent, masterOf, notified, assoc>>
      BY <1>4 DEF Cancel
    <2>2. CASE Return(w) /\ UNCHANGED <<state, status>>
      BY <2>1, <2>2, ReturnKnown
    <2>3. CASE /\ state[Cur(w)] = "READY"
               /\ state' = [state EXCEPT ![Cur(w)] = "CANCELLED"]
               /\ status' = [status EXCEPT ![Cur(w)] = "ERR"]
               /\ Goto(w, IF Cur(w) = Master THEN "post" ELSE "link")
      <3>1. PICK st \in Finished : st = "CANCELLED"
        BY DEF Finished
      <3>2. PICK pc \in {"complete", "completing", "cancel"} : pc = "cancel"
        OBVIOUS
      <3>. QED
        BY <2>1, <2>3, <3>1, <3>2, FinishKnown
    <2>. QED
      BY <1>4, <2>2, <2>3 DEF Cancel
  <1>. QED
    BY <1>2, <1>3, <1>4

LEMMA LinkKnown ==
    ASSUME IInv, UNCHANGED setting, NEW w \in Workers, Link(w)
    PROVE  Facts' /\ OneEnd' /\ Told' /\ Recorded'
  <1>. DEFINE s == Cur(w)
              c == Frame("complete", Master)
  <1>0. /\ TypeOK /\ Home /\ Facts /\ OneEnd /\ Recorded
        /\ UNCHANGED <<state, pending, sent, masterOf, notified>>
        /\ Local \in Slaves /\ Master \notin Slaves
    BY AssocAssumption DEF IInv, TypeInv, Link
  <1>1. PICK pc \in {"link", "linkStart"} : At(w, pc)
    BY DEF Link
  <1>2. /\ work[w] # <<>> /\ s \in Slaves /\ s \in Irps /\ s # Master
        /\ work[w][1].pc = pc /\ work[w][1].irp = s
    BY <1>0, <1>1, TopHome DEF StartPcs, Irps
  <1>3. /\ pc = "linkStart" => ~pending[s] /\ notified[s] = 0
        /\ pc = "link" => state[s] \in Finished /\ (pending[s] => notified[s] = 0)
        /\ sent[s] => state[s] \in Finished
    BY <1>1, <1>2, TopFacts DEF FrameFacts, StartPcs, EndPcs
  <1>4. PICK a \in Frames : /\ a = AfterLink(w) /\ a.irp = s
                             /\ a.pc = IF pc = "linkStart" THEN "callback" ELSE "post"
    <2>1. At(w, "linkStart") <=> pc = "linkStart"
      BY <1>1 DEF At
    <2>. QED
      BY <1>2, <2>1, FrameTypes DEF AfterLink, Pcs, Irps
  <1>c. c \in Frames /\ c.pc = "complete" /\ c.irp = Master
    BY FrameTypes DEF Pcs, Irps
  <1>5. /\ \/ res' = res
           \/ res' = [res EXCEPT ![s] = status[s]] /\ sent[s] /\ state[Master] = "READY"
        /\ \/ status' = status /\ Continue(w, <<a>>)
           \/ /\ \E r \in Results : /\ status' = [status EXCEPT ![Master] = r]
                                    /\ r = "OK" => NoDBusConn' \/ res'[Local] = "OK"
              /\ state[Master] = "READY"
              /\ Continue(w, <<c, a>>)
    BY <1>4 DEF Link, MasterResult, Results
  <1>. HIDE DEF s, c
  <1>6. PICK fs \in Seq(Frames) :
           /\ Continue(w, fs) /\ Len(fs) \in Nat /\ fs[Len(fs)] = a
           /\ \/ status' = status /\ Len(fs) = 1
              \/ /\ Len(fs) = 2 /\ fs[1] = c
                 /\ status'[Master] = "OK" => NoDBusConn' \/ res'[Local] = "OK"
    <2>1. CASE status' = status /\ Continue(w, <<a>>)
      <3>1. <<a>> \in Seq(Frames) /\ Len(<<a>>) = 1 /\ <<a>>[1] = a
        BY <1>4, <1>c, FrameTypes
      <3>. QED
        BY <2>1, <3>1
    <2>2. CASE /\ \E r \in Results : /\ status' = [status EXCEPT ![Master] = r]
                                     /\ r = "OK" => NoDBusConn' \/ res'[Local] = "OK"
               /\ Continue(w, <<c, a>>)
      <3>1. /\ <<c, a>> \in Seq(Frames) /\ Len(<<c, a>>) = 2
            /\ <<c, a>>[1] = c /\ <<c, a>>[2] = a
        BY <1>4, <1>c, FrameTypes
      <3>2. status'[Master] = "OK" => NoDBusConn' \/ res'[Local] = "OK"
        BY <1>0, <2>2 DEF TypeOK, Irps
      <3>. QED
        BY <2>2, <3>1, <3>2
    <2>. QED
      BY <1>5, <2>1, <2>2
  <1>7. /\ \A t \in Slaves : status'[t] = status[t]
        /\ \A t \in Slaves : res'[t] = res[t] \/ (res'[t] = status[t] /\ t = s /\ sent[s])
        /\ state[Master] # "READY" => res' = res /\ status' = status
    BY <1>0, <1>2, <1>5 DEF TypeOK, Irps
  <1>8. Recorded'
    BY <1>0, <1>3, <1>7 DEF Recorded
  <1>9. /\ res[Local] = "OK" => res'[Local] = "OK"
        /\ \/ status'[Master] = status[Master]
           \/ status'[Master] = "OK" => NoDBusConn' \/ res'[Local] = "OK"
    BY <1>0, <1>6, <1>7 DEF Recorded
  <1>10. \A k \in 1..Len(fs) : FrameFacts(fs[k])'
    <2>1. FrameFacts(a)'
      BY <1>0, <1>1, <1>3, <1>4 DEF FrameFacts, StartPcs, EndPcs
    <2>2. Len(fs) = 2 => FrameFacts(c)'
      BY <1>4, <1>c, <1>6 DEF FrameFacts, StartPcs, EndPcs
    <2>. SUFFICES ASSUME NEW k \in 1..Len(fs) PROVE FrameFacts(fs[k])'
      OBVIOUS
    <2>3. fs[k] = a \/ (Len(fs) = 2 /\ fs[k] = c)
      BY <1>6
    <2>5. CASE fs[k] = a
      BY <2>1, <2>5, Zenon DEF FrameFacts
    <2>6. CASE Len(fs) = 2 /\ fs[k] = c
      BY <2>2, <2>6, Zenon DEF FrameFacts
    <2>. QED
      BY <2>3, <2>5, <2>6
  <1>11. \A v, k : Other(w, v, k) => \A f \in Frames : f = work[v][k] => FrameFacts(f)'
    <2>. SUFFICES ASSUME NEW v, NEW k, Other(w, v, k), NEW f \in Frames, f = work[v][k]
                  PROVE  FrameFacts(f)'
      OBVIOUS
    <2>1. FrameFacts(f)
      BY <1>1, OtherFacts
    <2>. QED
      BY <1>0, <1>9, <2>1 DEF FrameFacts
  <1>12. Facts'
    BY <1>0, <1>2, <1>6, <1>10, <1>11, FactsKept
  <1>13. OneEnd'
    <2>1. \A k \in 1..Len(fs) : fs[k].pc \in EndPcs => k = Len(fs) /\ fs[k] = a
      <3>1. \A k \in 1..Len(fs) : k = Len(fs) \/ fs[k] = c
        BY <1>6
      <3>. QED
        BY <1>c, <1>6, <3>1 DEF EndPcs
    <2>2. a.pc \in EndPcs => Ends(w, 1, s)
      BY <1>1, <1>2, <1>4 DEF Ends, EndPcs
    <2>. QED
      BY <1>0, <1>2, <1>4, <1>6, <2>1, <2>2, OneEndKept
  <1>14. Told'
    BY <1>0 DEF IInv, Told, NotifiedOnce
  <1>. QED
    BY <1>8, <1>12, <1>13, <1>14

LEMMA PostKnown ==
    ASSUME IInv, UNCHANGED setting, NEW w \in Workers, Post(w)
    PROVE  Facts' /\ OneEnd' /\ Told' /\ Recorded'
  <1>. DEFINE i == Cur(w)
  <1>0. /\ TypeOK /\ Home /\ Facts /\ OneEnd /\ At(w, "post")
        /\ UNCHANGED <<state, status, pending, sent, res>>
        /\ notified' = [notified EXCEPT ![i] = IF pending[i] THEN @ + 1 ELSE @]
        /\ Return(w)
    BY DEF IInv, TypeInv, Post, assoc
  <1>1. /\ work[w] # <<>> /\ i \in Irps /\ Master \in Irps
        /\ work[w][1].pc = "post" /\ work[w][1].irp = i
    BY <1>0, TopHome DEF Irps
  <1>2. state[i] \in Finished /\ (pending[i] => notified[i] = 0)
    BY <1>0, <1>1, TopFacts DEF FrameFacts, EndPcs
  <1>3. PICK fs \in Seq(Frames) : Continue(w, fs) /\ Len(fs) = 0
    BY <1>0, Return0
  <1>. HIDE DEF i
  <1>4. /\ pending[i] => notified'[i] = 1
        /\ ~pending[i] => notified'[i] = notified[i]
        /\ \A j \in Irps : j # i => notified'[j] = notified[j]
    BY <1>0, <1>1, <1>2 DEF TypeOK
  <1>5. \A v, k : Other(w, v, k) => \A f \in Frames : f = work[v][k] => FrameFacts(f)'
    <2>. SUFFICES ASSUME NEW v, NEW k, Other(w, v, k), NEW f \in Frames, f = work[v][k]
                  PROVE  FrameFacts(f)'
      OBVIOUS
    <2>1. /\ FrameFacts(f) /\ f.irp \in Irps
          /\ f.pc \in EndPcs => f.irp # i
      BY <1>0, OtherFacts DEF EndPcs, i
    <2>. QED
      BY <1>0, <1>2, <1>4, <2>1 DEF FrameFacts
  <1>6. Facts' /\ OneEnd'
    <2>1. \A k \in 1..Len(fs) : FALSE
      BY <1>3
    <2>. QED
      BY <1>0, <1>1, <1>3, <1>5, <2>1, FactsKept, OneEndKept
  <1>7. Told'
    BY <1>0, <1>1, <1>2, <1>4 DEF IInv, Told, NotifiedOnce, Finished
  <1>8. Recorded'
    BY <1>0 DEF IInv, Recorded
  <1>. QED
    BY <1>6, <1>7, <1>8

LEMMA CancelSlavesKnown ==
    ASSUME IInv, UNCHANGED setting, NEW w \in Workers, CancelSlaves(w)
    PROVE  Facts' /\ OneEnd' /\ Told' /\ Recorded'
  <1>. DEFINE h == Head(work[w])
  <1>0. /\ TypeOK /\ Home /\ At(w, "cancelSlaves")
        /\ UNCHANGED <<state, status, pending, sent, notified, res>>
    BY DEF IInv, TypeInv, CancelSlaves, irp
  <1>1. h \in Frames /\ h.pc = "cancelSlaves"
    BY <1>0, TopFrame DEF At, TypeOK
  <1>2. \/ Return(w)
        \/ Continue(w, <<h>>)
        \/ \E x \in Slaves : Continue(w, Append(CancelIrp(x), h))
    BY <1>0 DEF CancelSlaves, TypeOK, Return
  <1>. HIDE DEF h
  <1>3. CASE Return(w)
    BY <1>0, <1>3, ReturnKnown
  <1>4. CASE Continue(w, <<h>>)
    <2>1. <<h>> \in Seq(Frames) /\ \A k \in 1..Len(<<h>>) : <<h>>[k] = h
      BY <1>1, FrameTypes
    <2>. QED
      BY <1>0, <1>1, <1>4, <2>1, IdleKnown DEF StartPcs, EndPcs
  <1>5. CASE \E x \in Slaves : Continue(w, Append(CancelIrp(x), h))
    <2>1. PICK x \in Slaves : Continue(w, Append(CancelIrp(x), h))
      BY <1>5
    <2>. DEFINE c == Frame("cancel", x)
    <2>2. c \in Frames /\ c.pc = "cancel" /\ CancelIrp(x) = <<c>>
      BY FrameTypes, AssocAssumption DEF CancelIrp, Irps, Pcs
    <2>. HIDE DEF c
    <2>3. /\ Append(<<c>>, h) \in Seq(Frames) /\ Len(Append(<<c>>, h)) = 2
          /\ Append(<<c>>, h)[1] = c /\ Append(<<c>>, h)[2] = h
      BY <1>1, <2>2
    <2>4. \A k \in 1..Len(Append(<<c>>, h)) :
             Append(<<c>>, h)[k].pc \in {"cancel", "cancelSlaves"}
      BY <1>1, <2>2, <2>3
    <2>5. Continue(w, Append(<<c>>, h))
      BY <2>1, <2>2
    <2>. QED
      BY <1>0, <2>3, <2>4, <2>5, IdleKnown DEF StartPcs, EndPcs
  <1>. QED
    BY <1>2, <1>3, <1>4, <1>5

\* A port, a timer or a stop begins to complete or to cancel an IRP.
LEMMA BeginKnown ==
    ASSUME IInv, UNCHANGED setting, NEW w \in Workers, Respond(w) \/ Timeout(w) \/ StopBus(w)
    PROVE  Facts' /\ OneEnd' /\ Told' /\ Recorded'
  <1>. USE DEF irp, assoc
  <1>0. /\ TypeOK /\ Home /\ Facts /\ OneEnd /\ Recorded /\ Told
        /\ Local \in Slaves /\ Master \notin Slaves /\ Master \in Irps
        /\ work \in [Workers -> Seq(Frames)] /\ work[w] = <<>>
        /\ UNCHANGED <<state, pending, sent, notified, res>>
    BY AssocAssumption DEF IInv, TypeInv, TypeOK, Irps, Respond, Timeout, StopBus
  <1>1. PICK i \in Irps : i = w[2] /\ state[i] = "READY" /\ (w[1] = "port" => i \in Slaves)
    BY DEF Workers, Irps, Respond, Timeout, StopBus
  <1>2. /\ status'[Master] = "OK" => status[Master] = "OK"
        /\ \A s \in Slaves : s # i => status'[s] = status[s]
    BY <1>0, <1>1 DEF TypeOK, Irps, Respond, Timeout, StopBus
  <1>3. PICK fs \in Seq(Frames) :
           /\ work' = [work EXCEPT ![w] = fs]
           /\ \A k \in 1..Len(fs) : \/ fs[k].pc \in {"cancelSlaves", "cancel"}
                                    \/ fs[k].pc = "complete" /\ fs[k].irp # Master
    <2>1. CASE Respond(w)
      <3>. DEFINE f == Frame("complete", w[2])
      <3>1. f \in Frames /\ f.pc = "complete" /\ f.irp # Master
        BY <1>0, <1>1, <2>1, FrameTypes DEF Pcs, Respond
      <3>2. work' = [work EXCEPT ![w] = <<f>>]
        BY <2>1 DEF Respond
      <3>. HIDE DEF f
      <3>3. <<f>> \in Seq(Frames) /\ \A k \in 1..Len(<<f>>) : <<f>>[k] = f
        BY <3>1, FrameTypes
      <3>. QED
        BY <3>1, <3>2, <3>3
    <2>2. CASE Timeout(w) \/ StopBus(w)
      <3>. DEFINE c == CancelIrp(w[2])
      <3>1. work' = [work EXCEPT ![w] = c]
        BY <2>2 DEF Timeout, StopBus
      <3>2. /\ c \in Seq(Frames)
            /\ \A k \in 1..Len(c) : c[k].pc \in {"cancelSlaves", "cancel"}
        BY <1>1, CancelFrames
      <3>. HIDE DEF c
      <3>. QED
        BY <3>1, <3>2
    <2>. QED
      BY <2>1, <2>2
  <1>4. \A v \in Workers : \A k \in Depth(v)' :
           \/ v = w /\ k \in 1..Len(fs) /\ work'[v][k] = fs[k]
           \/ k \in Depth(v) /\ work'[v][k] = work[v][k]
    BY <1>0, <1>3 DEF Depth
  <1>5. Facts'
    <2>. SUFFICES ASSUME NEW v \in Workers, NEW k \in Depth(v)'
                  PROVE  FrameFacts(work[v][k])'
      BY DEF Facts
    <2>1. CASE v = w /\ k \in 1..Len(fs) /\ work'[v][k] = fs[k]
      BY <1>3, <2>1 DEF FrameFacts, StartPcs, EndPcs
    <2>2. CASE k \in Depth(v) /\ work'[v][k] = work[v][k]
      <3>1. FrameFacts(work[v][k])
        BY <1>0, <2>2 DEF Facts
      <3>. QED
        BY <1>0, <1>2, <2>2, <3>1 DEF FrameFacts
    <2>. QED
      BY <1>4, <2>1, <2>2
  <1>6. OneEnd'
    <2>. SUFFICES ASSUME NEW j \in Irps, NEW u \in Workers, NEW v \in Workers,
                         NEW m \in Depth(u)', NEW k \in Depth(v)',
                         Ends(u, m, j)', Ends(v, k, j)'
                  PROVE  u = v /\ m = k
      BY DEF OneEnd
    <2>1. ASSUME NEW x \in Workers, NEW n \in Depth(x)', Ends(x, n, j)'
          PROVE  n \in Depth(x) /\ Ends(x, n, j)
      BY <1>3, <1>4, <2>1 DEF Ends, EndPcs
    <2>. QED
      BY <1>0, <2>1 DEF OneEnd
  <1>7. Told'
    BY <1>0 DEF Told, NotifiedOnce
  <1>8. Recorded'
    BY <1>0, <1>1, <1>2 DEF Recorded, Finished
  <1>. QED
    BY <1>5, <1>6, <1>7, <1>8

LEMMA MasterKnown ==
    ASSUME IInv, UNCHANGED setting, SubmitMaster \/ MasterFails
    PROVE  Facts' /\ OneEnd' /\ Told' /\ Recorded'
  <1>. USE DEF irp, assoc
  <1>0. /\ TypeOK /\ Fresh /\ Recorded /\ Told /\ ~pending[Master]
        /\ Local \in Slaves /\ Master \notin Slaves /\ Master \in Irps
        /\ state[Master] = "READY"
    BY AssocAssumption DEF IInv, TypeInv, Irps, SubmitMaster, MasterFails
  <1>1. \A s \in Slaves : /\ ~pending[s] /\ ~sent[s] /\ notified[s] = 0 /\ res[s] = "none"
    BY <1>0 DEF Fresh
  <1>2. /\ \A s \in Slaves : pending'[s] = pending[s] /\ notified'[s] = notified[s]
        /\ UNCHANGED <<sent, res>>
    BY <1>0 DEF TypeOK, Irps, SubmitMaster, MasterFails
  <1>3. \A w \in Workers : \A k \in Depth(w)' :
           work'[w][k].pc = "start" /\ work'[w][k].irp \in Slaves
    <2>1. CASE SubmitMaster
      <3>1. \A s \in Slaves : /\ Frame("start", s) \in Frames
                              /\ Frame("start", s).pc = "start" /\ Frame("start", s).irp = s
        BY FrameTypes DEF Irps, Pcs
      <3>2. \A w \in Workers : \/ work'[w] = <<>>
                               \/ w[2] \in Slaves /\ work'[w] = <<Frame("start", w[2])>>
        BY <2>1 DEF SubmitMaster
      <3>. QED
        BY <3>1, <3>2 DEF Depth
    <2>2. CASE MasterFails
      BY <1>0, <2>2 DEF MasterFails, Depth, Fresh
    <2>. QED
      BY <2>1, <2>2
  <1>4. Facts'
    BY <1>1, <1>2, <1>3 DEF Facts, FrameFacts, StartPcs, EndPcs
  <1>5. OneEnd'
    BY <1>3 DEF OneEnd, Ends, EndPcs
  <1>6. Told'
    <2>1. CASE SubmitMaster
      BY <1>0, <1>1, <2>1 DEF SubmitMaster, Told, NotifiedOnce, TypeOK, Irps
    <2>2. CASE MasterFails
      <3>1. /\ notified' = [notified EXCEPT ![Master] = @ + 1] /\ notified[Master] = 0
            /\ state' = [state EXCEPT ![Master] = "COMPLETED"] /\ pending' = pending
        BY <1>0, <2>2 DEF MasterFails, Told
      <3>2. notified'[Master] = 1 /\ state'[Master] = "COMPLETED"
        BY <1>0, <3>1 DEF TypeOK
      <3>. QED
        BY <1>0, <1>1, <1>2, <3>1, <3>2 DEF Told, NotifiedOnce, Irps
    <2>. QED
      BY <2>1, <2>2
  <1>7. Recorded'
    <2>1. state'[Master] = "COMPLETED" => status'[Master] = "ERR"
      BY <1>0 DEF TypeOK, SubmitMaster, MasterFails
    <2>. QED
      BY <1>1, <1>2, <2>1 DEF Recorded
  <1>. QED
    BY <1>4, <1>5, <1>6, <1>7

LEMMA InvStep == IInv /\ [Next]_vars => IInv'
  <1>. SUFFICES ASSUME IInv, [Next]_vars PROVE IInv'
    OBVIOUS
  <1>1. TypeInv'
    BY TypeStep DEF IInv
  <1>. SUFFICES Facts' /\ OneEnd' /\ Told' /\ Recorded'
    BY <1>1 DEF IInv
  <1>2. CASE UNCHANGED vars
    <2>1. Facts' /\ OneEnd'
      BY <1>2 DEF vars, IInv, Facts, FrameFacts, OneEnd, Ends, Depth
    <2>2. Told' /\ Recorded'
      BY <1>2 DEF vars, IInv, Told, NotifiedOnce, Recorded
    <2>. QED
      BY <2>1, <2>2
  <1>3. CASE Next
    BY <1>3, StartAssocKnown, SubmitSlaveKnown, CallbackKnown, CompleteKnown, LinkKnown,
       PostKnown, CancelSlavesKnown, BeginKnown, MasterKnown DEF Next, Step
  <1>. QED
    BY <1>2, <1>3

LEMMA IndInv == Spec => []IInv
  <1>1. Init => IInv
    <2>. SUFFICES ASSUME Init PROVE IInv
      OBVIOUS
    <2>1. \A w \in Workers : work[w] = <<>>
      BY DEF Init
    <2>2. Facts /\ OneEnd
      BY <2>1 DEF Facts, OneEnd, Depth
    <2>3. Told /\ Recorded
      BY AssocAssumption DEF Init, Told, NotifiedOnce, Recorded, Irps
    <2>. QED
      BY <2>2, <2>3, InitType DEF IInv
  <1>. QED
    BY <1>1, InvStep, PTL DEF Spec

\* However its completion, its timer, the cancellation of its master and a stop
\* race, the submitter of a START IRP is called back once at most.
THEOREM OneCallback == Spec => []NotifiedOnce
  <1>1. IInv => NotifiedOnce
    BY DEF IInv, Told
  <1>. QED
    BY <1>1, IndInv, PTL

\* A bus port with a D-Bus connection that reports a successful start has a local
\* port whose START was submitted, has ended and succeeded.
THEOREM BusStartHonest == Spec => []HonestStart
  <1>1. IInv => HonestStart
    BY AssocAssumption DEF IInv, Recorded, HonestStart
  <1>. QED
    BY <1>1, IndInv, PTL

-----------------------------------------------------------------------------
(* The master outlives its slaves.                                         *)

LEMMA CalmKept ==
    ASSUME TypeOK, NEW w \in Workers, work[w] # <<>>, NEW fs \in Seq(Frames),
           Continue(w, fs),
           \A k \in 1..Len(fs) : Calm(fs[k])',
           \A v, k : Other(w, v, k) => \A f \in Frames : f = work[v][k] => Calm(f)'
    PROVE  CalmFrames'
  <1>0. work \in [Workers -> Seq(Frames)]
    BY DEF TypeOK
  <1>1. SUFFICES ASSUME NEW v \in Workers, NEW k \in Depth(v)'
                 PROVE  Calm(work[v][k])'
    BY DEF CalmFrames
  <1>2. CASE v = w /\ k \in 1..Len(fs) /\ work'[v][k] = fs[k]
    BY <1>2 DEF Calm
  <1>3. CASE \E j \in Depth(v) : work'[v][k] = work[v][j] /\ (v = w => j >= 2)
    <2>1. PICK j \in Depth(v) : work'[v][k] = work[v][j] /\ (v = w => j >= 2)
      BY <1>3
    <2>2. Other(w, v, j) /\ work[v][j] \in Frames
      BY <1>0, <2>1 DEF Other, Depth
    <2>3. PICK f \in Frames : f = work[v][j]
      BY <2>2
    <2>4. Calm(f)'
      BY <2>2, <2>3
    <2>. QED
      BY <2>1, <2>3, <2>4 DEF Calm
  <1>. QED
    BY <1>0, <1>2, <1>3, OldOrNew

LEMMA AbsentFinite == IsFiniteSet(Absent) /\ Cardinality(Absent) \in Nat
  BY AssocAssumption, FS_Subset, FS_CardinalityType DEF Absent

\* What the innermost frame of a worker tells.
LEMMA TopCalm ==
    ASSUME IInv, CalmFrames, CalmState, NEW w \in Workers, NEW pc, At(w, pc)
    PROVE  /\ Calm(work[w][1]) /\ FrameFacts(work[w][1]) /\ pending[Master]
           /\ work[w] # <<>> /\ Cur(w) \in Irps
           /\ work[w][1].pc = pc /\ work[w][1].irp = Cur(w)
           /\ pc \in StartPcs \cup {"link"} => Cur(w) \in Slaves /\ Cur(w) # Master
           /\ TypeOK /\ Home
           /\ state[Master] = "READY" \/ slaves = {}
  <1>1. TypeOK /\ Home /\ Fresh
    BY DEF IInv, TypeInv
  <1>2. /\ work[w] # <<>> /\ Cur(w) \in Irps /\ 1 \in Depth(w)
        /\ work[w][1].pc = pc /\ work[w][1].irp = Cur(w)
        /\ pc \in StartPcs \cup {"link"} => Cur(w) \in Slaves /\ Cur(w) # Master
    BY <1>1, TopHome, AssocAssumption
  <1>3. FrameFacts(work[w][1]) /\ Calm(work[w][1])
    BY <1>2, TopFacts DEF CalmFrames
  <1>4. pending[Master]
    BY <1>1, <1>2 DEF Fresh
  <1>5. state[Master] = "READY" \/ state[Master] \in Finished
    BY <1>1 DEF TypeOK, Irps
  <1>. QED
    BY <1>1, <1>2, <1>3, <1>4, <1>5 DEF CalmState

LEMMA OtherCalm ==
    ASSUME IInv, CalmFrames, NEW w \in Workers, NEW pc, At(w, pc),
           NEW v, NEW k, Other(w, v, k), NEW f \in Frames, f = work[v][k]
    PROVE  /\ Calm(f) /\ FrameFacts(f) /\ f.irp \in Irps
           /\ f.pc \in StartPcs => f.irp \in Slaves
           /\ f.pc \in StartPcs /\ pc \in StartPcs => f.irp # Cur(w)
           /\ f.pc \in EndPcs /\ pc \in EndPcs => f.irp # Cur(w)
  BY OtherFacts DEF CalmFrames, Other

LEMMA StartAssocCalm ==
    ASSUME IInv, CalmFrames, CalmState, NEW w \in Workers, StartAssoc(w)
    PROVE  CalmFrames' /\ CalmState'
  <1>. DEFINE s == Cur(w)
  <1>0. /\ At(w, "start") /\ UNCHANGED <<state, pending, sent, notified, res>>
    BY DEF StartAssoc
  <1>1. /\ work[w] # <<>> /\ s \in Slaves /\ s # Master /\ pending[Master] /\ TypeOK
        /\ ~masterOf[s] /\ ~pending[s] /\ notified[s] = 0
    BY <1>0, TopCalm DEF Calm, FrameFacts, StartPcs
  <1>2. CASE state[Master] = "READY"
    <2>1. /\ slaves' = slaves \cup {s} /\ masterOf' = [masterOf EXCEPT ![s] = TRUE]
          /\ minSlaves' = IF minSlaves > 0 THEN minSlaves - 1 ELSE 0
          /\ Goto(w, "submit")
      BY <1>2 DEF StartAssoc
    <2>2. PICK fs \in Seq(Frames) : /\ Continue(w, fs) /\ Len(fs) = 1 /\ fs[1].irp = s
                                    /\ fs[1].pc = "submit"
      BY <1>1, <2>1, Goto1 DEF Pcs
    <2>. HIDE DEF s
    <2>3. masterOf'[s] /\ \A t \in Slaves : t # s => masterOf'[t] = masterOf[t]
      BY <1>1, <2>1 DEF TypeOK
    <2>4. Absent' = Absent \ {s} /\ s \in Absent
      BY <1>0, <1>1, <2>3 DEF Absent
    <2>5. /\ minSlaves = Cardinality(Absent) /\ minSlaves \in Nat /\ minSlaves # 0
          /\ Cardinality(Absent') = minSlaves - 1
      <3>1. /\ minSlaves = Cardinality(Absent) /\ minSlaves \in Nat
        BY <1>1, <1>2, AbsentFinite DEF CalmState
      <3>2. Cardinality(Absent \ {s}) = Cardinality(Absent) - 1 /\ IsFiniteSet(Absent \ {s})
        BY <2>4, AbsentFinite, FS_RemoveElement
      <3>3. Cardinality(Absent \ {s}) \in Nat
        BY <3>2, FS_CardinalityType
      <3>. QED
        BY <2>4, <3>1, <3>2, <3>3
    <2>6. \A k \in 1..Len(fs) : Calm(fs[k])'
      BY <2>1, <2>2, <2>3 DEF Calm, StartPcs, EndPcs
    <2>7. \A v, k : Other(w, v, k) => \A f \in Frames : f = work[v][k] => Calm(f)'
      <3>. SUFFICES ASSUME NEW v, NEW k, Other(w, v, k), NEW f \in Frames, f = work[v][k]
                    PROVE  Calm(f)'
        OBVIOUS
      <3>1. /\ Calm(f) /\ (f.pc \in StartPcs => f.irp \in Slaves /\ f.irp # s)
        BY <1>0, OtherCalm DEF StartPcs, s
      <3>2. ~(f.pc = "complete" /\ f.irp = Master)
        BY <2>5, <3>1 DEF Calm
      <3>. QED
        BY <1>0, <2>1, <2>3, <3>1, <3>2 DEF Calm, StartPcs
    <2>8. CalmFrames'
      BY <1>1, <2>2, <2>6, <2>7, CalmKept
    <2>9. CalmState'
      BY <1>0, <1>1, <1>2, <2>1, <2>3, <2>5 DEF CalmState, Finished
    <2>. QED
      BY <2>8, <2>9
  <1>3. CASE state[Master] # "READY"
    <2>1. UNCHANGED <<slaves, minSlaves, masterOf>> /\ Goto(w, "linkStart")
      BY <1>3 DEF StartAssoc
    <2>2. PICK fs \in Seq(Frames) : /\ Continue(w, fs) /\ Len(fs) = 1 /\ fs[1].irp = s
                                    /\ fs[1].pc = "linkStart"
      BY <1>1, <2>1, Goto1 DEF Pcs
    <2>. HIDE DEF s
    <2>3. \A k \in 1..Len(fs) : Calm(fs[k])'
      BY <1>0, <1>3, <2>2 DEF Calm, StartPcs, EndPcs
    <2>4. \A v, k : Other(w, v, k) => \A f \in Frames : f = work[v][k] => Calm(f)'
      BY <1>0, <2>1, OtherCalm DEF Calm
    <2>5. CalmState'
      BY <1>0, <2>1 DEF CalmState, Absent
    <2>. QED
      BY <1>1, <2>2, <2>3, <2>4, <2>5, CalmKept
  <1>. QED
    BY <1>2, <1>3

LEMMA SubmitSlaveCalm ==
    ASSUME IInv, CalmFrames, CalmState, NEW w \in Workers, SubmitSlave(w)
    PROVE  CalmFrames' /\ CalmState'
  <1>. DEFINE s == Cur(w)
  <1>0. /\ At(w, "submit") /\ UNCHANGED <<masterOf, notified, slaves, minSlaves>>
    BY DEF SubmitSlave, assoc
  <1>1. /\ work[w] # <<>> /\ s \in Slaves /\ s # Master /\ s \in Irps /\ Master \in Irps
        /\ pending[Master] /\ TypeOK /\ s \in slaves
        /\ state[Master] = "READY" /\ masterOf[s]
    BY <1>0, TopCalm DEF Calm, StartPcs, Irps
  <1>2. /\ state' = state
           \/ state' = [state EXCEPT ![s] = IF @ = "READY" THEN "COMPLETED" ELSE @]
        /\ pending' = pending \/ pending' = [pending EXCEPT ![s] = TRUE]
    BY DEF SubmitSlave
  <1>3. PICK fs \in Seq(Frames) :
           /\ Continue(w, fs)
           /\ Len(fs) = 0 \/ (Len(fs) = 1 /\ fs[1].irp = s /\ fs[1].pc = "linkStart")
    <2>1. CASE Return(w)
      BY <2>1, Return0
    <2>2. CASE Goto(w, "linkStart")
      BY <1>1, <2>2, Goto1 DEF Pcs
    <2>. QED
      BY <2>1, <2>2 DEF SubmitSlave
  <1>. HIDE DEF s
  <1>4. /\ \A i \in Irps : i # s => state'[i] = state[i] /\ pending'[i] = pending[i]
        /\ \A i \in Irps : pending[i] => pending'[i]
        /\ state[s] \in Finished => state'[s] \in Finished
    <2>1. \A i \in Irps : i # s => state'[i] = state[i] /\ pending'[i] = pending[i]
      BY <1>1, <1>2 DEF TypeOK
    <2>2. \A i \in Irps : pending[i] => pending'[i]
      BY <1>1, <1>2 DEF TypeOK
    <2>3. state[s] \in Finished => state'[s] \in Finished
      BY <1>1, <1>2 DEF TypeOK, Finished
    <2>. QED
      BY <2>1, <2>2, <2>3
  <1>5. \A k \in 1..Len(fs) : Calm(fs[k])'
    BY <1>0, <1>1, <1>3 DEF Calm, StartPcs, EndPcs
  <1>6. \A v, k : Other(w, v, k) => \A f \in Frames : f = work[v][k] => Calm(f)'
    <2>. SUFFICES ASSUME NEW v, NEW k, Other(w, v, k), NEW f \in Frames, f = work[v][k]
                  PROVE  Calm(f)'
      OBVIOUS
    <2>1. Calm(f) /\ f.irp \in Irps
      BY <1>0, OtherCalm
    <2>. QED
      BY <1>0, <1>1, <1>4, <2>1 DEF Calm
  <1>7. CalmState'
    <2>1. Absent' = Absent
      BY <1>0 DEF Absent
    <2>. QED
      BY <1>0, <1>1, <1>4, <2>1 DEF CalmState, Irps
  <1>. QED
    BY <1>1, <1>3, <1>5, <1>6, <1>7, CalmKept

LEMMA CallbackCalm ==
    ASSUME IInv, CalmFrames, CalmState, NEW w \in Workers, Callback(w)
    PROVE  CalmFrames' /\ CalmState'
  <1>. DEFINE s == Cur(w)
  <1>0. /\ At(w, "callback") /\ UNCHANGED <<state, pending, slaves, minSlaves>>
        /\ notified' = [notified EXCEPT ![s] = @ + 1]
        /\ masterOf' = [masterOf EXCEPT ![s] = FALSE] /\ Return(w)
    BY DEF Callback, assoc
  <1>1. /\ work[w] # <<>> /\ s \in Slaves /\ s # Master /\ s \in Irps
        /\ pending[Master] /\ TypeOK /\ ~pending[s] /\ notified[s] = 0
        /\ state[Master] = "READY" => masterOf[s]
    BY <1>0, TopCalm DEF Calm, FrameFacts, StartPcs, Irps
  <1>2. PICK fs \in Seq(Frames) : Continue(w, fs) /\ Len(fs) = 0
    BY <1>0, Return0
  <1>3. \A k \in 1..Len(fs) : FALSE
    BY <1>2
  <1>. HIDE DEF s
  <1>4. /\ notified'[s] = 1 /\ ~masterOf'[s]
        /\ \A t \in Slaves : t # s => notified'[t] = notified[t] /\ masterOf'[t] = masterOf[t]
    BY <1>0, <1>1 DEF TypeOK, Irps
  <1>5. \A v, k : Other(w, v, k) => \A f \in Frames : f = work[v][k] => Calm(f)'
    <2>. SUFFICES ASSUME NEW v, NEW k, Other(w, v, k), NEW f \in Frames, f = work[v][k]
                  PROVE  Calm(f)'
      OBVIOUS
    <2>1. /\ Calm(f) /\ f.irp \in Irps
          /\ f.pc \in StartPcs => f.irp \in Slaves /\ f.irp # s
      BY <1>0, OtherCalm DEF StartPcs, s
    <2>. QED
      BY <1>0, <1>4, <2>1 DEF Calm, StartPcs
  <1>6. CalmState'
    <2>1. state[Master] = "READY" => Absent' = Absent
      BY <1>1, <1>4 DEF Absent
    <2>. QED
      BY <1>0, <1>1, <1>4, <2>1 DEF CalmState
  <1>. QED
    BY <1>1, <1>2, <1>3, <1>5, <1>6, CalmKept

\* A call that returns and leaves everything alone.
LEMMA ReturnCalm ==
    ASSUME IInv, CalmFrames, CalmState, NEW w \in Workers, NEW pc, At(w, pc), Return(w),
           UNCHANGED <<state, pending, masterOf, notified, slaves, minSlaves>>
    PROVE  CalmFrames' /\ CalmState'
  <1>1. PICK fs \in Seq(Frames) : Continue(w, fs) /\ Len(fs) = 0
    BY Return0
  <1>2. \A k \in 1..Len(fs) : FALSE
    BY <1>1
  <1>3. \A v, k : Other(w, v, k) => \A f \in Frames : f = work[v][k] => Calm(f)'
    BY OtherCalm DEF Calm
  <1>4. CalmState'
    BY DEF CalmState, Absent
  <1>5. work[w] # <<>> /\ TypeOK
    BY TopCalm
  <1>. QED
    BY <1>1, <1>2, <1>3, <1>4, <1>5, CalmKept

LEMMA FinishCalm ==
    ASSUME IInv, CalmFrames, CalmState, NEW w \in Workers,
           NEW pc \in {"complete", "cancel"}, At(w, pc), state[Cur(w)] = "READY",
           UNCHANGED <<pending, masterOf, notified, slaves, minSlaves>>,
           NEW st \in Finished, state' = [state EXCEPT ![Cur(w)] = st],
           Goto(w, IF Cur(w) = Master THEN "post" ELSE "link")
    PROVE  CalmFrames' /\ CalmState'
  <1>. DEFINE i == Cur(w)
  <1>1. /\ work[w] # <<>> /\ TypeOK /\ i \in Irps /\ Master \in Irps
        /\ i # Master => i \in Slaves /\ pending[i]
        /\ i = Master => slaves = {} /\ minSlaves = 0
    BY TopCalm DEF Calm, Irps
  <1>2. PICK fs \in Seq(Frames) : /\ Continue(w, fs) /\ Len(fs) = 1 /\ fs[1].irp = i
                                  /\ fs[1].pc \in EndPcs
    <2>. DEFINE p == IF i = Master THEN "post" ELSE "link"
    <2>1. p \in Pcs /\ p \in EndPcs /\ Goto(w, p)
      BY DEF Pcs, EndPcs
    <2>. HIDE DEF p
    <2>. QED
      BY <1>1, <2>1, Goto1
  <1>. HIDE DEF i
  <1>3. state'[i] = st /\ \A j \in Irps : j # i => state'[j] = state[j]
    BY <1>1 DEF TypeOK, i
  <1>4. state'[Master] = "READY" => state[Master] = "READY"
    BY <1>1, <1>3 DEF Finished
  <1>5. \A k \in 1..Len(fs) : Calm(fs[k])'
    <2>1. Master \notin Slaves
      BY AssocAssumption
    <2>. QED
      BY <1>1, <1>2, <2>1 DEF Calm, StartPcs, EndPcs
  <1>6. \A v, k : Other(w, v, k) => \A f \in Frames : f = work[v][k] => Calm(f)'
    BY <1>4, OtherCalm DEF Calm
  <1>7. CalmState'
    <2>1. Absent' = Absent
      BY DEF Absent
    <2>. QED
      BY <1>1, <1>3, <1>4, <2>1 DEF CalmState, Irps
  <1>. QED
    BY <1>1, <1>2, <1>5, <1>6, <1>7, CalmKept

LEMMA CompleteCalm ==
    ASSUME IInv, CalmFrames, CalmState, NEW w \in Workers,
           Complete(w) \/ Completing(w) \/ CancelSlaves(w) \/ Cancel(w)
    PROVE  CalmFrames' /\ CalmState'
  <1>. USE DEF irp, assoc
  <1>1. ~Completing(w) /\ ~CancelSlaves(w)
    BY TopCalm DEF Calm, Completing, CancelSlaves
  <1>2. CASE Complete(w)
    <2>1. At(w, "complete")
      BY <1>2 DEF Complete
    <2>2. ~(Cur(w) = Master /\ SlaveCount(slaves) > 0)
      <3>1. Cur(w) = Master => slaves = {} /\ minSlaves = 0
        BY <2>1, TopCalm DEF Calm
      <3>2. Cardinality({}) = 0
        BY FS_EmptySet
      <3>. QED
        BY <3>1, <3>2 DEF SlaveCount
    <2>3. CASE Return(w) /\ UNCHANGED <<irp, notified, assoc>>
      BY <2>1, <2>3, ReturnCalm
    <2>4. CASE /\ state[Cur(w)] = "READY"
               /\ state' = [state EXCEPT ![Cur(w)] = "COMPLETED"]
               /\ Goto(w, IF Cur(w) = Master THEN "post" ELSE "link")
               /\ UNCHANGED <<status, pending, sent, masterOf, notified, assoc>>
      <3>1. PICK st \in Finished : st = "COMPLETED"
        BY DEF Finished
      <3>2. PICK pc \in {"complete", "cancel"} : pc = "complete"
        OBVIOUS
      <3>. QED
        BY <2>1, <2>4, <3>1, <3>2, FinishCalm
    <2>. QED
      BY <1>2, <2>2, <2>3, <2>4 DEF Complete, FinishIrp
  <1>3. CASE Cancel(w)
    <2>1. At(w, "cancel") /\ UNCHANGED <<pending, sent, masterOf, notified, assoc>>
      BY <1>3 DEF Cancel
    <2>2. CASE Return(w) /\ UNCHANGED <<state, status>>
      BY <2>1, <2>2, ReturnCalm
    <2>3. CASE /\ state[Cur(w)] = "READY"
               /\ state' = [state EXCEPT ![Cur(w)] = "CANCELLED"]
               /\ Goto(w, IF Cur(w) = Master THEN "post" ELSE "link")
      <3>1. PICK st \in Finished : st = "CANCELLED"
        BY DEF Finished
      <3>2. PICK pc \in {"complete", "cancel"} : pc = "cancel"
        OBVIOUS
      <3>. QED
        BY <2>1, <2>3, <3>1, <3>2, FinishCalm
    <2>. QED
      BY <1>3, <2>2, <2>3 DEF Cancel
  <1>. QED
    BY <1>1, <1>2, <1>3

LEMMA LinkCalm ==
    ASSUME IInv, CalmFrames, CalmState, NEW w \in Workers, Link(w)
    PROVE  CalmFrames' /\ CalmState'
  <1>. DEFINE s == Cur(w)
              c == Frame("complete", Master)
  <1>0. UNCHANGED <<state, pending, sent, masterOf, notified, minSlaves>>
    BY DEF Link
  <1>1. PICK pc \in {"link", "linkStart"} : At(w, pc)
    BY DEF Link
  <1>2. /\ work[w] # <<>> /\ s \in Slaves /\ s \in Irps /\ s # Master /\ TypeOK
        /\ pc = "link" => pending[s] /\ state[s] \in Finished
        /\ pc = "linkStart" => ~pending[s] /\ (state[Master] = "READY" => masterOf[s])
    BY <1>1, TopCalm DEF Calm, FrameFacts, StartPcs, EndPcs, Irps
  <1>3. PICK a \in Frames : /\ a = AfterLink(w) /\ a.irp = s
                             /\ a.pc = IF pc = "linkStart" THEN "callback" ELSE "post"
    <2>1. At(w, "linkStart") <=> pc = "linkStart"
      BY <1>1 DEF At
    <2>. QED
      BY <1>2, <2>1, FrameTypes DEF AfterLink, Pcs, Irps
  <1>4. c \in Frames /\ c.pc = "complete" /\ c.irp = Master
    BY FrameTypes DEF Pcs, Irps
  <1>5. /\ slaves' = slaves \/ slaves' = slaves \ {s}
        /\ \/ Continue(w, <<a>>)
           \/ slaves' = slaves \ {s} /\ IsLast(slaves') /\ Continue(w, <<c, a>>)
    BY <1>3 DEF Link
  <1>. HIDE DEF s, c
  <1>6. IsLast(slaves') => slaves' = {} /\ minSlaves = 0
    <2>1. slaves' \subseteq Slaves /\ minSlaves \in Nat
      BY <1>2, <1>5 DEF CalmState, TypeOK
    <2>2. IsFiniteSet(slaves')
      BY <2>1, AssocAssumption, FS_Subset
    <2>3. Cardinality(slaves') \in Nat
      BY <2>2, FS_CardinalityType
    <2>4. Cardinality(slaves') = 0 => slaves' = {}
      BY <2>2, FS_EmptySet
    <2>5. IsLast(slaves') => Cardinality(slaves') + minSlaves = 0
      BY DEF IsLast, SlaveCount
    <2>. QED
      BY <2>1, <2>3, <2>4, <2>5
  <1>7. PICK fs \in Seq(Frames) :
           /\ Continue(w, fs)
           /\ \A k \in 1..Len(fs) : \/ fs[k] = a
                                    \/ fs[k] = c /\ slaves' = {} /\ minSlaves = 0
    <2>1. CASE Continue(w, <<a>>)
      <3>1. <<a>> \in Seq(Frames) /\ \A k \in 1..Len(<<a>>) : <<a>>[k] = a
        BY <1>3, FrameTypes
      <3>. QED
        BY <2>1, <3>1
    <2>2. CASE IsLast(slaves') /\ Continue(w, <<c, a>>)
      <3>1. <<c, a>> \in Seq(Frames) /\ \A k \in 1..Len(<<c, a>>) :
                                           <<c, a>>[k] = a \/ <<c, a>>[k] = c
        BY <1>3, <1>4, FrameTypes
      <3>. QED
        BY <1>6, <2>2, <3>1
    <2>. QED
      BY <1>5, <2>1, <2>2
  <1>8. \A k \in 1..Len(fs) : Calm(fs[k])'
    <2>1. Calm(a)'
      BY <1>0, <1>1, <1>2, <1>3 DEF Calm, StartPcs, EndPcs
    <2>2. slaves' = {} /\ minSlaves = 0 => Calm(c)'
      <3>1. Master \notin Slaves
        BY AssocAssumption
      <3>. QED
        BY <1>0, <1>4, <3>1 DEF Calm, StartPcs, EndPcs
    <2>. SUFFICES ASSUME NEW k \in 1..Len(fs) PROVE Calm(fs[k])'
      OBVIOUS
    <2>3. CASE fs[k] = a
      BY <2>1, <2>3, Zenon DEF Calm
    <2>4. CASE fs[k] = c /\ slaves' = {} /\ minSlaves = 0
      BY <2>2, <2>4, Zenon DEF Calm
    <2>. QED
      BY <1>7, <2>3, <2>4
  <1>9. \A v, k : Other(w, v, k) => \A f \in Frames : f = work[v][k] => Calm(f)'
    <2>. SUFFICES ASSUME NEW v, NEW k, Other(w, v, k), NEW f \in Frames, f = work[v][k]
                  PROVE  Calm(f)'
      OBVIOUS
    <2>1. Calm(f) /\ FrameFacts(f)
      BY <1>1, OtherCalm
    <2>2. f.pc = "submit" => f.irp # s
      <3>1. CASE pc = "linkStart"
        BY <1>1, <3>1, OtherCalm DEF StartPcs, s
      <3>2. CASE pc = "link"
        BY <1>2, <2>1, <3>2 DEF FrameFacts, StartPcs
      <3>. QED
        BY <3>1, <3>2
    <2>. QED
      BY <1>0, <1>5, <2>1, <2>2 DEF Calm
  <1>10. CalmState'
    <2>1. Absent' = Absent
      BY <1>0 DEF Absent
    <2>. QED
      BY <1>0, <1>1, <1>2, <1>5, <2>1 DEF CalmState
  <1>. QED
    BY <1>2, <1>7, <1>8, <1>9, <1>10, CalmKept

LEMMA PostCalm ==
    ASSUME IInv, CalmFrames, CalmState, NEW w \in Workers, Post(w)
    PROVE  CalmFrames' /\ CalmState'
  <1>. DEFINE i == Cur(w)
  <1>0. /\ At(w, "post") /\ UNCHANGED <<state, pending, slaves, minSlaves>>
        /\ notified' = [notified EXCEPT ![i] = IF pending[i] THEN @ + 1 ELSE @]
        /\ masterOf' = [s \in Slaves |-> masterOf[s] /\ s # i]
        /\ Return(w)
    BY DEF Post, assoc
  <1>1. /\ work[w] # <<>> /\ i \in Irps /\ TypeOK /\ Master \in Irps
        /\ i \in Slaves => pending[i] /\ notified[i] = 0
    BY <1>0, TopCalm DEF Calm, FrameFacts, EndPcs, Irps
  <1>2. PICK fs \in Seq(Frames) : Continue(w, fs) /\ Len(fs) = 0
    BY <1>0, Return0
  <1>3. \A k \in 1..Len(fs) : FALSE
    BY <1>2
  <1>. HIDE DEF i
  <1>4. /\ i \in Slaves => notified'[i] = 1 /\ masterOf[i]
        /\ \A t \in Slaves : t # i => notified'[t] = notified[t] /\ masterOf'[t] = masterOf[t]
        /\ i \in Slaves => ~masterOf'[i]
    <2>1. i \in Slaves => notified'[i] = 1
      BY <1>0, <1>1 DEF TypeOK
    <2>2. i \in Slaves => masterOf[i]
      BY <1>1 DEF CalmState
    <2>3. \A t \in Slaves : t # i => notified'[t] = notified[t]
      BY <1>0, <1>1 DEF TypeOK, Irps
    <2>4. \A t \in Slaves : t # i => masterOf'[t] = masterOf[t]
      <3>1. \A t \in Slaves : masterOf[t] \in BOOLEAN
        BY <1>1 DEF TypeOK
      <3>. QED
        BY <1>0, <3>1
    <2>5. i \in Slaves => ~masterOf'[i]
      BY <1>0
    <2>. QED
      BY <2>1, <2>2, <2>3, <2>4, <2>5
  <1>5. \A v, k : Other(w, v, k) => \A f \in Frames : f = work[v][k] => Calm(f)'
    <2>. SUFFICES ASSUME NEW v, NEW k, Other(w, v, k), NEW f \in Frames, f = work[v][k]
                  PROVE  Calm(f)'
      OBVIOUS
    <2>1. /\ Calm(f) /\ FrameFacts(f)
          /\ f.pc \in StartPcs => f.irp \in Slaves
      BY <1>0, OtherCalm
    <2>2. f.pc \in StartPcs => f.irp # i
      BY <1>1, <2>1 DEF FrameFacts
    <2>. QED
      BY <1>0, <1>4, <2>1, <2>2 DEF Calm, StartPcs
  <1>6. CalmState'
    <2>1. Absent' = Absent
      BY <1>4 DEF Absent
    <2>. QED
      BY <1>0, <1>1, <1>4, <2>1 DEF CalmState
  <1>. QED
    BY <1>1, <1>2, <1>3, <1>5, <1>6, CalmKept

\* Only the ports and the timers of the slaves begin anything.
LEMMA BeginCalm ==
    ASSUME IInv, CalmFrames, CalmState, Undisturbed, NEW w \in Workers,
           Respond(w) \/ Timeout(w) \/ StopBus(w)
    PROVE  CalmFrames' /\ CalmState'
  <1>. USE DEF irp, assoc
  <1>0. /\ TypeOK /\ work \in [Workers -> Seq(Frames)] /\ work[w] = <<>>
        /\ UNCHANGED <<state, pending, masterOf, notified, slaves, minSlaves>>
    BY DEF IInv, TypeInv, TypeOK, Respond, Timeout, StopBus
  <1>1. ~StopBus(w) /\ ~("timeout" \in setting)
    BY DEF StopBus, Undisturbed
  <1>2. PICK i \in Slaves : i = w[2] /\ pending[i] /\ i # Master
    BY <1>1, AssocAssumption DEF Workers, Irps, Respond, Timeout
  <1>3. PICK f \in Frames : /\ work' = [work EXCEPT ![w] = <<f>>]
                            /\ f.irp = i /\ f.pc \in {"complete", "cancel"}
    <2>1. /\ Frame("complete", i) \in Frames /\ Frame("cancel", i) \in Frames
          /\ Frame("complete", i).pc = "complete" /\ Frame("complete", i).irp = i
          /\ Frame("cancel", i).pc = "cancel" /\ Frame("cancel", i).irp = i
      BY FrameTypes DEF Pcs, Irps
    <2>2. \/ work' = [work EXCEPT ![w] = <<Frame("complete", i)>>]
          \/ work' = [work EXCEPT ![w] = <<Frame("cancel", i)>>]
      BY <1>1, <1>2 DEF Respond, Timeout, CancelIrp
    <2>. QED
      BY <2>1, <2>2
  <1>4. \A v \in Workers : \A k \in Depth(v)' :
           \/ work'[v][k] = f
           \/ k \in Depth(v) /\ work'[v][k] = work[v][k]
    BY <1>0, <1>3 DEF Depth
  <1>5. CalmFrames'
    <2>. SUFFICES ASSUME NEW v \in Workers, NEW k \in Depth(v)'
                  PROVE  Calm(work[v][k])'
      BY DEF CalmFrames
    <2>1. CASE work'[v][k] = f
      BY <1>0, <1>2, <1>3, <2>1 DEF Calm, StartPcs, EndPcs
    <2>2. CASE k \in Depth(v) /\ work'[v][k] = work[v][k]
      <3>1. Calm(work[v][k])
        BY <2>2 DEF CalmFrames
      <3>. QED
        BY <1>0, <2>2, <3>1 DEF Calm
    <2>. QED
      BY <1>4, <2>1, <2>2
  <1>6. CalmState'
    BY <1>0 DEF CalmState, Absent
  <1>. QED
    BY <1>5, <1>6

LEMMA MasterCalm ==
    ASSUME IInv, SubmitMaster \/ MasterFails
    PROVE  CalmFrames' /\ CalmState'
  <1>. USE DEF irp, assoc
  <1>0. /\ TypeOK /\ Fresh /\ ~pending[Master] /\ Master \notin Slaves /\ Master \in Irps
        /\ state[Master] = "READY"
    BY AssocAssumption DEF IInv, TypeInv, Irps, SubmitMaster, MasterFails
  <1>1. /\ slaves = {} /\ slaves' = {} /\ masterOf' = masterOf
        /\ \A s \in Slaves : /\ ~pending[s] /\ ~masterOf[s] /\ notified[s] = 0
                             /\ pending'[s] = pending[s] /\ notified'[s] = notified[s]
    BY <1>0 DEF Fresh, TypeOK, Irps, SubmitMaster, MasterFails
  <1>2. \A w \in Workers : \A k \in Depth(w)' :
           work'[w][k].pc = "start" /\ work'[w][k].irp \in Slaves
    <2>1. CASE SubmitMaster
      <3>1. \A s \in Slaves : /\ Frame("start", s) \in Frames
                              /\ Frame("start", s).pc = "start" /\ Frame("start", s).irp = s
        BY FrameTypes DEF Irps, Pcs
      <3>2. \A w \in Workers : \/ work'[w] = <<>>
                               \/ w[2] \in Slaves /\ work'[w] = <<Frame("start", w[2])>>
        BY <2>1 DEF SubmitMaster
      <3>. QED
        BY <3>1, <3>2 DEF Depth
    <2>2. CASE MasterFails
      BY <1>0, <2>2 DEF MasterFails, Depth, Fresh
    <2>. QED
      BY <2>1, <2>2
  <1>3. CalmFrames'
    BY <1>1, <1>2 DEF CalmFrames, Calm, StartPcs, EndPcs
  <1>4. Absent' = Slaves
    BY <1>1 DEF Absent
  <1>5. /\ pending'[Master] => minSlaves' = Cardinality(Slaves)
        /\ pending'[Master] => state'[Master] = "READY"
    BY <1>0 DEF SubmitMaster, MasterFails
  <1>6. CalmState'
    BY <1>1, <1>4, <1>5 DEF CalmState, Finished
  <1>. QED
    BY <1>3, <1>6

LEMMA CalmStep == IInv /\ CalmInv /\ [Next]_vars => CalmInv'
  <1>. SUFFICES ASSUME IInv, CalmInv, [Next]_vars, Undisturbed'
                PROVE  CalmFrames' /\ CalmState'
    BY DEF CalmInv
  <1>1. Undisturbed /\ CalmFrames /\ CalmState
    BY DEF CalmInv, Undisturbed, Next, vars
  <1>2. CASE UNCHANGED vars
    <2>1. CalmFrames'
      BY <1>1, <1>2 DEF vars, CalmFrames, Calm, Depth
    <2>2. CalmState'
      BY <1>1, <1>2 DEF vars, CalmState, Absent
    <2>. QED
      BY <2>1, <2>2
  <1>3. CASE Next
    BY <1>1, <1>3, StartAssocCalm, SubmitSlaveCalm, CallbackCalm, CompleteCalm, LinkCalm,
       PostCalm, BeginCalm, MasterCalm DEF Next, Step
  <1>. QED
    BY <1>2, <1>3

\* "the slaves must complete before the master completes" (iomgr.cpp:181): no
\* submitted slave outlives a master that neither its timer nor a stop of the bus
\* cancels, for any number of child ports and whichever of them fail to attach.
THEOREM MasterCompletesLast == Spec => []MasterLast
  <1>1. Init => CalmInv
    <2>. SUFFICES ASSUME Init PROVE CalmFrames /\ CalmState
      BY DEF CalmInv
    <2>1. CalmFrames
      BY DEF Init, CalmFrames, Depth
    <2>2. CalmState
      BY DEF Init, CalmState, Irps
    <2>. QED
      BY <2>1, <2>2
  <1>2. IInv /\ CalmInv => MasterLast
    <2>. SUFFICES ASSUME IInv, CalmInv, Undisturbed, state[Master] \in Finished,
                         NEW s \in Slaves, pending[s]
                  PROVE  state[s] \in Finished
      BY DEF MasterLast
    <2>. QED
      BY DEF IInv, TypeInv, Fresh, CalmInv, CalmState
  <1>. QED
    BY <1>1, <1>2, CalmStep, IndInv, PTL DEF Spec
=============================================================================
