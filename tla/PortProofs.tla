----------------------------- MODULE PortProofs -----------------------------
(***************************************************************************)
(* Proofs about module Port, in layers.  The stack of states has one of a  *)
(* few shapes, and in every shape the BUSY_SHARED entries count the        *)
(* requests inside the port (IInv).  The books of the port agree with the  *)
(* stack (BooksInv), whatever waits has somebody that goes on with it      *)
(* (Owned), and the start/stop queue keeps stops apart (Serial); with      *)
(* these every step of the port is one of the abstract gate.  On a fido    *)
(* IInv holds until a stop begins (FidoInv).                               *)
(***************************************************************************)
EXTENDS Port, FiniteSetTheorems, TLAPS

(* Shapes of a stack of states. *)
One(s, a) == Len(s) = 1 /\ s[1] = a
Two(s, a, b) == Len(s) = 2 /\ s[1] = a /\ s[2] = b
\* READY with n requests on top of it.
SharedStk(s, n) ==
    Len(s) = n + 1 /\ s[1] = "READY" /\ \A i \in 2..(n + 1) : s[i] = "BUSY_SHARED"
\* ... and a stop that waits for them.
DrainStk(s, n) ==
    /\ n >= 1
    /\ Len(s) = n + 2
    /\ s[1] = "READY"
    /\ \A i \in 2..(n + 1) : s[i] = "BUSY_SHARED"
    /\ s[n + 2] = "EXCLUDE_PENDING"
\* No request is inside.
QuietStk(s) ==
    \/ \E a \in {"ATTACHED", "STARTING", "STOPPING", "STOPPED", "REMOVED",
                 "STOP_RESUME"} : One(s, a)
    \/ \E a \in {"READY", "ATTACHED", "STOPPED"} : Two(s, a, "BUSY")
    \/ Two(s, "STOPPED", "STOPPED")
    \/ Two(s, "READY", "BUSY_RESUME")
ShutStk(s) == s[1] \in {"STOPPING", "STOPPED", "REMOVED"}

(* The inductive invariant. *)
ShapeOf(s, I) ==
    \/ SharedStk(s, Cardinality(I))
    \/ DrainStk(s, Cardinality(I))
    \/ QuietStk(s) /\ I = {}
Shape == ShapeOf(stk, Inside)

\* While the port starts, its stack is known and nobody stops or destroys it.
StartShape ==
    /\ start \in {"attached", "built", "lowerPending"} => One(stk, "ATTACHED")
    /\ start = "building" => Two(stk, "ATTACHED", "BUSY")
    /\ start \in {"starting", "startPending"} => One(stk, "STARTING")
    /\ start = "stackReady" => Two(stk, "READY", "BUSY")
    /\ start \in {"ready", "readyPending"} => SharedStk(stk, Cardinality(Inside))
    /\ ~StartDone => destroy = "none" /\ \A s \in StopIrps : stop[s] = "idle"

\* A stop that CanContinue let through has shut the port.
ShutPhases == {"preStop", "cancelling", "stopEx", "stopPending", "stopped"}
StopShape == \A s \in StopIrps : stop[s] \in ShutPhases => ShutStk(stk)

DestroyShape ==
    destroy = "busy" => \/ \E a \in {"READY", "ATTACHED", "STOPPED"} : Two(stk, a, "BUSY")
                        \/ Two(stk, "STOPPED", "STOPPED")

\* Only STACK_DESTROY puts a state on a STOPPED port.
DestroyedShape == Len(stk) = 2 /\ stk[1] = "STOPPED" => destroy # "none"

IInv == TypeOK /\ Shape /\ StartShape /\ StopShape /\ DestroyShape
        /\ DestroyedShape

-----------------------------------------------------------------------------
(* The operations of CPortState on stacks.                                 *)

\* Replacing or removing the top of a stack, or pushing a state, leaves a stack.
LEMMA StackOps ==
    ASSUME NEW s \in Seq(States), NEW a \in States
    PROVE  /\ Append(s, a) \in Seq(States)
           /\ s # <<>> => /\ Len(s) \in Nat /\ Len(s) >= 1
                          /\ Top(s) \in States /\ Top(s) = s[Len(s)]
                          /\ Below(s) \in Seq(States)
                          /\ Len(Below(s)) = Len(s) - 1
                          /\ \A i \in 1..(Len(s) - 1) : Below(s)[i] = s[i]
                          /\ SetTop(s, a) \in Seq(States)
                          /\ Len(SetTop(s, a)) = Len(s)
                          /\ SetTop(s, a)[Len(s)] = a
                          /\ \A i \in 1..(Len(s) - 1) : SetTop(s, a)[i] = s[i]
  BY SMTT(30) DEF Top, Below, SetTop

LEMMA AppendOps ==
    ASSUME NEW s \in Seq(States), NEW a \in States
    PROVE  /\ Append(s, a) \in Seq(States)
           /\ Len(Append(s, a)) = Len(s) + 1
           /\ Append(s, a)[Len(s) + 1] = a
           /\ \A i \in 1..Len(s) : Append(s, a)[i] = s[i]
  OBVIOUS

LEMMA NonEmpty ==
    ASSUME NEW s \in Seq(States), Len(s) >= 1
    PROVE  s # <<>>
  OBVIOUS

LEMMA PushTwo ==
    ASSUME NEW s \in Seq(States), NEW a, NEW b \in States, One(s, a)
    PROVE  Two(Append(s, b), a, b)
  <1>1. /\ Len(Append(s, b)) = Len(s) + 1
        /\ Append(s, b)[Len(s) + 1] = b
        /\ Append(s, b)[1] = s[1]
    BY AppendOps, SMTT(30) DEF One
  <1>. QED
    BY <1>1 DEF One, Two

\* SetPortState returns a stack of states.
LEMMA SetPortStateType ==
    ASSUME NEW s \in Seq(States), NEW new \in States
    PROVE  SetPortState(s, new).stk \in Seq(States)
  <1>1. CASE s = <<>>
    BY <1>1 DEF SetPortState, Answer
  <1>2. CASE s # <<>>
    <2>1. /\ SetTop(s, new) \in Seq(States) /\ Below(s) \in Seq(States)
      BY <1>2, StackOps
    <2>2. Top(Below(s)) = "READY" => SetTop(Below(s), new) \in Seq(States)
      BY <2>1, StackOps DEF Top
    <2>. QED
      BY <1>2, <2>1, <2>2 DEF SetPortState, Answer, Refuse
  <1>. QED
    BY <1>1, <1>2

\* So does CanContinue ...
LEMMA CanContinueType ==
    ASSUME NEW s \in Seq(States), NEW cmd, NEW new \in States
    PROVE  CanContinue(s, cmd, new).stk \in Seq(States)
  <1>1. SetPortState(s, new).stk \in Seq(States)
    BY SetPortStateType
  <1>2. /\ PushLimited(s, new).stk \in Seq(States)
        /\ PushUnlimited(s, new).stk \in Seq(States)
        /\ PushLimited(s, "EXCLUDE_PENDING").stk \in Seq(States)
        /\ Refuse(s).stk \in Seq(States)
    BY DEF PushLimited, PushUnlimited, Refuse, Answer, States
  <1>3. HandleReady(s, cmd, new).stk \in Seq(States)
    BY <1>1, <1>2 DEF HandleReady
  <1>4. HandleAttached(s, cmd, new).stk \in Seq(States)
    BY <1>1, <1>2 DEF HandleAttached
  <1>5. HandleStopped(s, cmd, new).stk \in Seq(States)
    BY <1>1, <1>2 DEF HandleStopped
  <1>6. HandleBusyShared(s, cmd, new).stk \in Seq(States)
    BY <1>2 DEF HandleBusyShared, Answer
  <1>7. HandleStopResume(s, new).stk \in Seq(States)
    BY <1>1, <1>2 DEF HandleStopResume
  <1>8. HandleBusyResume(s, new).stk \in Seq(States)
    BY <1>1, <1>2 DEF HandleBusyResume
  <1>. QED
    BY <1>2, <1>3, <1>4, <1>5, <1>6, <1>7, <1>8 DEF CanContinue

\* ... and PopState.
LEMMA PopStateType ==
    ASSUME NEW s \in Seq(States), NEW armed \in BOOLEAN
    PROVE  /\ PopState(s, armed).stk \in Seq(States)
           /\ PopState(s, armed).ret = "RESUME" => armed
  <1>1. CASE s = <<>>
    BY <1>1 DEF PopState, Refuse, Answer
  <1>2. CASE s # <<>>
    <2>1. Below(s) \in Seq(States)
      BY <1>2, StackOps
    <2>2. Len(Below(s)) > 1 => Below(Below(s)) \in Seq(States)
      BY <2>1, StackOps
    <2>3. Len(Below(s)) > 1 =>
             /\ Append(Below(Below(s)), "EXCLUDE_PENDING") \in Seq(States)
             /\ Append(Below(Below(s)), "BUSY_RESUME") \in Seq(States)
      BY <2>2 DEF States
    <2>. QED
      BY <1>2, <2>1, <2>2, <2>3 DEF PopState, Refuse, Answer
  <1>. QED
    BY <1>1, <1>2

\* A port that is neither READY nor shared admits no request.
LEMMA EnterRefused ==
    ASSUME NEW s \in Seq(States), NEW cmd \in {"FUNC", "QUERY_STOP"},
           Top(s) \notin {"READY", "BUSY_SHARED"}
    PROVE  CanContinue(s, cmd, "BUSY_SHARED") = Refuse(s)
  <1>1. ~IsValidSubmit(s, "BUSY_SHARED")
    BY DEF IsValidSubmit, SubmitTargets
  <1>. QED
    BY <1>1 DEF CanContinue

\* READY with n requests admits another one.
LEMMA EnterShared ==
    ASSUME NEW s \in Seq(States), NEW cmd \in {"FUNC", "QUERY_STOP"},
           NEW n \in Nat, SharedStk(s, n)
    PROVE  /\ CanContinue(s, cmd, "BUSY_SHARED").ret = "OK"
           /\ SharedStk(CanContinue(s, cmd, "BUSY_SHARED").stk, n + 1)
  <1>1. Top(s) = IF n = 0 THEN "READY" ELSE "BUSY_SHARED"
    BY DEF SharedStk, Top
  <1>2. IsValidSubmit(s, "BUSY_SHARED")
    BY <1>1 DEF IsValidSubmit, SubmitTargets
  <1>3. CanContinue(s, cmd, "BUSY_SHARED") = Answer("OK", Append(s, "BUSY_SHARED"))
    <2>1. CASE n = 0
      <3>1. CanContinue(s, cmd, "BUSY_SHARED") = HandleReady(s, cmd, "BUSY_SHARED")
        BY <1>1, <1>2, <2>1 DEF CanContinue
      <3>2. HandleReady(s, "QUERY_STOP", "BUSY_SHARED") = PushUnlimited(s, "BUSY_SHARED")
        BY DEF HandleReady
      <3>3. HandleReady(s, "FUNC", "BUSY_SHARED") = PushLimited(s, "BUSY_SHARED")
        BY DEF HandleReady
      <3>4. PushLimited(s, "BUSY_SHARED") = Answer("OK", Append(s, "BUSY_SHARED"))
        BY <2>1, NumCoresAssumption DEF PushLimited, SharedStk
      <3>. QED
        BY <3>1, <3>2, <3>3, <3>4 DEF PushUnlimited
    <2>2. CASE n # 0
      <3>1. CanContinue(s, cmd, "BUSY_SHARED") = HandleBusyShared(s, cmd, "BUSY_SHARED")
        BY <1>1, <1>2, <2>2 DEF CanContinue
      <3>2. HandleBusyShared(s, cmd, "BUSY_SHARED") = PushUnlimited(s, "BUSY_SHARED")
        BY DEF HandleBusyShared
      <3>. QED
        BY <3>1, <3>2 DEF PushUnlimited
    <2>. QED
      BY <2>1, <2>2
  <1>4. SharedStk(Append(s, "BUSY_SHARED"), n + 1)
    BY DEF SharedStk, States
  <1>5. /\ CanContinue(s, cmd, "BUSY_SHARED").ret = "OK"
        /\ CanContinue(s, cmd, "BUSY_SHARED").stk = Append(s, "BUSY_SHARED")
    BY <1>3 DEF Answer
  <1>. QED
    BY <1>4, <1>5, Zenon

\* STOP on a port with n requests: it goes ahead if there are none, and is
\* deferred or turned away if there are some.
LEMMA StopShared ==
    ASSUME NEW s \in Seq(States), NEW n \in Nat, SharedStk(s, n)
    PROVE  LET a == CanContinue(s, "STOP", "STOPPING") IN
           \/ n = 0 /\ a.ret = "OK" /\ One(a.stk, "STOPPING")
           \/ n # 0 /\ a.ret = "PENDING" /\ DrainStk(a.stk, n)
           \/ n # 0 /\ a.ret = "EAGAIN" /\ a.stk = s
  <1>1. Top(s) = IF n = 0 THEN "READY" ELSE "BUSY_SHARED"
    BY DEF SharedStk, Top
  <1>2. IsValidSubmit(s, "STOPPING")
    BY <1>1 DEF IsValidSubmit, SubmitTargets
  <1>3. CASE n = 0
    <2>1. CanContinue(s, "STOP", "STOPPING") = HandleReady(s, "STOP", "STOPPING")
      BY <1>1, <1>2, <1>3 DEF CanContinue
    <2>2. HandleReady(s, "STOP", "STOPPING") = SetPortState(s, "STOPPING")
      BY DEF HandleReady
    <2>3. s # <<>> /\ "STOPPING" \in SubmitTargets(Top(s))
      <3>1. Len(s) = 1
        BY <1>3 DEF SharedStk
      <3>. QED
        BY <3>1, <1>2, NonEmpty DEF IsValidSubmit
    <2>4. SetPortState(s, "STOPPING") = Answer("OK", SetTop(s, "STOPPING"))
      BY <2>3 DEF SetPortState
    <2>5. One(SetTop(s, "STOPPING"), "STOPPING")
      BY <1>3 DEF One, SetTop, SharedStk, States
    <2>6. /\ CanContinue(s, "STOP", "STOPPING").ret = "OK"
          /\ CanContinue(s, "STOP", "STOPPING").stk = SetTop(s, "STOPPING")
      BY <2>1, <2>2, <2>4 DEF Answer
    <2>. QED
      BY <1>3, <2>5, <2>6, Zenon
  <1>4. CASE n # 0
    <2>1. CanContinue(s, "STOP", "STOPPING") = HandleBusyShared(s, "STOP", "STOPPING")
      BY <1>1, <1>2, <1>4 DEF CanContinue
    <2>2. HandleBusyShared(s, "STOP", "STOPPING") =
             LET a == PushLimited(s, "EXCLUDE_PENDING")
             IN  IF a.ret = "OK" THEN Answer("PENDING", a.stk) ELSE a
      BY DEF HandleBusyShared
    <2>3. DrainStk(Append(s, "EXCLUDE_PENDING"), n)
      BY <1>4 DEF DrainStk, SharedStk, States
    <2>4. LET a == CanContinue(s, "STOP", "STOPPING") IN
          \/ a.ret = "PENDING" /\ a.stk = Append(s, "EXCLUDE_PENDING")
          \/ a.ret = "EAGAIN" /\ a.stk = s
      BY <2>1, <2>2 DEF PushLimited, Answer
    <2>. QED
      BY <1>4, <2>3, <2>4, Zenon
  <1>. QED
    BY <1>3, <1>4

\* STOP on a port that was told to resume it goes ahead.
LEMMA StopResumed ==
    ASSUME NEW s \in Seq(States), One(s, "STOP_RESUME")
    PROVE  LET a == CanContinue(s, "STOP", "STOPPING") IN
           a.ret = "OK" /\ One(a.stk, "STOPPING")
  <1>0. s # <<>>
    BY NonEmpty DEF One
  <1>1. Top(s) = "STOP_RESUME" /\ s # <<>>
    BY <1>0 DEF One, Top
  <1>2. IsValidSubmit(s, "STOPPING") /\ "STOPPING" \in SubmitTargets(Top(s))
    BY <1>1 DEF IsValidSubmit, SubmitTargets
  <1>3. CanContinue(s, "STOP", "STOPPING") = SetPortState(s, "STOPPING")
    BY <1>1, <1>2 DEF CanContinue, HandleStopResume
  <1>4. SetPortState(s, "STOPPING") = Answer("OK", SetTop(s, "STOPPING"))
    BY <1>1, <1>2 DEF SetPortState
  <1>5. One(SetTop(s, "STOPPING"), "STOPPING")
    BY DEF One, SetTop, States
  <1>6. /\ CanContinue(s, "STOP", "STOPPING").ret = "OK"
        /\ CanContinue(s, "STOP", "STOPPING").stk = SetTop(s, "STOPPING")
    BY <1>3, <1>4 DEF Answer
  <1>. QED
    BY <1>5, <1>6, Zenon

\* STOP on any other port is turned away.
LEMMA StopRefused ==
    ASSUME NEW s \in Seq(States), Top(s) \notin {"READY", "BUSY_SHARED", "STOP_RESUME"}
    PROVE  CanContinue(s, "STOP", "STOPPING") = Refuse(s)
  <1>1. ~IsValidSubmit(s, "STOPPING")
    BY DEF IsValidSubmit, SubmitTargets
  <1>. QED
    BY <1>1 DEF CanContinue

\* A request that leaves n requests leaves n - 1; one that leaves a port whose
\* stop is deferred, as the last one, hands the port to the resume task.
LEMMA PopShared ==
    ASSUME NEW s \in Seq(States), NEW n \in Nat, n >= 1, SharedStk(s, n),
           NEW armed \in BOOLEAN
    PROVE  PopState(s, armed).ret = "OK" /\ SharedStk(PopState(s, armed).stk, n - 1)
  <1>1. s # <<>> /\ Top(s) = "BUSY_SHARED"
    BY DEF SharedStk, Top
  <1>2. SharedStk(Below(s), n - 1)
    BY <1>1 DEF SharedStk, Below
  <1>. QED
    BY <1>1, <1>2 DEF PopState, Answer

LEMMA PopDrain ==
    ASSUME NEW s \in Seq(States), NEW n \in Nat, DrainStk(s, n),
           NEW armed \in BOOLEAN
    PROVE  LET p == PopState(s, armed) IN
           \/ n > 1 /\ p.ret = "OK" /\ DrainStk(p.stk, n - 1)
           \/ n = 1 /\ p.ret = "RESUME" /\ armed /\ Two(p.stk, "READY", "BUSY_RESUME")
           \/ n = 1 /\ p.ret = "THROW" /\ ~armed /\ SharedStk(p.stk, 0)
  <1>. DEFINE b == Below(s)  c == Below(b)
  <1>1. /\ s # <<>> /\ Top(s) = "EXCLUDE_PENDING"
        /\ b \in Seq(States) /\ SharedStk(b, n)
    BY DEF DrainStk, SharedStk, Top, Below
  <1>2. /\ Len(b) > 1 /\ Top(b) = "BUSY_SHARED"
        /\ c \in Seq(States) /\ SharedStk(c, n - 1)
    BY <1>1 DEF DrainStk, SharedStk, Top, Below
  <1>3. CASE n > 1
    <2>1. Top(c) = "BUSY_SHARED"
      BY <1>2, <1>3 DEF SharedStk, Top
    <2>2. DrainStk(Append(c, "EXCLUDE_PENDING"), n - 1)
      BY <1>2, <1>3 DEF SharedStk, DrainStk, States
    <2>3. PopState(s, armed) = Answer("OK", Append(c, "EXCLUDE_PENDING"))
      BY <1>1, <1>2, <2>1 DEF PopState
    <2>. QED
      BY <1>3, <2>2, <2>3 DEF Answer
  <1>4. CASE n = 1
    <2>1. Top(c) # "BUSY_SHARED"
      BY <1>2, <1>4 DEF SharedStk, Top
    <2>2. One(c, "READY") /\ SharedStk(c, 0)
      BY <1>2, <1>4 DEF SharedStk, One
    <2>4. Two(Append(c, "BUSY_RESUME"), "READY", "BUSY_RESUME")
      BY <1>2, <2>2, PushTwo DEF States
    <2>3. PopState(s, armed) = IF armed THEN Answer("RESUME", Append(c, "BUSY_RESUME"))
                                        ELSE Answer("THROW", c)
      BY <1>1, <1>2, <2>1 DEF PopState
    <2>. QED
      BY <1>4, <2>2, <2>3, <2>4 DEF Answer
  <1>. QED
    BY <1>3, <1>4 DEF DrainStk

\* Where m_arrStatMap lets a port go, by state.
LEMMA Targets ==
    /\ SubmitTargets("READY") = {"READY", "STOPPING", "BUSY", "BUSY_SHARED"}
    /\ SwitchTargets("READY") = {}
    /\ SubmitTargets("ATTACHED") = {"STARTING", "BUSY"}
    /\ SwitchTargets("ATTACHED") = {"ATTACHED"}
    /\ SubmitTargets("STARTING") = {}
    /\ SwitchTargets("STARTING") = {"READY", "ATTACHED", "STARTING", "STOPPED"}
    /\ SubmitTargets("STOPPING") = {}
    /\ SwitchTargets("STOPPING") = {"STOPPING", "STOPPED"}
    /\ SubmitTargets("STOPPED") = {"ATTACHED", "REMOVED", "BUSY"}
    /\ SwitchTargets("STOPPED") = {"STOPPED"}
    /\ SubmitTargets("REMOVED") = {}
    /\ SwitchTargets("REMOVED") = {"REMOVED"}
    /\ SubmitTargets("BUSY") = {}
    /\ SwitchTargets("BUSY") = {"READY", "ATTACHED", "STOPPED", "BUSY"}
    /\ SubmitTargets("BUSY_SHARED") = {"STOPPING", "BUSY_SHARED", "EXCLUDE_PENDING"}
    /\ SwitchTargets("BUSY_SHARED") = {"READY"}
    /\ SubmitTargets("EXCLUDE_PENDING") = {}
    /\ SwitchTargets("EXCLUDE_PENDING") = {"STOP_RESUME", "BUSY_RESUME"}
    /\ SubmitTargets("STOP_RESUME") = {"STOPPING"}
    /\ SwitchTargets("STOP_RESUME") = {}
    /\ SubmitTargets("BUSY_RESUME") = {"BUSY"}
    /\ SwitchTargets("BUSY_RESUME") = {"STOP_RESUME"}
  BY DEF SubmitTargets, SwitchTargets

\* SetPortState to anything but STOP_RESUME replaces the top or does nothing.
LEMMA SetPortStateDef ==
    ASSUME NEW s \in Seq(States), s # <<>>, NEW new \in States, new # "STOP_RESUME"
    PROVE  /\ new \in SubmitTargets(Top(s)) \cup SwitchTargets(Top(s)) =>
                 /\ SetPortState(s, new).ret = "OK"
                 /\ SetPortState(s, new).stk = SetTop(s, new)
           /\ new \notin SubmitTargets(Top(s)) \cup SwitchTargets(Top(s)) =>
                 /\ SetPortState(s, new).ret = "ERROR_STATE"
                 /\ SetPortState(s, new).stk = s
  BY DEF SetPortState, Answer, Refuse

LEMMA TopOne ==
    ASSUME NEW s \in Seq(States), NEW a, One(s, a)
    PROVE  s # <<>> /\ Top(s) = a
  <1>1. Len(s) = 1 /\ s[1] = a
    BY DEF One
  <1>2. s # <<>>
    BY <1>1, NonEmpty
  <1>. QED
    BY <1>1, <1>2 DEF Top

LEMMA TopTwo ==
    ASSUME NEW s \in Seq(States), NEW a, NEW b, Two(s, a, b)
    PROVE  s # <<>> /\ Top(s) = b /\ One(Below(s), a)
  <1>1. Len(s) = 2 /\ s[1] = a /\ s[2] = b
    BY DEF Two
  <1>2. s # <<>> /\ "BUSY" \in States
    BY <1>1, NonEmpty DEF States
  <1>3. /\ Len(Below(s)) = Len(s) - 1
        /\ \A i \in 1..(Len(s) - 1) : Below(s)[i] = s[i]
    BY <1>2, StackOps
  <1>. QED
    BY <1>1, <1>2, <1>3 DEF One, Top

LEMMA TopShared ==
    ASSUME NEW s \in Seq(States), NEW n \in Nat, SharedStk(s, n)
    PROVE  s # <<>> /\ Top(s) = IF n = 0 THEN "READY" ELSE "BUSY_SHARED"
  <1>1. s # <<>>
    BY NonEmpty DEF SharedStk
  <1>. QED
    BY <1>1 DEF SharedStk, Top

LEMMA TopDrain ==
    ASSUME NEW s \in Seq(States), NEW n \in Nat, DrainStk(s, n)
    PROVE  s # <<>> /\ Top(s) = "EXCLUDE_PENDING"
  <1>1. s # <<>>
    BY NonEmpty DEF DrainStk
  <1>. QED
    BY <1>1 DEF DrainStk, Top

LEMMA SetTopOne ==
    ASSUME NEW s \in Seq(States), NEW a, One(s, a), NEW new \in States
    PROVE  One(SetTop(s, new), new)
  <1>0. s # <<>>
    BY TopOne
  <1>1. Len(SetTop(s, new)) = Len(s) /\ SetTop(s, new)[Len(s)] = new
    BY <1>0, StackOps
  <1>. QED
    BY <1>1 DEF One

LEMMA SetTopTwo ==
    ASSUME NEW s \in Seq(States), NEW a, NEW b, Two(s, a, b), NEW new \in States
    PROVE  Two(SetTop(s, new), a, new)
  <1>0. s # <<>>
    BY TopTwo
  <1>1. /\ Len(SetTop(s, new)) = Len(s) /\ SetTop(s, new)[Len(s)] = new
        /\ \A i \in 1..(Len(s) - 1) : SetTop(s, new)[i] = s[i]
    BY <1>0, StackOps
  <1>. QED
    BY <1>1 DEF Two

\* PopState on two states leaves the lower one.
LEMMA PopTwo ==
    ASSUME NEW s \in Seq(States), NEW a, NEW b, Two(s, a, b), b # "EXCLUDE_PENDING",
           NEW armed \in BOOLEAN
    PROVE  PopState(s, armed).ret = "OK" /\ One(PopState(s, armed).stk, a)
  <1>1. s # <<>> /\ Top(s) = b /\ One(Below(s), a)
    BY TopTwo
  <1>2. PopState(s, armed).ret = "OK" /\ PopState(s, armed).stk = Below(s)
    BY <1>1 DEF PopState, Answer
  <1>. QED
    BY <1>1, <1>2, Zenon

-----------------------------------------------------------------------------
(* Type correctness.                                                       *)

LEMMA InitType == Init => TypeOK
  <1>. SUFFICES ASSUME Init PROVE TypeOK
    OBVIOUS
  <1>1. stk \in Seq(States)
    BY DEF Init, States
  <1>2. /\ func \in [FuncIrps -> FuncPhases]
        /\ stop \in [StopIrps -> StopPhases]
    BY DEF Init, FuncPhases, StopPhases
  <1>3. start \in StartPhases /\ destroy \in DestroyPhases
    BY DEF Init, StartPhases, DestroyPhases
  <1>. QED
    BY <1>1, <1>2, <1>3 DEF Init, TypeOK

LEMMA LeaveType ==
    ASSUME TypeOK, NEW s \in Seq(States), LeaveFrom(s)
    PROVE  /\ stk' \in Seq(States)
           /\ exclIrp' \in StopIrps \cup {NoIrp} /\ resume' \in StopIrps \cup {NoIrp}
           /\ resumeTasks' \subseteq StopIrps
           /\ thrown' \in BOOLEAN
  <1>. DEFINE armed == exclIrp # NoIrp /\ resume # NoIrp
              p == PopState(s, armed)
  <1>1. armed \in BOOLEAN
    OBVIOUS
  <1>2. p.stk \in Seq(States) /\ (p.ret = "RESUME" => armed)
    BY <1>1, PopStateType
  <1>3. stk' \in Seq(States)
    BY <1>2 DEF LeaveFrom
  <1>4. thrown' \in BOOLEAN
    BY DEF LeaveFrom, TypeOK
  <1>5. CASE p.ret = "RESUME"
    <2>1. /\ resumeTasks' = resumeTasks \cup {exclIrp}
          /\ exclIrp' = NoIrp /\ resume' = NoIrp
      BY <1>5 DEF LeaveFrom
    <2>. QED
      BY <1>2, <1>3, <1>4, <1>5, <2>1 DEF TypeOK
  <1>6. CASE p.ret # "RESUME"
    <2>1. UNCHANGED <<exclIrp, resume, resumeTasks>>
      BY <1>6 DEF LeaveFrom, book
    <2>. QED
      BY <1>3, <1>4, <2>1 DEF TypeOK
  <1>. QED
    BY <1>5, <1>6

LEMMA FailStartType ==
    ASSUME TypeOK, NEW s \in Seq(States), NEW how \in StartPhases, FailStart(s, how)
    PROVE  /\ stk' \in Seq(States)
           /\ start' \in StartPhases
           /\ gate' \subseteq FuncIrps \cup StopIrps \cup {StartIrp}
  <1>1. SetPortState(s, "STOPPED").stk \in Seq(States)
    BY SetPortStateType DEF States
  <1>. QED
    BY <1>1 DEF FailStart, TypeOK

LEMMA WakeType ==
    ASSUME NEW s \in Seq(States), NEW cur \in States, NEW new \in States
    PROVE  SetPortStateWake(s, cur, new).stk \in Seq(States)
  BY SetPortStateType DEF SetPortStateWake, Refuse, Answer

LEMMA TryStopType ==
    ASSUME TypeOK, NEW s \in StopIrps, TryStop(s)
    PROVE  /\ stk' \in Seq(States)
           /\ stop' \in [StopIrps -> StopPhases]
           /\ exclIrp' \in StopIrps \cup {NoIrp} /\ resume' \in StopIrps \cup {NoIrp}
  <1>. DEFINE a == CanContinue(stk, "STOP", "STOPPING")
  <1>1. a.stk \in Seq(States)
    BY CanContinueType DEF TypeOK, States
  <1>2. AfterTry(a.ret) \in StopPhases
    BY DEF AfterTry, StopPhases
  <1>3. stop' = [stop EXCEPT ![s] = AfterTry(a.ret)] /\ stk' = a.stk
    BY DEF TryStop
  <1>4. /\ exclIrp' \in StopIrps \cup {NoIrp}
        /\ resume' \in StopIrps \cup {NoIrp}
    BY DEF TryStop, TypeOK
  <1>. HIDE DEF a
  <1>. QED
    BY <1>1, <1>2, <1>3, <1>4 DEF TypeOK

\* The actions of the PnP manager preserve TypeOK.
LEMMA PnpType == TypeOK /\ PnpNext => TypeOK'
  <1>. SUFFICES ASSUME TypeOK, PnpNext PROVE TypeOK'
    OBVIOUS
  <1>. USE DEF book, track, pnp
  <1>1. CASE StackBuiltBegin
    <2>1. CanContinue(stk, "STACK_BUILT", "BUSY").stk \in Seq(States)
      BY CanContinueType DEF TypeOK, States
    <2>. QED
      BY <1>1, <2>1 DEF StackBuiltBegin, TypeOK, StartPhases
  <1>2. CASE StackBuiltEnd
    <2>1. CASE HasRegPath
      BY <1>2, <2>1, LeaveType DEF StackBuiltEnd, Leave, TypeOK, StartPhases
    <2>2. CASE ~HasRegPath
      BY <1>2, <2>2 DEF StackBuiltEnd, TypeOK, StartPhases
    <2>. QED
      BY <2>1, <2>2
  <1>3. CASE StartSubmit
    <2>1. CanContinue(stk, "START", "STARTING").stk \in Seq(States)
      BY CanContinueType DEF TypeOK, States
    <2>2. SetPortState(stk, "STOPPED").stk \in Seq(States)
      BY SetPortStateType DEF TypeOK, States
    <2>. QED
      BY <1>3, <2>1, <2>2 DEF StartSubmit, FailStart, TypeOK, StartPhases
  <1>4. CASE StartSelf
    <2>1. /\ SetPortState(stk, "READY").stk \in Seq(States)
          /\ SetPortState(stk, "STOPPED").stk \in Seq(States)
      BY SetPortStateType DEF TypeOK, States
    <2>. QED
      BY <1>4, <2>1 DEF StartSelf, FailStart, TypeOK, StartPhases
  <1>5. CASE StackReadyBegin
    <2>1. CanContinue(stk, "STACK_READY", "BUSY").stk \in Seq(States)
      BY CanContinueType DEF TypeOK, States
    <2>2. SetPortState(stk, "STOPPED").stk \in Seq(States)
      BY SetPortStateType DEF TypeOK, States
    <2>. QED
      BY <1>5, <2>1, <2>2 DEF StackReadyBegin, FailStart, TypeOK, StartPhases
  <1>6. CASE StackReadyEnd
    BY <1>6, LeaveType DEF StackReadyEnd, Leave, TypeOK, StartPhases
  <1>7. CASE PortReady
    <2>1. SetPortState(stk, "STOPPED").stk \in Seq(States)
      BY SetPortStateType DEF TypeOK, States
    <2>. QED
      BY <1>7, <2>1 DEF PortReady, FailStart, TypeOK, StartPhases
  <1>8. CASE StartComplete
    <2>1. /\ SetPortState(stk, "STARTING").stk \in Seq(States)
          /\ SetPortState(stk, "STOPPED").stk \in Seq(States)
      BY SetPortStateType DEF TypeOK, States
    <2>. QED
      BY <1>8, <2>1 DEF StartComplete, FailStart, TypeOK, StartPhases
  <1>9. CASE StartCompleteError
    <2>. DEFINE s == IF State = "ATTACHED" THEN SetPortState(stk, "STARTING").stk
                                           ELSE stk
    <2>1. s \in Seq(States)
      BY SetPortStateType DEF TypeOK, States
    <2>2. FailStart(s, "failed")
      BY <1>9 DEF StartCompleteError
    <2>3. /\ stk' \in Seq(States) /\ start' \in StartPhases
          /\ gate' \subseteq FuncIrps \cup StopIrps \cup {StartIrp}
      <3>. HIDE DEF s
      <3>. QED
        BY <2>1, <2>2, FailStartType DEF StartPhases
    <2>. QED
      BY <1>9, <2>3 DEF StartCompleteError, TypeOK
  <1>10. CASE StartTimeout
    <2>1. SetPortStateWake(stk, "STARTING", "ATTACHED").stk \in Seq(States)
      BY WakeType DEF TypeOK, States
    <2>. QED
      BY <1>10, <2>1 DEF StartTimeout, TypeOK, StartPhases
  <1>11. CASE StackDestroyBegin
    <2>1. CanContinue(stk, "STACK_DESTROY", "BUSY").stk \in Seq(States)
      BY CanContinueType DEF TypeOK, States
    <2>. QED
      BY <1>11, <2>1 DEF StackDestroyBegin, TypeOK, DestroyPhases
  <1>12. CASE StackDestroyEnd
    <2>. DEFINE p == PopState(stk, exclIrp # NoIrp /\ resume # NoIrp)
    <2>1. p.stk \in Seq(States)
      BY PopStateType DEF TypeOK
    <2>2. SetPortStateWake(p.stk, "STOPPED", "REMOVED").stk \in Seq(States)
      BY <2>1, WakeType DEF States
    <2>3. stk' \in Seq(States)
      BY <1>12, <2>2 DEF StackDestroyEnd, TypeOK
    <2>. QED
      BY <1>12, <2>3 DEF StackDestroyEnd, TypeOK, DestroyPhases
  <1>13. CASE OpenPort
    BY <1>13 DEF OpenPort, TypeOK
  <1>. QED
    BY <1>1, <1>2, <1>3, <1>4, <1>5, <1>6, <1>7, <1>8, <1>9, <1>10, <1>11, <1>12,
       <1>13 DEF PnpNext

\* The actions of a FUNC IRP preserve TypeOK.
LEMMA FuncType ==
    ASSUME TypeOK, NEW f \in FuncIrps, FuncNext(f)
    PROVE  TypeOK'
  <1>. USE DEF book, track, pnp
  <1>0. CanContinue(stk, "FUNC", "BUSY_SHARED").stk \in Seq(States)
    BY CanContinueType DEF TypeOK, States
  <1>1. CASE FuncSubmit(f)
    BY <1>1 DEF FuncSubmit, TypeOK, FuncPhases
  <1>2. CASE FuncEnter(f)
    BY <1>0, <1>2 DEF FuncEnter, TypeOK, FuncPhases
  <1>3. CASE FuncLeave(f)
    BY <1>3, LeaveType DEF FuncLeave, Leave, TypeOK, FuncPhases
  <1>4. CASE FuncOut(f) \/ FuncDone(f)
    BY <1>4 DEF FuncOut, FuncDone, TypeOK, FuncPhases
  <1>5. CASE FidoWritten(f)
    <2>1. LeaveFrom(CanContinue(stk, "FUNC", "BUSY_SHARED").stk)
      BY <1>5 DEF FidoWritten
    <2>2. /\ stk' \in Seq(States)
          /\ exclIrp' \in StopIrps \cup {NoIrp} /\ resume' \in StopIrps \cup {NoIrp}
          /\ resumeTasks' \subseteq StopIrps /\ thrown' \in BOOLEAN
      BY <1>0, <2>1, LeaveType
    <2>. QED
      BY <1>5, <2>2 DEF FidoWritten, TypeOK, FuncPhases
  <1>. QED
    BY <1>1, <1>2, <1>3, <1>4, <1>5 DEF FuncNext

\* The actions of a STOP IRP preserve TypeOK.
LEMMA StopType ==
    ASSUME TypeOK, NEW s \in StopIrps, StopNext(s)
    PROVE  TypeOK'
  <1>. USE DEF book, track, pnp
  <1>1. CASE QueryStopSubmit(s) \/ QueryStopDone(s)
    BY <1>1 DEF QueryStopSubmit, QueryStopDone, TypeOK, StopPhases
  <1>2. CASE QueryStopEnter(s)
    <2>1. CanContinue(stk, "QUERY_STOP", "BUSY_SHARED").stk \in Seq(States)
      BY CanContinueType DEF TypeOK, States
    <2>. QED
      BY <1>2, <2>1 DEF QueryStopEnter, TypeOK, StopPhases
  <1>3. CASE QueryStopLeave(s)
    BY <1>3, LeaveType DEF QueryStopLeave, Leave, TypeOK, StopPhases
  <1>4. CASE StopSubmit(s) \/ StopResume(s)
    BY <1>4, TryStopType DEF StopSubmit, StopResume, TypeOK
  <1>5. CASE ResumeSubmit(s)
    <2>1. SetPortState(stk, "STOP_RESUME").stk \in Seq(States)
      BY SetPortStateType DEF TypeOK, States
    <2>. QED
      BY <1>5, <2>1 DEF ResumeSubmit, TypeOK, StopPhases
  <1>6. CASE PreStop(s) \/ PreStopDone(s)
    BY <1>6 DEF PreStop, PreStopDone, TypeOK, StopPhases
  <1>7. CASE StopSelf(s) \/ StopComplete(s)
    <2>1. SetPortState(stk, "STOPPED").stk \in Seq(States)
      BY SetPortStateType DEF TypeOK, States
    <2>. QED
      BY <1>7, <2>1 DEF StopSelf, StopComplete, TypeOK, StopPhases
  <1>8. CASE StopTimeout(s)
    <2>1. SetPortStateWake(stk, "STOPPING", "STOPPED").stk \in Seq(States)
      BY WakeType DEF TypeOK, States
    <2>. QED
      BY <1>8, <2>1 DEF StopTimeout, TypeOK, StopPhases
  <1>9. CASE \E v \in victims : CancelVictim(s, v)
    BY <1>9 DEF CancelVictim, TypeOK, FuncPhases, StopPhases
  <1>. QED
    BY <1>1, <1>2, <1>3, <1>4, <1>5, <1>6, <1>7, <1>8, <1>9 DEF StopNext

LEMMA TypeStep == TypeOK /\ [Next]_vars => TypeOK'
  <1>1. TypeOK /\ UNCHANGED vars => TypeOK'
    BY DEF TypeOK, vars
  <1>. QED
    BY <1>1, PnpType, FuncType, StopType DEF Next

\* Every variable keeps its type, on every kind of port and for every number of
\* IRPs and cores; in particular a resume task is only scheduled for a STOP IRP.
THEOREM TypeCorrect == Spec => []TypeOK
  BY InitType, TypeStep, PTL DEF Spec

-----------------------------------------------------------------------------
(* What the operations of CPortState do to the shapes.                     *)

LEMMA InsideFinite == IsFiniteSet(Inside) /\ Cardinality(Inside) \in Nat
  <1>1. IsFiniteSet(FuncIrps \cup StopIrps)
    BY PortAssumption, FS_Union
  <1>2. Inside \subseteq FuncIrps \cup StopIrps
    BY DEF Inside
  <1>. QED
    BY <1>1, <1>2, FS_Subset, FS_CardinalityType

\* The state on top of a quiet stack admits no request and is never READY.
LEMMA TopQuiet ==
    ASSUME NEW s \in Seq(States), QuietStk(s)
    PROVE  /\ s # <<>>
           /\ Top(s) \notin {"READY", "BUSY_SHARED", "EXCLUDE_PENDING"}
  <1>1. ASSUME NEW a \in {"ATTACHED", "STARTING", "STOPPING", "STOPPED", "REMOVED",
                          "STOP_RESUME"}, One(s, a)
        PROVE  s # <<>> /\ Top(s) \notin {"READY", "BUSY_SHARED", "EXCLUDE_PENDING"}
    BY <1>1, TopOne
  <1>2. ASSUME NEW a, NEW b \in {"BUSY", "STOPPED", "BUSY_RESUME"}, Two(s, a, b)
        PROVE  s # <<>> /\ Top(s) \notin {"READY", "BUSY_SHARED", "EXCLUDE_PENDING"}
    BY <1>2, TopTwo
  <1>. QED
    BY <1>1, <1>2 DEF QuietStk

\* A request enters, and is counted, or finds the port unchanged.
LEMMA EnterShape ==
    ASSUME NEW s \in Seq(States), NEW I, IsFiniteSet(I), ShapeOf(s, I),
           NEW x, x \notin I, NEW cmd \in {"FUNC", "QUERY_STOP"}
    PROVE  LET a == CanContinue(s, cmd, "BUSY_SHARED") IN
           \/ /\ a.ret = "OK"
              /\ SharedStk(s, Cardinality(I))
              /\ SharedStk(a.stk, Cardinality(I \cup {x}))
           \/ /\ a.ret # "OK"
              /\ a.stk = s
  <1>. DEFINE a == CanContinue(s, cmd, "BUSY_SHARED")
              n == Cardinality(I)
  <1>0. n \in Nat /\ Cardinality(I \cup {x}) = n + 1
    BY FS_CardinalityType, FS_AddElement
  <1>1. CASE SharedStk(s, n)
    <2>1. a.ret = "OK" /\ SharedStk(a.stk, n + 1)
      BY <1>0, <1>1, EnterShared
    <2>. QED
      BY <1>0, <1>1, <2>1, Zenon
  <1>2. CASE DrainStk(s, n) \/ QuietStk(s)
    <2>1. Top(s) \notin {"READY", "BUSY_SHARED"}
      BY <1>0, <1>2, TopDrain, TopQuiet
    <2>2. a = Refuse(s)
      BY <2>1, EnterRefused
    <2>. QED
      BY <2>2 DEF Refuse, Answer
  <1>. QED
    BY <1>1, <1>2 DEF ShapeOf

\* A request leaves and is no longer counted.
LEMMA LeaveShape ==
    ASSUME NEW s \in Seq(States), NEW I, IsFiniteSet(I), ShapeOf(s, I),
           NEW x \in I, NEW armed \in BOOLEAN
    PROVE  LET p == PopState(s, armed) IN
           \/ /\ SharedStk(s, Cardinality(I))
              /\ SharedStk(p.stk, Cardinality(I \ {x}))
           \/ /\ DrainStk(s, Cardinality(I))
              /\ ShapeOf(p.stk, I \ {x})
              /\ p.stk[1] = "READY"
  <1>. DEFINE p == PopState(s, armed)
              n == Cardinality(I)
  <1>0. /\ n \in Nat /\ n >= 1
        /\ Cardinality(I \ {x}) = n - 1
        /\ n = 1 => I \ {x} = {}
    <2>1. n \in Nat /\ IsFiniteSet(I \ {x}) /\ Cardinality(I \ {x}) = n - 1
      BY FS_CardinalityType, FS_RemoveElement
    <2>2. Cardinality(I \ {x}) \in Nat
      BY <2>1, FS_CardinalityType
    <2>3. n = 1 => I \ {x} = {}
      BY <2>1, FS_EmptySet
    <2>. QED
      BY <2>1, <2>2, <2>3
  <1>1. CASE SharedStk(s, n)
    <2>1. SharedStk(p.stk, n - 1)
      BY <1>0, <1>1, PopShared
    <2>. QED
      BY <1>0, <1>1, <2>1, Zenon
  <1>2. CASE DrainStk(s, n)
    <2>1. \/ n > 1 /\ DrainStk(p.stk, n - 1)
          \/ n = 1 /\ Two(p.stk, "READY", "BUSY_RESUME")
          \/ n = 1 /\ SharedStk(p.stk, 0)
      BY <1>0, <1>2, PopDrain
    <2>2. CASE n > 1 /\ DrainStk(p.stk, n - 1)
      <3>1. DrainStk(p.stk, Cardinality(I \ {x}))
        BY <1>0, <2>2, Zenon
      <3>2. p.stk[1] = "READY"
        BY <2>2 DEF DrainStk
      <3>. QED
        BY <1>2, <3>1, <3>2 DEF ShapeOf
    <2>3. CASE n = 1 /\ Two(p.stk, "READY", "BUSY_RESUME")
      BY <1>0, <1>2, <2>3, Zenon DEF ShapeOf, QuietStk, Two
    <2>4. CASE n = 1 /\ SharedStk(p.stk, 0)
      <3>1. Cardinality(I \ {x}) = 0
        BY <1>0, <2>4
      <3>2. SharedStk(p.stk, Cardinality(I \ {x}))
        BY <2>4, <3>1, Zenon
      <3>3. p.stk[1] = "READY"
        BY <2>4 DEF SharedStk
      <3>. QED
        BY <1>2, <3>2, <3>3, Zenon DEF ShapeOf
    <2>. QED
      BY <2>1, <2>2, <2>3, <2>4
  <1>3. ~(QuietStk(s) /\ I = {})
    OBVIOUS
  <1>. QED
    BY <1>1, <1>2, <1>3 DEF ShapeOf

\* SetPortState on a single state.
LEMMA SetOne ==
    ASSUME NEW s \in Seq(States), NEW a, One(s, a),
           NEW new \in States, new # "STOP_RESUME"
    PROVE  /\ new \in SubmitTargets(a) \cup SwitchTargets(a) =>
                 One(SetPortState(s, new).stk, new)
           /\ new \notin SubmitTargets(a) \cup SwitchTargets(a) =>
                 SetPortState(s, new).stk = s
  <1>1. s # <<>> /\ Top(s) = a
    BY TopOne
  <1>2. One(SetTop(s, new), new)
    BY SetTopOne
  <1>3. new \in SubmitTargets(a) \cup SwitchTargets(a) =>
           SetPortState(s, new).stk = SetTop(s, new)
    BY <1>1, SetPortStateDef
  <1>4. new \notin SubmitTargets(a) \cup SwitchTargets(a) =>
           SetPortState(s, new).stk = s
    BY <1>1, SetPortStateDef
  <1>. QED
    BY <1>2, <1>3, <1>4, Zenon

\* A port that has requests, or is READY for them, cannot be made STOPPED.
LEMMA SetShared ==
    ASSUME NEW s \in Seq(States), NEW n \in Nat, SharedStk(s, n)
    PROVE  SetPortState(s, "STOPPED").stk = s
  <1>1. s # <<>> /\ Top(s) \in {"READY", "BUSY_SHARED"}
    BY TopShared
  <1>2. "STOPPED" \notin SubmitTargets(Top(s)) \cup SwitchTargets(Top(s))
    BY <1>1, Targets
  <1>. QED
    BY <1>1, <1>2, SetPortStateDef DEF States

\* SetPortState(STOPPED) on a port that a stop has shut.
LEMMA SetShut ==
    ASSUME NEW s \in Seq(States), NEW I, Cardinality(I) \in Nat, ShapeOf(s, I),
           ShutStk(s)
    PROVE  LET r == SetPortState(s, "STOPPED").stk IN
           /\ I = {}
           /\ \/ Len(s) = 1 /\ \E a \in {"STOPPED", "REMOVED"} : One(r, a)
              \/ Len(s) = 2 /\ s[1] = "STOPPED" /\ Two(r, "STOPPED", "STOPPED")
  <1>. DEFINE r == SetPortState(s, "STOPPED").stk
  <1>0. "STOPPED" \in States
    BY DEF States
  <1>1. ~SharedStk(s, Cardinality(I)) /\ ~DrainStk(s, Cardinality(I))
    BY DEF ShutStk, SharedStk, DrainStk
  <1>2. QuietStk(s) /\ I = {}
    BY <1>1 DEF ShapeOf
  <1>3. ASSUME NEW a \in {"STOPPING", "STOPPED", "REMOVED"}, One(s, a)
        PROVE  Len(s) = 1 /\ \E b \in {"STOPPED", "REMOVED"} : One(r, b)
    <2>1. CASE a \in {"STOPPING", "STOPPED"}
      <3>1. One(r, "STOPPED")
        BY <1>0, <1>3, <2>1, SetOne, Targets
      <3>. QED
        BY <1>3, <3>1 DEF One
    <2>2. CASE a = "REMOVED"
      <3>1. r = s
        BY <1>0, <1>3, <2>2, SetOne, Targets
      <3>2. One(r, "REMOVED")
        BY <1>3, <2>2, <3>1, Zenon
      <3>. QED
        BY <1>3, <3>2 DEF One
    <2>. QED
      BY <2>1, <2>2
  <1>4. ASSUME NEW b \in {"BUSY", "STOPPED"}, Two(s, "STOPPED", b)
        PROVE  Len(s) = 2 /\ s[1] = "STOPPED" /\ Two(r, "STOPPED", "STOPPED")
    <2>1. s # <<>> /\ Top(s) = b
      BY <1>4, TopTwo
    <2>2. "STOPPED" \in SubmitTargets(b) \cup SwitchTargets(b)
      BY Targets
    <2>3. r = SetTop(s, "STOPPED")
      BY <1>0, <2>1, <2>2, SetPortStateDef
    <2>4. Two(SetTop(s, "STOPPED"), "STOPPED", "STOPPED")
      BY <1>0, <1>4, SetTopTwo
    <2>5. Two(r, "STOPPED", "STOPPED")
      BY <2>3, <2>4, Zenon
    <2>. QED
      BY <1>4, <2>5 DEF Two
  <1>5. \/ \E a \in {"STOPPING", "STOPPED", "REMOVED"} : One(s, a)
        \/ \E b \in {"BUSY", "STOPPED"} : Two(s, "STOPPED", b)
    BY <1>2 DEF QuietStk, ShutStk, One, Two
  <1>. QED
    BY <1>2, <1>3, <1>4, <1>5

\* CPortStateResumeSubmitTask finds the port in BUSY_RESUME, or changes nothing.
LEMMA SetStopResume ==
    ASSUME NEW s \in Seq(States), NEW I, Cardinality(I) \in Nat, ShapeOf(s, I)
    PROVE  LET a == SetPortState(s, "STOP_RESUME") IN
           \/ /\ a.ret = "OK"
              /\ Two(s, "READY", "BUSY_RESUME")
              /\ One(a.stk, "STOP_RESUME")
           \/ /\ a.ret # "OK"
              /\ a.stk = s
              /\ Top(s) # "BUSY_RESUME"
  <1>. DEFINE a == SetPortState(s, "STOP_RESUME")
  <1>0. s # <<>> /\ "STOP_RESUME" \in States
    BY TopShared, TopDrain, TopQuiet DEF ShapeOf, States
  <1>1. CASE Top(s) # "BUSY_RESUME"
    BY <1>0, <1>1 DEF SetPortState, Refuse, Answer
  <1>2. CASE Top(s) = "BUSY_RESUME"
    <2>1. Two(s, "READY", "BUSY_RESUME")
      <3>1. ~SharedStk(s, Cardinality(I)) /\ ~DrainStk(s, Cardinality(I))
        BY <1>2, TopShared, TopDrain
      <3>2. \A x \in {"ATTACHED", "STARTING", "STOPPING", "STOPPED", "REMOVED",
                      "STOP_RESUME"} : ~One(s, x)
        BY <1>2, TopOne
      <3>3. /\ \A x \in {"READY", "ATTACHED", "STOPPED"} : ~Two(s, x, "BUSY")
            /\ ~Two(s, "STOPPED", "STOPPED")
        BY <1>2, TopTwo
      <3>. QED
        BY <3>1, <3>2, <3>3 DEF ShapeOf, QuietStk
    <2>2. Below(s) \in Seq(States) /\ One(Below(s), "READY")
      BY <1>0, <2>1, TopTwo, StackOps
    <2>3. Top(Below(s)) = "READY" /\ One(SetTop(Below(s), "STOP_RESUME"), "STOP_RESUME")
      BY <1>0, <2>2, TopOne, SetTopOne
    <2>4. "STOP_RESUME" \in SubmitTargets(Top(s)) \cup SwitchTargets(Top(s))
      BY <1>2, Targets
    <2>5. a.ret = "OK" /\ a.stk = SetTop(Below(s), "STOP_RESUME")
      BY <1>0, <1>2, <2>3, <2>4 DEF SetPortState, Answer
    <2>. QED
      BY <2>1, <2>3, <2>5, Zenon
  <1>. QED
    BY <1>1, <1>2

\* STOP: the port is shut with nobody inside, or is not shut.
LEMMA TryShape ==
    ASSUME NEW s \in Seq(States), NEW I, Cardinality(I) \in Nat, ShapeOf(s, I),
           Cardinality(I) = 0 => I = {}
    PROVE  LET a == CanContinue(s, "STOP", "STOPPING") IN
           \/ a.ret = "OK" /\ One(a.stk, "STOPPING") /\ I = {}
           \/ a.ret = "PENDING" /\ SharedStk(s, Cardinality(I))
                                /\ DrainStk(a.stk, Cardinality(I))
           \/ a.ret \notin {"OK", "PENDING"} /\ a.stk = s
  <1>. DEFINE a == CanContinue(s, "STOP", "STOPPING")
              n == Cardinality(I)
  <1>1. CASE SharedStk(s, n)
    <2>1. \/ n = 0 /\ a.ret = "OK" /\ One(a.stk, "STOPPING")
          \/ n # 0 /\ a.ret = "PENDING" /\ DrainStk(a.stk, n)
          \/ n # 0 /\ a.ret = "EAGAIN" /\ a.stk = s
      BY <1>1, StopShared
    <2>. QED
      BY <1>1, <2>1, Zenon
  <1>2. CASE One(s, "STOP_RESUME")
    <2>1. a.ret = "OK" /\ One(a.stk, "STOPPING")
      BY <1>2, StopResumed
    <2>2. ~SharedStk(s, n) /\ ~DrainStk(s, n)
      BY <1>2 DEF One, SharedStk, DrainStk
    <2>. QED
      BY <2>1, <2>2 DEF ShapeOf
  <1>3. CASE ~SharedStk(s, n) /\ ~One(s, "STOP_RESUME")
    <2>1. Top(s) \notin {"READY", "BUSY_SHARED", "STOP_RESUME"}
      <3>1. CASE DrainStk(s, n)
        BY <3>1, TopDrain
      <3>2. ASSUME NEW x \in {"ATTACHED", "STARTING", "STOPPING", "STOPPED",
                              "REMOVED"}, One(s, x)
            PROVE  Top(s) \notin {"READY", "BUSY_SHARED", "STOP_RESUME"}
        BY <3>2, TopOne
      <3>3. ASSUME NEW x, NEW y \in {"BUSY", "STOPPED", "BUSY_RESUME"}, Two(s, x, y)
            PROVE  Top(s) \notin {"READY", "BUSY_SHARED", "STOP_RESUME"}
        BY <3>3, TopTwo
      <3>. QED
        BY <1>3, <3>1, <3>2, <3>3 DEF ShapeOf, QuietStk
    <2>2. a = Refuse(s)
      BY <2>1, StopRefused
    <2>. QED
      BY <2>2 DEF Refuse, Answer
  <1>. QED
    BY <1>1, <1>2, <1>3

-----------------------------------------------------------------------------
(* The invariant is inductive for every port that is not a CRpcTcpFido.    *)

LEMMA InitInv == Init => IInv
  <1>. SUFFICES ASSUME Init PROVE IInv
    OBVIOUS
  <1>1. TypeOK
    BY InitType
  <1>2. One(stk, "ATTACHED") /\ Inside = {}
    BY DEF Init, One, Inside
  <1>3. Shape
    BY <1>2 DEF Shape, ShapeOf, QuietStk
  <1>4. StartShape
    BY <1>2 DEF Init, StartShape
  <1>5. StopShape /\ DestroyShape /\ DestroyedShape
    BY DEF Init, StopShape, ShutPhases, DestroyShape, DestroyedShape
  <1>. QED
    BY <1>1, <1>3, <1>4, <1>5 DEF IInv

LEMMA DoneStart == ASSUME StartDone' PROVE StartShape'
  BY DEF StartDone, StartShape

\* A step that leaves the stack and the requests inside alone.
LEMMA SameStack ==
    ASSUME IInv, TypeOK', UNCHANGED <<stk, start, stop, destroy>>, Inside' = Inside
    PROVE  IInv'
  <1>1. Shape'
    BY DEF IInv, Shape
  <1>2. StartShape'
    BY DEF IInv, StartShape, StartDone
  <1>3. StopShape' /\ DestroyShape' /\ DestroyedShape'
    BY DEF IInv, StopShape, DestroyShape, DestroyedShape
  <1>. QED
    BY <1>1, <1>2, <1>3 DEF IInv

\* A request enters or leaves a port that is open or draining.
LEMMA OpenStep ==
    ASSUME IInv, TypeOK', UNCHANGED <<start, destroy>>,
           \A t \in StopIrps : stop'[t] \in ShutPhases => stop[t] \in ShutPhases,
           ~StartDone => \A t \in StopIrps : stop'[t] = "idle",
           \/ SharedStk(stk, Cardinality(Inside))
           \/ DrainStk(stk, Cardinality(Inside)),
           SharedStk(stk, Cardinality(Inside)) => SharedStk(stk', Cardinality(Inside')),
           ShapeOf(stk', Inside'), stk'[1] = "READY"
    PROVE  IInv'
  <1>0. Cardinality(Inside) \in Nat
    BY InsideFinite
  <1>1. /\ ~One(stk, "ATTACHED") /\ ~One(stk, "STARTING")
        /\ ~Two(stk, "ATTACHED", "BUSY") /\ ~Two(stk, "READY", "BUSY")
        /\ ~Two(stk, "STOPPED", "BUSY") /\ ~Two(stk, "STOPPED", "STOPPED")
        /\ ~ShutStk(stk)
    BY <1>0 DEF One, Two, SharedStk, DrainStk, ShutStk
  <1>2. StartShape'
    BY <1>1 DEF IInv, StartShape, StartDone
  <1>3. StopShape'
    BY <1>1 DEF IInv, StopShape
  <1>4. DestroyShape'
    BY <1>1 DEF IInv, DestroyShape
  <1>5. DestroyedShape'
    BY DEF DestroyedShape
  <1>6. Shape'
    BY DEF Shape
  <1>. QED
    BY <1>2, <1>3, <1>4, <1>5, <1>6 DEF IInv

LEMMA LeaveStep ==
    ASSUME IInv, TypeOK', UNCHANGED <<start, destroy>>,
           \A t \in StopIrps : stop'[t] \in ShutPhases => stop[t] \in ShutPhases,
           ~StartDone => \A t \in StopIrps : stop'[t] = "idle",
           NEW x \in Inside, Inside' = Inside \ {x},
           stk' = PopState(stk, exclIrp # NoIrp /\ resume # NoIrp).stk
    PROVE  IInv'
  <1>. DEFINE p == PopState(stk, exclIrp # NoIrp /\ resume # NoIrp)
  <1>0. stk \in Seq(States) /\ Cardinality(Inside) \in Nat
    BY InsideFinite DEF IInv, TypeOK
  <1>1. \/ /\ SharedStk(stk, Cardinality(Inside))
           /\ SharedStk(p.stk, Cardinality(Inside \ {x}))
        \/ /\ DrainStk(stk, Cardinality(Inside))
           /\ ShapeOf(p.stk, Inside \ {x})
           /\ p.stk[1] = "READY"
    BY <1>0, InsideFinite, LeaveShape DEF IInv, Shape
  <1>2. CASE SharedStk(stk, Cardinality(Inside))
    <2>1. ~DrainStk(stk, Cardinality(Inside))
      BY <1>0, <1>2 DEF SharedStk, DrainStk
    <2>2. SharedStk(stk', Cardinality(Inside'))
      BY <1>1, <2>1, Zenon
    <2>3. ShapeOf(stk', Inside') /\ stk'[1] = "READY"
      BY <2>2 DEF ShapeOf, SharedStk
    <2>. QED
      BY <1>2, <2>2, <2>3, OpenStep
  <1>3. CASE ~SharedStk(stk, Cardinality(Inside))
    <2>1. ShapeOf(stk', Inside') /\ stk'[1] = "READY"
      BY <1>1, <1>3, Zenon
    <2>. QED
      BY <1>1, <1>3, <2>1, OpenStep
  <1>. QED
    BY <1>2, <1>3

LEMMA FuncInv ==
    ASSUME IInv, NEW f \in FuncIrps, FuncNext(f), ~FidoWritten(f)
    PROVE  IInv'
  <1>. USE DEF book, track, pnp
  <1>0. TypeOK' /\ TypeOK
    BY FuncType DEF IInv
  <1>1. ASSUME FuncSubmit(f) \/ FuncOut(f) \/ FuncDone(f)
        PROVE  IInv'
    <2>1. Inside' = Inside /\ UNCHANGED <<stk, start, stop, destroy>>
      BY <1>0, <1>1 DEF FuncSubmit, FuncOut, FuncDone, Inside, TypeOK
    <2>. QED
      BY <1>0, <2>1, SameStack
  <1>2. CASE FuncEnter(f)
    <2>. DEFINE a == CanContinue(stk, "FUNC", "BUSY_SHARED")
    <2>1. f \notin Inside
      BY <1>2, PortAssumption DEF FuncEnter, Inside
    <2>2. /\ a.ret = "OK" => Inside' = Inside \cup {f}
          /\ a.ret # "OK" => Inside' = Inside
          /\ UNCHANGED <<start, stop, destroy>> /\ stk' = a.stk
      <3>. HIDE DEF a
      <3>1. /\ func' = [func EXCEPT ![f] = IF a.ret = "OK" THEN "inside" ELSE "out"]
            /\ func[f] = "in" /\ stk' = a.stk
            /\ UNCHANGED <<start, stop, destroy>>
        BY <1>2 DEF FuncEnter, a
      <3>. QED
        BY <1>0, <3>1 DEF Inside, TypeOK
    <2>3. \/ /\ a.ret = "OK"
             /\ SharedStk(stk, Cardinality(Inside))
             /\ SharedStk(a.stk, Cardinality(Inside \cup {f}))
          \/ /\ a.ret # "OK"
             /\ a.stk = stk
      BY <1>0, <2>1, InsideFinite, EnterShape DEF TypeOK, IInv, Shape
    <2>4. CASE a.ret = "OK"
      <3>1. /\ SharedStk(stk, Cardinality(Inside))
            /\ SharedStk(stk', Cardinality(Inside'))
        BY <2>2, <2>3, <2>4, Zenon
      <3>2. ShapeOf(stk', Inside') /\ stk'[1] = "READY"
        BY <3>1 DEF ShapeOf, SharedStk
      <3>3. /\ \A t \in StopIrps : stop'[t] \in ShutPhases => stop[t] \in ShutPhases
            /\ ~StartDone => \A t \in StopIrps : stop'[t] = "idle"
        BY <2>2 DEF IInv, StartShape
      <3>4. UNCHANGED <<start, destroy>>
        BY <2>2
      <3>. QED
        BY <1>0, <3>1, <3>2, <3>3, <3>4, OpenStep
    <2>5. CASE a.ret # "OK"
      <3>1. Inside' = Inside /\ UNCHANGED <<stk, start, stop, destroy>>
        BY <2>2, <2>3, <2>5
      <3>. QED
        BY <1>0, <3>1, SameStack
    <2>. QED
      BY <2>4, <2>5
  <1>3. CASE FuncLeave(f)
    <2>. DEFINE p == PopState(stk, exclIrp # NoIrp /\ resume # NoIrp)
    <2>1. f \in Inside
      BY <1>3 DEF FuncLeave, Inside
    <2>2. /\ Inside' = Inside \ {f}
          /\ UNCHANGED <<start, stop, destroy>> /\ stk' = p.stk
      <3>1. PICK ph \in {"out", "pending"} : func' = [func EXCEPT ![f] = ph]
        BY <1>3 DEF FuncLeave
      <3>2. UNCHANGED <<start, stop, destroy>> /\ stk' = p.stk
        BY <1>3 DEF FuncLeave, Leave, LeaveFrom
      <3>3. Inside' = Inside \ {f}
        BY <1>0, <3>1, <3>2, PortAssumption DEF Inside, TypeOK
      <3>. QED
        BY <3>2, <3>3
    <2>3. /\ \A t \in StopIrps : stop'[t] \in ShutPhases => stop[t] \in ShutPhases
          /\ ~StartDone => \A t \in StopIrps : stop'[t] = "idle"
      BY <2>2 DEF IInv, StartShape
    <2>4. UNCHANGED <<start, destroy>>
      BY <2>2
    <2>. QED
      BY <1>0, <2>1, <2>2, <2>3, <2>4, LeaveStep
  <1>. QED
    BY <1>1, <1>2, <1>3 DEF FuncNext

\* A step of a stop that leaves the stack and the requests inside alone.
LEMMA StopStep ==
    ASSUME IInv, TypeOK', StartDone, UNCHANGED <<stk, start, destroy>>,
           Inside' = Inside,
           \A t \in StopIrps : stop'[t] \in ShutPhases =>
               stop[t] \in ShutPhases \/ ShutStk(stk)
    PROVE  IInv'
  <1>1. Shape'
    BY DEF IInv, Shape
  <1>2. StartShape'
    BY DoneStart DEF StartDone
  <1>3. StopShape'
    BY DEF IInv, StopShape
  <1>4. DestroyShape' /\ DestroyedShape'
    BY DEF IInv, DestroyShape, DestroyedShape
  <1>. QED
    BY <1>1, <1>2, <1>3, <1>4 DEF IInv

\* A step that ends with the port shut.
LEMMA ShutStep ==
    ASSUME IInv, TypeOK', StartDone, UNCHANGED <<start, destroy>>, Inside' = {},
           \/ \E a \in {"STOPPING", "STOPPED", "REMOVED"} : One(stk', a) /\ Len(stk) = 1
           \/ Len(stk) = 2 /\ stk[1] = "STOPPED" /\ Two(stk', "STOPPED", "STOPPED")
    PROVE  IInv'
  <1>1. Shape'
    BY DEF Shape, ShapeOf, QuietStk
  <1>2. StartShape'
    BY DoneStart DEF StartDone
  <1>3. StopShape'
    BY DEF StopShape, ShutStk, One, Two
  <1>4. DestroyShape'
    BY DEF IInv, DestroyShape, One, Two
  <1>5. DestroyedShape'
    BY DEF IInv, DestroyedShape, One, Two
  <1>. QED
    BY <1>1, <1>2, <1>3, <1>4, <1>5 DEF IInv

LEMMA TryStopInv ==
    ASSUME IInv, TypeOK', StartDone, NEW s \in StopIrps, stop[s] \in {"prep", "resumed"},
           TryStop(s), UNCHANGED <<start, destroy, func>>
    PROVE  IInv'
  <1>. DEFINE a == CanContinue(stk, "STOP", "STOPPING")
  <1>0. /\ TypeOK /\ stk \in Seq(States) /\ ShapeOf(stk, Inside)
        /\ IsFiniteSet(Inside) /\ Cardinality(Inside) \in Nat
        /\ Cardinality(Inside) = 0 => Inside = {}
    BY InsideFinite, FS_EmptySet DEF IInv, TypeOK, Shape
  <1>1. /\ stop' = [stop EXCEPT ![s] = AfterTry(a.ret)]
        /\ stk' = a.stk
    BY DEF TryStop
  <1>2. /\ AfterTry(a.ret) \in {"preStop", "excl", "again", "refused"}
        /\ a.ret = "PENDING" => AfterTry(a.ret) = "excl"
        /\ a.ret \notin {"OK", "PENDING"} => AfterTry(a.ret) \in {"again", "refused"}
    BY DEF AfterTry
  <1>3. Inside' = Inside
    <2>. HIDE DEF a
    <2>. QED
      BY <1>0, <1>1, <1>2 DEF Inside, TypeOK
  <1>4. \/ a.ret = "OK" /\ One(a.stk, "STOPPING") /\ Inside = {}
        \/ a.ret = "PENDING" /\ SharedStk(stk, Cardinality(Inside))
                             /\ DrainStk(a.stk, Cardinality(Inside))
        \/ a.ret \notin {"OK", "PENDING"} /\ a.stk = stk
    BY <1>0, TryShape
  <1>5. a.ret # "OK" => \A t \in StopIrps : stop'[t] \in ShutPhases =>
                                                  stop[t] \in ShutPhases
    <2>. HIDE DEF a
    <2>. QED
      BY <1>0, <1>1, <1>2, <1>4 DEF TypeOK, ShutPhases
  <1>6. CASE a.ret = "OK"
    <2>1. One(stk', "STOPPING") /\ Inside' = {}
      BY <1>1, <1>3, <1>4, <1>6, Zenon
    <2>2. Len(stk) = 1
      <3>1. CASE SharedStk(stk, Cardinality(Inside))
        BY <1>0, <1>4, <1>6, <3>1, FS_EmptySet DEF SharedStk
      <3>2. CASE ~SharedStk(stk, Cardinality(Inside)) /\ Len(stk) # 1
        <4>1. CASE DrainStk(stk, Cardinality(Inside))
          BY <1>0, <4>1, TopDrain, StopRefused, <1>6 DEF Refuse, Answer
        <4>2. CASE QuietStk(stk)
          <5>0. \A x : ~One(stk, x)
            BY <3>2 DEF One
          <5>1. ASSUME NEW x, NEW y \in {"BUSY", "STOPPED", "BUSY_RESUME"},
                       Two(stk, x, y)
                PROVE  Top(stk) \notin {"READY", "BUSY_SHARED", "STOP_RESUME"}
            BY <1>0, <5>1, TopTwo
          <5>2. Top(stk) \notin {"READY", "BUSY_SHARED", "STOP_RESUME"}
            BY <4>2, <5>0, <5>1 DEF QuietStk
          <5>. QED
            BY <1>0, <1>6, <5>2, StopRefused DEF Refuse, Answer
        <4>. QED
          BY <1>0, <3>2, <4>1, <4>2 DEF ShapeOf
      <3>. QED
        BY <3>1, <3>2
    <2>. QED
      BY <2>1, <2>2, ShutStep
  <1>7. CASE a.ret = "PENDING"
    <2>1. /\ SharedStk(stk, Cardinality(Inside))
          /\ DrainStk(stk', Cardinality(Inside'))
      BY <1>1, <1>3, <1>4, <1>7, Zenon
    <2>2. Shape' /\ stk'[1] = "READY" /\ stk[1] = "READY"
      BY <2>1 DEF Shape, ShapeOf, DrainStk, SharedStk
    <2>3. StartShape'
      BY DoneStart DEF StartDone
    <2>4. StopShape'
      BY <1>5, <1>7, <2>2 DEF IInv, StopShape, ShutStk
    <2>5. DestroyShape' /\ DestroyedShape'
      BY <1>0, <2>1, <2>2 DEF IInv, DestroyShape, DestroyedShape, SharedStk, Two
    <2>. QED
      BY <2>2, <2>3, <2>4, <2>5 DEF IInv
  <1>8. CASE a.ret \notin {"OK", "PENDING"}
    <2>1. UNCHANGED <<stk, start, destroy>>
      BY <1>1, <1>4, <1>8
    <2>. QED
      BY <1>3, <1>5, <1>8, <2>1, StopStep
  <1>. QED
    BY <1>6, <1>7, <1>8

LEMMA MoveStop ==
    ASSUME TypeOK, NEW s \in StopIrps, stop[s] # "query", NEW ph, ph # "query",
           stop' = [stop EXCEPT ![s] = ph], func' = func
    PROVE  /\ Inside' = Inside
           /\ \A t \in StopIrps : t # s => stop'[t] = stop[t]
           /\ stop'[s] = ph
  BY DEF Inside, TypeOK

\* SetPortState(STOPPED) by a stop that has shut the port.
LEMMA StoppedStep ==
    ASSUME IInv, TypeOK', StartDone, UNCHANGED <<start, destroy>>, Inside' = Inside,
           ShutStk(stk), stk' = SetPortState(stk, "STOPPED").stk
    PROVE  IInv'
  <1>1. /\ Inside = {}
        /\ \/ Len(stk) = 1 /\ \E a \in {"STOPPED", "REMOVED"} : One(stk', a)
           \/ Len(stk) = 2 /\ stk[1] = "STOPPED" /\ Two(stk', "STOPPED", "STOPPED")
    BY InsideFinite, SetShut DEF IInv, Shape, TypeOK
  <1>2. Inside' = {}
    BY <1>1
  <1>. QED
    BY <1>1, <1>2, ShutStep

LEMMA StopInv ==
    ASSUME IInv, NEW s \in StopIrps, StopNext(s)
    PROVE  IInv'
  <1>. USE DEF book, track, pnp
  <1>0. /\ TypeOK' /\ TypeOK /\ stk \in Seq(States)
        /\ ShapeOf(stk, Inside) /\ IsFiniteSet(Inside) /\ Cardinality(Inside) \in Nat
    BY StopType, InsideFinite DEF IInv, TypeOK, Shape
  <1>1. stop[s] # "idle" => StartDone
    BY DEF IInv, StartShape
  <1>2. stop[s] \in ShutPhases => ShutStk(stk)
    BY DEF IInv, StopShape
  <1>3. ASSUME NEW ph, stop' = [stop EXCEPT ![s] = ph], ph # "query",
               stop[s] # "query", StartDone,
               ph \in ShutPhases => ShutStk(stk),
               UNCHANGED <<stk, func, start, destroy>>
        PROVE  IInv'
    <2>1. /\ Inside' = Inside
          /\ \A t \in StopIrps : t # s => stop'[t] = stop[t]
          /\ stop'[s] = ph
      BY <1>0, <1>3, MoveStop
    <2>2. \A t \in StopIrps : stop'[t] \in ShutPhases =>
             stop[t] \in ShutPhases \/ ShutStk(stk)
      BY <1>3, <2>1
    <2>. QED
      BY <1>0, <1>3, <2>1, <2>2, StopStep
  <1>4. CASE QueryStopSubmit(s) \/ QueryStopDone(s)
    <2>1. \E ph \in {"queryIn", "prep"} : stop' = [stop EXCEPT ![s] = ph]
      BY <1>4 DEF QueryStopSubmit, QueryStopDone
    <2>2. /\ StartDone /\ stop[s] # "query"
          /\ UNCHANGED <<stk, func, start, destroy>>
      BY <1>1, <1>4 DEF QueryStopSubmit, QueryStopDone
    <2>. QED
      BY <1>3, <2>1, <2>2 DEF ShutPhases
  <1>5. CASE QueryStopEnter(s)
    <2>. DEFINE a == CanContinue(stk, "QUERY_STOP", "BUSY_SHARED")
    <2>1. s \notin Inside
      BY <1>5, PortAssumption DEF QueryStopEnter, Inside
    <2>2. /\ stop' = [stop EXCEPT ![s] = IF a.ret = "OK" THEN "query" ELSE "queryOut"]
          /\ stop[s] = "queryIn" /\ stk' = a.stk
          /\ UNCHANGED <<start, func, destroy>>
      BY <1>5 DEF QueryStopEnter
    <2>3. \/ /\ a.ret = "OK"
             /\ SharedStk(stk, Cardinality(Inside))
             /\ SharedStk(a.stk, Cardinality(Inside \cup {s}))
          \/ /\ a.ret # "OK"
             /\ a.stk = stk
      BY <1>0, <2>1, EnterShape
    <2>4. CASE a.ret = "OK"
      <3>0. stop' = [stop EXCEPT ![s] = "query"]
        BY <2>2, <2>4
      <3>1. Inside' = Inside \cup {s}
        BY <1>0, <2>2, <3>0 DEF Inside, TypeOK
      <3>2. /\ SharedStk(stk, Cardinality(Inside))
            /\ SharedStk(stk', Cardinality(Inside'))
        BY <2>2, <2>3, <2>4, <3>1, Zenon
      <3>3. ShapeOf(stk', Inside') /\ stk'[1] = "READY"
        BY <3>2 DEF ShapeOf, SharedStk
      <3>4. /\ \A t \in StopIrps : stop'[t] \in ShutPhases => stop[t] \in ShutPhases
            /\ ~StartDone => \A t \in StopIrps : stop'[t] = "idle"
        BY <1>0, <1>1, <2>2, <3>0 DEF TypeOK, ShutPhases
      <3>5. UNCHANGED <<start, destroy>>
        BY <2>2
      <3>. QED
        BY <1>0, <3>2, <3>3, <3>4, <3>5, OpenStep
    <2>5. CASE a.ret # "OK"
      <3>1. stop' = [stop EXCEPT ![s] = "queryOut"]
        BY <2>2, <2>5
      <3>2. StartDone /\ stop[s] # "query" /\ UNCHANGED <<stk, func, start, destroy>>
        BY <1>1, <2>2, <2>3, <2>5
      <3>. QED
        BY <1>3, <3>1, <3>2 DEF ShutPhases
    <2>. QED
      BY <2>4, <2>5
  <1>6. CASE QueryStopLeave(s)
    <2>1. s \in Inside /\ stop[s] = "query"
      BY <1>6 DEF QueryStopLeave, Inside
    <2>2. /\ UNCHANGED <<start, func, destroy>>
          /\ stk' = PopState(stk, exclIrp # NoIrp /\ resume # NoIrp).stk
      BY <1>6 DEF QueryStopLeave, Leave, LeaveFrom
    <2>3. PICK ph \in {"queryOut", "queryPending"} : stop' = [stop EXCEPT ![s] = ph]
      BY <1>6 DEF QueryStopLeave
    <2>4. Inside' = Inside \ {s}
      BY <1>0, <2>2, <2>3, PortAssumption DEF Inside, TypeOK
    <2>5. /\ \A t \in StopIrps : stop'[t] \in ShutPhases => stop[t] \in ShutPhases
          /\ ~StartDone => \A t \in StopIrps : stop'[t] = "idle"
      BY <1>0, <1>1, <2>1, <2>3 DEF TypeOK, ShutPhases
    <2>6. UNCHANGED <<start, destroy>>
      BY <2>2
    <2>. QED
      BY <1>0, <2>1, <2>2, <2>4, <2>5, <2>6, LeaveStep
  <1>7. CASE StopSubmit(s) \/ StopResume(s)
    <2>1. /\ stop[s] \in {"prep", "resumed"} /\ TryStop(s)
          /\ UNCHANGED <<start, destroy, func>> /\ StartDone
      BY <1>1, <1>7 DEF StopSubmit, StopResume
    <2>. QED
      BY <1>0, <2>1, TryStopInv
  <1>8. CASE ResumeSubmit(s)
    <2>. DEFINE a == SetPortState(stk, "STOP_RESUME")
    <2>1. CASE stop[s] # "excl"
      <3>1. Inside' = Inside /\ UNCHANGED <<stk, start, stop, destroy>>
        BY <1>8, <2>1 DEF ResumeSubmit, Inside
      <3>. QED
        BY <1>0, <3>1, SameStack
    <2>2. CASE stop[s] = "excl"
      <3>1. /\ stk' = a.stk
            /\ stop' = stop \/ stop' = [stop EXCEPT ![s] = "resumed"]
            /\ UNCHANGED <<func, start, destroy>> /\ StartDone
        BY <1>1, <1>8, <2>2 DEF ResumeSubmit
      <3>2. /\ Inside' = Inside
            /\ \A t \in StopIrps : stop'[t] \in ShutPhases => stop[t] \in ShutPhases
        BY <1>0, <2>2, <3>1 DEF TypeOK, Inside, ShutPhases
      <3>3. \/ Two(stk, "READY", "BUSY_RESUME") /\ One(a.stk, "STOP_RESUME")
            \/ a.stk = stk
        BY <1>0, SetStopResume
      <3>4. CASE a.stk = stk
        <4>1. UNCHANGED <<stk, start, destroy>>
          BY <3>1, <3>4
        <4>. QED
          BY <1>0, <3>1, <3>2, <4>1, StopStep
      <3>5. CASE Two(stk, "READY", "BUSY_RESUME") /\ One(a.stk, "STOP_RESUME")
        <4>0. One(stk', "STOP_RESUME") /\ Inside' = {}
          <5>1. ~SharedStk(stk, Cardinality(Inside)) /\ ~DrainStk(stk, Cardinality(Inside))
            BY <1>0, <3>5 DEF SharedStk, DrainStk, Two
          <5>. QED
            BY <1>0, <3>1, <3>2, <3>5, <5>1, Zenon DEF ShapeOf
        <4>1. Shape'
          BY <4>0 DEF Shape, ShapeOf, QuietStk
        <4>2. StartShape'
          BY <3>1, DoneStart DEF StartDone
        <4>3. StopShape'
          BY <3>2, <3>5 DEF IInv, StopShape, ShutStk, Two
        <4>4. DestroyShape' /\ DestroyedShape'
          BY <3>1, <3>5, <4>0 DEF IInv, DestroyShape, DestroyedShape, One, Two
        <4>. QED
          BY <1>0, <4>1, <4>2, <4>3, <4>4 DEF IInv
      <3>. QED
        BY <3>3, <3>4, <3>5
    <2>. QED
      BY <2>1, <2>2
  <1>9. CASE PreStop(s) \/ PreStopDone(s)
    <2>1. \E ph \in {"cancelling", "stopEx"} : stop' = [stop EXCEPT ![s] = ph]
      BY <1>9 DEF PreStop, PreStopDone
    <2>2. /\ stop[s] \in ShutPhases /\ stop[s] # "query" /\ stop[s] # "idle"
          /\ UNCHANGED <<stk, func, start, destroy>>
      BY <1>9 DEF PreStop, PreStopDone, ShutPhases
    <2>. QED
      BY <1>1, <1>2, <1>3, <2>1, <2>2
  <1>10. CASE StopSelf(s) \/ StopComplete(s)
    <2>1. /\ stop[s] \in ShutPhases /\ stop[s] # "query" /\ stop[s] # "idle"
          /\ UNCHANGED <<func, start, destroy>>
      BY <1>10 DEF StopSelf, StopComplete, ShutPhases
    <2>2. PICK ph \in {"stopPending", "stopped", "refused"} :
             stop' = [stop EXCEPT ![s] = ph]
      BY <1>10 DEF StopSelf, StopComplete
    <2>3. Inside' = Inside
      BY <1>0, <2>1, <2>2, MoveStop
    <2>4. CASE UNCHANGED stk
      BY <1>1, <1>2, <1>3, <2>1, <2>2, <2>4
    <2>5. CASE stk' = SetPortState(stk, "STOPPED").stk
      BY <1>0, <1>1, <1>2, <2>1, <2>3, <2>5, StoppedStep
    <2>. QED
      BY <1>10, <2>4, <2>5 DEF StopSelf, StopComplete
  <1>11. CASE StopTimeout(s)
    <2>1. /\ stop[s] # "query" /\ stop[s] # "idle"
          /\ stop' = [stop EXCEPT ![s] = "cancelled"]
          /\ UNCHANGED <<func, start, destroy>>
          /\ stk' = SetPortStateWake(stk, "STOPPING", "STOPPED").stk
      BY <1>11 DEF StopTimeout
    <2>2. Inside' = Inside
      BY <1>0, <2>1, MoveStop
    <2>3. CASE Top(stk) = "STOPPING"
      <3>1. ShutStk(stk)
        <4>1. ~SharedStk(stk, Cardinality(Inside)) /\ ~DrainStk(stk, Cardinality(Inside))
          BY <1>0, <2>3, TopShared, TopDrain
        <4>2. ASSUME NEW x, NEW y \in {"BUSY", "STOPPED", "BUSY_RESUME"}, Two(stk, x, y)
              PROVE  FALSE
          BY <1>0, <2>3, <4>2, TopTwo
        <4>3. \E x : One(stk, x)
          BY <1>0, <4>1, <4>2 DEF ShapeOf, QuietStk
        <4>4. One(stk, "STOPPING")
          BY <1>0, <2>3, <4>3, TopOne
        <4>. QED
          BY <4>4 DEF One, ShutStk
      <3>2. stk' = SetPortState(stk, "STOPPED").stk
        BY <2>1, <2>3 DEF SetPortStateWake
      <3>. QED
        BY <1>0, <1>1, <2>1, <2>2, <3>1, <3>2, StoppedStep
    <2>4. CASE Top(stk) # "STOPPING"
      <3>1. stk' = stk
        BY <2>1, <2>4 DEF SetPortStateWake, Refuse, Answer
      <3>. QED
        BY <1>1, <1>3, <2>1, <3>1 DEF ShutPhases
    <2>. QED
      BY <2>3, <2>4
  <1>12. CASE \E v \in victims : CancelVictim(s, v)
    <2>1. /\ Inside' = Inside
          /\ \A t \in StopIrps : stop'[t] \in ShutPhases => stop[t] \in ShutPhases
          /\ UNCHANGED <<stk, start, destroy>> /\ StartDone
      BY <1>0, <1>1, <1>12 DEF CancelVictim, TypeOK, Inside, ShutPhases
    <2>. QED
      BY <1>0, <2>1, StopStep
  <1>. QED
    BY <1>4, <1>5, <1>6, <1>7, <1>8, <1>9, <1>10, <1>11, <1>12 DEF StopNext

\* A step of the start on a port that nobody stops or destroys yet.
LEMMA StartStep ==
    ASSUME IInv, TypeOK', ~StartDone, UNCHANGED <<stop, destroy>>, Inside' = Inside,
           Shape', stk'[1] # "STOPPED" \/ Len(stk') = 1,
           /\ start' \in {"attached", "built", "lowerPending"} => One(stk', "ATTACHED")
           /\ start' = "building" => Two(stk', "ATTACHED", "BUSY")
           /\ start' \in {"starting", "startPending"} => One(stk', "STARTING")
           /\ start' = "stackReady" => Two(stk', "READY", "BUSY")
           /\ start' \in {"ready", "readyPending"} =>
                 SharedStk(stk', Cardinality(Inside'))
    PROVE  IInv'
  <1>1. destroy = "none" /\ \A s \in StopIrps : stop[s] = "idle"
    BY DEF IInv, StartShape
  <1>2. StartShape'
    BY <1>1 DEF StartShape
  <1>3. StopShape' /\ DestroyShape' /\ DestroyedShape'
    BY <1>1 DEF StopShape, ShutPhases, DestroyShape, DestroyedShape
  <1>. QED
    BY <1>2, <1>3 DEF IInv

\* The shapes of a single state.
LEMMA OneShape ==
    ASSUME NEW s \in Seq(States), NEW I, I = {},
           NEW a \in {"READY", "ATTACHED", "STARTING", "STOPPING", "STOPPED", "REMOVED"},
           One(s, a)
    PROVE  ShapeOf(s, I) /\ (a = "READY" => SharedStk(s, Cardinality(I)))
  <1>0. Cardinality(I) = 0
    BY FS_EmptySet
  <1>1. CASE a = "READY"
    <2>1. SharedStk(s, Cardinality(I))
      BY <1>0, <1>1 DEF One, SharedStk
    <2>. QED
      BY <2>1 DEF ShapeOf
  <1>2. CASE a # "READY"
    BY <1>2 DEF ShapeOf, QuietStk
  <1>. QED
    BY <1>1, <1>2

\* Nobody is inside a port in a state that admits nobody.
LEMMA NotOpen ==
    ASSUME IInv, ~SharedStk(stk, Cardinality(Inside)), Top(stk) # "EXCLUDE_PENDING"
    PROVE  Inside = {}
  BY InsideFinite, TopDrain DEF IInv, TypeOK, Shape, ShapeOf

LEMMA OneTwoNotOpen ==
    ASSUME IInv, NEW a,
           \/ One(stk, a) /\ a \notin {"READY", "EXCLUDE_PENDING"}
           \/ \E b \in {"BUSY", "STOPPED", "BUSY_RESUME"} : Two(stk, a, b)
    PROVE  Inside = {}
  <1>0. stk \in Seq(States) /\ Cardinality(Inside) \in Nat
    BY InsideFinite DEF IInv, TypeOK
  <1>1. ~SharedStk(stk, Cardinality(Inside)) /\ Top(stk) # "EXCLUDE_PENDING"
    BY <1>0, TopOne, TopTwo DEF One, Two, SharedStk
  <1>. QED
    BY <1>1, NotOpen

\* CanContinue for the IRPs of the PnP manager.
LEMMA PnpEnter ==
    ASSUME NEW s \in Seq(States)
    PROVE  /\ One(s, "ATTACHED") =>
                /\ \/ Two(CanContinue(s, "STACK_BUILT", "BUSY").stk, "ATTACHED", "BUSY")
                   \/ CanContinue(s, "STACK_BUILT", "BUSY").ret # "OK"
                /\ One(CanContinue(s, "START", "STARTING").stk, "STARTING")
                /\ Two(CanContinue(s, "STACK_DESTROY", "BUSY").stk, "ATTACHED", "BUSY")
           /\ One(s, "READY") =>
                Two(CanContinue(s, "STACK_READY", "BUSY").stk, "READY", "BUSY")
           /\ One(s, "STOPPED") =>
                \/ Two(CanContinue(s, "STACK_DESTROY", "BUSY").stk, "STOPPED", "BUSY")
                \/ CanContinue(s, "STACK_DESTROY", "BUSY").ret # "OK"
           /\ Two(s, "READY", "BUSY_RESUME") =>
                Two(CanContinue(s, "STACK_DESTROY", "BUSY").stk, "READY", "BUSY")
  <1>0. {"BUSY", "STARTING"} \subseteq States
    BY DEF States
  <1>1. ASSUME One(s, "ATTACHED")
        PROVE  /\ \/ Two(CanContinue(s, "STACK_BUILT", "BUSY").stk, "ATTACHED", "BUSY")
                  \/ CanContinue(s, "STACK_BUILT", "BUSY").ret # "OK"
               /\ One(CanContinue(s, "START", "STARTING").stk, "STARTING")
               /\ Two(CanContinue(s, "STACK_DESTROY", "BUSY").stk, "ATTACHED", "BUSY")
    <2>1. /\ Top(s) = "ATTACHED"
          /\ IsValidSubmit(s, "BUSY") /\ IsValidSubmit(s, "STARTING")
      BY <1>1, TopOne, Targets DEF IsValidSubmit
    <2>2. \A cmd, new : IsValidSubmit(s, new) =>
             CanContinue(s, cmd, new) = HandleAttached(s, cmd, new)
      BY <2>1 DEF CanContinue
    <2>3. /\ HandleAttached(s, "STACK_BUILT", "BUSY") = PushLimited(s, "BUSY")
          /\ HandleAttached(s, "START", "STARTING") = SetPortState(s, "STARTING")
          /\ HandleAttached(s, "STACK_DESTROY", "BUSY") = PushUnlimited(s, "BUSY")
      BY DEF HandleAttached
    <2>4. Two(Append(s, "BUSY"), "ATTACHED", "BUSY")
      BY <1>0, <1>1, PushTwo
    <2>5. One(SetPortState(s, "STARTING").stk, "STARTING")
      BY <1>0, <1>1, SetOne, Targets
    <2>6. /\ \/ CanContinue(s, "STACK_BUILT", "BUSY").stk = Append(s, "BUSY")
             \/ CanContinue(s, "STACK_BUILT", "BUSY").ret # "OK"
          /\ CanContinue(s, "STACK_DESTROY", "BUSY").stk = Append(s, "BUSY")
          /\ CanContinue(s, "START", "STARTING").stk = SetPortState(s, "STARTING").stk
      BY <2>1, <2>2, <2>3 DEF PushLimited, PushUnlimited, Answer
    <2>. QED
      BY <2>4, <2>5, <2>6, Zenon
  <1>2. ASSUME One(s, "READY")
        PROVE  Two(CanContinue(s, "STACK_READY", "BUSY").stk, "READY", "BUSY")
    <2>1. Top(s) = "READY" /\ IsValidSubmit(s, "BUSY")
      BY <1>2, TopOne, Targets DEF IsValidSubmit
    <2>2. CanContinue(s, "STACK_READY", "BUSY") = HandleReady(s, "STACK_READY", "BUSY")
      BY <2>1 DEF CanContinue
    <2>3. HandleReady(s, "STACK_READY", "BUSY") = PushUnlimited(s, "BUSY")
      BY DEF HandleReady
    <2>4. CanContinue(s, "STACK_READY", "BUSY").stk = Append(s, "BUSY")
      BY <2>2, <2>3 DEF PushUnlimited, Answer
    <2>5. Two(Append(s, "BUSY"), "READY", "BUSY")
      BY <1>0, <1>2, PushTwo
    <2>. QED
      BY <2>4, <2>5, Zenon
  <1>3. ASSUME One(s, "STOPPED")
        PROVE  \/ Two(CanContinue(s, "STACK_DESTROY", "BUSY").stk, "STOPPED", "BUSY")
               \/ CanContinue(s, "STACK_DESTROY", "BUSY").ret # "OK"
    <2>1. Top(s) = "STOPPED" /\ IsValidSubmit(s, "BUSY")
      BY <1>3, TopOne, Targets DEF IsValidSubmit
    <2>2. CanContinue(s, "STACK_DESTROY", "BUSY") = HandleStopped(s, "STACK_DESTROY", "BUSY")
      BY <2>1 DEF CanContinue
    <2>3. HandleStopped(s, "STACK_DESTROY", "BUSY") = PushLimited(s, "BUSY")
      BY DEF HandleStopped
    <2>4. \/ CanContinue(s, "STACK_DESTROY", "BUSY").stk = Append(s, "BUSY")
          \/ CanContinue(s, "STACK_DESTROY", "BUSY").ret # "OK"
      BY <2>2, <2>3 DEF PushLimited, Answer
    <2>5. Two(Append(s, "BUSY"), "STOPPED", "BUSY")
      BY <1>0, <1>3, PushTwo
    <2>. QED
      BY <2>4, <2>5, Zenon
  <1>4. ASSUME Two(s, "READY", "BUSY_RESUME")
        PROVE  Two(CanContinue(s, "STACK_DESTROY", "BUSY").stk, "READY", "BUSY")
    <2>1. s # <<>> /\ Top(s) = "BUSY_RESUME" /\ IsValidSubmit(s, "BUSY")
      BY <1>4, TopTwo, Targets DEF IsValidSubmit
    <2>2. CanContinue(s, "STACK_DESTROY", "BUSY") = SetPortState(s, "BUSY")
      BY <2>1 DEF CanContinue, HandleBusyResume
    <2>3. SetPortState(s, "BUSY").stk = SetTop(s, "BUSY")
      BY <1>0, <2>1, SetPortStateDef DEF IsValidSubmit
    <2>4. Two(SetTop(s, "BUSY"), "READY", "BUSY")
      BY <1>0, <1>4, SetTopTwo
    <2>. QED
      BY <2>2, <2>3, <2>4, Zenon
  <1>. QED
    BY <1>1, <1>2, <1>3, <1>4

\* STACK_DESTROY goes on top of a port that is stopped, was never started, or
\* waits for the task that resumes its stop.
LEMMA DestroyBeginStack ==
    ASSUME IInv, StackDestroyBegin
    PROVE  /\ \E x \in {"READY", "ATTACHED", "STOPPED"} : Two(stk', x, "BUSY") /\ stk[1] = x
           /\ \/ One(stk, "ATTACHED") \/ One(stk, "STOPPED")
              \/ Two(stk, "READY", "BUSY_RESUME")
  <1>. DEFINE a == CanContinue(stk, "STACK_DESTROY", "BUSY")
  <1>0. /\ stk \in Seq(States) /\ ShapeOf(stk, Inside) /\ Cardinality(Inside) \in Nat
    BY InsideFinite DEF IInv, TypeOK, Shape
  <1>1. /\ destroy = "none" /\ Top(stk) # "READY" /\ a.ret = "OK" /\ stk' = a.stk
    BY DEF StackDestroyBegin, State
  <1>2. IsValidSubmit(stk, "BUSY")
    BY <1>1 DEF CanContinue, Refuse, Answer
  <1>3. Top(stk) \notin {"STARTING", "STOPPING", "REMOVED", "BUSY", "BUSY_SHARED",
                        "EXCLUDE_PENDING", "STOP_RESUME"}
    BY <1>2, Targets DEF IsValidSubmit
  <1>4. \/ One(stk, "ATTACHED") \/ One(stk, "STOPPED")
        \/ Two(stk, "READY", "BUSY_RESUME")
    <2>1. ~SharedStk(stk, Cardinality(Inside)) /\ ~DrainStk(stk, Cardinality(Inside))
      BY <1>0, <1>1, <1>3, TopShared, TopDrain
    <2>2. ~Two(stk, "STOPPED", "STOPPED")
      BY <1>1 DEF IInv, DestroyedShape, Two
    <2>3. /\ \A x \in {"STARTING", "STOPPING", "REMOVED", "STOP_RESUME"} : ~One(stk, x)
          /\ \A x : ~Two(stk, x, "BUSY")
      BY <1>0, <1>3, TopOne, TopTwo
    <2>. QED
      BY <1>0, <2>1, <2>2, <2>3 DEF ShapeOf, QuietStk
  <1>5. /\ One(stk, "ATTACHED") => Two(stk', "ATTACHED", "BUSY")
        /\ One(stk, "STOPPED") => Two(stk', "STOPPED", "BUSY")
        /\ Two(stk, "READY", "BUSY_RESUME") => Two(stk', "READY", "BUSY")
    BY <1>0, <1>1, PnpEnter
  <1>. QED
    BY <1>4, <1>5 DEF One, Two

\* ... and leaves a STOPPED port REMOVED.
LEMMA DestroyEndStack ==
    ASSUME IInv, StackDestroyEnd
    PROVE  \E x \in {"READY", "ATTACHED", "STOPPED"}, y \in {"BUSY", "STOPPED"} :
              /\ Two(stk, x, y)
              /\ \/ One(stk', IF x = "STOPPED" THEN "REMOVED" ELSE x)
                 \/ stk' = stk
  <1>. DEFINE p == PopState(stk, exclIrp # NoIrp /\ resume # NoIrp)
  <1>0. /\ stk \in Seq(States) /\ {"STOPPED", "REMOVED"} \subseteq States
    BY DEF IInv, TypeOK, States
  <1>1. PICK x \in {"READY", "ATTACHED", "STOPPED"}, y \in {"BUSY", "STOPPED"} :
           Two(stk, x, y)
    BY DEF StackDestroyEnd, IInv, DestroyShape
  <1>2. CASE HasRegPath
    <2>0. stk' = SetPortStateWake(p.stk, "STOPPED", "REMOVED").stk
      BY <1>2 DEF StackDestroyEnd
    <2>1. One(p.stk, x) /\ p.stk \in Seq(States)
      BY <1>0, <1>1, PopTwo, PopStateType
    <2>2. One(stk', IF x = "STOPPED" THEN "REMOVED" ELSE x)
      <3>. HIDE DEF p
      <3>1. Top(p.stk) = x
        BY <2>1, TopOne
      <3>2. CASE x = "STOPPED"
        <4>1. stk' = SetPortState(p.stk, "REMOVED").stk
          BY <2>0, <3>1, <3>2 DEF SetPortStateWake
        <4>2. One(SetPortState(p.stk, "REMOVED").stk, "REMOVED")
          BY <1>0, <2>1, <3>2, SetOne, Targets
        <4>. QED
          BY <3>2, <4>1, <4>2, Zenon
      <3>3. CASE x # "STOPPED"
        <4>1. stk' = p.stk
          BY <2>0, <3>1, <3>3 DEF SetPortStateWake, Refuse, Answer
        <4>. QED
          BY <2>1, <3>3, <4>1, Zenon
      <3>. QED
        BY <3>2, <3>3
    <2>. QED
      BY <1>1, <2>2
  <1>3. CASE ~HasRegPath
    BY <1>1, <1>3 DEF StackDestroyEnd
  <1>. QED
    BY <1>2, <1>3

LEMMA PnpInv ==
    ASSUME IInv, PnpNext
    PROVE  IInv'
  <1>. USE DEF book, track, pnp
  <1>0. /\ TypeOK' /\ TypeOK /\ stk \in Seq(States) /\ stk' \in Seq(States)
        /\ ShapeOf(stk, Inside) /\ IsFiniteSet(Inside) /\ Cardinality(Inside) \in Nat
        /\ Cardinality(Inside) = 0 => Inside = {}
        /\ {"READY", "ATTACHED", "STARTING", "STOPPED"} \subseteq States
    BY PnpType, InsideFinite, FS_EmptySet DEF IInv, TypeOK, Shape, States
  <1>I. ASSUME UNCHANGED <<func, stop>> PROVE Inside' = Inside
    BY <1>I DEF Inside
  \* One state on the stack, before and after, while the port starts.
  <1>A. ASSUME NEW a,
               \/ One(stk, a) /\ a # "READY" /\ a # "EXCLUDE_PENDING"
               \/ \E c \in {"BUSY", "STOPPED", "BUSY_RESUME"} : Two(stk, a, c),
               NEW b \in {"READY", "ATTACHED", "STARTING", "STOPPED"},
               One(stk', b), ~StartDone, UNCHANGED <<func, stop, destroy>>,
               start' \in {"attached", "built", "lowerPending"} => b = "ATTACHED",
               start' \in {"starting", "startPending"} => b = "STARTING",
               start' \in {"ready", "readyPending"} => b = "READY",
               start' \notin {"building", "stackReady"}
        PROVE  IInv'
    <2>1. Inside = {} /\ Inside' = {}
      BY <1>A, <1>I, OneTwoNotOpen
    <2>2. ShapeOf(stk', Inside') /\ (b = "READY" => SharedStk(stk', Cardinality(Inside')))
      BY <1>0, <1>A, <2>1, OneShape
    <2>3. Shape' /\ Len(stk') = 1
      BY <1>A, <2>2 DEF Shape, One
    <2>. QED
      BY <1>0, <1>A, <2>1, <2>2, <2>3, StartStep
  \* The stack is not touched.
  <1>B. ASSUME ~StartDone, UNCHANGED <<stk, func, stop, destroy>>, StartDone'
        PROVE  IInv'
    <2>1. Inside' = Inside /\ Shape'
      BY <1>0, <1>B, <1>I DEF Shape
    <2>2. destroy = "none" /\ (\A s \in StopIrps : stop[s] = "idle")
      BY <1>B DEF IInv, StartShape
    <2>3. StartShape'
      BY <1>B, DoneStart
    <2>4. StopShape' /\ DestroyShape' /\ DestroyedShape'
      BY <1>B, <2>2 DEF IInv, StopShape, ShutPhases, DestroyShape, DestroyedShape
    <2>. QED
      BY <1>0, <2>1, <2>3, <2>4 DEF IInv
  <1>C. ASSUME SharedStk(stk, Cardinality(Inside)) PROVE SetPortState(stk, "STOPPED").stk = stk
    BY <1>0, <1>C, SetShared
  <1>1. CASE StackBuiltBegin
    <2>1. /\ One(stk, "ATTACHED") /\ ~StartDone
          /\ UNCHANGED <<func, stop, destroy>> /\ start' = "building"
          /\ stk' = CanContinue(stk, "STACK_BUILT", "BUSY").stk
          /\ CanContinue(stk, "STACK_BUILT", "BUSY").ret = "OK"
      BY <1>1 DEF StackBuiltBegin, IInv, StartShape, StartDone
    <2>2. \/ Two(CanContinue(stk, "STACK_BUILT", "BUSY").stk, "ATTACHED", "BUSY")
          \/ CanContinue(stk, "STACK_BUILT", "BUSY").ret # "OK"
      BY <1>0, <2>1, PnpEnter
    <2>3. Two(stk', "ATTACHED", "BUSY")
      BY <2>1, <2>2, Zenon
    <2>4. Inside = {} /\ Inside' = {}
      BY <1>I, <2>1, OneTwoNotOpen
    <2>5. Shape' /\ stk'[1] # "STOPPED"
      BY <2>3, <2>4 DEF Shape, ShapeOf, QuietStk, Two
    <2>. QED
      BY <1>0, <2>1, <2>3, <2>4, <2>5, StartStep
  <1>2. CASE StackBuiltEnd
    <2>1. /\ Two(stk, "ATTACHED", "BUSY") /\ ~StartDone
          /\ UNCHANGED <<func, stop, destroy>>
      BY <1>2 DEF StackBuiltEnd, IInv, StartShape, StartDone
    <2>2. CASE HasRegPath
      <3>. DEFINE p == PopState(stk, exclIrp # NoIrp /\ resume # NoIrp)
      <3>1. start' = "built" /\ stk' = p.stk
        BY <1>2, <2>2 DEF StackBuiltEnd, Leave, LeaveFrom
      <3>2. One(p.stk, "ATTACHED")
        BY <1>0, <2>1, PopTwo
      <3>3. One(stk', "ATTACHED")
        BY <3>1, <3>2, Zenon
      <3>. QED
        BY <1>A, <2>1, <3>1, <3>3
    <2>3. CASE ~HasRegPath
      BY <1>2, <1>B, <2>1, <2>3 DEF StackBuiltEnd, StartDone
    <2>. QED
      BY <2>2, <2>3
  <1>3. CASE StartSubmit
    <2>1. /\ One(stk, "ATTACHED") /\ ~StartDone
          /\ UNCHANGED <<func, stop, destroy>>
      BY <1>3 DEF StartSubmit, IInv, StartShape, StartDone
    <2>2. /\ SetPortState(stk, "STOPPED").stk = stk
          /\ One(CanContinue(stk, "START", "STARTING").stk, "STARTING")
      BY <1>0, <2>1, SetOne, Targets, PnpEnter
    <2>3. \/ stk' = stk /\ start' \in {"lowerPending", "failed"}
          \/ stk' = CanContinue(stk, "START", "STARTING").stk /\ start' = "starting"
      BY <1>3, <2>2 DEF StartSubmit, FailStart
    <2>4. \/ One(stk', "ATTACHED") /\ start' \in {"lowerPending", "failed"}
          \/ One(stk', "STARTING") /\ start' = "starting"
      BY <2>1, <2>2, <2>3, Zenon
    <2>. QED
      BY <1>A, <2>1, <2>4
  <1>4. CASE StartSelf
    <2>1. /\ One(stk, "STARTING") /\ ~StartDone
          /\ UNCHANGED <<func, stop, destroy>>
      BY <1>4 DEF StartSelf, IInv, StartShape, StartDone
    <2>2. /\ One(SetPortState(stk, "STOPPED").stk, "STOPPED")
          /\ One(SetPortState(stk, "READY").stk, "READY")
      BY <1>0, <2>1, SetOne, Targets
    <2>3. \/ stk' = stk /\ start' = "startPending"
          \/ stk' = SetPortState(stk, "STOPPED").stk /\ start' = "failed"
          \/ stk' = SetPortState(stk, "READY").stk /\ start' = "ready"
      BY <1>4 DEF StartSelf, FailStart
    <2>4. \/ One(stk', "STARTING") /\ start' = "startPending"
          \/ One(stk', "STOPPED") /\ start' = "failed"
          \/ One(stk', "READY") /\ start' = "ready"
      BY <2>1, <2>2, <2>3, Zenon
    <2>. QED
      BY <1>A, <2>1, <2>4
  <1>5. CASE StackReadyBegin
    <2>. DEFINE a == CanContinue(stk, "STACK_READY", "BUSY")
    <2>1. /\ SharedStk(stk, Cardinality(Inside)) /\ ~StartDone
          /\ UNCHANGED <<func, stop, destroy>>
      BY <1>5 DEF StackReadyBegin, IInv, StartShape, StartDone
    <2>2. CASE a.ret = "OK"
      <3>0. Top(stk) = "READY" /\ Cardinality(Inside) = 0
        <4>1. CASE Top(stk) = "BUSY_SHARED"
          <5>1. ~IsValidSubmit(stk, "BUSY")
            BY <4>1, Targets DEF IsValidSubmit
          <5>2. a.ret # "OK"
            BY <5>1 DEF CanContinue, Refuse, Answer
          <5>. QED
            BY <2>2, <5>2
        <4>. QED
          BY <1>0, <2>1, <4>1, TopShared
      <3>1. One(stk, "READY") /\ Inside = {} /\ Inside' = {}
        BY <1>0, <1>I, <2>1, <3>0 DEF SharedStk, One
      <3>2. stk' = a.stk /\ start' = "stackReady"
        BY <1>5, <2>2 DEF StackReadyBegin
      <3>3. Two(a.stk, "READY", "BUSY")
        BY <1>0, <3>1, PnpEnter
      <3>4. Two(stk', "READY", "BUSY")
        BY <3>2, <3>3, Zenon
      <3>5. Shape' /\ stk'[1] # "STOPPED"
        BY <3>1, <3>4 DEF Shape, ShapeOf, QuietStk, Two
      <3>. QED
        BY <1>0, <2>1, <3>1, <3>2, <3>4, <3>5, StartStep
    <2>3. CASE a.ret # "OK"
      <3>1. stk' = SetPortState(stk, "STOPPED").stk /\ start' = "failed"
        BY <1>5, <2>3 DEF StackReadyBegin, FailStart
      <3>2. UNCHANGED <<stk, func, stop, destroy>> /\ StartDone'
        BY <1>C, <2>1, <3>1 DEF StartDone
      <3>. QED
        BY <1>B, <2>1, <3>2
    <2>. QED
      BY <2>2, <2>3
  <1>6. CASE StackReadyEnd
    <2>. DEFINE p == PopState(stk, exclIrp # NoIrp /\ resume # NoIrp)
    <2>1. /\ Two(stk, "READY", "BUSY") /\ ~StartDone
          /\ UNCHANGED <<func, stop, destroy>> /\ start' = "started" /\ stk' = p.stk
      BY <1>6 DEF StackReadyEnd, Leave, LeaveFrom, IInv, StartShape, StartDone
    <2>2. One(p.stk, "READY")
      BY <1>0, <2>1, PopTwo
    <2>3. One(stk', "READY")
      BY <2>1, <2>2, Zenon
    <2>. QED
      BY <1>A, <2>1, <2>3
  <1>7. CASE PortReady
    <2>1. /\ SharedStk(stk, Cardinality(Inside)) /\ ~StartDone
          /\ UNCHANGED <<func, stop, destroy>>
      BY <1>7 DEF PortReady, IInv, StartShape, StartDone
    <2>2. stk' = stk /\ start' \in {"started", "failed", "readyPending"}
      BY <1>7, <1>C, <2>1 DEF PortReady, FailStart
    <2>3. CASE start' = "readyPending"
      <3>1. Inside' = Inside
        BY <1>I, <2>1
      <3>2. Shape' /\ SharedStk(stk', Cardinality(Inside')) /\ stk'[1] # "STOPPED"
        BY <1>0, <2>1, <2>2, <3>1 DEF Shape, SharedStk
      <3>. QED
        BY <1>0, <2>1, <2>3, <3>1, <3>2, StartStep
    <2>4. CASE start' # "readyPending"
      BY <1>B, <2>1, <2>2, <2>4 DEF StartDone
    <2>. QED
      BY <2>3, <2>4
  <1>8. CASE StartComplete
    <2>1. /\ start \in {"lowerPending", "startPending", "readyPending"} /\ ~StartDone
          /\ UNCHANGED <<func, stop, destroy>>
      BY <1>8 DEF StartComplete, StartDone
    <2>2. CASE start = "readyPending"
      <3>1. SharedStk(stk, Cardinality(Inside))
        BY <2>2 DEF IInv, StartShape
      <3>2. stk' = stk /\ start' \in {"started", "lost"}
        BY <1>8, <1>C, <2>2, <3>1 DEF StartComplete, FailStart
      <3>. QED
        BY <1>B, <2>1, <3>2 DEF StartDone
    <2>3. CASE start = "lowerPending"
      <3>1. One(stk, "ATTACHED") /\ Top(stk) = "ATTACHED"
        BY <1>0, <2>3, TopOne DEF IInv, StartShape
      <3>2. start' = "starting" /\ stk' = SetPortState(stk, "STARTING").stk
        BY <1>8, <2>3, <3>1 DEF StartComplete, State
      <3>3. One(SetPortState(stk, "STARTING").stk, "STARTING")
        BY <1>0, <3>1, SetOne, Targets
      <3>4. One(stk', "STARTING")
        BY <3>2, <3>3, Zenon
      <3>. QED
        BY <1>A, <2>1, <3>1, <3>2, <3>4
    <2>4. CASE start = "startPending"
      <3>1. One(stk, "STARTING") /\ Top(stk) = "STARTING"
        BY <1>0, <2>4, TopOne DEF IInv, StartShape
      <3>2. start' = "starting" /\ stk' = stk
        BY <1>8, <2>4, <3>1 DEF StartComplete, State
      <3>3. One(stk', "STARTING")
        BY <3>1, <3>2, Zenon
      <3>. QED
        BY <1>A, <2>1, <3>1, <3>2, <3>3
    <2>. QED
      BY <2>1, <2>2, <2>3, <2>4
  <1>9. CASE StartCompleteError
    <2>1. /\ start \in {"lowerPending", "startPending", "readyPending"} /\ ~StartDone
          /\ UNCHANGED <<func, stop, destroy>> /\ start' = "failed"
          /\ stk' = SetPortState(IF Top(stk) = "ATTACHED"
                                 THEN SetPortState(stk, "STARTING").stk
                                 ELSE stk, "STOPPED").stk
      BY <1>9 DEF StartCompleteError, FailStart, StartDone, State
    <2>2. CASE start = "readyPending"
      <3>1. SharedStk(stk, Cardinality(Inside)) /\ Top(stk) # "ATTACHED"
        BY <1>0, <2>2, TopShared DEF IInv, StartShape
      <3>2. stk' = stk
        BY <1>C, <2>1, <3>1
      <3>. QED
        BY <1>B, <2>1, <3>2 DEF StartDone
    <2>3. CASE start = "lowerPending"
      <3>. DEFINE s == SetPortState(stk, "STARTING").stk
      <3>1. One(stk, "ATTACHED") /\ Top(stk) = "ATTACHED"
        BY <1>0, <2>3, TopOne DEF IInv, StartShape
      <3>2. One(s, "STARTING") /\ s \in Seq(States)
        BY <1>0, <3>1, SetOne, SetPortStateType, Targets
      <3>3. One(SetPortState(s, "STOPPED").stk, "STOPPED")
        <4>. HIDE DEF s
        <4>. QED
          BY <1>0, <3>2, SetOne, Targets
      <3>4. stk' = SetPortState(s, "STOPPED").stk
        BY <2>1, <3>1
      <3>5. One(stk', "STOPPED")
        BY <3>3, <3>4, Zenon
      <3>. QED
        BY <1>A, <2>1, <3>1, <3>5
    <2>4. CASE start = "startPending"
      <3>1. One(stk, "STARTING") /\ Top(stk) = "STARTING"
        BY <1>0, <2>4, TopOne DEF IInv, StartShape
      <3>2. One(SetPortState(stk, "STOPPED").stk, "STOPPED")
        BY <1>0, <3>1, SetOne, Targets
      <3>3. stk' = SetPortState(stk, "STOPPED").stk
        BY <2>1, <3>1
      <3>4. One(stk', "STOPPED")
        BY <3>2, <3>3, Zenon
      <3>. QED
        BY <1>A, <2>1, <3>1, <3>4
    <2>. QED
      BY <2>1, <2>2, <2>3, <2>4
  <1>10. CASE StartTimeout
    <2>1. /\ start \in {"lowerPending", "startPending", "readyPending"} /\ ~StartDone
          /\ UNCHANGED <<func, stop, destroy>> /\ start' = "failed"
          /\ stk' = SetPortStateWake(stk, "STARTING", "ATTACHED").stk
      BY <1>10 DEF StartTimeout, StartDone
    <2>2. CASE start = "startPending"
      <3>1. One(stk, "STARTING") /\ Top(stk) = "STARTING"
        BY <1>0, <2>2, TopOne DEF IInv, StartShape
      <3>2. stk' = SetPortState(stk, "ATTACHED").stk
        BY <2>1, <3>1 DEF SetPortStateWake
      <3>3. One(SetPortState(stk, "ATTACHED").stk, "ATTACHED")
        BY <1>0, <3>1, SetOne, Targets
      <3>4. One(stk', "ATTACHED")
        BY <3>2, <3>3, Zenon
      <3>. QED
        BY <1>A, <2>1, <3>1, <3>4
    <2>3. CASE start # "startPending"
      <3>1. Top(stk) # "STARTING"
        BY <1>0, <2>1, <2>3, TopOne, TopShared DEF IInv, StartShape
      <3>2. stk' = stk
        BY <2>1, <3>1 DEF SetPortStateWake, Refuse, Answer
      <3>. QED
        BY <1>B, <2>1, <3>2 DEF StartDone
    <2>. QED
      BY <2>2, <2>3
  <1>11. CASE StackDestroyBegin
    <2>1. /\ destroy' = "busy" /\ StartDone /\ UNCHANGED <<start, func, stop>>
      BY <1>11 DEF StackDestroyBegin
    <2>2. /\ \E x \in {"READY", "ATTACHED", "STOPPED"} : Two(stk', x, "BUSY") /\ stk[1] = x
          /\ \/ One(stk, "ATTACHED") \/ One(stk, "STOPPED")
             \/ Two(stk, "READY", "BUSY_RESUME")
      BY <1>11, DestroyBeginStack
    <2>3. Inside = {} /\ Inside' = {}
      BY <1>I, <2>1, <2>2, OneTwoNotOpen
    <2>4. Shape'
      BY <2>2, <2>3 DEF Shape, ShapeOf, QuietStk
    <2>5. StartShape'
      BY <2>1, DoneStart DEF StartDone
    <2>6. StopShape'
      BY <2>1, <2>2 DEF IInv, StopShape, ShutStk, Two
    <2>7. DestroyShape' /\ DestroyedShape'
      BY <2>1, <2>2 DEF DestroyShape, DestroyedShape
    <2>. QED
      BY <1>0, <2>4, <2>5, <2>6, <2>7 DEF IInv
  <1>12. CASE StackDestroyEnd
    <2>1. /\ destroy = "busy" /\ destroy' = "done" /\ StartDone
          /\ UNCHANGED <<start, func, stop>>
      BY <1>12 DEF StackDestroyEnd, IInv, StartShape
    <2>2. PICK x \in {"READY", "ATTACHED", "STOPPED"}, y \in {"BUSY", "STOPPED"} :
             /\ Two(stk, x, y)
             /\ \/ One(stk', IF x = "STOPPED" THEN "REMOVED" ELSE x)
                \/ stk' = stk
      BY <1>12, DestroyEndStack
    <2>3. Inside = {} /\ Inside' = {}
      BY <1>I, <2>1, <2>2, OneTwoNotOpen
    <2>4. StartShape' /\ DestroyShape' /\ DestroyedShape'
      <3>1. StartShape'
        BY <2>1, DoneStart DEF StartDone
      <3>. QED
        BY <2>1, <3>1 DEF DestroyShape, DestroyedShape
    <2>5. Shape'
      <3>1. CASE stk' = stk
        BY <1>0, <2>3, <3>1 DEF Shape
      <3>2. CASE One(stk', IF x = "STOPPED" THEN "REMOVED" ELSE x)
        BY <1>0, <2>3, <3>2, OneShape DEF Shape
      <3>. QED
        BY <2>2, <3>1, <3>2
    <2>6. StopShape'
      BY <2>1, <2>2 DEF IInv, StopShape, ShutStk, One, Two
    <2>. QED
      BY <1>0, <2>4, <2>5, <2>6 DEF IInv
  <1>13. CASE OpenPort
    <2>1. Inside' = Inside /\ UNCHANGED <<stk, start, stop, destroy>>
      BY <1>13 DEF OpenPort, Inside
    <2>. QED
      BY <1>0, <2>1, SameStack
  <1>. QED
    BY <1>1, <1>2, <1>3, <1>4, <1>5, <1>6, <1>7, <1>8, <1>9, <1>10, <1>11, <1>12,
       <1>13 DEF PnpNext

LEMMA InvStep ==
    ASSUME ~FidoPort
    PROVE  IInv /\ [Next]_vars => IInv'
  <1>1. IInv /\ UNCHANGED vars => IInv'
    <2>. SUFFICES ASSUME IInv, UNCHANGED vars PROVE IInv'
      OBVIOUS
    <2>1. TypeOK' /\ Inside' = Inside /\ UNCHANGED <<stk, start, stop, destroy>>
      BY DEF IInv, TypeOK, Inside, vars
    <2>. QED
      BY <2>1, SameStack
  <1>2. \A f \in FuncIrps : ~FidoWritten(f)
    BY DEF FidoWritten
  <1>. QED
    BY <1>1, <1>2, PnpInv, FuncInv, StopInv DEF Next

LEMMA IndInv ==
    ASSUME ~FidoPort
    PROVE  Spec => []IInv
  BY InitInv, InvStep, PTL DEF Spec

-----------------------------------------------------------------------------
(* The theorems.                                                           *)

\* Once a stop has shut the port (STOPPING, STOPPED, REMOVED) no thread is
\* inside OnSubmitIrp or OnQueryStop: CanContinue and PopState together make
\* BUSY_SHARED exclude the stop, with any number of requests, stops and cores,
\* failing or pending starts and cancelled stops included.
THEOREM StopExcludesRequests ==
    ASSUME ~FidoPort
    PROVE  Spec => []StopExclusive
  <1>1. IInv => StopExclusive
    <2>. SUFFICES ASSUME IInv, NEW i \in DOMAIN stk,
                         stk[i] \in {"STOPPING", "STOPPED", "REMOVED"}
                  PROVE  Inside = {}
      BY DEF StopExclusive
    <2>1. Cardinality(Inside) \in Nat /\ stk \in Seq(States)
      BY InsideFinite DEF IInv, TypeOK
    <2>2. i \in Nat /\ 1 <= i /\ i <= Len(stk)
      BY <2>1
    <2>3. ~SharedStk(stk, Cardinality(Inside))
      BY <2>1, <2>2 DEF SharedStk
    <2>4. ~DrainStk(stk, Cardinality(Inside))
      <3>. SUFFICES ASSUME DrainStk(stk, Cardinality(Inside)) PROVE FALSE
        OBVIOUS
      <3>. DEFINE n == Cardinality(Inside)
      <3>1. /\ i = 1 \/ i \in 2..(n + 1) \/ i = n + 2
            /\ stk[1] = "READY" /\ stk[n + 2] = "EXCLUDE_PENDING"
            /\ \A j \in 2..(n + 1) : stk[j] = "BUSY_SHARED"
        BY <2>1, <2>2 DEF DrainStk
      <3>. QED
        BY <3>1
    <2>. QED
      BY <2>3, <2>4 DEF IInv, Shape, ShapeOf
  <1>. QED
    BY <1>1, IndInv, PTL

\* In every shape the BUSY_SHARED entries count the requests inside.
LEMMA ShapeCounts == IInv => BusyMatchesInside
  <1>. SUFFICES ASSUME IInv PROVE BusyMatchesInside
    OBVIOUS
  <1>. DEFINE n == Cardinality(Inside)
              B == {i \in DOMAIN stk : stk[i] = "BUSY_SHARED"}
  <1>0. n \in Nat /\ stk \in Seq(States) /\ ShapeOf(stk, Inside)
    BY InsideFinite DEF IInv, TypeOK, Shape
  <1>1. CASE SharedStk(stk, n) \/ DrainStk(stk, n)
    <2>1. B = 2..(n + 1)
      BY <1>0, <1>1 DEF SharedStk, DrainStk
    <2>2. Cardinality(2..(n + 1)) = n
      BY <1>0, FS_Interval
    <2>. QED
      BY <2>1, <2>2 DEF BusyMatchesInside
  <1>2. CASE QuietStk(stk) /\ Inside = {}
    <2>1. B = {}
      BY <1>0, <1>2 DEF QuietStk, One, Two
    <2>. QED
      BY <1>2, <2>1, FS_EmptySet DEF BusyMatchesInside
  <1>. QED
    BY <1>0, <1>1, <1>2 DEF ShapeOf

\* The BUSY_SHARED entries of the stack are in number the requests inside: every
\* request that CanContinue let in is matched by one PopState, and no PopState
\* takes a state that belongs to another request.
THEOREM StackCountsRequests ==
    ASSUME ~FidoPort
    PROVE  Spec => []BusyMatchesInside
  BY ShapeCounts, IndInv, PTL

\* From the moment a stop is deferred until the port is STOPPED, requests only
\* leave: CanContinue admits none in EXCLUDE_PENDING, BUSY_RESUME, STOP_RESUME
\* or STOPPING.
THEOREM DrainingPortAdmitsNobody == Spec => DrainOnly
  <1>. DEFINE A == (State \in {"EXCLUDE_PENDING", "BUSY_RESUME", "STOP_RESUME", "STOPPING"})
                      => Inside' \subseteq Inside
  <1>1. TypeOK /\ [Next]_vars => [A]_vars
    <2>. SUFFICES ASSUME TypeOK, Next,
                         State \in {"EXCLUDE_PENDING", "BUSY_RESUME", "STOP_RESUME",
                                    "STOPPING"}
                  PROVE  Inside' \subseteq Inside
      OBVIOUS
    <2>. USE DEF book, track, pnp
    <2>0. /\ stk \in Seq(States) /\ Top(stk) \notin {"READY", "BUSY_SHARED"}
          /\ func \in [FuncIrps -> FuncPhases] /\ stop \in [StopIrps -> StopPhases]
      BY DEF TypeOK, State
    <2>1. /\ CanContinue(stk, "FUNC", "BUSY_SHARED").ret # "OK"
          /\ CanContinue(stk, "QUERY_STOP", "BUSY_SHARED").ret # "OK"
      BY <2>0, EnterRefused DEF Refuse, Answer
    <2>2. CASE PnpNext
      <3>1. UNCHANGED <<func, stop>>
        BY <2>2 DEF PnpNext, StackBuiltBegin, StackBuiltEnd, StartSubmit, StartSelf,
           StackReadyBegin, StackReadyEnd, PortReady, StartComplete,
           StartCompleteError, StartTimeout, StackDestroyBegin, StackDestroyEnd,
           OpenPort
      <3>. QED
        BY <3>1 DEF Inside
    <2>3. ASSUME NEW f \in FuncIrps, FuncNext(f) PROVE Inside' \subseteq Inside
      <3>1. stop' = stop /\ \A g \in FuncIrps : func'[g] = "inside" => func[g] = "inside"
        BY <2>0, <2>1, <2>3 DEF FuncNext, FuncSubmit, FuncEnter, FuncLeave, FuncOut,
           FuncDone, FidoWritten
      <3>. QED
        BY <3>1 DEF Inside
    <2>4. ASSUME NEW s \in StopIrps, StopNext(s) PROVE Inside' \subseteq Inside
      <3>1. CASE StopSubmit(s) \/ StopResume(s)
        <4>. DEFINE a == CanContinue(stk, "STOP", "STOPPING")
        <4>1. func' = func /\ stop' = [stop EXCEPT ![s] = AfterTry(a.ret)]
          BY <3>1 DEF StopSubmit, StopResume, TryStop
        <4>2. AfterTry(a.ret) # "query"
          BY DEF AfterTry
        <4>. HIDE DEF a
        <4>. QED
          BY <2>0, <4>1, <4>2 DEF Inside
      <3>2. CASE QueryStopEnter(s)
        BY <2>0, <2>1, <3>2 DEF QueryStopEnter, Inside
      <3>3. CASE ~(StopSubmit(s) \/ StopResume(s) \/ QueryStopEnter(s))
        <4>1. /\ \A g \in FuncIrps : func'[g] = "inside" => func[g] = "inside"
              /\ \A t \in StopIrps : stop'[t] = "query" => stop[t] = "query"
          BY <2>0, <2>4, <3>3 DEF StopNext, QueryStopSubmit, QueryStopLeave,
             QueryStopDone, ResumeSubmit, PreStop, PreStopDone, StopSelf,
             StopComplete, StopTimeout, CancelVictim
        <4>. QED
          BY <4>1 DEF Inside
      <3>. QED
        BY <3>1, <3>2, <3>3
    <2>. QED
      BY <2>2, <2>3, <2>4 DEF Next
  <1>. QED
    BY <1>1, TypeCorrect, PTL DEF Spec, DrainOnly

-----------------------------------------------------------------------------
(* The stop reaches every request.  As long as no timer of a STOP IRP      *)
(* fires (port_stop_timeout shows what happens when one does), one stop    *)
(* owns the STOPPING port from PreStop to the end, and every FUNC IRP that *)
(* is under way is in the port's books, where PreStop finds it.            *)

\* A deferred stop is known to the port.
Armed == Top(stk) = "EXCLUDE_PENDING" => exclIrp # NoIrp /\ resume # NoIrp

Ended == {"STOPPED", "REMOVED"}
StoppingPhases == {"preStop", "cancelling", "stopEx", "stopPending"}

\* One stop at a time holds the port, STOPPING until it is done.
OneStop ==
    /\ \A s \in StopIrps : stop[s] \in StoppingPhases => One(stk, "STOPPING")
    /\ \A s, t \in StopIrps : stop[s] \in ShutPhases /\ stop[t] \in ShutPhases => s = t
    /\ \A s \in StopIrps : stop[s] = "stopped" => stk[1] \in Ended

\* The books: who is under way is tracked, and after PreStop nobody new is.
CutPhases == {"cancelling", "stopEx", "stopPending", "stopped"}
Tracked ==
    /\ \A f \in FuncIrps : func[f] # "idle" => f \in gate \cup victims
    /\ victims # {} => \E s \in StopIrps : stop[s] = "cancelling"
    /\ \A s \in StopIrps : stop[s] \in CutPhases =>
          ~handleMap /\ \A f \in FuncIrps : f \notin gate

\* Nobody uses a port that has never been READY.
Early == {"attached", "building", "built", "lowerPending", "starting", "startPending"}
Unused ==
    /\ start \in {"attached", "building"} => ~handleMap
    /\ start \in Early => ~opened /\ \A f \in FuncIrps : func[f] = "idle"

Answered == stk[1] \in Ended => \A f \in FuncIrps : func[f] # "pending"

BooksInv == Armed /\ OneStop /\ Tracked /\ Unused /\ Answered /\ ~thrown

\* A port that a stop has shut admits nothing and takes no other stop.
LEMMA ShutTop ==
    ASSUME IInv, ShutStk(stk)
    PROVE  /\ stk \in Seq(States) /\ stk # <<>> /\ Inside = {}
           /\ Top(stk) \notin {"READY", "BUSY_SHARED", "EXCLUDE_PENDING", "STOP_RESUME",
                               "BUSY_RESUME"}
  <1>0. /\ stk \in Seq(States) /\ ShapeOf(stk, Inside) /\ Cardinality(Inside) \in Nat
    BY InsideFinite DEF IInv, TypeOK, Shape
  <1>1. ~SharedStk(stk, Cardinality(Inside)) /\ ~DrainStk(stk, Cardinality(Inside))
    BY DEF ShutStk, SharedStk, DrainStk
  <1>2. QuietStk(stk) /\ Inside = {}
    BY <1>0, <1>1 DEF ShapeOf
  <1>3. \/ \E a \in {"STOPPING", "STOPPED", "REMOVED"} : One(stk, a)
        \/ \E b \in {"BUSY", "STOPPED"} : Two(stk, "STOPPED", b)
    BY <1>2 DEF QuietStk, ShutStk, One, Two
  <1>. QED
    BY <1>0, <1>2, <1>3, TopOne, TopTwo

\* Nobody is inside a port whose stop is not deferred and that has no requests.
LEMMA DrainTop ==
    ASSUME NEW s \in Seq(States), NEW I, Cardinality(I) \in Nat, ShapeOf(s, I),
           Top(s) = "EXCLUDE_PENDING"
    PROVE  DrainStk(s, Cardinality(I))
  BY TopShared, TopQuiet DEF ShapeOf

\* An armed PopState does not throw, and a port that resumes its stop is no
\* longer waiting.
LEMMA PopArmed ==
    ASSUME NEW s \in Seq(States), s # <<>>, NEW armed \in BOOLEAN,
           Top(s) = "EXCLUDE_PENDING" => armed
    PROVE  /\ PopState(s, armed).ret # "THROW"
           /\ PopState(s, armed).ret = "RESUME" =>
                 Top(PopState(s, armed).stk) = "BUSY_RESUME"
  <1>1. Below(s) \in Seq(States)
    BY StackOps DEF States
  <1>2. Len(Below(s)) > 1 => Below(Below(s)) \in Seq(States)
    BY <1>1, StackOps DEF States
  <1>3. Len(Below(s)) > 1 => Top(Append(Below(Below(s)), "BUSY_RESUME")) = "BUSY_RESUME"
    BY <1>2 DEF Top, States
  <1>. QED
    BY <1>3 DEF PopState, Answer, Refuse

\* A request that leaves an armed port.
LEMMA LeaveArmed ==
    ASSUME IInv, Armed, NEW x \in Inside, Leave
    PROVE  /\ stk[1] = "READY" /\ stk'[1] = "READY"
           /\ thrown' => thrown
           /\ Armed'
  <1>. DEFINE armed == exclIrp # NoIrp /\ resume # NoIrp
              p == PopState(stk, armed)
  <1>0. /\ stk \in Seq(States) /\ ShapeOf(stk, Inside) /\ Cardinality(Inside) \in Nat
        /\ IsFiniteSet(Inside) /\ armed \in BOOLEAN
    BY InsideFinite DEF IInv, TypeOK, Shape
  <1>1. \/ /\ SharedStk(stk, Cardinality(Inside))
           /\ SharedStk(p.stk, Cardinality(Inside \ {x}))
        \/ /\ DrainStk(stk, Cardinality(Inside))
           /\ ShapeOf(p.stk, Inside \ {x})
           /\ p.stk[1] = "READY"
    BY <1>0, LeaveShape
  <1>2. stk[1] = "READY" /\ p.stk[1] = "READY" /\ stk # <<>>
    BY <1>0, <1>1, TopShared, TopDrain DEF SharedStk, DrainStk
  <1>3. /\ p.ret # "THROW"
        /\ p.ret = "RESUME" => Top(p.stk) = "BUSY_RESUME"
    BY <1>0, <1>2, PopArmed DEF Armed
  <1>4. /\ stk' = p.stk
        /\ thrown' = (thrown \/ p.ret = "THROW")
        /\ p.ret # "RESUME" => UNCHANGED <<exclIrp, resume>>
    BY DEF Leave, LeaveFrom, book
  <1>5. Top(p.stk) = "EXCLUDE_PENDING" => Top(stk) = "EXCLUDE_PENDING"
    <2>1. p.stk \in Seq(States) /\ Cardinality(Inside \ {x}) \in Nat
      BY <1>0, PopStateType, FS_RemoveElement, FS_CardinalityType
    <2>2. SharedStk(p.stk, Cardinality(Inside \ {x})) => Top(p.stk) # "EXCLUDE_PENDING"
      <3>. HIDE DEF p
      <3>. QED
        BY <2>1, TopShared
    <2>3. DrainStk(stk, Cardinality(Inside)) => Top(stk) = "EXCLUDE_PENDING"
      BY <1>0, TopDrain
    <2>. QED
      BY <1>1, <2>2, <2>3
  <1>6. Armed'
    <2>. HIDE DEF p
    <2>. QED
      BY <1>3, <1>4, <1>5 DEF Armed
  <1>. QED
    BY <1>2, <1>3, <1>4, <1>6

LEMMA InitBooks == Init => BooksInv
  <1>. SUFFICES ASSUME Init PROVE BooksInv
    OBVIOUS
  <1>1. stk[1] = "ATTACHED" /\ Top(stk) = "ATTACHED"
    BY DEF Init, Top
  <1>2. Armed /\ OneStop /\ Answered
    BY <1>1 DEF Init, Armed, OneStop, Answered, Ended, StoppingPhases, ShutPhases
  <1>3. Tracked /\ Unused /\ ~thrown
    BY DEF Init, Tracked, CutPhases, Unused
  <1>. QED
    BY <1>2, <1>3 DEF BooksInv

\* The states in which the port waits for a stop to go on.
Waiting == {"EXCLUDE_PENDING", "BUSY_RESUME", "STOP_RESUME", "STOPPING"}

LEMMA SetTopState ==
    ASSUME NEW s \in Seq(States), s # <<>>, NEW new \in States, new # "STOP_RESUME"
    PROVE  SetPortState(s, new).stk = s \/ Top(SetPortState(s, new).stk) = new
  <1>1. /\ SetTop(s, new) \in Seq(States) /\ Len(SetTop(s, new)) = Len(s)
        /\ SetTop(s, new)[Len(s)] = new /\ Len(s) >= 1 /\ Len(s) \in Nat
    BY StackOps
  <1>2. Top(SetTop(s, new)) = new
    BY <1>1, NonEmpty DEF Top
  <1>. QED
    BY <1>2, SetPortStateDef

\* What the PnP manager does to the stack: it stops no port, and leaves one
\* that a stop holds alone.
LEMMA PnpStack ==
    ASSUME IInv, IInv', PnpNext
    PROVE  /\ One(stk, "STOPPING") => stk' = stk
           /\ stk[1] \in Ended => stk'[1] \in Ended
           /\ stk'[1] \in Ended => stk[1] \in Ended \/ start \in Early
           /\ Top(stk') \in Waiting => stk' = stk
  <1>. DEFINE Goal == /\ One(stk, "STOPPING") => stk' = stk
                      /\ stk[1] \in Ended => stk'[1] \in Ended
                      /\ stk'[1] \in Ended => stk[1] \in Ended \/ start \in Early
                      /\ Top(stk') \in Waiting => stk' = stk
  <1>0. /\ stk \in Seq(States) /\ stk' \in Seq(States)
        /\ ShapeOf(stk, Inside) /\ Cardinality(Inside) \in Nat
    BY InsideFinite DEF IInv, TypeOK, Shape
  <1>1. stk' = stk => Goal
    OBVIOUS
  <1>2. ASSUME ~StartDone
        PROVE  ~One(stk, "STOPPING") /\ stk[1] \notin Ended
    BY <1>2, <1>0 DEF IInv, TypeOK, StartShape, StartPhases, StartDone, One, Two, SharedStk,
       Ended
  <1>3. ASSUME NEW a, NEW b, One(stk', a) \/ Two(stk', a, b),
               a \notin Waiting, b \notin Waiting
        PROVE  Top(stk') \notin Waiting /\ stk'[1] = a
    BY <1>0, <1>3, TopOne, TopTwo DEF One, Two
  <1>4. CASE start \in Early
    <2>0. \A new \in {"READY", "ATTACHED", "STARTING", "STOPPED"} : new \in States
      BY DEF States
    <2>1. /\ ~StartDone /\ stk # <<>>
          /\ Top(stk) \in {"ATTACHED", "STARTING", "BUSY"}
      BY <1>0, <1>4, TopOne, TopTwo DEF IInv, StartShape, Early, StartDone
    <2>2. \A s \in Seq(States), new \in {"READY", "ATTACHED", "STARTING", "STOPPED"} :
             s # <<>> => \/ SetPortState(s, new).stk = s
                         \/ Top(SetPortState(s, new).stk) = new
      BY <2>0, SetTopState
    <2>3. /\ start' = "building" => Top(stk') = "BUSY"
          /\ start' \in {"built", "starting"} => Top(stk') \in {"ATTACHED", "STARTING"}
      BY <1>0, TopOne, TopTwo DEF IInv, StartShape
    <2>4. \/ start' \in {"building", "built", "starting"}
          \/ stk' = stk
          \/ Top(stk') \in {"READY", "ATTACHED", "STARTING", "STOPPED"}
      <3>1. CASE StartCompleteError
        <4>. DEFINE s == IF State = "ATTACHED" THEN SetPortState(stk, "STARTING").stk
                                               ELSE stk
        <4>1. s = stk \/ Top(s) = "STARTING"
          BY <1>0, <2>1, <2>2
        <4>2. s \in Seq(States) /\ s # <<>>
          BY <1>0, <2>0, <2>1, <4>1, SetPortStateType DEF Top
        <4>3. stk' = SetPortState(s, "STOPPED").stk
          BY <3>1 DEF StartCompleteError, FailStart
        <4>. HIDE DEF s
        <4>4. stk' = s \/ Top(stk') = "STOPPED"
          BY <2>2, <4>2, <4>3
        <4>. QED
          BY <4>1, <4>4
      <3>2. CASE StartTimeout
        BY <1>0, <2>1, <2>2, <3>2 DEF StartTimeout, SetPortStateWake, Refuse, Answer
      <3>3. CASE StackBuiltBegin \/ StackBuiltEnd \/ StartSubmit \/ StartSelf \/ OpenPort
        BY <1>0, <2>1, <2>2, <3>3 DEF StackBuiltBegin, StackBuiltEnd, StartSubmit,
           StartSelf, OpenPort, FailStart
      <3>4. CASE StartComplete
        BY <1>0, <1>4, <2>1, <2>2, <3>4 DEF StartComplete, FailStart, Early
      <3>5. ~(StackReadyBegin \/ StackReadyEnd \/ PortReady \/ StackDestroyBegin
              \/ StackDestroyEnd)
        BY <1>4, <2>1 DEF StackReadyBegin, StackReadyEnd, PortReady, StackDestroyBegin,
           StackDestroyEnd, Early, IInv, StartShape
      <3>. QED
        BY <3>1, <3>2, <3>3, <3>4, <3>5 DEF PnpNext
    <2>5. Top(stk') \in Waiting => stk' = stk
      BY <2>3, <2>4 DEF Waiting
    <2>. QED
      BY <1>2, <1>4, <2>1, <2>5
  <1>5. CASE start \in {"ready", "readyPending"}
    <2>1. ~StartDone /\ SharedStk(stk, Cardinality(Inside))
      BY <1>5 DEF IInv, StartShape, StartDone
    <2>2. /\ SetPortState(stk, "STOPPED").stk = stk
          /\ Top(stk) \in {"READY", "BUSY_SHARED"}
      BY <1>0, <2>1, SetShared, TopShared
    <2>3. \/ stk' = stk
          \/ start' = "stackReady"
      BY <1>5, <2>1, <2>2 DEF PnpNext, StackBuiltBegin, StackBuiltEnd, StartSubmit,
         StartSelf, StackReadyBegin, StackReadyEnd, PortReady, StartComplete,
         StartCompleteError, StartTimeout, StackDestroyBegin, StackDestroyEnd,
         OpenPort, FailStart, State, SetPortStateWake, Refuse, Answer, StartDone,
         IInv, StartShape
    <2>4. start' = "stackReady" => Two(stk', "READY", "BUSY")
      BY DEF IInv, StartShape
    <2>. QED
      BY <1>1, <1>2, <1>3, <2>1, <2>3, <2>4 DEF Ended, Waiting
  <1>6. CASE start = "stackReady"
    <2>1. ~StartDone /\ Two(stk, "READY", "BUSY")
      BY <1>6 DEF IInv, StartShape, StartDone
    <2>2. StackReadyEnd \/ stk' = stk
      BY <1>6, <2>1 DEF PnpNext, StackBuiltBegin, StackBuiltEnd, StartSubmit,
         StartSelf, StackReadyBegin, PortReady, StartComplete,
         StartCompleteError, StartTimeout, StackDestroyBegin, StackDestroyEnd,
         OpenPort, StartDone, IInv, StartShape
    <2>3. StackReadyEnd => One(stk', "READY")
      <3>. DEFINE p == PopState(stk, exclIrp # NoIrp /\ resume # NoIrp)
      <3>1. One(p.stk, "READY")
        BY <1>0, <2>1, PopTwo
      <3>2. StackReadyEnd => stk' = p.stk
        BY DEF StackReadyEnd, Leave, LeaveFrom
      <3>. QED
        BY <3>1, <3>2, Zenon
    <2>4. StackReadyEnd => Top(stk') \notin Waiting /\ stk'[1] = "READY"
      BY <1>0, <2>3, TopOne DEF One, Waiting
    <2>. QED
      BY <1>1, <1>2, <2>1, <2>2, <2>4 DEF Ended
  <1>7. CASE StartDone
    <2>1. StackDestroyBegin \/ StackDestroyEnd \/ stk' = stk
      BY <1>7 DEF PnpNext, StackBuiltBegin, StackBuiltEnd, StartSubmit,
         StartSelf, StackReadyBegin, StackReadyEnd, PortReady, StartComplete,
         StartCompleteError, StartTimeout, OpenPort, StartDone
    <2>2. CASE StackDestroyBegin
      <3>1. PICK x \in {"READY", "ATTACHED", "STOPPED"} : Two(stk', x, "BUSY") /\ stk[1] = x
        BY <2>2, DestroyBeginStack
      <3>2. ~One(stk, "STOPPING")
        BY <3>1 DEF One
      <3>. QED
        BY <1>3, <3>1, <3>2 DEF Ended, Waiting
    <2>3. CASE StackDestroyEnd
      <3>1. PICK x \in {"READY", "ATTACHED", "STOPPED"}, y \in {"BUSY", "STOPPED"} :
               /\ Two(stk, x, y)
               /\ \/ One(stk', IF x = "STOPPED" THEN "REMOVED" ELSE x)
                  \/ stk' = stk
        BY <2>3, DestroyEndStack
      <3>2. ~One(stk, "STOPPING") /\ stk[1] = x
        BY <3>1 DEF One, Two
      <3>3. CASE One(stk', IF x = "STOPPED" THEN "REMOVED" ELSE x)
        BY <1>3, <3>2, <3>3 DEF Ended, Waiting
      <3>. QED
        BY <1>1, <3>1, <3>3
    <2>. QED
      BY <1>1, <2>1, <2>2, <2>3
  <1>. QED
    BY <1>4, <1>5, <1>6, <1>7 DEF IInv, TypeOK, StartPhases, StartDone, Early

\* The actions of the PnP manager keep the books.
LEMMA PnpBooks ==
    ASSUME IInv, IInv', BooksInv, PnpNext
    PROVE  BooksInv'
  <1>. USE DEF book, track, pnp
  <1>0. TypeOK /\ TypeOK' /\ StartIrp \notin FuncIrps
    BY PortAssumption DEF IInv
  <1>1. /\ One(stk, "STOPPING") => stk' = stk
        /\ stk[1] \in Ended => stk'[1] \in Ended
        /\ stk'[1] \in Ended => stk[1] \in Ended \/ start \in Early
        /\ Top(stk') = "EXCLUDE_PENDING" => stk' = stk
    BY PnpStack DEF Waiting
  <1>2. /\ UNCHANGED <<func, stop, victims>>
        /\ \A f \in FuncIrps : f \in gate' <=> f \in gate
    BY <1>0 DEF PnpNext, StackBuiltBegin, StackBuiltEnd, StartSubmit, StartSelf,
       StackReadyBegin, StackReadyEnd, PortReady, StartComplete,
       StartCompleteError, StartTimeout, StackDestroyBegin, StackDestroyEnd,
       OpenPort, FailStart
  <1>3. Armed' /\ ~thrown'
    <2>1. CASE UNCHANGED <<exclIrp, resume, thrown>>
      BY <1>1, <2>1 DEF BooksInv, Armed
    <2>2. CASE (StackBuiltEnd /\ HasRegPath) \/ StackReadyEnd
      <3>1. Top(stk) = "BUSY" /\ Leave /\ stk # <<>>
        <4>1. \E a : Two(stk, a, "BUSY")
          BY <2>2 DEF IInv, StartShape, StackBuiltEnd, StackReadyEnd
        <4>. QED
          BY <1>0, <2>2, <4>1, TopTwo DEF TypeOK, StackBuiltEnd, StackReadyEnd
      <3>2. PopState(stk, exclIrp # NoIrp /\ resume # NoIrp).ret = "OK"
        BY <3>1 DEF PopState, Answer
      <3>3. UNCHANGED <<exclIrp, resume>> /\ (thrown' => thrown)
        BY <3>1, <3>2 DEF Leave, LeaveFrom
      <3>. QED
        BY <1>1, <3>3 DEF BooksInv, Armed
    <2>. QED
      BY <2>1, <2>2 DEF PnpNext, StackBuiltBegin, StackBuiltEnd, StartSubmit, StartSelf,
         StackReadyBegin, StackReadyEnd, PortReady, StartComplete,
         StartCompleteError, StartTimeout, StackDestroyBegin, StackDestroyEnd, OpenPort
  <1>4. OneStop'
    BY <1>1, <1>2 DEF BooksInv, OneStop
  <1>5. handleMap' => handleMap \/ ~StartDone
    BY DEF PnpNext, StackBuiltBegin, StackBuiltEnd, StartSubmit, StartSelf,
       StackReadyBegin, StackReadyEnd, PortReady, StartComplete, StartDone,
       StartCompleteError, StartTimeout, StackDestroyBegin, StackDestroyEnd, OpenPort
  <1>6. Tracked'
    <2>1. ~StartDone => \A s \in StopIrps : stop[s] \notin CutPhases
      BY DEF IInv, StartShape, CutPhases
    <2>. QED
      BY <1>2, <1>5, <2>1 DEF BooksInv, Tracked
  <1>7. Unused'
    <2>1. CASE OpenPort
      <3>1. start \notin Early
        <4>1. start \in Early => Top(stk) \in {"ATTACHED", "STARTING"} \/ ~handleMap
          BY <1>0, TopOne DEF IInv, StartShape, TypeOK, BooksInv, Unused, Early
        <4>. QED
          BY <2>1, <4>1 DEF OpenPort, State
      <3>. QED
        BY <2>1, <3>1 DEF OpenPort, BooksInv, Unused, Early
    <2>2. CASE ~OpenPort
      <3>1. /\ opened' = opened
            /\ start' \in Early => start \in Early
            /\ start' \in {"attached", "building"} =>
                  /\ start \in {"attached", "building"} /\ (handleMap' => handleMap)
        <4>. USE DEF PnpNext, FailStart, Early
        <4>1. CASE StackBuiltBegin \/ StackBuiltEnd \/ StartSubmit \/ StartSelf
          BY <4>1 DEF StackBuiltBegin, StackBuiltEnd, StartSubmit, StartSelf
        <4>2. CASE StackReadyBegin \/ StackReadyEnd \/ PortReady \/ StartTimeout
                   \/ StackDestroyBegin \/ StackDestroyEnd
          BY <4>2 DEF StackReadyBegin, StackReadyEnd, PortReady, StartTimeout,
             StackDestroyBegin, StackDestroyEnd
        <4>3. CASE StartComplete
          BY <1>0, <4>3 DEF StartComplete
        <4>4. CASE StartCompleteError
          BY <4>4 DEF StartCompleteError
        <4>. QED
          BY <2>2, <4>1, <4>2, <4>3, <4>4
      <3>. QED
        BY <1>2, <3>1 DEF BooksInv, Unused
    <2>. QED
      BY <2>1, <2>2
  <1>8. Answered'
    BY <1>1, <1>2 DEF BooksInv, Answered, Unused
  <1>. QED
    BY <1>3, <1>4, <1>6, <1>7, <1>8 DEF BooksInv

\* Nobody holds a port that is READY underneath, and it owes no more than before.
LEMMA OpenBooks ==
    ASSUME IInv, stk[1] = "READY", stk'[1] = "READY",
           \A t \in StopIrps : stop'[t] \in ShutPhases => stop[t] \in ShutPhases
    PROVE  /\ OneStop' /\ Answered'
           /\ \A t \in StopIrps : stop'[t] \notin ShutPhases
  <1>1. \A t \in StopIrps : stop[t] \notin ShutPhases
    BY DEF IInv, StopShape, ShutStk
  <1>. QED
    BY <1>1 DEF OneStop, Answered, Ended, ShutPhases, StoppingPhases

\* A FUNC IRP enters the books with SubmitIrp and leaves them with its answer.
LEMMA FuncBooks ==
    ASSUME IInv, BooksInv, NEW f \in FuncIrps, FuncNext(f), ~FidoPort
    PROVE  BooksInv'
  <1>. USE DEF book, track, pnp
  <1>0. /\ TypeOK /\ stk \in Seq(States) /\ ShapeOf(stk, Inside)
        /\ IsFiniteSet(Inside) /\ Cardinality(Inside) \in Nat
        /\ func \in [FuncIrps -> FuncPhases]
    BY InsideFinite DEF IInv, TypeOK, Shape
  <1>1. CASE FuncSubmit(f)
    <2>1. /\ func[f] = "idle" /\ opened /\ handleMap
          /\ func' = [func EXCEPT ![f] = "in"] /\ gate' = gate \cup {f}
          /\ UNCHANGED <<stk, exclIrp, resume, victims, handleMap, opened, start, stop,
                         thrown>>
      BY <1>1 DEF FuncSubmit
    <2>2. Armed' /\ OneStop' /\ ~thrown'
      BY <2>1 DEF BooksInv, Armed, OneStop
    <2>3. Tracked'
      BY <1>0, <2>1 DEF BooksInv, Tracked
    <2>4. Unused' /\ Answered'
      BY <1>0, <2>1 DEF BooksInv, Unused, Answered
    <2>. QED
      BY <2>2, <2>3, <2>4 DEF BooksInv
  <1>2. CASE FuncOut(f) \/ FuncDone(f)
    <2>1. /\ func' = [func EXCEPT ![f] = "idle"] /\ gate' = gate \ {f}
          /\ UNCHANGED <<stk, exclIrp, resume, victims, handleMap, opened, start, stop,
                         thrown>>
      BY <1>2 DEF FuncOut, FuncDone
    <2>2. Armed' /\ OneStop' /\ ~thrown'
      BY <2>1 DEF BooksInv, Armed, OneStop
    <2>3. Tracked'
      BY <1>0, <2>1 DEF BooksInv, Tracked
    <2>4. Unused' /\ Answered'
      BY <1>0, <2>1 DEF BooksInv, Unused, Answered
    <2>. QED
      BY <2>2, <2>3, <2>4 DEF BooksInv
  <1>3. ASSUME NEW ph, func[f] # "idle", func' = [func EXCEPT ![f] = ph],
               UNCHANGED <<gate, victims, handleMap, opened, start, stop>>
        PROVE  Tracked' /\ Unused'
    BY <1>0, <1>3 DEF BooksInv, Tracked, Unused
  <1>4. CASE FuncEnter(f)
    <2>. DEFINE a == CanContinue(stk, "FUNC", "BUSY_SHARED")
                ph == IF a.ret = "OK" THEN "inside" ELSE "out"
    <2>1. /\ func[f] = "in" /\ stk' = a.stk /\ func' = [func EXCEPT ![f] = ph]
          /\ UNCHANGED <<exclIrp, resume, gate, victims, handleMap, opened, start, stop,
                         thrown>>
      BY <1>4 DEF FuncEnter
    <2>2. f \notin Inside
      BY <2>1, PortAssumption DEF Inside
    <2>3. \/ /\ SharedStk(stk, Cardinality(Inside))
             /\ SharedStk(a.stk, Cardinality(Inside \cup {f}))
          \/ a.stk = stk
      BY <1>0, <2>2, EnterShape
    <2>. HIDE DEF a
    <2>4. Tracked' /\ Unused'
      BY <1>3, <2>1
    <2>5. CASE stk' = stk
      <3>1. Armed' /\ OneStop' /\ ~thrown'
        BY <2>1, <2>5 DEF BooksInv, Armed, OneStop
      <3>2. Answered'
        BY <1>0, <2>1, <2>5 DEF BooksInv, Answered
      <3>. QED
        BY <2>4, <3>1, <3>2 DEF BooksInv
    <2>6. CASE stk' # stk
      <3>1. /\ SharedStk(stk, Cardinality(Inside))
            /\ SharedStk(stk', Cardinality(Inside \cup {f}))
        BY <2>1, <2>3, <2>6, Zenon
      <3>2. stk[1] = "READY" /\ stk'[1] = "READY"
        BY <3>1 DEF SharedStk
      <3>3. OneStop' /\ Answered'
        BY <2>1, <3>2, OpenBooks
      <3>4. stk' \in Seq(States) /\ Cardinality(Inside \cup {f}) \in Nat
        <4>1. stk' \in Seq(States)
          BY FuncType DEF IInv, TypeOK
        <4>. QED
          BY <1>0, <4>1, FS_AddElement, FS_CardinalityType
      <3>5. Top(stk') # "EXCLUDE_PENDING"
        BY <3>1, <3>4, TopShared
      <3>6. Armed' /\ ~thrown'
        BY <2>1, <3>5 DEF BooksInv, Armed
      <3>. QED
        BY <2>4, <3>3, <3>6 DEF BooksInv
    <2>. QED
      BY <2>5, <2>6
  <1>5. CASE FuncLeave(f)
    <2>1. /\ f \in Inside /\ func[f] = "inside" /\ Leave
          /\ UNCHANGED <<gate, victims, handleMap, opened, start, stop>>
      BY <1>5 DEF FuncLeave, Inside
    <2>2. PICK ph \in {"out", "pending"} : func' = [func EXCEPT ![f] = ph]
      BY <1>5 DEF FuncLeave
    <2>3. /\ stk[1] = "READY" /\ stk'[1] = "READY" /\ Armed' /\ ~thrown'
      BY <2>1, LeaveArmed DEF BooksInv
    <2>4. OneStop' /\ Answered'
      BY <2>1, <2>3, OpenBooks
    <2>5. Tracked' /\ Unused'
      BY <1>3, <2>1, <2>2
    <2>. QED
      BY <2>3, <2>4, <2>5 DEF BooksInv
  <1>6. ~FidoWritten(f)
    BY DEF FidoWritten
  <1>. QED
    BY <1>1, <1>2, <1>4, <1>5, <1>6 DEF FuncNext

\* A step of a stop that changes neither the stack nor the books.
LEMMA PhaseBooks ==
    ASSUME IInv, BooksInv, NEW s \in StopIrps, NEW ph,
           stop' = [stop EXCEPT ![s] = ph],
           ph \notin ShutPhases \/ (ph \in StoppingPhases /\ stop[s] \in StoppingPhases),
           ph \in CutPhases => stop[s] \in CutPhases,
           stop[s] = "cancelling" => victims = {},
           \A f \in FuncIrps : f \in gate' <=> f \in gate,
           UNCHANGED <<stk, exclIrp, resume, victims, handleMap, opened, start, func,
                       thrown>>
    PROVE  BooksInv'
  <1>0. stop \in [StopIrps -> StopPhases]
    BY DEF IInv, TypeOK
  <1>1. Armed' /\ Unused' /\ Answered' /\ ~thrown'
    BY DEF BooksInv, Armed, Unused, Answered
  <1>2. OneStop'
    BY <1>0 DEF BooksInv, OneStop, ShutPhases, StoppingPhases
  <1>3. Tracked'
    BY <1>0 DEF BooksInv, Tracked
  <1>. QED
    BY <1>1, <1>2, <1>3 DEF BooksInv

\* SubmitStopIrp: the port is READY or drained, so no other stop holds it.
LEMMA TryStopBooks ==
    ASSUME IInv, IInv', BooksInv, NEW s \in StopIrps, stop[s] \in {"prep", "resumed"},
           TryStop(s),
           UNCHANGED <<gate, victims, handleMap, opened, start, func, thrown>>
    PROVE  BooksInv'
  <1>. DEFINE a == CanContinue(stk, "STOP", "STOPPING")
  <1>0. /\ stk \in Seq(States) /\ ShapeOf(stk, Inside) /\ IsFiniteSet(Inside)
        /\ Cardinality(Inside) \in Nat /\ (Cardinality(Inside) = 0 => Inside = {})
        /\ stop \in [StopIrps -> StopPhases]
    BY InsideFinite, FS_EmptySet DEF IInv, TypeOK, Shape
  <1>1. /\ stop' = [stop EXCEPT ![s] = AfterTry(a.ret)] /\ stk' = a.stk
        /\ a.ret = "PENDING" => exclIrp' = s /\ resume' = s
        /\ a.ret # "PENDING" => UNCHANGED <<exclIrp, resume>>
    BY DEF TryStop
  <1>2. /\ a.ret = "OK" => AfterTry(a.ret) = "preStop"
        /\ a.ret = "PENDING" => AfterTry(a.ret) = "excl"
        /\ a.ret \notin {"OK", "PENDING"} => AfterTry(a.ret) \in {"again", "refused"}
    BY DEF AfterTry
  <1>3. \/ a.ret = "OK" /\ One(a.stk, "STOPPING") /\ Inside = {}
        \/ a.ret = "PENDING" /\ SharedStk(stk, Cardinality(Inside))
                             /\ DrainStk(a.stk, Cardinality(Inside))
        \/ a.ret \notin {"OK", "PENDING"} /\ a.stk = stk
    BY <1>0, TryShape
  <1>4. ShutStk(stk) => a.stk = stk /\ a.ret = "ERROR_STATE"
    <2>. SUFFICES ASSUME ShutStk(stk) PROVE a = Refuse(stk)
      BY DEF Refuse, Answer
    <2>. QED
      BY <1>0, ShutTop, StopRefused
  <1>. HIDE DEF a
  <1>5. CASE a.ret \notin {"OK", "PENDING"}
    <2>1. /\ stk' = stk /\ UNCHANGED <<exclIrp, resume>>
          /\ AfterTry(a.ret) \in {"again", "refused"}
      BY <1>1, <1>2, <1>3, <1>5
    <2>2. AfterTry(a.ret) \notin ShutPhases \cup CutPhases
      BY <2>1 DEF ShutPhases, CutPhases
    <2>. QED
      BY <1>1, <2>1, <2>2, PhaseBooks
  <1>6. CASE a.ret \in {"OK", "PENDING"}
    <2>0. \A t \in StopIrps : stop[t] \notin ShutPhases
      BY <1>4, <1>6 DEF IInv, StopShape
    <2>1. \A t \in StopIrps : /\ t # s => stop'[t] = stop[t]
                              /\ stop'[s] \in {"preStop", "excl"}
                              /\ stop'[s] = "preStop" => a.ret = "OK"
      BY <1>0, <1>1, <1>2, <1>6
    <2>2. Tracked'
      BY <2>0, <2>1 DEF BooksInv, Tracked, CutPhases, ShutPhases
    <2>3. Unused' /\ ~thrown'
      BY DEF BooksInv, Unused
    <2>4. stk'[1] \notin Ended /\ (a.ret = "OK" => One(stk', "STOPPING"))
      <3>1. \/ One(stk', "STOPPING")
            \/ a.ret = "PENDING" /\ DrainStk(stk', Cardinality(Inside))
        BY <1>1, <1>3, <1>6, Zenon
      <3>. QED
        BY <3>1 DEF One, DrainStk, Ended
    <2>5. OneStop'
      BY <2>0, <2>1, <2>4 DEF OneStop, ShutPhases, StoppingPhases
    <2>6. Answered'
      BY <2>4 DEF Answered
    <2>7. Armed'
      <3>1. a.ret = "OK" => Top(stk') # "EXCLUDE_PENDING"
        <4>1. stk' \in Seq(States)
          BY DEF IInv, TypeOK
        <4>. QED
          BY <2>4, <4>1, TopOne
      <3>. QED
        BY <1>1, <1>6, <3>1, PortAssumption DEF Armed
    <2>. QED
      BY <2>2, <2>3, <2>5, <2>6, <2>7 DEF BooksInv
  <1>. QED
    BY <1>5, <1>6

\* The end of a stop: PreStop has cancelled every FUNC IRP by then.
LEMMA StoppedBooks ==
    ASSUME IInv, IInv', BooksInv, NEW s \in StopIrps, stop[s] \in {"stopEx", "stopPending"},
           stop' = [stop EXCEPT ![s] = "stopped"],
           stk' = SetPortState(stk, "STOPPED").stk,
           UNCHANGED <<exclIrp, resume, gate, victims, handleMap, opened, start, func,
                       thrown>>
    PROVE  BooksInv'
  <1>0. stk \in Seq(States) /\ stk' \in Seq(States) /\ stop \in [StopIrps -> StopPhases]
        /\ "STOPPED" \in States
    BY DEF IInv, TypeOK, States
  <1>1. One(stk, "STOPPING")
    BY DEF BooksInv, OneStop, StoppingPhases
  <1>2. One(SetPortState(stk, "STOPPED").stk, "STOPPED")
    BY <1>0, <1>1, SetOne, Targets
  <1>3. One(stk', "STOPPED")
    BY <1>2, Zenon
  <1>4. Top(stk') # "EXCLUDE_PENDING" /\ stk'[1] = "STOPPED"
    BY <1>0, <1>3, TopOne DEF One
  <1>5. \A t \in StopIrps : t # s => stop[t] \notin ShutPhases
    BY DEF BooksInv, OneStop, ShutPhases
  <1>6. \A t \in StopIrps : /\ t # s => stop'[t] = stop[t]
                            /\ stop'[s] = "stopped"
    BY <1>0
  <1>7. \A f \in FuncIrps : func[f] = "idle"
    <2>1. \A t \in StopIrps : stop[t] # "cancelling"
      BY <1>5 DEF ShutPhases
    <2>. QED
      BY <2>1 DEF BooksInv, Tracked, CutPhases
  <1>8. Armed' /\ Unused' /\ ~thrown'
    BY <1>4 DEF BooksInv, Armed, Unused
  <1>9. OneStop' /\ Answered'
    BY <1>4, <1>5, <1>6, <1>7 DEF OneStop, Answered, Ended, ShutPhases, StoppingPhases
  <1>10. Tracked'
    BY <1>5, <1>6, <1>7 DEF BooksInv, Tracked, CutPhases, ShutPhases
  <1>. QED
    BY <1>8, <1>9, <1>10 DEF BooksInv

LEMMA StopBooks ==
    ASSUME IInv, IInv', BooksInv, NEW s \in StopIrps, StopNext(s), ~StopMayTimeout
    PROVE  BooksInv'
  <1>. USE DEF book, track, pnp
  <1>0. /\ TypeOK /\ stk \in Seq(States) /\ stk' \in Seq(States)
        /\ ShapeOf(stk, Inside) /\ IsFiniteSet(Inside) /\ Cardinality(Inside) \in Nat
        /\ func \in [FuncIrps -> FuncPhases] /\ stop \in [StopIrps -> StopPhases]
        /\ s \notin FuncIrps
    BY InsideFinite, PortAssumption DEF IInv, TypeOK, Shape
  <1>1. CASE QueryStopSubmit(s) \/ QueryStopDone(s)
    <2>1. PICK ph \in {"queryIn", "prep"} : stop' = [stop EXCEPT ![s] = ph]
      BY <1>1 DEF QueryStopSubmit, QueryStopDone
    <2>2. /\ stop[s] # "cancelling"
          /\ \A f \in FuncIrps : f \in gate' <=> f \in gate
          /\ UNCHANGED <<stk, exclIrp, resume, victims, handleMap, opened, start, func,
                         thrown>>
      BY <1>0, <1>1 DEF QueryStopSubmit, QueryStopDone
    <2>3. ph \notin ShutPhases /\ ph \notin CutPhases
      BY DEF ShutPhases, CutPhases
    <2>. QED
      BY <2>1, <2>2, <2>3, PhaseBooks
  <1>2. CASE QueryStopEnter(s)
    <2>. DEFINE a == CanContinue(stk, "QUERY_STOP", "BUSY_SHARED")
                ph == IF a.ret = "OK" THEN "query" ELSE "queryOut"
    <2>1. /\ stop[s] = "queryIn" /\ stk' = a.stk /\ stop' = [stop EXCEPT ![s] = ph]
          /\ UNCHANGED <<exclIrp, resume, gate, victims, handleMap, opened, start, func,
                         thrown>>
      BY <1>2 DEF QueryStopEnter
    <2>2. s \notin Inside
      BY <1>0, <2>1 DEF Inside
    <2>3. \/ /\ SharedStk(stk, Cardinality(Inside))
             /\ SharedStk(a.stk, Cardinality(Inside \cup {s}))
          \/ a.stk = stk
      BY <1>0, <2>2, EnterShape
    <2>4. ph \in {"query", "queryOut"}
      OBVIOUS
    <2>. HIDE DEF a, ph
    <2>5. ph \notin ShutPhases /\ ph \notin CutPhases
      BY <2>4 DEF ShutPhases, CutPhases
    <2>6. CASE stk' = stk
      BY <2>1, <2>5, <2>6, PhaseBooks
    <2>7. CASE stk' # stk
      <3>1. /\ SharedStk(stk, Cardinality(Inside))
            /\ SharedStk(stk', Cardinality(Inside \cup {s}))
        BY <2>1, <2>3, <2>7, Zenon
      <3>2. stk[1] = "READY" /\ stk'[1] = "READY"
        BY <3>1 DEF SharedStk
      <3>3. \A t \in StopIrps : stop'[t] \in ShutPhases => stop[t] \in ShutPhases
        BY <1>0, <2>1, <2>5
      <3>4. OneStop' /\ Answered' /\ \A t \in StopIrps : stop'[t] \notin ShutPhases
        BY <3>2, <3>3, OpenBooks
      <3>5. Cardinality(Inside \cup {s}) \in Nat
        BY <1>0, FS_AddElement, FS_CardinalityType
      <3>6. Top(stk') # "EXCLUDE_PENDING"
        BY <1>0, <3>1, <3>5, TopShared
      <3>7. Armed' /\ Unused' /\ ~thrown'
        BY <2>1, <3>6 DEF BooksInv, Armed, Unused
      <3>8. Tracked'
        <4>1. \A t \in StopIrps : stop[t] \notin ShutPhases
          BY <3>2 DEF IInv, StopShape, ShutStk
        <4>. QED
          BY <2>1, <3>4, <4>1 DEF BooksInv, Tracked, CutPhases, ShutPhases
      <3>. QED
        BY <3>4, <3>7, <3>8 DEF BooksInv
    <2>. QED
      BY <2>6, <2>7
  <1>3. CASE QueryStopLeave(s)
    <2>1. /\ s \in Inside /\ stop[s] = "query" /\ Leave
          /\ UNCHANGED <<gate, victims, handleMap, opened, start, func>>
      BY <1>3 DEF QueryStopLeave, Inside
    <2>2. PICK ph \in {"queryOut", "queryPending"} : stop' = [stop EXCEPT ![s] = ph]
      BY <1>3 DEF QueryStopLeave
    <2>3. /\ stk[1] = "READY" /\ stk'[1] = "READY" /\ Armed' /\ ~thrown'
      BY <2>1, LeaveArmed DEF BooksInv
    <2>4. \A t \in StopIrps : stop'[t] \in ShutPhases => stop[t] \in ShutPhases
      BY <1>0, <2>2 DEF ShutPhases
    <2>5. OneStop' /\ Answered' /\ \A t \in StopIrps : stop'[t] \notin ShutPhases
      BY <2>3, <2>4, OpenBooks
    <2>6. Tracked'
      <3>1. \A t \in StopIrps : stop[t] \notin ShutPhases
        BY <2>3 DEF IInv, StopShape, ShutStk
      <3>. QED
        BY <2>1, <2>5, <3>1 DEF BooksInv, Tracked, CutPhases, ShutPhases
    <2>7. Unused'
      BY <2>1 DEF BooksInv, Unused
    <2>. QED
      BY <2>3, <2>5, <2>6, <2>7 DEF BooksInv
  <1>4. CASE StopSubmit(s) \/ StopResume(s)
    <2>1. /\ stop[s] \in {"prep", "resumed"} /\ TryStop(s)
          /\ UNCHANGED <<gate, victims, handleMap, opened, start, func, thrown>>
      BY <1>4 DEF StopSubmit, StopResume
    <2>. QED
      BY <2>1, TryStopBooks
  <1>5. CASE ResumeSubmit(s)
    <2>. DEFINE a == SetPortState(stk, "STOP_RESUME")
    <2>0. UNCHANGED <<exclIrp, resume, gate, victims, handleMap, opened, start, func, thrown>>
      BY <1>5 DEF ResumeSubmit
    <2>1. CASE stop' = stop /\ stk' = stk
      BY <2>0, <2>1 DEF BooksInv, Armed, OneStop, Tracked, Unused, Answered
    <2>2. CASE stop[s] = "excl"
      <3>1. /\ stk' = a.stk
            /\ stop' = stop \/ stop' = [stop EXCEPT ![s] = "resumed"]
        BY <1>5, <2>2 DEF ResumeSubmit
      <3>2. \/ Two(stk, "READY", "BUSY_RESUME") /\ One(a.stk, "STOP_RESUME")
            \/ a.stk = stk
        BY <1>0, SetStopResume
      <3>. HIDE DEF a
      <3>3. CASE stk' = stk
        <4>1. CASE stop' = [stop EXCEPT ![s] = "resumed"]
          <5>1. "resumed" \notin ShutPhases /\ "resumed" \notin CutPhases
            BY DEF ShutPhases, CutPhases
          <5>. QED
            BY <2>0, <2>2, <3>3, <4>1, <5>1, PhaseBooks
        <4>. QED
          BY <2>1, <3>1, <3>3, <4>1
      <3>4. CASE stk' # stk
        <4>1. Two(stk, "READY", "BUSY_RESUME") /\ One(stk', "STOP_RESUME")
          BY <3>1, <3>2, <3>4, Zenon
        <4>2. Top(stk') # "EXCLUDE_PENDING" /\ stk'[1] \notin Ended /\ stk[1] = "READY"
          BY <1>0, <4>1, TopOne DEF One, Two, Ended
        <4>3. \A t \in StopIrps : stop[t] \notin ShutPhases /\ stop'[t] \notin ShutPhases
          <5>1. \A t \in StopIrps : stop[t] \notin ShutPhases
            BY <4>2 DEF IInv, StopShape, ShutStk
          <5>. QED
            BY <1>0, <3>1, <5>1 DEF ShutPhases
        <4>4. OneStop' /\ Answered'
          BY <4>2, <4>3 DEF OneStop, Answered, ShutPhases, StoppingPhases
        <4>5. Armed' /\ Unused' /\ ~thrown'
          BY <2>0, <4>2 DEF BooksInv, Armed, Unused
        <4>6. Tracked'
          BY <2>0, <4>3 DEF BooksInv, Tracked, CutPhases, ShutPhases
        <4>. QED
          BY <4>4, <4>5, <4>6 DEF BooksInv
      <3>. QED
        BY <3>3, <3>4
    <2>. QED
      BY <1>5, <2>1, <2>2 DEF ResumeSubmit
  <1>6. CASE PreStop(s)
    <2>1. /\ stop[s] = "preStop" /\ stop' = [stop EXCEPT ![s] = "cancelling"]
          /\ ~handleMap' /\ victims' = gate /\ gate' = {}
          /\ UNCHANGED <<stk, exclIrp, resume, opened, start, func, thrown>>
      BY <1>6 DEF PreStop
    <2>2. \A t \in StopIrps : t # s => stop[t] \notin ShutPhases /\ stop'[t] = stop[t]
      BY <1>0, <2>1 DEF BooksInv, OneStop, ShutPhases
    <2>3. stop'[s] = "cancelling" /\ victims = {}
      BY <1>0, <2>1, <2>2 DEF BooksInv, Tracked, ShutPhases
    <2>4. Armed' /\ Unused' /\ Answered' /\ ~thrown'
      BY <2>1 DEF BooksInv, Armed, Unused, Answered
    <2>5. OneStop'
      BY <2>1, <2>2, <2>3 DEF BooksInv, OneStop, ShutPhases, StoppingPhases
    <2>6. Tracked'
      BY <2>1, <2>3 DEF BooksInv, Tracked
    <2>. QED
      BY <2>4, <2>5, <2>6 DEF BooksInv
  <1>7. CASE PreStopDone(s)
    <2>1. /\ stop[s] = "cancelling" /\ stop' = [stop EXCEPT ![s] = "stopEx"]
          /\ victims = {}
          /\ UNCHANGED <<stk, exclIrp, resume, gate, victims, handleMap, opened, start,
                         func, thrown>>
      BY <1>7 DEF PreStopDone
    <2>2. /\ "stopEx" \in StoppingPhases /\ stop[s] \in StoppingPhases
          /\ stop[s] \in CutPhases
      BY <2>1 DEF StoppingPhases, CutPhases
    <2>. QED
      BY <2>1, <2>2, PhaseBooks
  <1>8. CASE StopSelf(s)
    <2>1. stop[s] = "stopEx" /\ Top(stk) = "STOPPING"
      <3>1. stop[s] = "stopEx" /\ One(stk, "STOPPING")
        BY <1>8 DEF StopSelf, BooksInv, OneStop, StoppingPhases
      <3>. QED
        BY <1>0, <3>1, TopOne
    <2>2. UNCHANGED <<exclIrp, resume, gate, victims, handleMap, opened, start, func, thrown>>
      BY <1>8, <2>1 DEF StopSelf, State
    <2>3. CASE stop' = [stop EXCEPT ![s] = "stopPending"] /\ stk' = stk
      <3>1. /\ "stopPending" \in StoppingPhases /\ stop[s] \in StoppingPhases
            /\ stop[s] \in CutPhases /\ stop[s] # "cancelling"
        BY <2>1 DEF StoppingPhases, CutPhases
      <3>. QED
        BY <2>2, <2>3, <3>1, PhaseBooks
    <2>4. CASE /\ stop' = [stop EXCEPT ![s] = "stopped"]
               /\ stk' = SetPortState(stk, "STOPPED").stk
      BY <2>1, <2>2, <2>4, StoppedBooks
    <2>. QED
      BY <1>8, <2>1, <2>3, <2>4 DEF StopSelf, State
  <1>9. CASE StopComplete(s)
    BY <1>9, StoppedBooks DEF StopComplete
  <1>10. CASE \E v \in victims : CancelVictim(s, v)
    <2>1. PICK v \in victims : CancelVictim(s, v)
      BY <1>10
    <2>2. /\ stop[s] = "cancelling" /\ victims' = victims \ {v}
          /\ v \in FuncIrps => func[v] \in {"idle", "pending"}
          /\ func' = IF v \in FuncIrps THEN [func EXCEPT ![v] = "idle"] ELSE func
          /\ UNCHANGED <<stk, exclIrp, resume, gate, handleMap, opened, start, thrown>>
      BY <2>1 DEF CancelVictim
    <2>3. \A t \in StopIrps : \/ stop'[t] = stop[t]
                              \/ stop[t] = "queryPending" /\ stop'[t] = "prep"
      BY <1>0, <2>1 DEF CancelVictim
    <2>4. Armed' /\ Unused' /\ Answered' /\ ~thrown'
      BY <1>0, <2>2 DEF BooksInv, Armed, Unused, Answered
    <2>5. OneStop'
      BY <2>2, <2>3 DEF BooksInv, OneStop, ShutPhases, StoppingPhases
    <2>6. Tracked'
      <3>1. stop'[s] = "cancelling"
        BY <2>2, <2>3
      <3>2. \A f \in FuncIrps : func'[f] # "idle" => f \in gate' \cup victims'
        BY <1>0, <2>2 DEF BooksInv, Tracked
      <3>3. \A t \in StopIrps : stop'[t] \in CutPhases => stop[t] \in CutPhases
        BY <2>3 DEF CutPhases
      <3>. QED
        BY <2>2, <3>1, <3>2, <3>3 DEF BooksInv, Tracked
    <2>. QED
      BY <2>4, <2>5, <2>6 DEF BooksInv
  <1>11. ~StopTimeout(s)
    BY DEF StopTimeout
  <1>. QED
    BY <1>1, <1>2, <1>3, <1>4, <1>5, <1>6, <1>7, <1>8, <1>9, <1>10, <1>11 DEF StopNext

LEMMA BooksStep ==
    ASSUME ~FidoPort, ~StopMayTimeout
    PROVE  IInv /\ IInv' /\ BooksInv /\ [Next]_vars => BooksInv'
  <1>1. BooksInv /\ UNCHANGED vars => BooksInv'
    BY DEF BooksInv, Armed, OneStop, Tracked, Unused, Answered, vars
  <1>. QED
    BY <1>1, PnpBooks, FuncBooks, StopBooks DEF Next

LEMMA BooksKept ==
    ASSUME ~FidoPort, ~StopMayTimeout
    PROVE  Spec => []BooksInv
  BY InitBooks, BooksStep, IndInv, PTL DEF Spec

\* The state machine throws on no path: PopState finds the deferred IRP and its
\* resume point whenever the last request leaves, and SubmitStopIrp finds the
\* port it is stopping still STOPPING after StopEx.
THEOREM PortNeverThrows ==
    ASSUME ~FidoPort, ~StopMayTimeout
    PROVE  Spec => []NeverThrown
  <1>1. BooksInv => NeverThrown
    BY DEF BooksInv, NeverThrown
  <1>. QED
    BY <1>1, BooksKept, PTL

\* A stopped port owes no answer: whichever way requests, stops, failed starts and
\* the destruction of the stack interleave, PreStop finds every FUNC IRP that is
\* pending in the port, and none becomes pending after it.
THEOREM StopAnswersAll ==
    ASSUME ~FidoPort, ~StopMayTimeout
    PROVE  Spec => []NoIrpLeftBehind
  <1>1. BooksInv => NoIrpLeftBehind
    BY DEF BooksInv, Answered, NoIrpLeftBehind, Bottom, Ended
  <1>. QED
    BY <1>1, BooksKept, PTL

-----------------------------------------------------------------------------
(* Somebody goes on with the stop a port waits for.                        *)

\* DeferredStopOwned, and a STOPPING port has the stop that will end it.
Owned ==
    /\ DeferredStopOwned
    /\ State = "STOPPING" => \E s \in StopIrps : stop[s] \in StoppingPhases

\* A request leaves: the stack loses its BUSY_SHARED, and the last one to leave
\* a port whose stop is deferred schedules the resume task.
LEMMA LeaveStack ==
    ASSUME IInv, Armed, NEW x \in Inside, Inside' = Inside \ {x}, Leave
    PROVE  \/ /\ SharedStk(stk, Cardinality(Inside))
              /\ SharedStk(stk', Cardinality(Inside')) /\ UNCHANGED book
           \/ /\ DrainStk(stk, Cardinality(Inside))
              /\ DrainStk(stk', Cardinality(Inside')) /\ UNCHANGED book
           \/ /\ DrainStk(stk, Cardinality(Inside))
              /\ Two(stk', "READY", "BUSY_RESUME") /\ Inside' = {}
              /\ resumeTasks' = resumeTasks \cup {exclIrp}
  <1>. DEFINE armed == exclIrp # NoIrp /\ resume # NoIrp
              p == PopState(stk, armed)
              n == Cardinality(Inside)
  <1>0. /\ stk \in Seq(States) /\ ShapeOf(stk, Inside) /\ n \in Nat
        /\ IsFiniteSet(Inside) /\ armed \in BOOLEAN
    BY InsideFinite DEF IInv, TypeOK, Shape
  <1>1. /\ n >= 1 /\ Cardinality(Inside') = n - 1
        /\ n = 1 => Inside' = {}
    <2>1. IsFiniteSet(Inside \ {x}) /\ Cardinality(Inside \ {x}) = n - 1
      BY <1>0, FS_RemoveElement
    <2>2. Cardinality(Inside \ {x}) \in Nat
      BY <2>1, FS_CardinalityType
    <2>3. n = 1 => Inside \ {x} = {}
      BY <2>1, FS_EmptySet
    <2>. QED
      BY <1>0, <2>1, <2>2, <2>3
  <1>2. /\ stk' = p.stk
        /\ p.ret = "RESUME" => resumeTasks' = resumeTasks \cup {exclIrp}
        /\ p.ret # "RESUME" => UNCHANGED book
    BY DEF Leave, LeaveFrom
  <1>3. CASE SharedStk(stk, n)
    <2>1. p.ret = "OK" /\ SharedStk(p.stk, n - 1)
      BY <1>0, <1>1, <1>3, PopShared
    <2>2. UNCHANGED book /\ SharedStk(stk', n - 1)
      BY <1>2, <2>1, Zenon
    <2>. QED
      BY <1>1, <1>3, <2>2, Zenon
  <1>4. CASE DrainStk(stk, n)
    <2>1. armed
      BY <1>0, <1>4, TopDrain DEF Armed
    <2>2. \/ p.ret = "OK" /\ DrainStk(p.stk, n - 1)
          \/ n = 1 /\ p.ret = "RESUME" /\ Two(p.stk, "READY", "BUSY_RESUME")
      BY <1>0, <1>4, <2>1, PopDrain
    <2>3. CASE p.ret = "OK" /\ DrainStk(p.stk, n - 1)
      <3>1. UNCHANGED book /\ DrainStk(stk', n - 1)
        BY <1>2, <2>3, Zenon
      <3>. QED
        BY <1>1, <1>4, <3>1, Zenon
    <2>4. CASE n = 1 /\ p.ret = "RESUME" /\ Two(p.stk, "READY", "BUSY_RESUME")
      BY <1>1, <1>2, <1>4, <2>4, Zenon
    <2>. QED
      BY <2>2, <2>3, <2>4
  <1>. QED
    BY <1>0, <1>1, <1>3, <1>4, FS_EmptySet DEF ShapeOf

LEMMA LeaveOwned ==
    ASSUME IInv, IInv', Owned, Armed, NEW x \in Inside, Inside' = Inside \ {x}, Leave,
           \A t \in StopIrps : t # x => stop'[t] = stop[t],
           \A t \in StopIrps : t = x => stop[t] = "query"
    PROVE  Owned'
  <1>0. /\ stk \in Seq(States) /\ stk' \in Seq(States)
        /\ Cardinality(Inside) \in Nat /\ Cardinality(Inside') \in Nat
    <2>1. IsFiniteSet(Inside) /\ Cardinality(Inside) \in Nat
      BY InsideFinite
    <2>. QED
      BY <2>1, FS_RemoveElement, FS_CardinalityType DEF IInv, TypeOK
  <1>1. CASE SharedStk(stk', Cardinality(Inside'))
    <2>1. Top(stk') \notin Waiting
      BY <1>0, <1>1, TopShared DEF Waiting
    <2>. QED
      BY <2>1 DEF Owned, DeferredStopOwned, State, Waiting
  <1>2. DrainStk(stk, Cardinality(Inside)) =>
           /\ exclIrp \in StopIrps /\ resume = exclIrp /\ stop[exclIrp] = "excl"
           /\ stop'[exclIrp] = "excl"
    BY <1>0, TopDrain DEF Owned, DeferredStopOwned, State
  <1>3. CASE /\ DrainStk(stk, Cardinality(Inside))
             /\ DrainStk(stk', Cardinality(Inside')) /\ UNCHANGED book
    <2>1. Top(stk') = "EXCLUDE_PENDING"
      BY <1>0, <1>3, TopDrain
    <2>. QED
      BY <1>2, <1>3, <2>1 DEF Owned, DeferredStopOwned, State, book
  <1>4. CASE /\ DrainStk(stk, Cardinality(Inside))
             /\ Two(stk', "READY", "BUSY_RESUME")
             /\ resumeTasks' = resumeTasks \cup {exclIrp}
    <2>1. Top(stk') = "BUSY_RESUME"
      BY <1>0, <1>4, TopTwo
    <2>. QED
      BY <1>2, <1>4, <2>1 DEF Owned, DeferredStopOwned, State
  <1>. QED
    BY <1>1, <1>3, <1>4, LeaveStack

\* A step that leaves the stack and the deferred stops alone.
LEMMA PhaseOwned ==
    ASSUME TypeOK, Owned, UNCHANGED <<stk, exclIrp, resume, resumeTasks>>,
           \A t \in StopIrps : /\ stop[t] = "excl" => stop'[t] = "excl"
                               /\ stop[t] = "resumed" => stop'[t] = "resumed"
                               /\ stop[t] \in StoppingPhases => stop'[t] \in StoppingPhases
    PROVE  Owned'
  <1>1. State' = State
    BY DEF State
  <1>2. State' = "EXCLUDE_PENDING" =>
           exclIrp' \in StopIrps /\ resume' = exclIrp' /\ stop'[exclIrp'] = "excl"
    BY <1>1 DEF Owned, DeferredStopOwned
  <1>3. State' = "BUSY_RESUME" => \E t \in resumeTasks' : stop'[t] = "excl"
    <2>. SUFFICES ASSUME State = "BUSY_RESUME"
                  PROVE  \E t \in resumeTasks : stop'[t] = "excl"
      BY <1>1
    <2>1. PICK t \in resumeTasks : stop[t] = "excl"
      BY DEF Owned, DeferredStopOwned
    <2>. QED
      BY <2>1 DEF TypeOK
  <1>4. /\ State' = "STOP_RESUME" => \E t \in StopIrps : stop'[t] = "resumed"
        /\ State' = "STOPPING" => \E t \in StopIrps : stop'[t] \in StoppingPhases
    BY <1>1 DEF Owned, DeferredStopOwned
  <1>. QED
    BY <1>2, <1>3, <1>4 DEF Owned, DeferredStopOwned

LEMMA PnpOwned ==
    ASSUME IInv, IInv', Owned, PnpNext
    PROVE  Owned'
  <1>. USE DEF book, track, pnp
  <1>0. Top(stk') \in Waiting => stk' = stk
    BY PnpStack
  <1>1. stop' = stop
    BY DEF PnpNext, StackBuiltBegin, StackBuiltEnd, StartSubmit, StartSelf,
       StackReadyBegin, StackReadyEnd, PortReady, StartComplete,
       StartCompleteError, StartTimeout, StackDestroyBegin, StackDestroyEnd, OpenPort
  <1>2. CASE Top(stk') \notin Waiting
    BY <1>2 DEF Owned, DeferredStopOwned, State, Waiting
  <1>3. CASE Top(stk') \in Waiting
    <2>1. Top(stk) \in Waiting
      BY <1>0, <1>3
    <2>2. ~(StackBuiltEnd /\ HasRegPath) /\ ~StackReadyEnd
      <3>1. \A a : ~Two(stk, a, "BUSY")
        BY <2>1, TopTwo DEF IInv, TypeOK, Waiting
      <3>. QED
        BY <3>1 DEF IInv, StartShape, StackBuiltEnd, StackReadyEnd
    <2>3. UNCHANGED <<exclIrp, resume, resumeTasks>>
      BY <2>2 DEF PnpNext, StackBuiltBegin, StackBuiltEnd, StartSubmit, StartSelf,
         StackReadyBegin, PortReady, StartComplete,
         StartCompleteError, StartTimeout, StackDestroyBegin, StackDestroyEnd, OpenPort
    <2>. QED
      BY <1>0, <1>1, <1>3, <2>3, PhaseOwned DEF IInv
  <1>. QED
    BY <1>2, <1>3

LEMMA FuncOwned ==
    ASSUME IInv, IInv', Owned, Armed, NEW f \in FuncIrps, FuncNext(f), ~FidoPort
    PROVE  Owned'
  <1>. USE DEF book, track, pnp
  <1>0. /\ stk \in Seq(States) /\ stk' \in Seq(States) /\ ShapeOf(stk, Inside)
        /\ IsFiniteSet(Inside) /\ Cardinality(Inside) \in Nat
        /\ func \in [FuncIrps -> FuncPhases]
    BY InsideFinite DEF IInv, TypeOK, Shape
  <1>1. CASE FuncSubmit(f) \/ FuncOut(f) \/ FuncDone(f)
    BY <1>1, PhaseOwned DEF IInv, FuncSubmit, FuncOut, FuncDone
  <1>2. CASE FuncEnter(f)
    <2>. DEFINE a == CanContinue(stk, "FUNC", "BUSY_SHARED")
    <2>1. /\ func[f] = "in" /\ stk' = a.stk
          /\ UNCHANGED <<exclIrp, resume, resumeTasks, stop>>
      BY <1>2 DEF FuncEnter
    <2>2. f \notin Inside
      BY <2>1, PortAssumption DEF Inside
    <2>3. \/ SharedStk(a.stk, Cardinality(Inside \cup {f}))
          \/ a.stk = stk
      BY <1>0, <2>2, EnterShape
    <2>. HIDE DEF a
    <2>4. CASE stk' = stk
      BY <2>1, <2>4, PhaseOwned DEF IInv
    <2>5. CASE SharedStk(a.stk, Cardinality(Inside \cup {f}))
      <3>1. Top(stk') \notin Waiting
        BY <1>0, <2>1, <2>5, TopShared, FS_AddElement, FS_CardinalityType DEF Waiting
      <3>. QED
        BY <3>1 DEF Owned, DeferredStopOwned, State, Waiting
    <2>. QED
      BY <2>1, <2>3, <2>4, <2>5
  <1>3. CASE FuncLeave(f)
    <2>1. /\ f \in Inside /\ Leave /\ stop' = stop /\ f \notin StopIrps
      BY <1>3, PortAssumption DEF FuncLeave, Inside
    <2>2. Inside' = Inside \ {f}
      <3>1. PICK ph \in {"out", "pending"} : func' = [func EXCEPT ![f] = ph]
        BY <1>3 DEF FuncLeave
      <3>. QED
        BY <1>0, <2>1, <3>1 DEF Inside
    <2>. QED
      BY <2>1, <2>2, LeaveOwned
  <1>4. ~FidoWritten(f)
    BY DEF FidoWritten
  <1>. QED
    BY <1>1, <1>2, <1>3, <1>4 DEF FuncNext

LEMMA StopOwned ==
    ASSUME IInv, IInv', Owned, BooksInv, NEW s \in StopIrps, StopNext(s), ~StopMayTimeout
    PROVE  Owned'
  <1>. USE DEF book, track, pnp
  <1>0. /\ stk \in Seq(States) /\ stk' \in Seq(States) /\ ShapeOf(stk, Inside)
        /\ IsFiniteSet(Inside) /\ Cardinality(Inside) \in Nat
        /\ (Cardinality(Inside) = 0 => Inside = {})
        /\ stop \in [StopIrps -> StopPhases] /\ s \notin FuncIrps
    BY InsideFinite, PortAssumption, FS_EmptySet DEF IInv, TypeOK, Shape
  <1>1. CASE QueryStopSubmit(s) \/ QueryStopDone(s) \/ PreStop(s) \/ PreStopDone(s)
    BY <1>0, <1>1, PhaseOwned DEF IInv, QueryStopSubmit, QueryStopDone, PreStop, PreStopDone,
       StoppingPhases
  <1>2. CASE \E v \in victims : CancelVictim(s, v)
    BY <1>0, <1>2, PhaseOwned DEF IInv, CancelVictim, StoppingPhases
  <1>3. CASE QueryStopEnter(s)
    <2>. DEFINE a == CanContinue(stk, "QUERY_STOP", "BUSY_SHARED")
    <2>1. /\ stop[s] = "queryIn" /\ stk' = a.stk
          /\ \A t \in StopIrps : t # s => stop'[t] = stop[t]
          /\ UNCHANGED <<exclIrp, resume, resumeTasks>>
      BY <1>0, <1>3 DEF QueryStopEnter
    <2>2. s \notin Inside
      BY <1>0, <2>1 DEF Inside
    <2>3. \/ SharedStk(a.stk, Cardinality(Inside \cup {s}))
          \/ a.stk = stk
      BY <1>0, <2>2, EnterShape
    <2>. HIDE DEF a
    <2>4. CASE stk' = stk
      BY <2>1, <2>4, PhaseOwned DEF IInv, StoppingPhases
    <2>5. CASE SharedStk(a.stk, Cardinality(Inside \cup {s}))
      <3>1. Top(stk') \notin Waiting
        BY <1>0, <2>1, <2>5, TopShared, FS_AddElement, FS_CardinalityType DEF Waiting
      <3>. QED
        BY <3>1 DEF Owned, DeferredStopOwned, State, Waiting
    <2>. QED
      BY <2>1, <2>3, <2>4, <2>5
  <1>4. CASE QueryStopLeave(s)
    <2>1. s \in Inside /\ stop[s] = "query" /\ Leave /\ func' = func
      BY <1>4 DEF QueryStopLeave, Inside
    <2>2. PICK ph \in {"queryOut", "queryPending"} : stop' = [stop EXCEPT ![s] = ph]
      BY <1>4 DEF QueryStopLeave
    <2>3. Inside' = Inside \ {s} /\ \A t \in StopIrps : t # s => stop'[t] = stop[t]
      BY <1>0, <2>1, <2>2 DEF Inside
    <2>. QED
      BY <2>1, <2>3, LeaveOwned DEF BooksInv
  <1>5. CASE StopSubmit(s) \/ StopResume(s)
    <2>. DEFINE a == CanContinue(stk, "STOP", "STOPPING")
    <2>1. /\ stop[s] \in {"prep", "resumed"} /\ stk' = a.stk
          /\ stop' = [stop EXCEPT ![s] = AfterTry(a.ret)]
          /\ a.ret = "PENDING" => exclIrp' = s /\ resume' = s
          /\ a.ret # "PENDING" => UNCHANGED <<exclIrp, resume>>
          /\ UNCHANGED resumeTasks
      BY <1>5 DEF StopSubmit, StopResume, TryStop
    <2>2. /\ a.ret = "OK" => AfterTry(a.ret) = "preStop"
          /\ a.ret = "PENDING" => AfterTry(a.ret) = "excl"
      BY DEF AfterTry
    <2>3. \/ a.ret = "OK" /\ One(a.stk, "STOPPING") /\ Inside = {}
          \/ a.ret = "PENDING" /\ SharedStk(stk, Cardinality(Inside))
                               /\ DrainStk(a.stk, Cardinality(Inside))
          \/ a.ret \notin {"OK", "PENDING"} /\ a.stk = stk
      BY <1>0, TryShape
    <2>4. Top(stk) = "STOP_RESUME" => a.ret = "OK"
      <3>1. Top(stk) = "STOP_RESUME" => One(stk, "STOP_RESUME")
        BY <1>0, TopShared, TopDrain, TopOne, TopTwo DEF ShapeOf, QuietStk
      <3>. QED
        BY <1>0, <3>1, StopResumed
    <2>. HIDE DEF a
    <2>5. CASE a.ret = "OK"
      <3>1. One(stk', "STOPPING")
        BY <2>1, <2>3, <2>5, Zenon
      <3>2. Top(stk') = "STOPPING" /\ stop'[s] = "preStop"
        BY <1>0, <2>1, <2>2, <2>5, <3>1, TopOne
      <3>. QED
        BY <3>2 DEF Owned, DeferredStopOwned, State, StoppingPhases
    <2>6. CASE a.ret = "PENDING"
      <3>1. DrainStk(stk', Cardinality(Inside))
        BY <2>1, <2>3, <2>6, Zenon
      <3>2. Top(stk') = "EXCLUDE_PENDING" /\ stop'[s] = "excl"
        BY <1>0, <2>1, <2>2, <2>6, <3>1, TopDrain
      <3>. QED
        BY <2>1, <2>6, <3>2 DEF Owned, DeferredStopOwned, State
    <2>7. CASE a.ret \notin {"OK", "PENDING"}
      <3>1. /\ UNCHANGED <<stk, exclIrp, resume, resumeTasks>>
            /\ Top(stk) # "STOP_RESUME"
            /\ \A t \in StopIrps : t # s => stop'[t] = stop[t]
        BY <1>0, <2>1, <2>3, <2>4, <2>7
      <3>. QED
        BY <2>1, <3>1 DEF Owned, DeferredStopOwned, State, StoppingPhases
    <2>. QED
      BY <2>5, <2>6, <2>7
  <1>6. CASE ResumeSubmit(s)
    <2>. DEFINE a == SetPortState(stk, "STOP_RESUME")
    <2>0. UNCHANGED <<exclIrp, resume>> /\ resumeTasks' = resumeTasks \ {s}
      BY <1>6 DEF ResumeSubmit
    <2>1. CASE stop[s] # "excl"
      BY <1>6, <2>0, <2>1 DEF ResumeSubmit, Owned, DeferredStopOwned, State
    <2>2. CASE stop[s] = "excl"
      <3>1. /\ stk' = a.stk
            /\ stop' = IF a.ret = "OK" THEN [stop EXCEPT ![s] = "resumed"] ELSE stop
        BY <1>6, <2>2 DEF ResumeSubmit
      <3>2. \/ a.ret = "OK" /\ Two(stk, "READY", "BUSY_RESUME") /\ One(a.stk, "STOP_RESUME")
            \/ a.ret # "OK" /\ a.stk = stk /\ Top(stk) # "BUSY_RESUME"
        BY <1>0, SetStopResume
      <3>. HIDE DEF a
      <3>3. CASE a.ret = "OK"
        <4>1. One(stk', "STOP_RESUME")
          BY <3>1, <3>2, <3>3, Zenon
        <4>2. Top(stk') = "STOP_RESUME" /\ stop'[s] = "resumed"
          BY <1>0, <3>1, <3>3, <4>1, TopOne
        <4>. QED
          BY <4>2 DEF Owned, DeferredStopOwned, State
      <3>4. CASE a.ret # "OK"
        BY <2>0, <3>1, <3>2, <3>4 DEF Owned, DeferredStopOwned, State
      <3>. QED
        BY <3>3, <3>4
    <2>. QED
      BY <2>1, <2>2
  <1>7. CASE StopSelf(s) \/ StopComplete(s)
    <2>1. One(stk, "STOPPING") /\ Top(stk) = "STOPPING"
      <3>1. stop[s] \in StoppingPhases
        BY <1>7 DEF StopSelf, StopComplete, StoppingPhases
      <3>. QED
        BY <1>0, <3>1, TopOne DEF BooksInv, OneStop
    <2>2. CASE stk' = stk /\ stop' = [stop EXCEPT ![s] = "stopPending"]
      <3>1. stop'[s] \in StoppingPhases /\ Top(stk') = "STOPPING"
        BY <1>0, <2>1, <2>2 DEF StoppingPhases
      <3>. QED
        BY <3>1 DEF Owned, DeferredStopOwned, State
    <2>3. CASE stk' = SetPortState(stk, "STOPPED").stk
      <3>1. One(SetPortState(stk, "STOPPED").stk, "STOPPED")
        BY <1>0, <2>1, SetOne, Targets DEF States
      <3>2. Top(stk') = "STOPPED"
        BY <1>0, <2>3, <3>1, TopOne
      <3>. QED
        BY <3>2 DEF Owned, DeferredStopOwned, State
    <2>. QED
      BY <1>7, <2>1, <2>2, <2>3 DEF StopSelf, StopComplete, State
  <1>8. ~StopTimeout(s)
    BY DEF StopTimeout
  <1>. QED
    BY <1>1, <1>2, <1>3, <1>4, <1>5, <1>6, <1>7, <1>8 DEF StopNext

LEMMA OwnedStep ==
    ASSUME ~FidoPort, ~StopMayTimeout
    PROVE  IInv /\ IInv' /\ BooksInv /\ Owned /\ [Next]_vars => Owned'
  <1>1. Owned /\ UNCHANGED vars => Owned'
    BY DEF Owned, DeferredStopOwned, State, vars
  <1>2. BooksInv => Armed
    BY DEF BooksInv
  <1>. QED
    BY <1>1, <1>2, PnpOwned, FuncOwned, StopOwned DEF Next

LEMMA OwnedKept ==
    ASSUME ~FidoPort, ~StopMayTimeout
    PROVE  Spec => []Owned
  <1>1. Init => Owned
    BY DEF Init, Owned, DeferredStopOwned, State, Top
  <1>. QED
    BY <1>1, OwnedStep, IndInv, BooksKept, PTL DEF Spec

\* No port is stuck: as long as no timer cancels a STOP IRP, whatever defers a
\* stop has an IRP, or a scheduled resume task, that will go on with it.  (The
\* run port_stop_timeout shows that the timer breaks this.)
THEOREM DeferredStopHasOwner ==
    ASSUME ~FidoPort, ~StopMayTimeout
    PROVE  Spec => []DeferredStopOwned
  <1>1. Owned => DeferredStopOwned
    BY DEF Owned
  <1>. QED
    BY <1>1, OwnedKept, PTL

-----------------------------------------------------------------------------
(* The port implements the gate of IoGate.  OnPortReady neither fails nor  *)
(* pends here: a start that fails on a READY port leaves the start/stop    *)
(* queue, and the stack may then be destroyed under a deferred stop.       *)

Active(s) == stop[s] \notin {"idle"} \cup StopEnds

\* The start/stop queue at work: one stop at a time on a port that has started,
\* and a port is destroyed, or refuses a stop, only when it has been stopped.
Serial ==
    /\ start # "readyPending"
    /\ start \in {"failed", "lost"} => stk[1] \in {"ATTACHED"} \cup Ended
    /\ start = "started" => /\ stk[1] \in {"READY", "STOP_RESUME", "STOPPING"} \cup Ended
                            /\ ~Two(stk, "READY", "BUSY")
    /\ start = "started" => /\ \A s, t \in StopIrps : Active(s) /\ Active(t) => s = t
                            /\ \A s \in StopIrps : stop[s] = "refused" => stk[1] \in Ended
                            /\ destroy # "none" => stk[1] \in Ended
    /\ \A s \in StopIrps : stop[s] # "cancelled"

\* How a start that has not reached READY goes on.
LEMMA EarlyStack ==
    ASSUME IInv, IInv', PnpNext, start \in Early
    PROVE  \/ start' \in Early /\ stk'[1] \in {"ATTACHED", "STARTING"}
           \/ start' = "ready" /\ One(stk', "READY")
           \/ start' = "failed" /\ \/ \E a \in {"ATTACHED", "STOPPED"} : One(stk', a)
                                   \/ Two(stk', "ATTACHED", "BUSY")
  <1>. USE DEF book, track, pnp
  <1>0. /\ stk \in Seq(States) /\ stk' \in Seq(States)
        /\ {"READY", "ATTACHED", "STARTING", "STOPPED"} \subseteq States
    BY DEF IInv, TypeOK, States
  <1>1. start' \in Early => stk'[1] \in {"ATTACHED", "STARTING"}
    BY DEF IInv, StartShape, Early, One, Two
  <1>2. /\ start \in {"attached", "built", "lowerPending"} =>
              One(stk, "ATTACHED") /\ Top(stk) = "ATTACHED"
        /\ start = "building" => Two(stk, "ATTACHED", "BUSY")
        /\ start \in {"starting", "startPending"} =>
              One(stk, "STARTING") /\ Top(stk) = "STARTING"
    BY <1>0, TopOne DEF IInv, StartShape
  <1>3. /\ One(stk, "ATTACHED") => /\ SetPortState(stk, "STOPPED").stk = stk
                                   /\ One(SetPortState(stk, "STARTING").stk, "STARTING")
        /\ One(stk, "STARTING") => /\ One(SetPortState(stk, "STOPPED").stk, "STOPPED")
                                   /\ One(SetPortState(stk, "READY").stk, "READY")
                                   /\ One(SetPortState(stk, "ATTACHED").stk, "ATTACHED")
    BY <1>0, SetOne, Targets
  <1>4. CASE StackBuiltBegin \/ OpenPort
    BY <1>1, <1>4 DEF StackBuiltBegin, OpenPort, Early
  <1>5. CASE StackBuiltEnd
    BY <1>1, <1>2, <1>5 DEF StackBuiltEnd, Early
  <1>6. CASE StartSubmit
    BY <1>1, <1>2, <1>3, <1>6 DEF StartSubmit, FailStart, Early
  <1>7. CASE StartSelf
    <2>1. \/ start' = "startPending"
          \/ start' = "failed" /\ stk' = SetPortState(stk, "STOPPED").stk
          \/ start' = "ready" /\ stk' = SetPortState(stk, "READY").stk
      BY <1>7 DEF StartSelf, FailStart
    <2>2. One(stk, "STARTING")
      BY <1>2, <1>7 DEF StartSelf
    <2>3. \/ start' = "startPending"
          \/ start' = "failed" /\ One(stk', "STOPPED")
          \/ start' = "ready" /\ One(stk', "READY")
      BY <1>3, <2>1, <2>2, Zenon
    <2>. QED
      BY <1>1, <2>3 DEF Early
  <1>8. CASE StartComplete
    <2>1. start' = "starting"
      BY <1>2, <1>8 DEF StartComplete, State, Early
    <2>. QED
      BY <1>1, <2>1 DEF Early
  <1>9. CASE StartCompleteError
    <2>. DEFINE s == IF Top(stk) = "ATTACHED" THEN SetPortState(stk, "STARTING").stk
                                              ELSE stk
    <2>1. One(s, "STARTING") /\ s \in Seq(States)
      <3>1. One(stk, "ATTACHED") \/ One(stk, "STARTING")
        BY <1>2, <1>9 DEF StartCompleteError, Early
      <3>2. s \in Seq(States)
        BY <1>0, SetPortStateType
      <3>. QED
        BY <1>0, <1>3, <3>1, <3>2, TopOne
    <2>2. start' = "failed" /\ stk' = SetPortState(s, "STOPPED").stk
      BY <1>9 DEF StartCompleteError, FailStart, State
    <2>. HIDE DEF s
    <2>3. One(SetPortState(s, "STOPPED").stk, "STOPPED")
      BY <1>0, <2>1, SetOne, Targets
    <2>4. One(stk', "STOPPED")
      BY <2>2, <2>3, Zenon
    <2>. QED
      BY <2>2, <2>4
  <1>10. CASE StartTimeout
    <2>1. /\ start' = "failed"
          /\ stk' = IF Top(stk) = "STARTING" THEN SetPortState(stk, "ATTACHED").stk ELSE stk
      BY <1>10 DEF StartTimeout, SetPortStateWake, Refuse, Answer
    <2>2. start \in {"lowerPending", "startPending"}
      BY <1>10 DEF StartTimeout, Early
    <2>3. One(stk', "ATTACHED")
      <3>1. CASE start = "lowerPending"
        BY <1>2, <2>1, <3>1, Zenon
      <3>2. CASE start = "startPending"
        BY <1>2, <1>3, <2>1, <3>2, Zenon
      <3>. QED
        BY <2>2, <3>1, <3>2
    <2>. QED
      BY <2>1, <2>3
  <1>11. ~(StackReadyBegin \/ StackReadyEnd \/ PortReady \/ StackDestroyBegin
           \/ StackDestroyEnd)
    BY DEF StackReadyBegin, StackReadyEnd, PortReady, StackDestroyBegin,
       StackDestroyEnd, Early, IInv, StartShape, StartDone
  <1>. QED
    BY <1>4, <1>5, <1>6, <1>7, <1>8, <1>9, <1>10, <1>11 DEF PnpNext

\* ... and one that has, when OnPortReady succeeds.
LEMMA ReadyStack ==
    ASSUME IInv, IInv', PnpNext, ~ReadyMayFail, ~ReadyMayPend,
           start \in {"ready", "stackReady"}
    PROVE  /\ start' \in {"ready", "stackReady", "started"}
           /\ stk' = stk \/ One(stk', "READY") \/ Two(stk', "READY", "BUSY")
           /\ start = "stackReady" /\ start' = "started" => One(stk', "READY")
           /\ UNCHANGED <<stop, destroy>>
  <1>. USE DEF book, track, pnp
  <1>0. stk \in Seq(States) /\ ~StartDone
    BY DEF IInv, TypeOK, StartDone
  <1>1. CASE StackReadyBegin
    <2>1. start' = "stackReady" /\ start = "ready" /\ UNCHANGED <<stop, destroy>>
      BY <1>1 DEF StackReadyBegin
    <2>. QED
      BY <2>1 DEF IInv, StartShape
  <1>2. CASE StackReadyEnd
    <2>. DEFINE p == PopState(stk, exclIrp # NoIrp /\ resume # NoIrp)
    <2>1. /\ Two(stk, "READY", "BUSY") /\ start' = "started" /\ stk' = p.stk
          /\ UNCHANGED <<stop, destroy>>
      BY <1>2 DEF StackReadyEnd, Leave, LeaveFrom, IInv, StartShape
    <2>2. One(p.stk, "READY")
      BY <1>0, <2>1, PopTwo
    <2>3. One(stk', "READY")
      BY <2>1, <2>2, Zenon
    <2>. QED
      BY <2>1, <2>3
  <1>3. CASE PortReady
    BY <1>3 DEF PortReady
  <1>4. CASE OpenPort
    BY <1>4 DEF OpenPort
  <1>5. ~(StackBuiltBegin \/ StackBuiltEnd \/ StartSubmit \/ StartSelf \/ StartComplete
          \/ StartCompleteError \/ StartTimeout \/ StackDestroyBegin \/ StackDestroyEnd)
    BY <1>0 DEF StackBuiltBegin, StackBuiltEnd, StartSubmit, StartSelf, StartComplete,
       StartCompleteError, StartTimeout, StackDestroyBegin, StackDestroyEnd, IInv, StartShape
  <1>. QED
    BY <1>1, <1>2, <1>3, <1>4, <1>5 DEF PnpNext

\* The stack is destroyed when the port has stopped or has never started.
LEMMA DoneStack ==
    ASSUME IInv, BooksInv, Serial, PnpNext, StartDone
    PROVE  /\ start' = start /\ stop' = stop
           /\ \/ stk' = stk
              \/ \E x \in {"ATTACHED", "STOPPED"} :
                    /\ One(stk, x) /\ Two(stk', x, "BUSY")
              \/ \E x \in {"READY", "ATTACHED", "STOPPED"}, y \in {"BUSY", "STOPPED"} :
                    /\ Two(stk, x, y)
                    /\ One(stk', IF x = "STOPPED" THEN "REMOVED" ELSE x)
           /\ destroy' # "none" => destroy # "none" \/ start # "started" \/ stk[1] \in Ended
  <1>. USE DEF book, track, pnp
  <1>1. \/ stk' = stk /\ UNCHANGED <<start, stop, destroy>>
        \/ StackDestroyBegin \/ StackDestroyEnd
    BY DEF PnpNext, StackBuiltBegin, StackBuiltEnd, StartSubmit, StartSelf,
       StackReadyBegin, StackReadyEnd, PortReady, StartComplete,
       StartCompleteError, StartTimeout, OpenPort, StartDone
  <1>2. CASE StackDestroyBegin
    <2>0. /\ \/ start \in {"failed", "lost"}
             \/ \E s \in StopIrps : stop[s] \in {"stopped", "cancelled", "refused"}
          /\ UNCHANGED <<start, stop>>
      BY <1>2 DEF StackDestroyBegin
    <2>1. start = "started" => stk[1] \in Ended
      BY <2>0 DEF BooksInv, OneStop, Serial
    <2>2. /\ \E x \in {"READY", "ATTACHED", "STOPPED"} : Two(stk', x, "BUSY") /\ stk[1] = x
          /\ \/ One(stk, "ATTACHED") \/ One(stk, "STOPPED")
             \/ Two(stk, "READY", "BUSY_RESUME")
      BY <1>2, DestroyBeginStack
    <2>3. stk[1] \in {"ATTACHED"} \cup Ended
      BY <2>1 DEF Serial, StartDone
    <2>4. ~Two(stk, "READY", "BUSY_RESUME")
      BY <2>3 DEF Two, Ended
    <2>5. \E x \in {"ATTACHED", "STOPPED"} : One(stk, x) /\ Two(stk', x, "BUSY")
      BY <2>2, <2>4 DEF One
    <2>. QED
      BY <2>0, <2>1, <2>5
  <1>3. CASE StackDestroyEnd
    BY <1>3, DestroyEndStack DEF StackDestroyEnd
  <1>. QED
    BY <1>1, <1>2, <1>3

LEMMA PnpSerial ==
    ASSUME IInv, IInv', BooksInv, Serial, PnpNext, ~ReadyMayFail, ~ReadyMayPend
    PROVE  Serial'
  <1>0. start \in StartPhases
    BY DEF IInv, TypeOK
  <1>1. CASE start \in Early
    <2>1. /\ start' \notin {"readyPending", "lost", "started"}
          /\ start' = "failed" => stk'[1] \in {"ATTACHED", "STOPPED"}
      BY <1>1, EarlyStack DEF Early, One, Two
    <2>2. stop' = stop
      BY DEF PnpNext, StackBuiltBegin, StackBuiltEnd, StartSubmit, StartSelf,
         StackReadyBegin, StackReadyEnd, PortReady, StartComplete,
         StartCompleteError, StartTimeout, StackDestroyBegin, StackDestroyEnd, OpenPort
    <2>. QED
      BY <2>1, <2>2 DEF Serial, Ended
  <1>2. CASE start \in {"ready", "stackReady"}
    <2>1. /\ start' \in {"ready", "stackReady", "started"}
          /\ stk' = stk \/ One(stk', "READY") \/ Two(stk', "READY", "BUSY")
          /\ start = "stackReady" /\ start' = "started" => One(stk', "READY")
          /\ UNCHANGED <<stop, destroy>>
      BY <1>2, ReadyStack
    <2>2. destroy = "none" /\ \A s \in StopIrps : stop[s] = "idle"
      BY <1>2 DEF IInv, StartShape, StartDone
    <2>3. start' = "started" => stk'[1] = "READY" /\ ~Two(stk', "READY", "BUSY")
      <3>1. CASE start = "stackReady"
        BY <2>1, <3>1 DEF One, Two
      <3>2. CASE start = "ready"
        <4>1. SharedStk(stk, Cardinality(Inside)) /\ Cardinality(Inside) \in Nat
          BY <3>2, InsideFinite DEF IInv, StartShape
        <4>2. start' = "started" => stk' = stk
          BY <3>2 DEF PnpNext, StackBuiltBegin, StackBuiltEnd, StartSubmit, StartSelf,
             StackReadyBegin, StackReadyEnd, PortReady, StartComplete, FailStart,
             StartCompleteError, StartTimeout, StackDestroyBegin, StackDestroyEnd,
             OpenPort, pnp, StartDone
        <4>. QED
          BY <4>1, <4>2 DEF SharedStk, Two
      <3>. QED
        BY <1>2, <3>1, <3>2
    <2>. QED
      BY <2>1, <2>2, <2>3 DEF Serial, Active
  <1>3. CASE StartDone
    <2>1. /\ start' = start /\ stop' = stop
          /\ \/ stk' = stk
             \/ \E x \in {"ATTACHED", "STOPPED"} :
                   /\ One(stk, x) /\ Two(stk', x, "BUSY")
             \/ \E x \in {"READY", "ATTACHED", "STOPPED"}, y \in {"BUSY", "STOPPED"} :
                   /\ Two(stk, x, y)
                   /\ One(stk', IF x = "STOPPED" THEN "REMOVED" ELSE x)
          /\ destroy' # "none" => destroy # "none" \/ start # "started" \/ stk[1] \in Ended
      BY <1>3, DoneStack
    <2>2. /\ stk'[1] = stk[1] \/ (stk[1] = "STOPPED" /\ stk'[1] = "REMOVED")
          /\ ~Two(stk, "READY", "BUSY") => ~Two(stk', "READY", "BUSY")
      BY <2>1 DEF One, Two
    <2>. QED
      BY <2>1, <2>2 DEF Serial, Ended, Active
  <1>. QED
    BY <1>0, <1>1, <1>2, <1>3 DEF StartPhases, StartDone, Early, Serial

\* A step that changes neither the bottom of the stack nor who is stopping.
LEMMA SameSerial ==
    ASSUME Serial, UNCHANGED <<start, destroy>>, stk'[1] = stk[1],
           ~Two(stk', "READY", "BUSY") \/ stk' = stk,
           \A t \in StopIrps : /\ Active(t)' => Active(t)
                               /\ stop'[t] = "refused" => stop[t] = "refused"
                               /\ stop'[t] # "cancelled"
    PROVE  Serial'
  BY DEF Serial

LEMMA SharedBottom ==
    ASSUME NEW q, NEW n \in Nat, SharedStk(q, n)
    PROVE  q[1] = "READY" /\ ~Two(q, "READY", "BUSY")
  BY DEF SharedStk, Two

LEMMA DrainBottom ==
    ASSUME NEW q, NEW n \in Nat, DrainStk(q, n)
    PROVE  q[1] = "READY" /\ ~Two(q, "READY", "BUSY")
  BY DEF DrainStk, Two

LEMMA ResumeBottom ==
    ASSUME NEW q, Two(q, "READY", "BUSY_RESUME")
    PROVE  q[1] = "READY" /\ ~Two(q, "READY", "BUSY")
  BY DEF Two

LEMMA FuncSerial ==
    ASSUME IInv, Armed, Serial, NEW f \in FuncIrps, FuncNext(f), ~FidoPort
    PROVE  Serial'
  <1>. USE DEF book, track, pnp
  <1>0. /\ stk \in Seq(States) /\ ShapeOf(stk, Inside)
        /\ IsFiniteSet(Inside) /\ Cardinality(Inside) \in Nat
        /\ func \in [FuncIrps -> FuncPhases]
    BY InsideFinite DEF IInv, TypeOK, Shape
  <1>1. UNCHANGED <<start, destroy, stop>>
    BY DEF FuncNext, FuncSubmit, FuncEnter, FuncLeave, FuncOut, FuncDone, FidoWritten
  <1>2. \A t \in StopIrps : /\ Active(t)' => Active(t)
                            /\ stop'[t] = "refused" => stop[t] = "refused"
                            /\ stop'[t] # "cancelled"
    BY <1>1 DEF Active, Serial
  <1>3. \/ stk' = stk
        \/ stk'[1] = stk[1] /\ ~Two(stk', "READY", "BUSY")
    <2>1. CASE FuncSubmit(f) \/ FuncOut(f) \/ FuncDone(f)
      BY <2>1 DEF FuncSubmit, FuncOut, FuncDone
    <2>2. CASE FuncEnter(f)
      <3>. DEFINE a == CanContinue(stk, "FUNC", "BUSY_SHARED")
      <3>1. func[f] = "in" /\ stk' = a.stk
        BY <2>2 DEF FuncEnter
      <3>2. f \notin Inside
        BY <3>1, PortAssumption DEF Inside
      <3>3. \/ /\ SharedStk(stk, Cardinality(Inside))
               /\ SharedStk(a.stk, Cardinality(Inside \cup {f}))
            \/ a.stk = stk
        BY <1>0, <3>2, EnterShape
      <3>4. Cardinality(Inside \cup {f}) \in Nat
        BY <1>0, FS_AddElement, FS_CardinalityType
      <3>. HIDE DEF a
      <3>5. \/ stk' = stk
            \/ SharedStk(stk, Cardinality(Inside)) /\ SharedStk(stk', Cardinality(Inside \cup {f}))
        BY <3>1, <3>3, Zenon
      <3>. QED
        BY <1>0, <3>4, <3>5, SharedBottom
    <2>3. CASE FuncLeave(f)
      <3>1. /\ f \in Inside /\ Leave
        BY <2>3 DEF FuncLeave, Inside
      <3>2. Inside' = Inside \ {f}
        <4>1. PICK ph \in {"out", "pending"} : func' = [func EXCEPT ![f] = ph]
          BY <2>3 DEF FuncLeave
        <4>. QED
          BY <1>0, <1>1, <4>1, PortAssumption DEF Inside
      <3>3. Cardinality(Inside') \in Nat
        BY <1>0, <3>1, <3>2, FS_RemoveElement, FS_CardinalityType
      <3>4. \/ /\ SharedStk(stk, Cardinality(Inside))
               /\ SharedStk(stk', Cardinality(Inside'))
            \/ /\ DrainStk(stk, Cardinality(Inside))
               /\ DrainStk(stk', Cardinality(Inside'))
            \/ /\ DrainStk(stk, Cardinality(Inside))
               /\ Two(stk', "READY", "BUSY_RESUME")
        BY <3>1, <3>2, LeaveStack
      <3>. QED
        BY <1>0, <3>3, <3>4, SharedBottom, DrainBottom, ResumeBottom
    <2>. QED
      BY <2>1, <2>2, <2>3 DEF FuncNext, FidoWritten
  <1>. QED
    BY <1>1, <1>2, <1>3, SameSerial

\* What a STOP IRP meets: a port that lets it in, one that is full, or one that
\* some other stop, or the destruction of the stack, has in its hands.
LEMMA TryCases ==
    ASSUME IInv
    PROVE  LET a == CanContinue(stk, "STOP", "STOPPING") IN
           \/ a.ret = "OK" /\ One(a.stk, "STOPPING") /\ Inside = {}
              /\ (One(stk, "STOP_RESUME") \/ SharedStk(stk, Cardinality(Inside)))
           \/ a.ret = "PENDING" /\ SharedStk(stk, Cardinality(Inside))
              /\ DrainStk(a.stk, Cardinality(Inside))
           \/ a.ret = "EAGAIN" /\ a.stk = stk
           \/ a.ret = "ERROR_STATE" /\ a.stk = stk
              /\ ~One(stk, "STOP_RESUME") /\ ~SharedStk(stk, Cardinality(Inside))
  <1>. DEFINE a == CanContinue(stk, "STOP", "STOPPING")
              n == Cardinality(Inside)
  <1>0. /\ stk \in Seq(States) /\ ShapeOf(stk, Inside) /\ n \in Nat
        /\ n = 0 => Inside = {}
    BY InsideFinite, FS_EmptySet DEF IInv, TypeOK, Shape
  <1>1. CASE SharedStk(stk, n)
    <2>1. \/ n = 0 /\ a.ret = "OK" /\ One(a.stk, "STOPPING")
          \/ n # 0 /\ a.ret = "PENDING" /\ DrainStk(a.stk, n)
          \/ n # 0 /\ a.ret = "EAGAIN" /\ a.stk = stk
      BY <1>0, <1>1, StopShared
    <2>. QED
      BY <1>0, <1>1, <2>1, Zenon
  <1>2. CASE One(stk, "STOP_RESUME")
    <2>1. a.ret = "OK" /\ One(a.stk, "STOPPING")
      BY <1>0, <1>2, StopResumed
    <2>2. Inside = {}
      BY <1>2, OneTwoNotOpen
    <2>. QED
      BY <1>2, <2>1, <2>2
  <1>3. CASE ~SharedStk(stk, n) /\ ~One(stk, "STOP_RESUME")
    <2>1. Top(stk) \notin {"READY", "BUSY_SHARED", "STOP_RESUME"}
      <3>1. CASE DrainStk(stk, n)
        BY <1>0, <3>1, TopDrain
      <3>2. CASE QuietStk(stk)
        BY <1>0, <1>3, <3>2, TopOne, TopTwo DEF QuietStk
      <3>. QED
        BY <1>0, <1>3, <3>1, <3>2 DEF ShapeOf
    <2>2. a = Refuse(stk)
      BY <1>0, <2>1, StopRefused
    <2>. QED
      BY <1>3, <2>2 DEF Refuse, Answer
  <1>. QED
    BY <1>1, <1>2, <1>3

\* On a started port a stop is refused only by a port that has been stopped.
LEMMA RefusedWhenStopped ==
    ASSUME IInv, Owned, Serial, start = "started",
           NEW s \in StopIrps, stop[s] \in {"prep", "resumed"},
           ~One(stk, "STOP_RESUME"), ~SharedStk(stk, Cardinality(Inside))
    PROVE  stk[1] \in Ended
  <1>0. /\ stk \in Seq(States) /\ ShapeOf(stk, Inside) /\ Cardinality(Inside) \in Nat
        /\ resumeTasks \subseteq StopIrps
    BY InsideFinite DEF IInv, TypeOK, Shape
  <1>1. \A t \in StopIrps : stop[t] \notin {"excl"} \cup StoppingPhases
    BY DEF Serial, Active, StopEnds, StoppingPhases
  <1>2. Top(stk) \notin {"EXCLUDE_PENDING", "BUSY_RESUME", "STOPPING"}
    BY <1>0, <1>1 DEF Owned, DeferredStopOwned, State
  <1>3. ~DrainStk(stk, Cardinality(Inside))
    BY <1>0, <1>2, TopDrain
  <1>4. ~One(stk, "STOPPING") /\ ~Two(stk, "READY", "BUSY_RESUME")
    BY <1>0, <1>2, TopOne, TopTwo
  <1>5. /\ ~One(stk, "ATTACHED") /\ ~One(stk, "STARTING")
        /\ ~Two(stk, "ATTACHED", "BUSY") /\ ~Two(stk, "READY", "BUSY")
    BY DEF Serial, Ended, One, Two
  <1>. QED
    BY <1>0, <1>3, <1>4, <1>5 DEF ShapeOf, QuietStk, One, Two, Ended

LEMMA StopSerial ==
    ASSUME IInv, BooksInv, Owned, Serial, NEW s \in StopIrps, StopNext(s), ~StopMayTimeout
    PROVE  Serial'
  <1>. USE DEF book, track, pnp
  <1>0. /\ stk \in Seq(States) /\ ShapeOf(stk, Inside)
        /\ IsFiniteSet(Inside) /\ Cardinality(Inside) \in Nat
        /\ stop \in [StopIrps -> StopPhases] /\ s \notin FuncIrps
    BY InsideFinite, PortAssumption DEF IInv, TypeOK, Shape
  <1>1. UNCHANGED <<start, destroy>>
    BY DEF StopNext, QueryStopSubmit, QueryStopEnter, QueryStopLeave, QueryStopDone,
       StopSubmit, ResumeSubmit, StopResume, PreStop, PreStopDone, StopSelf,
       StopComplete, StopTimeout, CancelVictim
  <1>2. ASSUME NEW ph, stop' = [stop EXCEPT ![s] = ph], ph \notin {"refused", "cancelled"},
               stop[s] \notin {"idle"} \cup StopEnds,
               stk' = stk \/ (stk'[1] = stk[1] /\ ~Two(stk', "READY", "BUSY"))
        PROVE  Serial'
    <2>1. \A t \in StopIrps : /\ Active(t)' => Active(t)
                              /\ stop'[t] = "refused" => stop[t] = "refused"
                              /\ stop'[t] # "cancelled"
      BY <1>0, <1>2 DEF Active, Serial
    <2>. QED
      BY <1>1, <1>2, <2>1, SameSerial
  <1>3. CASE QueryStopSubmit(s)
    <2>1. /\ stop' = [stop EXCEPT ![s] = "queryIn"] /\ stk' = stk
          /\ start = "started" =>
                \A t \in StopIrps : stop[t] \in {"idle"} \cup StopEnds
      BY <1>3 DEF QueryStopSubmit
    <2>2. \A t \in StopIrps : t # s => stop'[t] = stop[t] /\ stop'[s] = "queryIn"
      BY <1>0, <2>1
    <2>3. \A t \in StopIrps : /\ stop'[t] # "cancelled"
                              /\ stop'[t] = "refused" => stop[t] = "refused"
      BY <1>0, <2>1 DEF Serial
    <2>4. start = "started" => \A t, u \in StopIrps : Active(t)' /\ Active(u)' => t = u
      BY <2>1, <2>2 DEF Active
    <2>. QED
      BY <1>1, <2>1, <2>3, <2>4 DEF Serial
  <1>4. CASE QueryStopDone(s) \/ PreStop(s) \/ PreStopDone(s)
    <2>1. PICK ph \in {"prep", "cancelling", "stopEx"} : stop' = [stop EXCEPT ![s] = ph]
      BY <1>4 DEF QueryStopDone, PreStop, PreStopDone
    <2>2. stk' = stk /\ stop[s] \notin {"idle"} \cup StopEnds
      BY <1>4 DEF QueryStopDone, PreStop, PreStopDone, StopEnds
    <2>. QED
      BY <1>2, <2>1, <2>2
  <1>5. CASE QueryStopEnter(s)
    <2>. DEFINE a == CanContinue(stk, "QUERY_STOP", "BUSY_SHARED")
                ph == IF a.ret = "OK" THEN "query" ELSE "queryOut"
    <2>1. /\ stop[s] = "queryIn" /\ stk' = a.stk /\ stop' = [stop EXCEPT ![s] = ph]
      BY <1>5 DEF QueryStopEnter
    <2>2. s \notin Inside
      BY <1>0, <2>1 DEF Inside
    <2>3. \/ /\ SharedStk(stk, Cardinality(Inside))
             /\ SharedStk(a.stk, Cardinality(Inside \cup {s}))
          \/ a.stk = stk
      BY <1>0, <2>2, EnterShape
    <2>4. Cardinality(Inside \cup {s}) \in Nat /\ ph \in {"query", "queryOut"}
      BY <1>0, FS_AddElement, FS_CardinalityType
    <2>. HIDE DEF a, ph
    <2>5. stk' = stk \/ (stk'[1] = stk[1] /\ ~Two(stk', "READY", "BUSY"))
      <3>1. \/ stk' = stk
            \/ SharedStk(stk, Cardinality(Inside)) /\ SharedStk(stk', Cardinality(Inside \cup {s}))
        BY <2>1, <2>3, Zenon
      <3>. QED
        BY <1>0, <2>4, <3>1, SharedBottom
    <2>6. stop[s] \notin {"idle"} \cup StopEnds
      BY <2>1 DEF StopEnds
    <2>. QED
      BY <1>2, <2>1, <2>4, <2>5, <2>6
  <1>6. CASE QueryStopLeave(s)
    <2>1. s \in Inside /\ stop[s] = "query" /\ Leave /\ func' = func
      BY <1>6 DEF QueryStopLeave, Inside
    <2>2. PICK ph \in {"queryOut", "queryPending"} : stop' = [stop EXCEPT ![s] = ph]
      BY <1>6 DEF QueryStopLeave
    <2>3. Inside' = Inside \ {s}
      BY <1>0, <2>1, <2>2 DEF Inside
    <2>4. Cardinality(Inside') \in Nat
      BY <1>0, <2>1, <2>3, FS_RemoveElement, FS_CardinalityType
    <2>5. \/ /\ SharedStk(stk, Cardinality(Inside))
             /\ SharedStk(stk', Cardinality(Inside'))
          \/ /\ DrainStk(stk, Cardinality(Inside))
             /\ DrainStk(stk', Cardinality(Inside'))
          \/ /\ DrainStk(stk, Cardinality(Inside))
             /\ Two(stk', "READY", "BUSY_RESUME")
      BY <2>1, <2>3, LeaveStack DEF BooksInv
    <2>6. stk'[1] = stk[1] /\ ~Two(stk', "READY", "BUSY")
      <3>1. Cardinality(Inside) \in Nat
        BY InsideFinite
      <3>. QED
        BY <2>4, <2>5, <3>1, SharedBottom, DrainBottom, ResumeBottom
    <2>7. stop[s] \notin {"idle"} \cup StopEnds
      BY <2>1 DEF StopEnds
    <2>. QED
      BY <1>2, <2>2, <2>6, <2>7
  <1>7. CASE StopSubmit(s) \/ StopResume(s)
    <2>. DEFINE a == CanContinue(stk, "STOP", "STOPPING")
    <2>1. /\ stop[s] \in {"prep", "resumed"} /\ stk' = a.stk
          /\ stop' = [stop EXCEPT ![s] = AfterTry(a.ret)]
      BY <1>7 DEF StopSubmit, StopResume, TryStop
    <2>2. /\ a.ret = "OK" => AfterTry(a.ret) = "preStop"
          /\ a.ret = "PENDING" => AfterTry(a.ret) = "excl"
          /\ a.ret = "EAGAIN" => AfterTry(a.ret) = "again"
          /\ a.ret = "ERROR_STATE" => AfterTry(a.ret) = "refused"
      BY DEF AfterTry
    <2>3. \/ a.ret = "OK" /\ One(a.stk, "STOPPING")
             /\ (One(stk, "STOP_RESUME") \/ SharedStk(stk, Cardinality(Inside)))
          \/ a.ret = "PENDING" /\ SharedStk(stk, Cardinality(Inside))
             /\ DrainStk(a.stk, Cardinality(Inside))
          \/ a.ret = "EAGAIN" /\ a.stk = stk
          \/ a.ret = "ERROR_STATE" /\ a.stk = stk
             /\ ~One(stk, "STOP_RESUME") /\ ~SharedStk(stk, Cardinality(Inside))
      BY TryCases
    <2>4. stop[s] \notin {"idle"} \cup StopEnds
      BY <2>1 DEF StopEnds
    <2>. HIDE DEF a
    <2>5. CASE a.ret = "OK"
      <3>0. One(stk', "STOPPING")
        BY <2>1, <2>3, <2>5, Zenon
      <3>1. stk'[1] = "STOPPING" /\ ~Two(stk', "READY", "BUSY")
        BY <3>0 DEF One, Two
      <3>2. stk[1] \in {"READY", "STOP_RESUME"}
        BY <2>3, <2>5 DEF One, SharedStk
      <3>3. \A t \in StopIrps : /\ Active(t)' => Active(t)
                                /\ stop'[t] = "refused" => stop[t] = "refused"
                                /\ stop'[t] # "cancelled"
        BY <1>0, <2>1, <2>2, <2>4, <2>5 DEF Active, Serial
      <3>. QED
        BY <1>1, <3>1, <3>2, <3>3 DEF Serial, Ended
    <2>6. CASE a.ret = "PENDING"
      <3>0. DrainStk(stk', Cardinality(Inside)) /\ SharedStk(stk, Cardinality(Inside))
        BY <2>1, <2>3, <2>6, Zenon
      <3>1. stk'[1] = stk[1] /\ ~Two(stk', "READY", "BUSY")
        BY <1>0, <3>0 DEF SharedStk, DrainStk, Two
      <3>. QED
        BY <1>2, <2>1, <2>2, <2>4, <2>6, <3>1
    <2>7. CASE a.ret = "EAGAIN"
      BY <1>2, <2>1, <2>2, <2>3, <2>4, <2>7
    <2>8. CASE a.ret = "ERROR_STATE"
      <3>1. start = "started" => stk[1] \in Ended
        BY <2>1, <2>3, <2>8, RefusedWhenStopped
      <3>2. \A t \in StopIrps : /\ Active(t)' => Active(t)
                                /\ stop'[t] # "cancelled"
        BY <1>0, <2>1, <2>2, <2>4, <2>8 DEF Active, Serial
      <3>. QED
        BY <1>1, <2>1, <2>3, <2>8, <3>1, <3>2 DEF Serial
    <2>. QED
      BY <2>3, <2>5, <2>6, <2>7, <2>8
  <1>8. CASE ResumeSubmit(s)
    <2>. DEFINE a == SetPortState(stk, "STOP_RESUME")
    <2>1. CASE stop[s] # "excl"
      <3>1. stop' = stop /\ stk' = stk
        BY <1>8, <2>1 DEF ResumeSubmit
      <3>. QED
        BY <1>1, <3>1 DEF Serial, Active
    <2>2. CASE stop[s] = "excl"
      <3>1. /\ stk' = a.stk
            /\ stop' = IF a.ret = "OK" THEN [stop EXCEPT ![s] = "resumed"] ELSE stop
        BY <1>8, <2>2 DEF ResumeSubmit
      <3>2. \/ a.ret = "OK" /\ Two(stk, "READY", "BUSY_RESUME") /\ One(a.stk, "STOP_RESUME")
            \/ a.ret # "OK" /\ a.stk = stk
        BY <1>0, SetStopResume
      <3>. HIDE DEF a
      <3>3. CASE a.ret = "OK"
        <4>0. One(stk', "STOP_RESUME") /\ Two(stk, "READY", "BUSY_RESUME")
          BY <3>1, <3>2, <3>3, Zenon
        <4>1. stk'[1] = "STOP_RESUME" /\ ~Two(stk', "READY", "BUSY") /\ stk[1] = "READY"
          BY <4>0 DEF One, Two
        <4>2. \A t \in StopIrps : /\ Active(t)' => Active(t)
                                  /\ stop'[t] = "refused" => stop[t] = "refused"
                                  /\ stop'[t] # "cancelled"
          BY <1>0, <2>2, <3>1, <3>3 DEF Active, Serial, StopEnds
        <4>. QED
          BY <1>1, <4>1, <4>2 DEF Serial, Ended
      <3>4. CASE a.ret # "OK"
        BY <1>1, <3>1, <3>2, <3>4 DEF Serial, Active
      <3>. QED
        BY <3>3, <3>4
    <2>. QED
      BY <2>1, <2>2
  <1>9. CASE StopSelf(s) \/ StopComplete(s)
    <2>1. One(stk, "STOPPING") /\ Top(stk) = "STOPPING" /\ stop[s] \in StoppingPhases
      <3>1. stop[s] \in StoppingPhases
        BY <1>9 DEF StopSelf, StopComplete, StoppingPhases
      <3>. QED
        BY <1>0, <3>1, TopOne DEF BooksInv, OneStop
    <2>2. stop[s] \notin {"idle"} \cup StopEnds
      BY <2>1 DEF StoppingPhases, StopEnds
    <2>3. CASE stk' = stk /\ stop' = [stop EXCEPT ![s] = "stopPending"]
      <3>1. PICK ph \in {"stopPending"} : stop' = [stop EXCEPT ![s] = ph]
        BY <2>3
      <3>. QED
        BY <1>2, <2>2, <2>3, <3>1
    <2>4. CASE /\ stk' = SetPortState(stk, "STOPPED").stk
               /\ stop' = [stop EXCEPT ![s] = "stopped"]
      <3>0. One(SetPortState(stk, "STOPPED").stk, "STOPPED")
        BY <1>0, <2>1, SetOne, Targets DEF States
      <3>a. One(stk', "STOPPED")
        BY <2>4, <3>0, Zenon
      <3>1. stk'[1] = "STOPPED" /\ ~Two(stk', "READY", "BUSY")
        BY <3>a DEF One, Two
      <3>2. \A t \in StopIrps : /\ Active(t)' => Active(t)
                                /\ stop'[t] # "cancelled"
        BY <1>0, <2>2, <2>4 DEF Active, Serial
      <3>. QED
        BY <1>1, <3>1, <3>2 DEF Serial, Ended
    <2>. QED
      BY <1>9, <2>1, <2>3, <2>4 DEF StopSelf, StopComplete, State
  <1>10. CASE \E v \in victims : CancelVictim(s, v)
    <2>1. stk' = stk /\ \A t \in StopIrps : \/ stop'[t] = stop[t]
                                            \/ stop[t] = "queryPending" /\ stop'[t] = "prep"
      BY <1>0, <1>10 DEF CancelVictim
    <2>2. \A t \in StopIrps : /\ Active(t)' => Active(t)
                              /\ stop'[t] = "refused" => stop[t] = "refused"
                              /\ stop'[t] # "cancelled"
      BY <2>1 DEF Active, Serial, StopEnds
    <2>. QED
      BY <1>1, <2>1, <2>2, SameSerial
  <1>11. ~StopTimeout(s)
    BY DEF StopTimeout
  <1>. QED
    BY <1>3, <1>4, <1>5, <1>6, <1>7, <1>8, <1>9, <1>10, <1>11 DEF StopNext

LEMMA SerialStep ==
    ASSUME ~FidoPort, ~StopMayTimeout, ~ReadyMayFail, ~ReadyMayPend
    PROVE  IInv /\ IInv' /\ BooksInv /\ Owned /\ Serial /\ [Next]_vars => Serial'
  <1>1. Serial /\ UNCHANGED vars => Serial'
    BY DEF Serial, Active, vars
  <1>2. BooksInv => Armed
    BY DEF BooksInv
  <1>. QED
    BY <1>1, <1>2, PnpSerial, FuncSerial, StopSerial DEF Next

LEMMA SerialKept ==
    ASSUME ~FidoPort, ~StopMayTimeout, ~ReadyMayFail, ~ReadyMayPend
    PROVE  Spec => []Serial
  <1>1. Init => Serial
    BY DEF Init, Serial, Active
  <1>. QED
    BY <1>1, SerialStep, IndInv, BooksKept, OwnedKept, PTL DEF Spec

\* The gate that a stack stands for.
GateOf(s) ==
    IF Top(s) \in {"EXCLUDE_PENDING", "BUSY_RESUME", "STOP_RESUME"} THEN "draining"
    ELSE IF s[1] \in {"STOPPING", "STOPPED", "REMOVED"} THEN "shut"
    ELSE IF s[1] = "READY" THEN "open" ELSE "closed"

LEMMA GateOfShape ==
    ASSUME NEW s \in Seq(States)
    PROVE  /\ \A n \in Nat : SharedStk(s, n) => GateOf(s) = "open"
           /\ \A n \in Nat : DrainStk(s, n) => GateOf(s) = "draining"
           /\ One(s, "STOP_RESUME") => GateOf(s) = "draining"
           /\ \A a : One(s, a) /\ a \in {"ATTACHED", "STARTING"} => GateOf(s) = "closed"
           /\ \A a : One(s, a) /\ a \in {"STOPPING", "STOPPED", "REMOVED"} => GateOf(s) = "shut"
           /\ One(s, "READY") => GateOf(s) = "open"
           /\ Two(s, "READY", "BUSY_RESUME") => GateOf(s) = "draining"
           /\ \A b \in {"BUSY", "STOPPED"} : /\ Two(s, "READY", b) => GateOf(s) = "open"
                                             /\ Two(s, "ATTACHED", b) => GateOf(s) = "closed"
                                             /\ Two(s, "STOPPED", b) => GateOf(s) = "shut"
  <1>1. \A n \in Nat : SharedStk(s, n) => GateOf(s) = "open"
    BY TopShared DEF GateOf, SharedStk
  <1>2. \A n \in Nat : DrainStk(s, n) => GateOf(s) = "draining"
    BY TopDrain DEF GateOf
  <1>3. \A a : One(s, a) => Top(s) = a /\ s[1] = a
    BY TopOne DEF One
  <1>4. \A a, b : Two(s, a, b) => Top(s) = b /\ s[1] = a
    BY TopTwo DEF Two
  <1>. QED
    BY <1>1, <1>2, <1>3, <1>4 DEF GateOf

GateKnown == GatePhase = GateOf(stk)

LEMMA GateIs ==
    IInv => GateKnown
  <1>. SUFFICES ASSUME IInv PROVE GateKnown
    OBVIOUS
  <1>1. stk # <<>>
    BY InsideFinite, NonEmpty DEF IInv, TypeOK, Shape, ShapeOf, SharedStk, DrainStk,
       QuietStk, One, Two
  <1>. QED
    BY <1>1 DEF GateKnown, GatePhase, GateOf, State, Bottom

\* What a step of the port does to the gate, as the steps of IoGate do it.
GateMove ==
    \/ GateOf(stk') = GateOf(stk) /\ Inside' = Inside
    \/ GateOf(stk) = "closed" /\ GateOf(stk') = "open" /\ Inside' = Inside
    \/ /\ GateOf(stk) = "open" /\ GateOf(stk') = "draining"
       /\ Inside # {} /\ Inside' = Inside
    \/ /\ GateOf(stk) \in {"closed", "open", "draining"} /\ GateOf(stk') = "shut"
       /\ Inside = {} /\ Inside' = Inside
    \/ \E x \in FuncIrps \cup StopIrps :
          /\ GateOf(stk') = GateOf(stk)
          /\ \/ GateOf(stk) = "open" /\ x \notin Inside /\ Inside' = Inside \cup {x}
             \/ x \in Inside /\ Inside' = Inside \ {x}

LEMMA PnpGate ==
    ASSUME IInv, IInv', BooksInv, Serial, PnpNext, ~ReadyMayFail, ~ReadyMayPend
    PROVE  GateMove
  <1>. USE DEF book, track, pnp
  <1>0. /\ stk \in Seq(States) /\ stk' \in Seq(States) /\ start \in StartPhases
        /\ Cardinality(Inside) \in Nat
    BY InsideFinite DEF IInv, TypeOK
  <1>1. Inside' = Inside
    <2>1. UNCHANGED <<func, stop>>
      BY DEF PnpNext, StackBuiltBegin, StackBuiltEnd, StartSubmit, StartSelf,
         StackReadyBegin, StackReadyEnd, PortReady, StartComplete,
         StartCompleteError, StartTimeout, StackDestroyBegin, StackDestroyEnd, OpenPort
    <2>. QED
      BY <2>1 DEF Inside
  <1>2. CASE start \in Early
    <2>1. /\ GateOf(stk) = "closed"
          /\ start' \in Early => GateOf(stk') = "closed"
      BY <1>0, <1>2, GateOfShape DEF IInv, StartShape, Early
    <2>2. Inside = {}
      BY <1>2, OneTwoNotOpen DEF IInv, StartShape, Early
    <2>3. \/ start' \in Early
          \/ One(stk', "READY")
          \/ One(stk', "ATTACHED")
          \/ One(stk', "STOPPED")
          \/ Two(stk', "ATTACHED", "BUSY")
      BY <1>2, EarlyStack
    <2>4. GateOf(stk') \in {"closed", "open", "shut"}
      BY <1>0, <2>1, <2>3, GateOfShape
    <2>. QED
      BY <1>1, <2>1, <2>2, <2>4 DEF GateMove
  <1>3. CASE start \in {"ready", "stackReady"}
    <2>1. GateOf(stk) = "open"
      BY <1>0, <1>3, GateOfShape DEF IInv, StartShape
    <2>2. GateOf(stk') = "open"
      BY <1>0, <1>3, <2>1, ReadyStack, GateOfShape
    <2>. QED
      BY <1>1, <2>1, <2>2 DEF GateMove
  <1>4. CASE StartDone
    <2>1. \/ stk' = stk
          \/ \E x \in {"ATTACHED", "STOPPED"} :
                /\ One(stk, x) /\ Two(stk', x, "BUSY")
          \/ \E x \in {"READY", "ATTACHED", "STOPPED"}, y \in {"BUSY", "STOPPED"} :
                /\ Two(stk, x, y)
                /\ One(stk', IF x = "STOPPED" THEN "REMOVED" ELSE x)
      BY <1>4, DoneStack
    <2>2. GateOf(stk') = GateOf(stk)
      BY <1>0, <2>1, GateOfShape
    <2>. QED
      BY <1>1, <2>2 DEF GateMove
  <1>. QED
    BY <1>0, <1>2, <1>3, <1>4 DEF StartPhases, StartDone, Early, Serial

\* A thread that leaves disturbs neither an open nor a draining gate.
LEMMA LeaveGate ==
    ASSUME IInv, IInv', Armed, NEW x \in Inside, Inside' = Inside \ {x}, Leave
    PROVE  GateMove
  <1>0. /\ stk \in Seq(States) /\ stk' \in Seq(States) /\ x \in FuncIrps \cup StopIrps
        /\ Cardinality(Inside) \in Nat /\ Cardinality(Inside') \in Nat
    <2>1. IsFiniteSet(Inside) /\ Cardinality(Inside) \in Nat
      BY InsideFinite
    <2>2. Cardinality(Inside') \in Nat
      BY <2>1, FS_RemoveElement, FS_CardinalityType
    <2>3. x \in FuncIrps \cup StopIrps
      BY DEF Inside
    <2>. QED
      BY <2>1, <2>2, <2>3 DEF IInv, TypeOK
  <1>1. \/ SharedStk(stk, Cardinality(Inside)) /\ SharedStk(stk', Cardinality(Inside'))
        \/ DrainStk(stk, Cardinality(Inside)) /\ DrainStk(stk', Cardinality(Inside'))
        \/ DrainStk(stk, Cardinality(Inside)) /\ Two(stk', "READY", "BUSY_RESUME")
    BY LeaveStack
  <1>2. GateOf(stk') = GateOf(stk)
    BY <1>0, <1>1, GateOfShape
  <1>. QED
    BY <1>0, <1>2 DEF GateMove

LEMMA EnterGate ==
    ASSUME IInv, NEW x \in FuncIrps \cup StopIrps, x \notin Inside, stk' \in Seq(States),
           NEW cmd \in {"FUNC", "QUERY_STOP"},
           LET a == CanContinue(stk, cmd, "BUSY_SHARED") IN
           /\ stk' = a.stk
           /\ Inside' = IF a.ret = "OK" THEN Inside \cup {x} ELSE Inside
    PROVE  GateMove
  <1>. DEFINE a == CanContinue(stk, cmd, "BUSY_SHARED")
  <1>0. /\ stk \in Seq(States) /\ ShapeOf(stk, Inside)
        /\ IsFiniteSet(Inside) /\ Cardinality(Inside) \in Nat
    BY InsideFinite DEF IInv, TypeOK, Shape
  <1>1. Cardinality(Inside \cup {x}) \in Nat
    BY <1>0, FS_AddElement, FS_CardinalityType
  <1>2. \/ /\ a.ret = "OK" /\ SharedStk(stk, Cardinality(Inside))
           /\ SharedStk(a.stk, Cardinality(Inside \cup {x}))
        \/ a.ret # "OK" /\ a.stk = stk
    BY <1>0, EnterShape
  <1>. HIDE DEF a
  <1>3. \/ /\ Inside' = Inside \cup {x} /\ SharedStk(stk, Cardinality(Inside))
           /\ SharedStk(stk', Cardinality(Inside \cup {x}))
        \/ Inside' = Inside /\ stk' = stk
    BY <1>2, Zenon DEF a
  <1>4. \/ /\ Inside' = Inside \cup {x} /\ GateOf(stk) = "open" /\ GateOf(stk') = "open"
        \/ Inside' = Inside /\ stk' = stk
    BY <1>0, <1>1, <1>3, GateOfShape
  <1>. QED
    BY <1>4 DEF GateMove

LEMMA FuncGate ==
    ASSUME IInv, IInv', Armed, NEW f \in FuncIrps, FuncNext(f), ~FidoPort
    PROVE  GateMove
  <1>. USE DEF book, track, pnp
  <1>0. /\ stk' \in Seq(States) /\ func \in [FuncIrps -> FuncPhases]
        /\ f \notin StopIrps
    BY PortAssumption DEF IInv, TypeOK
  <1>1. stop' = stop
    BY DEF FuncNext, FuncSubmit, FuncEnter, FuncLeave, FuncOut, FuncDone, FidoWritten
  <1>2. CASE FuncSubmit(f) \/ FuncOut(f) \/ FuncDone(f)
    <2>1. stk' = stk
      BY <1>2 DEF FuncSubmit, FuncOut, FuncDone
    <2>2. \A g \in FuncIrps : func'[g] = "inside" <=> func[g] = "inside"
      BY <1>0, <1>2 DEF FuncSubmit, FuncOut, FuncDone
    <2>3. Inside' = Inside
      BY <1>1, <2>2 DEF Inside
    <2>. QED
      BY <2>1, <2>3 DEF GateMove
  <1>3. CASE FuncEnter(f)
    <2>. DEFINE a == CanContinue(stk, "FUNC", "BUSY_SHARED")
    <2>1. /\ func[f] = "in" /\ stk' = a.stk
          /\ func' = [func EXCEPT ![f] = IF a.ret = "OK" THEN "inside" ELSE "out"]
      BY <1>3 DEF FuncEnter
    <2>2. f \notin Inside
      BY <1>0, <2>1 DEF Inside
    <2>3. a.ret = "OK" => Inside' = Inside \cup {f}
      <3>. HIDE DEF a
      <3>. QED
        BY <1>0, <1>1, <2>1 DEF Inside
    <2>4. a.ret # "OK" => Inside' = Inside
      <3>. HIDE DEF a
      <3>. QED
        BY <1>0, <1>1, <2>1 DEF Inside
    <2>. QED
      BY <1>0, <2>1, <2>2, <2>3, <2>4, EnterGate
  <1>4. CASE FuncLeave(f)
    <2>1. f \in Inside /\ Leave
      BY <1>4 DEF FuncLeave, Inside
    <2>2. Inside' = Inside \ {f}
      BY <1>0, <1>1, <1>4 DEF FuncLeave, Inside
    <2>. QED
      BY <2>1, <2>2, LeaveGate
  <1>5. ~FidoWritten(f)
    BY DEF FidoWritten
  <1>. QED
    BY <1>2, <1>3, <1>4, <1>5 DEF FuncNext

LEMMA TryGate ==
    ASSUME IInv, IInv', NEW s \in StopIrps, stop[s] \in {"prep", "resumed"},
           TryStop(s), UNCHANGED func
    PROVE  GateMove
  <1>. DEFINE a == CanContinue(stk, "STOP", "STOPPING")
  <1>0. /\ stk \in Seq(States) /\ stk' \in Seq(States) /\ Cardinality(Inside) \in Nat
        /\ stop \in [StopIrps -> StopPhases]
    BY InsideFinite DEF IInv, TypeOK
  <1>1. stk' = a.stk /\ stop' = [stop EXCEPT ![s] = AfterTry(a.ret)]
    BY DEF TryStop
  <1>2. \/ a.ret = "OK" /\ One(a.stk, "STOPPING") /\ Inside = {}
           /\ (One(stk, "STOP_RESUME") \/ SharedStk(stk, Cardinality(Inside)))
        \/ a.ret = "PENDING" /\ SharedStk(stk, Cardinality(Inside))
           /\ DrainStk(a.stk, Cardinality(Inside))
        \/ a.ret = "EAGAIN" /\ a.stk = stk
        \/ a.ret = "ERROR_STATE" /\ a.stk = stk
    BY TryCases
  <1>3. AfterTry(a.ret) # "query"
    BY <1>2 DEF AfterTry
  <1>. HIDE DEF a
  <1>4. Inside' = Inside
    <2>1. \A t \in StopIrps : stop'[t] = "query" <=> stop[t] = "query"
      BY <1>0, <1>1, <1>3
    <2>. QED
      BY <2>1 DEF Inside
  <1>5. \/ One(stk', "STOPPING") /\ Inside = {}
           /\ (One(stk, "STOP_RESUME") \/ SharedStk(stk, Cardinality(Inside)))
        \/ SharedStk(stk, Cardinality(Inside)) /\ DrainStk(stk', Cardinality(Inside))
        \/ stk' = stk
    BY <1>1, <1>2, Zenon
  <1>6. DrainStk(stk', Cardinality(Inside)) => Inside # {}
    <2>1. Cardinality({}) = 0
      BY FS_EmptySet
    <2>2. DrainStk(stk', Cardinality(Inside)) => Cardinality(Inside) # 0
      BY <1>0 DEF DrainStk
    <2>. QED
      BY <2>1, <2>2, Zenon
  <1>7. \/ /\ GateOf(stk') = "shut" /\ Inside = {}
           /\ GateOf(stk) \in {"draining", "open"}
        \/ GateOf(stk) = "open" /\ GateOf(stk') = "draining" /\ Inside # {}
        \/ stk' = stk
    BY <1>0, <1>5, <1>6, GateOfShape
  <1>. QED
    BY <1>4, <1>7 DEF GateMove

LEMMA StopGate ==
    ASSUME IInv, IInv', BooksInv, NEW s \in StopIrps, StopNext(s), ~StopMayTimeout
    PROVE  GateMove
  <1>. USE DEF book, track, pnp
  <1>0. /\ stk \in Seq(States) /\ stk' \in Seq(States) /\ ShapeOf(stk, Inside)
        /\ Cardinality(Inside) \in Nat /\ Armed
        /\ stop \in [StopIrps -> StopPhases] /\ func \in [FuncIrps -> FuncPhases]
        /\ s \notin FuncIrps
    BY InsideFinite, PortAssumption DEF IInv, TypeOK, Shape, BooksInv
  <1>1. CASE QueryStopSubmit(s) \/ QueryStopDone(s) \/ PreStop(s) \/ PreStopDone(s)
    <2>1. stk' = stk /\ func' = func
      BY <1>1 DEF QueryStopSubmit, QueryStopDone, PreStop, PreStopDone
    <2>2. \A t \in StopIrps : stop'[t] = "query" <=> stop[t] = "query"
      BY <1>0, <1>1 DEF QueryStopSubmit, QueryStopDone, PreStop, PreStopDone
    <2>3. Inside' = Inside
      BY <2>1, <2>2 DEF Inside
    <2>. QED
      BY <2>1, <2>3 DEF GateMove
  <1>2. CASE QueryStopEnter(s)
    <2>. DEFINE a == CanContinue(stk, "QUERY_STOP", "BUSY_SHARED")
    <2>1. /\ stop[s] = "queryIn" /\ stk' = a.stk /\ func' = func
          /\ stop' = [stop EXCEPT ![s] = IF a.ret = "OK" THEN "query" ELSE "queryOut"]
      BY <1>2 DEF QueryStopEnter
    <2>2. s \notin Inside
      BY <1>0, <2>1 DEF Inside
    <2>3. a.ret = "OK" => Inside' = Inside \cup {s}
      <3>. HIDE DEF a
      <3>. QED
        BY <1>0, <2>1 DEF Inside
    <2>4. a.ret # "OK" => Inside' = Inside
      <3>. HIDE DEF a
      <3>. QED
        BY <1>0, <2>1 DEF Inside
    <2>. QED
      BY <1>0, <2>1, <2>2, <2>3, <2>4, EnterGate
  <1>3. CASE QueryStopLeave(s)
    <2>1. s \in Inside /\ Leave
      BY <1>3 DEF QueryStopLeave, Inside
    <2>2. Inside' = Inside \ {s}
      BY <1>0, <1>3 DEF QueryStopLeave, Inside
    <2>. QED
      BY <1>0, <2>1, <2>2, LeaveGate
  <1>4. CASE StopSubmit(s) \/ StopResume(s)
    BY <1>4, TryGate DEF StopSubmit, StopResume
  <1>5. CASE ResumeSubmit(s)
    <2>. DEFINE a == SetPortState(stk, "STOP_RESUME")
    <2>1. /\ func' = func
          /\ \/ stk' = a.stk /\ stop[s] = "excl"
             \/ stk' = stk
          /\ (stop' = [stop EXCEPT ![s] = "resumed"] /\ stop[s] = "excl") \/ stop' = stop
      BY <1>5 DEF ResumeSubmit
    <2>2. \/ Two(stk, "READY", "BUSY_RESUME") /\ One(a.stk, "STOP_RESUME")
          \/ a.stk = stk
      BY <1>0, SetStopResume
    <2>. HIDE DEF a
    <2>3. \/ Two(stk, "READY", "BUSY_RESUME") /\ One(stk', "STOP_RESUME")
          \/ stk' = stk
      BY <2>1, <2>2, Zenon
    <2>4. Inside' = Inside
      BY <1>0, <2>1 DEF Inside
    <2>5. GateOf(stk') = GateOf(stk)
      BY <1>0, <2>3, GateOfShape
    <2>. QED
      BY <2>4, <2>5 DEF GateMove
  <1>6. CASE StopSelf(s) \/ StopComplete(s)
    <2>1. One(stk, "STOPPING")
      <3>1. stop[s] \in StoppingPhases
        BY <1>6 DEF StopSelf, StopComplete, StoppingPhases
      <3>. QED
        BY <1>0, <3>1 DEF BooksInv, OneStop
    <2>2. One(SetPortState(stk, "STOPPED").stk, "STOPPED")
      BY <1>0, <2>1, SetOne, Targets DEF States
    <2>3. /\ func' = func
          /\ stk' = stk \/ stk' = SetPortState(stk, "STOPPED").stk
      BY <1>6 DEF StopSelf, StopComplete
    <2>4. stk' = stk \/ One(stk', "STOPPED")
      BY <2>2, <2>3, Zenon
    <2>5. GateOf(stk') = GateOf(stk)
      BY <1>0, <2>1, <2>4, GateOfShape
    <2>6. \A t \in StopIrps : stop'[t] = "query" <=> stop[t] = "query"
      BY <1>0, <1>6 DEF StopSelf, StopComplete
    <2>7. Inside' = Inside
      BY <2>3, <2>6 DEF Inside
    <2>. QED
      BY <2>5, <2>7 DEF GateMove
  <1>7. CASE \E v \in victims : CancelVictim(s, v)
    <2>1. /\ stk' = stk
          /\ \A t \in StopIrps : stop'[t] = "query" <=> stop[t] = "query"
          /\ \A f \in FuncIrps : func'[f] = "inside" <=> func[f] = "inside"
      BY <1>0, <1>7 DEF CancelVictim
    <2>2. Inside' = Inside
      BY <2>1 DEF Inside
    <2>. QED
      BY <2>1, <2>2 DEF GateMove
  <1>8. ~StopTimeout(s)
    BY DEF StopTimeout
  <1>. QED
    BY <1>1, <1>2, <1>3, <1>4, <1>5, <1>6, <1>7, <1>8 DEF StopNext

LEMMA GateStep ==
    ASSUME ~FidoPort, ~StopMayTimeout, ~ReadyMayFail, ~ReadyMayPend,
           IInv, IInv', GateKnown, GateKnown', BooksInv, Serial, [Next]_vars
    PROVE  [Gate!Next]_Gate!vars
  <1>1. GatePhase = GateOf(stk) /\ GatePhase' = GateOf(stk')
    BY DEF GateKnown
  <1>3. CASE UNCHANGED vars
    <2>1. UNCHANGED <<stk, func, stop>>
      BY <1>3 DEF vars, pnp
    <2>2. GatePhase' = GatePhase
      BY <1>1, <2>1
    <2>3. Inside' = Inside
      BY <2>1 DEF Inside
    <2>. QED
      BY <2>2, <2>3 DEF Gate!vars
  <1>4. CASE Next
    <2>1. GateMove
      BY <1>4, PnpGate, FuncGate, StopGate DEF Next, BooksInv
    <2>. QED
      BY <1>1, <2>1 DEF GateMove, Gate!vars, Gate!Next, Gate!Open, Gate!Enter,
         Gate!Leave, Gate!Drain, Gate!Shut
  <1>. QED
    BY <1>3, <1>4

\* The port implements the gate of IoGate: requests enter only while it is
\* open, a stop that finds some inside waits for them and lets nobody else in,
\* the gate shuts with nobody inside and never opens again.  Of OnPortReady it
\* is assumed that it returns success: a start that fails on a READY port
\* leaves the start/stop queue, and the stack may be destroyed while a stop is
\* deferred.
THEOREM PortIsAGate ==
    ASSUME ~FidoPort, ~StopMayTimeout, ~ReadyMayFail, ~ReadyMayPend
    PROVE  Spec => GateSpec
  <1>1. Init => Gate!Init
    BY DEF Init, Gate!Init, GatePhase, State, Bottom, Top, Inside
  <1>2. IInv /\ IInv' /\ GateKnown /\ GateKnown' /\ BooksInv /\ Serial /\ [Next]_vars
           => [Gate!Next]_Gate!vars
    BY GateStep
  <1>. QED
    BY <1>1, <1>2, GateIs, IndInv, BooksKept, SerialKept, PTL DEF Spec, GateSpec, Gate!Spec

-----------------------------------------------------------------------------
(* A CRpcTcpFido enters a second time, in CompleteFuncIrp.  Until a stop   *)
(* begins, a request is pending only where CanContinue lets it in again.   *)

NobodyStops == \A s \in StopIrps : stop[s] = "idle"
Reenterable ==
    \/ SharedStk(stk, Cardinality(Inside))
    \/ Inside = {} /\ \A f \in FuncIrps : func[f] # "pending"
FidoInv == TypeOK /\ (NobodyStops => IInv /\ Reenterable)

\* A stop that has begun stays in sight.  (A resume task whose IRP is not deferred
\* does nothing.)
LEMMA StopSeen ==
    ASSUME TypeOK, NEW s \in StopIrps, StopNext(s)
    PROVE  stop'[s] # "idle" \/ UNCHANGED <<stk, start, func, stop, destroy>>
  <1>0. stop \in [StopIrps -> StopPhases]
    BY DEF TypeOK
  <1>1. CASE StopSubmit(s) \/ StopResume(s)
    <2>. DEFINE r == CanContinue(stk, "STOP", "STOPPING").ret
    <2>1. stop' = [stop EXCEPT ![s] = AfterTry(r)]
      BY <1>1 DEF StopSubmit, StopResume, TryStop
    <2>2. AfterTry(r) # "idle"
      BY DEF AfterTry
    <2>. HIDE DEF r
    <2>. QED
      BY <1>0, <2>1, <2>2
  <1>2. CASE QueryStopEnter(s)
    <2>1. \E x \in {"query", "queryOut"} : stop' = [stop EXCEPT ![s] = x]
      BY <1>2 DEF QueryStopEnter
    <2>. QED
      BY <1>0, <2>1
  <1>3. CASE QueryStopSubmit(s) \/ QueryStopLeave(s) \/ QueryStopDone(s)
    BY <1>0, <1>3 DEF QueryStopSubmit, QueryStopLeave, QueryStopDone
  <1>4. CASE ResumeSubmit(s)
    <2>1. CASE stop[s] = "excl"
      <3>1. \E x \in {"resumed", "excl"} : stop'[s] = x
        BY <1>0, <1>4, <2>1 DEF ResumeSubmit
      <3>. QED
        BY <3>1
    <2>2. CASE stop[s] # "excl"
      BY <1>4, <2>2 DEF ResumeSubmit, pnp
    <2>. QED
      BY <2>1, <2>2
  <1>5. CASE PreStop(s) \/ PreStopDone(s) \/ StopComplete(s) \/ StopTimeout(s)
    BY <1>0, <1>5 DEF PreStop, PreStopDone, StopComplete, StopTimeout
  <1>6. CASE StopSelf(s)
    <2>1. \E x \in {"stopPending", "stopped", "refused"} : stop' = [stop EXCEPT ![s] = x]
      BY <1>6 DEF StopSelf
    <2>. QED
      BY <1>0, <2>1
  <1>7. CASE \E v \in victims : CancelVictim(s, v)
    BY <1>0, <1>7 DEF CancelVictim
  <1>. QED
    BY <1>1, <1>2, <1>3, <1>4, <1>5, <1>6, <1>7 DEF StopNext

\* The PnP manager takes a fido with a request inside or pending nowhere: its
\* stack is the one of a READY port, which a failing start does not change.
LEMMA PnpReenter ==
    ASSUME IInv, Reenterable, PnpNext, FidoPort
    PROVE  Reenterable'
  <1>. USE DEF book, track, pnp
  <1>0. /\ stk \in Seq(States) /\ Cardinality(Inside) \in Nat
    BY InsideFinite DEF IInv, TypeOK
  <1>1. UNCHANGED <<func, stop>>
    BY DEF PnpNext, StackBuiltBegin, StackBuiltEnd, StartSubmit, StartSelf,
       StackReadyBegin, StackReadyEnd, PortReady, StartComplete,
       StartCompleteError, StartTimeout, StackDestroyBegin, StackDestroyEnd,
       OpenPort
  <1>2. Inside' = Inside
    BY <1>1 DEF Inside
  <1>3. CASE Inside = {} /\ \A f \in FuncIrps : func[f] # "pending"
    BY <1>1, <1>2, <1>3 DEF Reenterable
  <1>4. CASE SharedStk(stk, Cardinality(Inside))
    <2>1. /\ ~One(stk, "ATTACHED") /\ ~One(stk, "STARTING") /\ ~One(stk, "STOPPED")
          /\ \A a : ~Two(stk, a, "BUSY")
          /\ ~Two(stk, "STOPPED", "STOPPED") /\ ~Two(stk, "READY", "BUSY_RESUME")
      BY <1>0, <1>4 DEF One, Two, SharedStk
    <2>2. start \in {"ready", "readyPending", "started", "failed", "lost"}
      BY <2>1 DEF IInv, StartShape, TypeOK, StartPhases
    <2>3. ~StackDestroyBegin /\ ~StackDestroyEnd
      BY <2>1, DestroyBeginStack DEF StackDestroyEnd, IInv, DestroyShape
    <2>4. SetPortState(stk, "STOPPED").stk = stk
      BY <1>0, <1>4, SetShared
    <2>5. Top(stk) \in {"READY", "BUSY_SHARED"}
      BY <1>0, <1>4, TopShared
    <2>6. stk' = stk
      <3>1. CASE PortReady \/ OpenPort
        BY <2>4, <3>1 DEF PortReady, OpenPort, FailStart
      <3>2. CASE StartComplete \/ StartCompleteError
        BY <2>2, <2>4, <2>5, <3>2 DEF StartComplete, StartCompleteError, FailStart, State
      <3>3. CASE StartTimeout
        BY <2>5, <3>3 DEF StartTimeout, SetPortStateWake, Refuse, Answer
      <3>4. ~(StackBuiltBegin \/ StackBuiltEnd \/ StartSubmit \/ StartSelf
              \/ StackReadyBegin \/ StackReadyEnd)
        BY <2>2 DEF StackBuiltBegin, StackBuiltEnd, StartSubmit, StartSelf,
           StackReadyBegin, StackReadyEnd
      <3>. QED
        BY <2>3, <3>1, <3>2, <3>3, <3>4 DEF PnpNext
    <2>. QED
      BY <1>2, <1>4, <2>6 DEF Reenterable
  <1>. QED
    BY <1>3, <1>4 DEF Reenterable

\* The second entry: CanContinue lets the request in, PopState takes it off.
LEMMA SecondEntry ==
    ASSUME IInv, Reenterable, NEW f \in FuncIrps, FidoWritten(f)
    PROVE  /\ SharedStk(stk, Cardinality(Inside))
           /\ SharedStk(stk', Cardinality(Inside))
           /\ UNCHANGED <<func, gate, start, stop, destroy>>
  <1>. DEFINE a == CanContinue(stk, "FUNC", "BUSY_SHARED")
              n == Cardinality(Inside)
              armed == exclIrp # NoIrp /\ resume # NoIrp
              p == PopState(a.stk, armed)
  <1>0. stk \in Seq(States) /\ n \in Nat /\ "BUSY_SHARED" \in States
    BY InsideFinite DEF IInv, TypeOK, States
  <1>1. func[f] = "pending" /\ stk' = p.stk
    BY DEF FidoWritten, LeaveFrom
  <1>2. SharedStk(stk, n)
    BY <1>1 DEF Reenterable
  <1>3. a.ret = "OK" /\ SharedStk(a.stk, n + 1)
    BY <1>0, <1>2, EnterShared
  <1>4. a.stk \in Seq(States)
    BY <1>0, CanContinueType
  <1>5. SharedStk(p.stk, n)
    <2>. DEFINE s == a.stk
    <2>1. s \in Seq(States) /\ SharedStk(s, n + 1) /\ armed \in BOOLEAN
      BY <1>3, <1>4
    <2>. HIDE DEF s, armed
    <2>2. SharedStk(PopState(s, armed).stk, (n + 1) - 1)
      BY <1>0, <2>1, PopShared
    <2>3. (n + 1) - 1 = n
      BY <1>0
    <2>. QED
      BY <2>2, <2>3 DEF s
  <1>6. UNCHANGED <<func, gate, start, stop, destroy>>
    BY <1>3 DEF FidoWritten, pnp
  <1>. QED
    BY <1>1, <1>2, <1>5, <1>6, Zenon

\* Requests keep a fido reenterable until a stop begins: they are pending only on a
\* READY port.
LEMMA FuncReenter ==
    ASSUME IInv, NobodyStops, Reenterable, NEW f \in FuncIrps, FuncNext(f)
    PROVE  IInv' /\ Reenterable'
  <1>. USE DEF book, track, pnp
  <1>0. /\ TypeOK' /\ TypeOK /\ stk \in Seq(States) /\ ShapeOf(stk, Inside)
        /\ IsFiniteSet(Inside) /\ Cardinality(Inside) \in Nat
        /\ func \in [FuncIrps -> FuncPhases]
    BY FuncType, InsideFinite DEF IInv, TypeOK, Shape
  <1>1. CASE FidoWritten(f)
    <2>1. /\ SharedStk(stk, Cardinality(Inside))
          /\ SharedStk(stk', Cardinality(Inside))
          /\ UNCHANGED <<func, start, stop, destroy>>
      BY <1>1, SecondEntry
    <2>2. Inside' = Inside
      BY <2>1 DEF Inside
    <2>3. SharedStk(stk', Cardinality(Inside'))
      BY <2>1, <2>2, Zenon
    <2>4. ShapeOf(stk', Inside') /\ stk'[1] = "READY"
      BY <2>3 DEF ShapeOf, SharedStk
    <2>5. /\ \A t \in StopIrps : stop'[t] \in ShutPhases => stop[t] \in ShutPhases
          /\ ~StartDone => \A t \in StopIrps : stop'[t] = "idle"
          /\ UNCHANGED <<start, destroy>>
      BY <2>1 DEF NobodyStops
    <2>. QED
      BY <1>0, <2>1, <2>3, <2>4, <2>5, OpenStep DEF Reenterable
  <1>2. ASSUME ~FidoWritten(f) PROVE IInv'
    BY <1>2, FuncInv
  <1>3. CASE FuncSubmit(f) \/ FuncOut(f) \/ FuncDone(f)
    <2>1. /\ Inside' = Inside /\ UNCHANGED stk
          /\ \A g \in FuncIrps : func'[g] = "pending" => func[g] = "pending"
      BY <1>0, <1>3 DEF FuncSubmit, FuncOut, FuncDone, Inside
    <2>2. Reenterable'
      BY <2>1 DEF Reenterable
    <2>. QED
      BY <1>1, <1>2, <2>2
  <1>4. CASE FuncEnter(f)
    <2>. DEFINE a == CanContinue(stk, "FUNC", "BUSY_SHARED")
    <2>0. f \notin Inside
      BY <1>4, PortAssumption DEF FuncEnter, Inside
    <2>1. /\ func' = [func EXCEPT ![f] = IF a.ret = "OK" THEN "inside" ELSE "out"]
          /\ func[f] = "in" /\ stk' = a.stk /\ UNCHANGED stop
      BY <1>4 DEF FuncEnter
    <2>2. \/ /\ a.ret = "OK"
             /\ SharedStk(stk, Cardinality(Inside))
             /\ SharedStk(a.stk, Cardinality(Inside \cup {f}))
          \/ /\ a.ret # "OK"
             /\ a.stk = stk
      BY <1>0, <2>0, EnterShape
    <2>. HIDE DEF a
    <2>3. CASE a.ret = "OK"
      <3>1. Inside' = Inside \cup {f}
        BY <1>0, <2>1, <2>3 DEF Inside
      <3>2. SharedStk(stk', Cardinality(Inside'))
        BY <2>1, <2>2, <2>3, <3>1, Zenon
      <3>. QED
        BY <1>1, <1>2, <3>2 DEF Reenterable
    <2>4. CASE a.ret # "OK"
      <3>1. /\ Inside' = Inside /\ UNCHANGED stk
            /\ \A g \in FuncIrps : func'[g] = "pending" => func[g] = "pending"
        BY <1>0, <2>1, <2>2, <2>4 DEF Inside
      <3>2. Reenterable'
        BY <3>1 DEF Reenterable
      <3>. QED
        BY <1>1, <1>2, <3>2
    <2>. QED
      BY <2>3, <2>4
  <1>5. CASE FuncLeave(f)
    <2>. DEFINE armed == exclIrp # NoIrp /\ resume # NoIrp
                p == PopState(stk, armed)
    <2>1. f \in Inside
      BY <1>5 DEF FuncLeave, Inside
    <2>2. SharedStk(stk, Cardinality(Inside))
      BY <2>1 DEF Reenterable
    <2>3. ~DrainStk(stk, Cardinality(Inside))
      BY <1>0, <2>2 DEF SharedStk, DrainStk
    <2>4. SharedStk(p.stk, Cardinality(Inside \ {f}))
      <3>1. armed \in BOOLEAN
        OBVIOUS
      <3>. HIDE DEF armed
      <3>. QED
        BY <1>0, <2>1, <2>3, <3>1, LeaveShape
    <2>5. stk' = p.stk /\ Inside' = Inside \ {f}
      <3>1. PICK ph \in {"out", "pending"} : func' = [func EXCEPT ![f] = ph]
        BY <1>5 DEF FuncLeave
      <3>2. UNCHANGED stop /\ stk' = p.stk
        BY <1>5 DEF FuncLeave, Leave, LeaveFrom
      <3>. QED
        BY <1>0, <3>1, <3>2, PortAssumption DEF Inside
    <2>6. SharedStk(stk', Cardinality(Inside'))
      BY <2>4, <2>5, Zenon
    <2>. QED
      BY <1>1, <1>2, <2>6 DEF Reenterable
  <1>. QED
    BY <1>1, <1>3, <1>4, <1>5 DEF FuncNext

\* FidoInv is inductive, and promises nothing more once a stop has begun.
LEMMA FidoStep ==
    ASSUME FidoPort
    PROVE  FidoInv /\ [Next]_vars => FidoInv'
  <1>. SUFFICES ASSUME FidoInv, [Next]_vars, NobodyStops'
                PROVE  IInv' /\ Reenterable'
    BY TypeStep DEF FidoInv
  <1>1. CASE UNCHANGED <<stk, start, func, stop, destroy>>
    <2>1. TypeOK' /\ Inside' = Inside
      BY <1>1, TypeStep DEF FidoInv, Inside
    <2>2. IInv /\ Reenterable
      BY <1>1 DEF FidoInv, NobodyStops
    <2>3. IInv'
      BY <1>1, <2>1, <2>2, SameStack
    <2>4. Reenterable'
      BY <1>1, <2>1, <2>2 DEF Reenterable
    <2>. QED
      BY <2>3, <2>4
  <1>2. CASE PnpNext
    <2>1. UNCHANGED stop
      BY <1>2 DEF PnpNext, StackBuiltBegin, StackBuiltEnd, StartSubmit, StartSelf,
         StackReadyBegin, StackReadyEnd, PortReady, StartComplete,
         StartCompleteError, StartTimeout, StackDestroyBegin, StackDestroyEnd,
         OpenPort, pnp
    <2>2. IInv /\ Reenterable
      BY <2>1 DEF FidoInv, NobodyStops
    <2>. QED
      BY <1>2, <2>2, PnpInv, PnpReenter
  <1>3. ASSUME NEW f \in FuncIrps, FuncNext(f) PROVE IInv' /\ Reenterable'
    <2>1. UNCHANGED stop
      BY <1>3 DEF FuncNext, FuncSubmit, FuncEnter, FuncLeave, FuncOut, FuncDone, FidoWritten
    <2>2. IInv /\ NobodyStops /\ Reenterable
      BY <2>1 DEF FidoInv, NobodyStops
    <2>. QED
      BY <1>3, <2>2, FuncReenter
  <1>4. ASSUME NEW s \in StopIrps, StopNext(s)
        PROVE  UNCHANGED <<stk, start, func, stop, destroy>>
    BY <1>4, StopSeen DEF FidoInv, NobodyStops
  <1>. QED
    BY <1>1, <1>2, <1>3, <1>4 DEF Next, vars

\* It holds at first: the port is ATTACHED and nobody has submitted anything.
LEMMA FidoInit == Init => FidoInv
  <1>. SUFFICES ASSUME Init PROVE IInv /\ Reenterable
    BY InitType DEF FidoInv
  <1>1. Inside = {} /\ \A f \in FuncIrps : func[f] # "pending"
    BY DEF Init, Inside
  <1>. QED
    BY <1>1, InitInv DEF Reenterable

\* Until somebody stops the port, the BUSY_SHARED entries count the requests
\* inside on every kind of port, the TCP fido included: the second entry of
\* CRpcTcpFido::CompleteFuncIrp, whose PopState does not ask whether CanContinue
\* let the request in, finds a port that lets it in, however the start ends.
THEOREM SecondEntryBalanced == Spec => []BalancedUntilStop
  <1>1. CASE FidoPort
    <2>1. FidoInv => BalancedUntilStop
      BY ShapeCounts DEF FidoInv, NobodyStops, BalancedUntilStop
    <2>. QED
      BY <1>1, <2>1, FidoInit, FidoStep, PTL DEF Spec
  <1>2. CASE ~FidoPort
    <2>1. BusyMatchesInside => BalancedUntilStop
      BY DEF BalancedUntilStop
    <2>. QED
      BY <1>2, <2>1, StackCountsRequests, PTL
  <1>. QED
    BY <1>1, <1>2
=============================================================================
