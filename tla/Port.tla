-------------------------------- MODULE Port --------------------------------
(***************************************************************************)
(* One port (CPort, src/ipc/port.cpp) and the IRPs that reach it: the      *)
(* START IRP and the STACK_BUILT, STACK_READY and STACK_DESTROY IRPs of    *)
(* the PnP manager, FUNC IRPs submitted by any thread, and STOP IRPs, each *)
(* preceded by its QUERY_STOP.  A phase of an IRP names the place between  *)
(* two critical sections of the port lock where its thread, or the IRP     *)
(* itself when it is pending, stands; an action is one critical section.   *)
(* What subclasses and lower ports do inside OnSubmitIrp, StartEx, StopEx, *)
(* OnQueryStop and OnPortReady is a choice of the value they return.       *)
(***************************************************************************)
EXTENDS PortState, FiniteSets

CONSTANTS
    FuncIrps,        \* IRP_MJ_FUNC requests; one is submitted many times over
    StopIrps,        \* IRP_MN_PNP_STOP requests
    StartIrp,        \* the IRP_MN_PNP_START request
    NoIrp,           \* an empty IrpPtr
    HasRegPath,      \* the port has the property propRegPath
    ReadyMayFail,    \* OnPortReady may return an error
    ReadyMayPend,    \* OnPortReady may return STATUS_PENDING (CDBusProxyPdo)
    StopMayTimeout,  \* the timer of a pending STOP IRP may fire
    FidoPort         \* the port is a CRpcTcpFido

ASSUME PortAssumption ==
    /\ NoIrp \notin StopIrps
    /\ IsFiniteSet(FuncIrps) /\ IsFiniteSet(StopIrps)
    /\ FuncIrps \cap StopIrps = {}
    /\ StartIrp \notin FuncIrps \cup StopIrps
    /\ {HasRegPath, ReadyMayFail, ReadyMayPend, StopMayTimeout, FidoPort}
          \subseteq BOOLEAN

VARIABLES
    stk,         \* m_vecStates
    exclIrp,     \* m_pExclIrp, the deferred STOP IRP
    resume,      \* m_pResume, the IRP whose completion resumes the stop
    resumeTasks, \* IRPs with a CPortStateResumeSubmitTask scheduled
    gate,        \* m_mapIrpIn, the IRPs the gatekeeper tracks
    victims,     \* IRPs that PreStop took off the gate and has yet to cancel
    handleMap,   \* the port is in the I/O manager's handle map
    opened,      \* some interface got the port's handle
    start,       \* where the START IRP stands
    func,        \* where each FUNC IRP stands
    stop,        \* where each STOP IRP stands
    destroy,     \* where the STACK_DESTROY IRP stands
    thrown       \* a std::runtime_error of the state machine was thrown

pnp == <<start, destroy>>
book == <<exclIrp, resume, resumeTasks>>
track == <<gate, victims>>
vars == <<stk, exclIrp, resume, resumeTasks, gate, victims, handleMap, opened,
          start, func, stop, destroy, thrown>>

StartPhases == {"attached", "building", "built", "lowerPending", "starting",
                "startPending", "ready", "stackReady", "readyPending",
                "started", "failed", "lost"}
FuncPhases == {"idle", "in", "inside", "out", "pending"}
StopPhases == {"idle", "queryIn", "query", "queryOut", "queryPending", "prep",
               "excl", "resumed", "preStop", "cancelling", "stopEx",
               "stopPending", "stopped", "refused", "again", "cancelled"}
DestroyPhases == {"none", "busy", "done"}

Init ==
    /\ stk = <<"ATTACHED">>
    /\ exclIrp = NoIrp /\ resume = NoIrp /\ resumeTasks = {}
    /\ gate = {} /\ victims = {} /\ handleMap = FALSE /\ opened = FALSE
    /\ start = "attached"
    /\ func = [f \in FuncIrps |-> "idle"]
    /\ stop = [s \in StopIrps |-> "idle"]
    /\ destroy = "none"
    /\ thrown = FALSE

State == Top(stk)
\* The requests that hold a BUSY_SHARED of this port.
Inside == {f \in FuncIrps : func[f] = "inside"} \cup
          {s \in StopIrps : stop[s] = "query"}
StopEnds == {"stopped", "refused", "again", "cancelled"}
StartDone == start \in {"started", "failed", "lost"}

\* Mutants: the resume task is scheduled for an IRP already forgotten, or never.
LeaveFromForgetsIrp(s) ==
    LET p == PopState(s, exclIrp # NoIrp /\ resume # NoIrp) IN
    /\ stk' = p.stk
    /\ thrown' = (thrown \/ p.ret = "THROW")
    /\ IF p.ret = "RESUME"
       THEN /\ exclIrp' = NoIrp
            /\ resume' = NoIrp
            /\ resumeTasks' = resumeTasks \cup {exclIrp'}
       ELSE UNCHANGED book
LeaveFromNoTask(s) ==
    /\ stk' = PopState(s, TRUE).stk
    /\ UNCHANGED <<book, thrown>>

\* PopState on the port: when it was the last request the stop waited for, the
\* resume task is scheduled and the port forgets the deferred IRP.
LeaveFrom(s) ==
    LET p == PopState(s, exclIrp # NoIrp /\ resume # NoIrp) IN
    /\ stk' = p.stk
    /\ thrown' = (thrown \/ p.ret = "THROW")
    /\ IF p.ret = "RESUME"
       THEN /\ resumeTasks' = resumeTasks \cup {exclIrp}
            /\ exclIrp' = NoIrp
            /\ resume' = NoIrp
       ELSE UNCHANGED book
Leave == LeaveFrom(stk)

-----------------------------------------------------------------------------
(* The PnP manager builds, starts and destroys the port stack.             *)

\* SubmitPortStackIrp, STACK_BUILT: the port turns BUSY ...
StackBuiltBegin ==
    LET a == CanContinue(stk, "STACK_BUILT", "BUSY") IN
    /\ start = "attached"
    /\ a.ret = "OK"
    /\ stk' = a.stk
    /\ start' = "building"
    /\ UNCHANGED <<book, track, handleMap, opened, func, stop, destroy, thrown>>

\* ... until it is registered.  Without a registry path the handler leaves
\* before PopState, and the error ends the start in OnPortAttached.
StackBuiltEnd ==
    /\ start = "building"
    /\ IF HasRegPath
       THEN /\ Leave
            /\ handleMap' = TRUE
            /\ start' = "built"
       ELSE /\ start' = "failed"
            /\ UNCHANGED <<stk, book, handleMap, thrown>>
    /\ UNCHANGED <<track, opened, func, stop, destroy>>

\* The error tail of SubmitStartIrp and of CompleteStartIrp: the port goes to
\* STOPPED if its state lets it, and the IRP leaves the gate.
FailStart(s, how) ==
    /\ stk' = SetPortState(s, "STOPPED").stk
    /\ start' = how
    /\ gate' = gate \ {StartIrp}

\* SubmitStartIrp up to StartEx: the lower port starts first.
StartSubmit ==
    LET a == CanContinue(stk, "START", "STARTING") IN
    /\ start = "built"
    /\ \/ /\ start' = "lowerPending"
          /\ gate' = gate \cup {StartIrp}
          /\ UNCHANGED stk
       \/ FailStart(stk, "failed")
       \/ IF a.ret = "OK"
          THEN /\ stk' = a.stk
               /\ start' = "starting"
               /\ gate' = gate \cup {StartIrp}
          ELSE start' = "failed" /\ UNCHANGED <<stk, gate>>
    /\ UNCHANGED <<book, victims, handleMap, opened, func, stop, destroy, thrown>>

\* StartEx returns: pending, an error, or success and the port is READY.
StartSelf ==
    /\ start = "starting"
    /\ \/ start' = "startPending" /\ UNCHANGED <<stk, gate>>
       \/ FailStart(stk, "failed")
       \/ IF State = "STARTING"
          THEN /\ stk' = SetPortState(stk, "READY").stk
               /\ start' = "ready"
               /\ UNCHANGED gate
          ELSE FailStart(stk, "failed")
    /\ UNCHANGED <<book, victims, handleMap, opened, func, stop, destroy, thrown>>

\* SubmitPortStackIrp, STACK_READY, which the fido on top sends to the ports below.
StackReadyBegin ==
    LET a == CanContinue(stk, "STACK_READY", "BUSY") IN
    /\ ~FidoPort
    /\ start = "ready"
    /\ IF a.ret = "OK" THEN stk' = a.stk /\ start' = "stackReady" /\ UNCHANGED gate
                       ELSE ReadyMayFail /\ FailStart(stk, "failed")
    /\ UNCHANGED <<book, victims, handleMap, opened, func, stop, destroy, thrown>>

StackReadyEnd ==
    /\ start = "stackReady"
    /\ Leave
    /\ start' = "started"
    /\ gate' = gate \ {StartIrp}
    /\ UNCHANGED <<victims, handleMap, opened, func, stop, destroy>>

\* OnPortReady returns.
PortReady ==
    /\ start = "ready"
    /\ \/ start' = "started" /\ gate' = gate \ {StartIrp} /\ UNCHANGED stk
       \/ ReadyMayFail /\ FailStart(stk, "failed")
       \/ ReadyMayPend /\ start' = "readyPending" /\ UNCHANGED <<stk, gate>>
    /\ UNCHANGED <<book, victims, handleMap, opened, func, stop, destroy, thrown>>

\* CompleteStartIrp with an error status.  An ATTACHED port passes through
\* STARTING so that it can be STOPPED.
StartCompleteError ==
    /\ start \in {"lowerPending", "startPending", "readyPending"}
    /\ FailStart(IF State = "ATTACHED" THEN SetPortState(stk, "STARTING").stk
                                       ELSE stk, "failed")
    /\ UNCHANGED <<book, victims, handleMap, opened, func, stop, destroy, thrown>>

\* CompleteStartIrp with success: resume StartEx, or finish the start.  A port
\* in any state but these is taken for lost.
StartComplete ==
    /\ start \in {"lowerPending", "startPending", "readyPending"}
    /\ IF State \notin {"ATTACHED", "STARTING", "READY"}
       THEN FailStart(stk, "lost")
       ELSE /\ stk' = IF start = "lowerPending"
                      THEN SetPortState(stk, "STARTING").stk ELSE stk
            /\ start' = IF start = "readyPending" THEN "started" ELSE "starting"
            /\ gate' = IF start = "readyPending" THEN gate \ {StartIrp} ELSE gate
    /\ UNCHANGED <<book, victims, handleMap, opened, func, stop, destroy, thrown>>

\* CancelStartStopIrp: the timer of the pending START IRP fires.
StartTimeout ==
    /\ start \in {"lowerPending", "startPending", "readyPending"}
    /\ stk' = SetPortStateWake(stk, "STARTING", "ATTACHED").stk
    /\ start' = "failed"
    /\ gate' = gate \ {StartIrp}
    /\ UNCHANGED <<book, victims, handleMap, opened, func, stop, destroy, thrown>>

\* DestroyPortStack: STACK_DESTROY for a port that is not READY (a READY one is
\* stopped first), after the start failed or a stop ended.
StackDestroyBegin ==
    LET a == CanContinue(stk, "STACK_DESTROY", "BUSY") IN
    /\ destroy = "none"
    /\ StartDone
    /\ \/ start \in {"failed", "lost"}
       \/ \E s \in StopIrps : stop[s] \in {"stopped", "cancelled", "refused"}
    /\ State # "READY"
    /\ a.ret = "OK"
    /\ stk' = a.stk
    /\ destroy' = "busy"
    /\ UNCHANGED <<book, track, handleMap, opened, start, func, stop, thrown>>

StackDestroyEnd ==
    /\ destroy = "busy"
    /\ destroy' = "done"
    /\ handleMap' = FALSE
    /\ IF HasRegPath
       THEN LET p == PopState(stk, exclIrp # NoIrp /\ resume # NoIrp)
            IN  stk' = SetPortStateWake(p.stk, "STOPPED", "REMOVED").stk
       ELSE UNCHANGED stk
    /\ UNCHANGED <<book, track, opened, start, func, stop, thrown>>

-----------------------------------------------------------------------------
(* FUNC IRPs, submitted by any thread that has the port's handle.          *)

\* OpenPort: an interface gets the handle of a port that looks started.
OpenPort ==
    /\ ~opened
    /\ handleMap
    /\ State \notin {"STARTING", "ATTACHED", "STOPPING", "STOPPED"}
    /\ opened' = TRUE
    /\ UNCHANGED <<stk, book, track, handleMap, pnp, func, stop, thrown>>

\* SubmitIrp finds the port by its handle; IrpIn.
FuncSubmit(f) ==
    /\ func[f] = "idle"
    /\ opened /\ handleMap
    /\ func' = [func EXCEPT ![f] = "in"]
    /\ gate' = gate \cup {f}
    /\ UNCHANGED <<stk, book, victims, handleMap, opened, pnp, stop, thrown>>

\* SubmitFuncIrp: CanContinue.
FuncEnter(f) ==
    LET a == CanContinue(stk, "FUNC", "BUSY_SHARED") IN
    /\ func[f] = "in"
    /\ stk' = a.stk
    /\ func' = [func EXCEPT ![f] = IF a.ret = "OK" THEN "inside" ELSE "out"]
    /\ UNCHANGED <<book, track, handleMap, opened, pnp, stop, thrown>>

\* Mutant: a pending IRP keeps its BUSY_SHARED.
FuncLeaveNoPop(f) ==
    /\ func[f] = "inside"
    /\ \/ Leave /\ func' = [func EXCEPT ![f] = "out"]
       \/ UNCHANGED <<stk, book, thrown>> /\ func' = [func EXCEPT ![f] = "pending"]
    /\ UNCHANGED <<track, handleMap, opened, pnp, stop>>

\* SubmitFuncIrp: OnSubmitIrp returned, PopState.  A pending IRP stays tracked.
FuncLeave(f) ==
    /\ func[f] = "inside"
    /\ Leave
    /\ \E ph \in {"out", "pending"} : func' = [func EXCEPT ![f] = ph]
    /\ UNCHANGED <<track, handleMap, opened, pnp, stop>>

\* SubmitIrp returns anything but STATUS_PENDING: IrpOut.
FuncOut(f) ==
    /\ func[f] = "out"
    /\ func' = [func EXCEPT ![f] = "idle"]
    /\ gate' = gate \ {f}
    /\ UNCHANGED <<stk, book, victims, handleMap, opened, pnp, stop, thrown>>

\* CPort::CompleteIrp or CPort::CancelIrp of a pending FUNC IRP: IrpOut.
FuncDone(f) ==
    /\ func[f] = "pending"
    /\ func' = [func EXCEPT ![f] = "idle"]
    /\ gate' = gate \ {f}
    /\ UNCHANGED <<stk, book, victims, handleMap, opened, pnp, stop, thrown>>

\* CRpcTcpFido::CompleteFuncIrp: the request is written, the IRP goes on to
\* wait for its response.  PopState follows whether or not CanContinue let it in.
FidoWritten(f) ==
    LET a == CanContinue(stk, "FUNC", "BUSY_SHARED") IN
    /\ FidoPort
    /\ func[f] = "pending"
    /\ LeaveFrom(a.stk)
    /\ IF a.ret = "OK" THEN UNCHANGED <<func, gate>>
       ELSE /\ func' = [func EXCEPT ![f] = "idle"]
            /\ gate' = gate \ {f}
    /\ UNCHANGED <<victims, handleMap, opened, pnp, stop>>

-----------------------------------------------------------------------------
(* STOP IRPs: CPnpManager::StopPortsInternal, QueryStop and DoStop.        *)

\* The start/stop queue of the bus port (CStartStopSafeBusPort) starts a stop
\* when the start, or the stop before it, has ended.  Only the stop by which the
\* PnP manager undoes a failed start is outside of this queue.
QueryStopSubmit(s) ==
    /\ stop[s] = "idle"
    /\ StartDone
    /\ start = "started" =>
          \A t \in StopIrps : stop[t] \in {"idle"} \cup StopEnds
    /\ stop' = [stop EXCEPT ![s] = "queryIn"]
    /\ gate' = gate \cup {s}
    /\ UNCHANGED <<stk, book, victims, handleMap, opened, pnp, func, thrown>>

\* SubmitQueryStopIrp: CanContinue; a refusal only skips the query.
QueryStopEnter(s) ==
    LET a == CanContinue(stk, "QUERY_STOP", "BUSY_SHARED") IN
    /\ stop[s] = "queryIn"
    /\ stk' = a.stk
    /\ stop' = [stop EXCEPT ![s] = IF a.ret = "OK" THEN "query" ELSE "queryOut"]
    /\ UNCHANGED <<book, track, handleMap, opened, pnp, func, thrown>>

\* SubmitQueryStopIrp: OnQueryStop returned, PopState.
QueryStopLeave(s) ==
    /\ stop[s] = "query"
    /\ Leave
    /\ \E ph \in {"queryOut", "queryPending"} : stop' = [stop EXCEPT ![s] = ph]
    /\ UNCHANGED <<track, handleMap, opened, pnp, func>>

\* IrpOut of the QUERY_STOP IRP, returned or completed; its result is ignored
\* and DoStop sends the STOP IRP.
QueryStopDone(s) ==
    /\ stop[s] \in {"queryOut", "queryPending"}
    /\ stop' = [stop EXCEPT ![s] = "prep"]
    /\ gate' = gate \ {s}
    /\ UNCHANGED <<stk, book, victims, handleMap, opened, pnp, func, thrown>>

AfterTry(ret) ==
    CASE ret = "OK"      -> "preStop"
      [] ret = "PENDING" -> "excl"
      [] ret = "EAGAIN"  -> "again"
      [] OTHER           -> "refused"

\* Mutant: a deferred stop sets no resume point.
TryStopNoResumePoint(s) ==
    LET a == CanContinue(stk, "STOP", "STOPPING") IN
    /\ stk' = a.stk
    /\ stop' = [stop EXCEPT ![s] = AfterTry(a.ret)]
    /\ exclIrp' = IF a.ret = "PENDING" THEN s ELSE exclIrp
    /\ UNCHANGED resume

\* SubmitStopIrp: CanContinue and, for a deferred stop, SetResumePoint, under
\* one hold of the port lock.
TryStop(s) ==
    LET a == CanContinue(stk, "STOP", "STOPPING") IN
    /\ stk' = a.stk
    /\ stop' = [stop EXCEPT ![s] = AfterTry(a.ret)]
    /\ IF a.ret = "PENDING" THEN exclIrp' = s /\ resume' = s
                            ELSE UNCHANGED <<exclIrp, resume>>

\* SubmitStopIrpEx, after OnPrepareStop returned or completed.
StopSubmit(s) ==
    /\ stop[s] = "prep"
    /\ TryStop(s)
    /\ UNCHANGED <<resumeTasks, track, handleMap, opened, pnp, func, thrown>>

\* CPortStateResumeSubmitTask: nothing happens when the IRP is gone.
ResumeSubmit(s) ==
    LET a == SetPortState(stk, "STOP_RESUME") IN
    /\ s \in resumeTasks
    /\ resumeTasks' = resumeTasks \ {s}
    /\ IF stop[s] = "excl"
       THEN /\ stk' = a.stk
            /\ stop' = IF a.ret = "OK" THEN [stop EXCEPT ![s] = "resumed"] ELSE stop
       ELSE UNCHANGED <<stk, stop>>
    /\ UNCHANGED <<exclIrp, resume, track, handleMap, opened, pnp, func, thrown>>

\* ... and its resume function, CIoManager::CompleteIrp, which re-enters
\* SubmitStopIrp through CompleteStopIrpEx.
StopResume(s) ==
    /\ stop[s] = "resumed"
    /\ TryStop(s)
    /\ UNCHANGED <<resumeTasks, track, handleMap, opened, pnp, func, thrown>>

\* Mutant: the tracked IRPs are dropped, not cancelled.
PreStopForgets(s) ==
    /\ stop[s] = "preStop"
    /\ stop' = [stop EXCEPT ![s] = "cancelling"]
    /\ handleMap' = FALSE
    /\ victims' = {}
    /\ gate' = {}
    /\ UNCHANGED <<stk, book, opened, pnp, func, thrown>>

\* PreStop: the handle goes, and every tracked IRP is to be cancelled.
PreStop(s) ==
    /\ stop[s] = "preStop"
    /\ stop' = [stop EXCEPT ![s] = "cancelling"]
    /\ handleMap' = FALSE
    /\ victims' = gate
    /\ gate' = {}
    /\ UNCHANGED <<stk, book, opened, pnp, func, thrown>>

\* CCancelIrpsTask: CancelIrp waits for the lock of an IRP that is being
\* submitted and passes over one that is finished.
CancelVictim(s, v) ==
    /\ stop[s] = "cancelling"
    /\ v \in victims
    /\ v \in FuncIrps => func[v] \in {"idle", "pending"}
    /\ v \in StopIrps => stop[v] \notin {"queryIn", "query", "queryOut"}
    /\ victims' = victims \ {v}
    /\ func' = IF v \in FuncIrps THEN [func EXCEPT ![v] = "idle"] ELSE func
    /\ stop' = IF v \in StopIrps /\ stop[v] = "queryPending"
               THEN [stop EXCEPT ![v] = "prep"] ELSE stop
    /\ UNCHANGED <<stk, book, gate, handleMap, opened, pnp, thrown>>

PreStopDone(s) ==
    /\ stop[s] = "cancelling"
    /\ victims = {}
    /\ stop' = [stop EXCEPT ![s] = "stopEx"]
    /\ UNCHANGED <<stk, book, track, handleMap, opened, pnp, func, thrown>>

\* The rest of StopEx returns.  Whatever it returned, the port is then STOPPED;
\* in any state but STOPPING, SubmitStopIrp throws.
StopSelf(s) ==
    /\ stop[s] = "stopEx"
    /\ \/ /\ stop' = [stop EXCEPT ![s] = "stopPending"]
          /\ UNCHANGED <<stk, thrown>>
       \/ IF State = "STOPPING"
          THEN /\ stk' = SetPortState(stk, "STOPPED").stk
               /\ stop' = [stop EXCEPT ![s] = "stopped"]
               /\ UNCHANGED thrown
          ELSE /\ thrown' = TRUE
               /\ stop' = [stop EXCEPT ![s] = "refused"]
               /\ UNCHANGED stk
    /\ UNCHANGED <<book, track, handleMap, opened, pnp, func>>

\* CompleteStopIrp of a pending stop, with any status.
StopComplete(s) ==
    /\ stop[s] = "stopPending"
    /\ stk' = SetPortState(stk, "STOPPED").stk
    /\ stop' = [stop EXCEPT ![s] = "stopped"]
    /\ UNCHANGED <<book, track, handleMap, opened, pnp, func, thrown>>

\* The timer of a pending STOP IRP fires: CancelIrp, CancelStartStopIrp.  A
\* STOPPING port turns STOPPED, whichever IRP is stopping it.
StopTimeout(s) ==
    /\ StopMayTimeout
    /\ stop[s] \in {"prep", "excl", "resumed", "stopPending"}
    /\ stk' = SetPortStateWake(stk, "STOPPING", "STOPPED").stk
    /\ stop' = [stop EXCEPT ![s] = "cancelled"]
    /\ UNCHANGED <<book, track, handleMap, opened, pnp, func, thrown>>

-----------------------------------------------------------------------------
PnpNext ==
    \/ StackBuiltBegin \/ StackBuiltEnd \/ StartSubmit \/ StartSelf
    \/ StackReadyBegin \/ StackReadyEnd \/ PortReady \/ StartComplete
    \/ StartCompleteError \/ StartTimeout
    \/ StackDestroyBegin \/ StackDestroyEnd \/ OpenPort

FuncNext(f) ==
    FuncSubmit(f) \/ FuncEnter(f) \/ FuncLeave(f) \/ FuncOut(f) \/ FuncDone(f)
    \/ FidoWritten(f)

StopNext(s) ==
    \/ QueryStopSubmit(s) \/ QueryStopEnter(s) \/ QueryStopLeave(s)
    \/ QueryStopDone(s) \/ StopSubmit(s) \/ ResumeSubmit(s) \/ StopResume(s)
    \/ PreStop(s) \/ PreStopDone(s) \/ StopSelf(s) \/ StopComplete(s)
    \/ StopTimeout(s)
    \/ \E v \in victims : CancelVictim(s, v)

Next ==
    \/ PnpNext
    \/ \E f \in FuncIrps : FuncNext(f)
    \/ \E s \in StopIrps : StopNext(s)

Spec == Init /\ [][Next]_vars

\* A thread inside SubmitIrp runs on; scheduled tasks run; a stop that is
\* pending in a lower port is completed.  Nothing is assumed of who submits.
Fairness ==
    /\ \A f \in FuncIrps : WF_vars(FuncEnter(f) \/ FuncLeave(f) \/ FuncOut(f))
    /\ \A s \in StopIrps :
          /\ WF_vars(QueryStopEnter(s) \/ QueryStopLeave(s))
          /\ WF_vars(ResumeSubmit(s))
          /\ WF_vars(StopResume(s) \/ PreStop(s) \/ PreStopDone(s)
                     \/ (\E v \in victims : CancelVictim(s, v)))
          /\ WF_vars(StopSelf(s) \/ StopComplete(s))

FairSpec == Spec /\ Fairness

-----------------------------------------------------------------------------
(* Properties.                                                             *)

Bottom == IF stk = <<>> THEN "INVALID" ELSE stk[1]

TypeOK ==
    /\ stk \in Seq(States)
    /\ exclIrp \in StopIrps \cup {NoIrp}
    /\ resume \in StopIrps \cup {NoIrp}
    /\ resumeTasks \subseteq StopIrps
    /\ gate \subseteq FuncIrps \cup StopIrps \cup {StartIrp}
    /\ victims \subseteq FuncIrps \cup StopIrps \cup {StartIrp}
    /\ handleMap \in BOOLEAN /\ opened \in BOOLEAN /\ thrown \in BOOLEAN
    /\ start \in StartPhases
    /\ func \in [FuncIrps -> FuncPhases]
    /\ stop \in [StopIrps -> StopPhases]
    /\ destroy \in DestroyPhases

\* BUSY_SHARED is "mutual exclusive for stopping command" (port.h:84): once the
\* port is STOPPING or beyond, no thread is inside OnSubmitIrp or OnQueryStop.
StopExclusive ==
    (\E i \in DOMAIN stk : stk[i] \in {"STOPPING", "STOPPED", "REMOVED"})
        => Inside = {}

\* Every request inside holds exactly one BUSY_SHARED of the stack: no PopState
\* takes a state that belongs to another request.
BusyMatchesInside ==
    Cardinality({i \in DOMAIN stk : stk[i] = "BUSY_SHARED"}) = Cardinality(Inside)

\* On a TCP fido the second entry of CRpcTcpFido::CompleteFuncIrp takes off what it
\* has put on as long as nobody stops the port, whatever becomes of its start.
BalancedUntilStop == (\A s \in StopIrps : stop[s] = "idle") => BusyMatchesInside

\* Neither PopState ("Cannot find irp or the resume addr") nor SubmitStopIrp
\* ("Port state machine has gone wrong") ever throws.  The throws of the completion
\* handlers (port.cpp:2066, 2094, 2184), for a port that has left STARTING or STOPPING
\* while StartEx or StopEx was called again, are not counted.
NeverThrown == ~thrown

\* PreStop reaches every request the port still owes an answer: a stopped port
\* holds no pending FUNC IRP.
NoIrpLeftBehind ==
    Bottom \in {"STOPPED", "REMOVED"} => \A f \in FuncIrps : func[f] # "pending"

\* A port that refuses everything on account of a deferred stop has an IRP, or a
\* scheduled task, that will go on with this stop.
DeferredStopOwned ==
    /\ State = "EXCLUDE_PENDING" =>
          exclIrp \in StopIrps /\ resume = exclIrp /\ stop[exclIrp] = "excl"
    /\ State = "BUSY_RESUME" => \E s \in resumeTasks : stop[s] = "excl"
    /\ State = "STOP_RESUME" => \E s \in StopIrps : stop[s] = "resumed"

\* From the moment a stop is deferred, requests only leave the port.
DrainOnly ==
    [][(State \in {"EXCLUDE_PENDING", "BUSY_RESUME", "STOP_RESUME", "STOPPING"})
         => Inside' \subseteq Inside]_vars

\* A deferred stop goes through: the port ends up STOPPED (or REMOVED).
DeferredStopCompletes ==
    \A s \in StopIrps : stop[s] = "excl" ~> Bottom \in {"STOPPED", "REMOVED"}

\* The port implements the gate of module IoGate.
GatePhase ==
    IF State \in {"EXCLUDE_PENDING", "BUSY_RESUME", "STOP_RESUME"} THEN "draining"
    ELSE IF Bottom \in {"STOPPING", "STOPPED", "REMOVED"} THEN "shut"
    ELSE IF Bottom = "READY" THEN "open" ELSE "closed"
Gate == INSTANCE IoGate WITH phase <- GatePhase, inside <- Inside,
                             Requests <- FuncIrps \cup StopIrps
GateSpec == Gate!Spec
=============================================================================
