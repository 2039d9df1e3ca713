------------------------------ MODULE PortState ------------------------------
(***************************************************************************)
(* CPortState (src/ipc/portstat.cpp): the stack of states by which a port  *)
(* admits, defers or refuses I/O request packets (IRPs).  Every method     *)
(* runs under the port's recursive mutex, so each is a function of the     *)
(* stack m_vecStates it is called on: it returns the new stack and the     *)
(* value the C++ method returns.                                           *)
(***************************************************************************)
EXTENDS Integers, Sequences

CONSTANT NumCores       \* CIoManager::GetNumCores, the base of the push limit

ASSUME NumCoresAssumption == NumCores \in Nat \ {0}

States == {"READY", "ATTACHED", "STARTING", "STOPPING", "STOPPED", "REMOVED",
           "BUSY", "BUSY_SHARED", "EXCLUDE_PENDING", "STOP_RESUME",
           "BUSY_RESUME"}

\* The commands of an IRP that CanContinue tells apart: IRP_MJ_FUNC and the
\* minor commands of IRP_MJ_PNP.
Cmds == {"FUNC", "START", "STOP", "QUERY_STOP", "STOP_CHILD",
         "STACK_BUILT", "STACK_READY", "STACK_DESTROY", "REATTACH"}

\* GetPortState: PORT_STATE_INVALID when nothing is left on the stack.
Top(s) == IF s = <<>> THEN "INVALID" ELSE s[Len(s)]
Below(s) == SubSeq(s, 1, Len(s) - 1)
SetTop(s, st) == [s EXCEPT ![Len(s)] = st]

\* m_arrStatMap, the entries 1 and -1: the targets an IRP may ask for.
SubmitTargets(cur) ==
    CASE cur = "READY"       -> {"READY", "STOPPING", "BUSY", "BUSY_SHARED"}
      [] cur = "ATTACHED"    -> {"STARTING", "BUSY"}
      [] cur = "STOPPED"     -> {"ATTACHED", "REMOVED", "BUSY"}
      [] cur = "BUSY_SHARED" -> {"STOPPING", "BUSY_SHARED", "EXCLUDE_PENDING"}
      [] cur = "STOP_RESUME" -> {"STOPPING"}
      [] cur = "BUSY_RESUME" -> {"BUSY"}
      [] OTHER               -> {}

\* m_arrStatMap, the entries 2, 3 and 4: the targets reached without an IRP.
SwitchTargets(cur) ==
    CASE cur = "ATTACHED"        -> {"ATTACHED"}
      [] cur = "STARTING"        -> {"READY", "ATTACHED", "STARTING", "STOPPED"}
      [] cur = "STOPPING"        -> {"STOPPING", "STOPPED"}
      [] cur = "STOPPED"         -> {"STOPPED"}
      [] cur = "REMOVED"         -> {"REMOVED"}
      [] cur = "BUSY"            -> {"READY", "ATTACHED", "STOPPED", "BUSY"}
      [] cur = "BUSY_SHARED"     -> {"READY"}
      [] cur = "EXCLUDE_PENDING" -> {"STOP_RESUME", "BUSY_RESUME"}
      [] cur = "BUSY_RESUME"     -> {"STOP_RESUME"}
      [] OTHER                   -> {}

IsValidSubmit(s, new) == new \in SubmitTargets(Top(s))

Answer(ret, s) == [ret |-> ret, stk |-> s]
Refuse(s) == Answer("ERROR_STATE", s)

PushLimited(s, st) ==
    IF Len(s) > NumCores + 1 THEN Answer("EAGAIN", s)
                             ELSE Answer("OK", Append(s, st))
PushUnlimited(s, st) == Answer("OK", Append(s, st))

\* SetPortState: replace the top.  STOP_RESUME instead drops BUSY_RESUME and
\* replaces the READY underneath; the drop stays if what is there is not READY.
SetPortState(s, new) ==
    IF s = <<>> THEN Answer("OK", <<new>>)
    ELSE IF new \notin SubmitTargets(Top(s)) \cup SwitchTargets(Top(s))
    THEN Refuse(s)
    ELSE IF new # "STOP_RESUME" THEN Answer("OK", SetTop(s, new))
    ELSE IF Top(s) # "BUSY_RESUME" THEN Refuse(s)
    ELSE IF Top(Below(s)) # "READY" THEN Refuse(Below(s))
    ELSE Answer("OK", SetTop(Below(s), new))

\* SetPortStateWake: SetPortState, but only from the expected state.  (The
\* semaphore it posts has no waiter: IsValidSubmit refuses every request on a
\* BUSY port before HandleBusy could wait.)
SetPortStateWake(s, cur, new) ==
    IF Top(s) # cur THEN Refuse(s) ELSE SetPortState(s, new)

HandleReady(s, cmd, new) ==
    CASE cmd \in {"QUERY_STOP", "STOP_CHILD"} /\ new = "BUSY_SHARED"
           -> PushUnlimited(s, new)
      [] cmd = "STACK_READY" /\ new = "BUSY" -> PushUnlimited(s, new)
      [] cmd = "STOP" /\ new = "STOPPING" -> SetPortState(s, new)
      [] cmd = "FUNC" /\ new \in {"BUSY_SHARED", "BUSY"} -> PushLimited(s, new)
      [] OTHER -> Refuse(s)

HandleAttached(s, cmd, new) ==
    CASE cmd = "START" /\ new = "STARTING" -> SetPortState(s, new)
      [] cmd = "STACK_BUILT" /\ new = "BUSY" -> PushLimited(s, new)
      [] cmd = "STACK_DESTROY" /\ new = "BUSY" -> PushUnlimited(s, new)
      [] OTHER -> Refuse(s)

HandleStopped(s, cmd, new) ==
    CASE cmd = "REATTACH" /\ new = "ATTACHED" -> SetPortState(s, new)
      [] cmd = "STACK_DESTROY" /\ new = "BUSY" -> PushLimited(s, new)
      [] OTHER -> Refuse(s)

\* Mutant: a stop does not wait for the shared requests.
HandleBusySharedNoWait(s, cmd, new) ==
    CASE cmd \in {"QUERY_STOP", "STOP_CHILD", "FUNC"} /\ new = "BUSY_SHARED"
           -> PushUnlimited(s, new)
      [] cmd = "STOP" -> SetPortState(s, new)
      [] OTHER -> Refuse(s)

\* A stop that finds shared requests on the port is deferred: EXCLUDE_PENDING
\* goes on top and the IRP becomes m_pExclIrp (the caller of PENDING does it).
\* (The C++ would defer a FUNC that asks for BUSY as well, but IsValidSubmit
\* refuses that target before the handler is called.)
HandleBusyShared(s, cmd, new) ==
    CASE cmd \in {"QUERY_STOP", "STOP_CHILD", "FUNC"} /\ new = "BUSY_SHARED"
           -> PushUnlimited(s, new)
      [] cmd = "STOP" -> LET a == PushLimited(s, "EXCLUDE_PENDING")
                         IN  IF a.ret = "OK" THEN Answer("PENDING", a.stk) ELSE a
      [] OTHER -> Refuse(s)

HandleStopResume(s, new) ==
    IF new = "STOPPING" THEN SetPortState(s, new) ELSE Refuse(s)

HandleBusyResume(s, new) ==
    IF new = "BUSY" THEN SetPortState(s, new) ELSE Refuse(s)

\* Mutant: a port with a deferred stop treats requests like a shared one.
CanContinueWhileDraining(s, cmd, new) ==
    CASE Top(s) = "READY"    -> HandleReady(s, cmd, new)
      [] Top(s) = "ATTACHED" -> HandleAttached(s, cmd, new)
      [] Top(s) \in {"BUSY_SHARED", "EXCLUDE_PENDING", "BUSY_RESUME"}
            -> HandleBusyShared(s, cmd, new)
      [] OTHER -> Refuse(s)

\* CanContinue: may this IRP take the port to the state it asks for?  OTHER is
\* the states from which the table lets no IRP go anywhere: what HandleStarting,
\* HandleStopping, HandleRemoved, HandleBusy and HandleExclPending would answer
\* is never asked.
CanContinue(s, cmd, new) ==
    IF ~IsValidSubmit(s, new) THEN Refuse(s)
    ELSE CASE Top(s) = "READY"       -> HandleReady(s, cmd, new)
           [] Top(s) = "ATTACHED"    -> HandleAttached(s, cmd, new)
           [] Top(s) = "STOPPED"     -> HandleStopped(s, cmd, new)
           [] Top(s) = "BUSY_SHARED" -> HandleBusyShared(s, cmd, new)
           [] Top(s) = "STOP_RESUME" -> HandleStopResume(s, new)
           [] Top(s) = "BUSY_RESUME" -> HandleBusyResume(s, new)
           [] OTHER                  -> Refuse(s)

\* Mutant: the first request to leave wakes the deferred stop.
PopStateNoRecheck(s, armed) ==
    LET b == Below(s) IN
    IF s = <<>> THEN Refuse(s)
    ELSE IF Top(s) # "EXCLUDE_PENDING" THEN Answer("OK", b)
    ELSE IF armed THEN Answer("RESUME", Append(Below(b), "BUSY_RESUME"))
                  ELSE Answer("THROW", Below(b))

\* PopState: a finished request takes its state off the stack.  Under
\* EXCLUDE_PENDING it takes a BUSY_SHARED from below it; when that was the last
\* one (RESUME), the deferred stop is due, unless the IRP or the resume task
\* is missing (THROW).
PopState(s, armed) ==
    LET b == Below(s) IN
    IF s = <<>> THEN Refuse(s)
    ELSE IF Top(s) # "EXCLUDE_PENDING" THEN Answer("OK", b)
    ELSE IF Len(b) <= 1 \/ Top(b) # "BUSY_SHARED" THEN Refuse(b)
    ELSE IF Top(Below(b)) = "BUSY_SHARED"
         THEN Answer("OK", Append(Below(b), "EXCLUDE_PENDING"))
    ELSE IF armed THEN Answer("RESUME", Append(Below(b), "BUSY_RESUME"))
                  ELSE Answer("THROW", Below(b))
=============================================================================
