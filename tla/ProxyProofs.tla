----------------------------- MODULE ProxyProofs -----------------------------
(***************************************************************************)
(* A proxy that has been stopped keeps nothing, however often the peer     *)
(* comes and goes and whatever the start and the events of the peer were   *)
(* doing when the stop came: THEOREM StopReleasesAll.                      *)
(*                                                                         *)
(* The property speaks of the end of the stop only.  Released says, for    *)
(* each phase of the stop, what is gone for good, and Working says which   *)
(* step of a task can still obtain something: none that runs after         *)
(* ClearActiveTasks can.                                                   *)
(***************************************************************************)
EXTENDS Proxy, TLAPS

\* A start task that has got this far has the port.
WithPort == {"started", "subscribe", "check", "regOn", "regOff", "offline", "listening"}

\* The steps at which a task finds out that it may not go on.
Testing == {"none", "open", "recv", "mod"}

Cleared == {"disable", "close", "closing", "cleanup", "done"}
Unmatched == {"close", "closing", "cleanup", "done"}

\* Where a recovery leads back to, and the signals that are still to be handled.
Counted ==
    /\ Len(signals) <= changes
    /\ ifState = "Recovery" => resumeState = "Connected"

\* The root group and the thread or the task that is at its head.
Grouped ==
    /\ head \in {"idle", "sched"} <=> step = "none"
    /\ ~rootMade => root = <<>>
    /\ start \in {"none", "queued", "tested"} => ~rootMade
    /\ step = "mod" => root # <<>> /\ Head(root) \in ModEvents
    /\ listening # "no" => step = "listen"

\* What a proxy holds rests on its port.
Working ==
    /\ step \in WithPort => hPort
    /\ topics => hPort
    /\ match # "none" => hPort

\* The events that OnDBusEvent takes.
BusLost(e) == e.name = "eventDBusOffline"

\* The connection is lost only under a proxy that has got beyond stateStarting.
Beyond ==
    /\ \A i \in DOMAIN queEvents : BusLost(queEvents[i]) => ~busUp
    /\ \A b \in bcasts : ~BusLost(b)
    /\ event # "test" => queEvents # <<>> /\ ~BusLost(Head(queEvents))
    /\ ifState = "Starting" => ~topics /\ busUp /\ step # "subscribe"
    /\ start = "none" => ifState = "Stopped" /\ stop = "none" /\ ~topics /\ busUp

\* The phase of the stop tells the state and what has been released.
Released ==
    /\ stop \in {"queued", "clear", "disable", "close", "closing"} => ifState = "Stopping"
    /\ stop \in {"cleanup", "done"} => ifState = "Stopped" /\ ~hPort /\ ~topics
    /\ stop \in Cleared => step \in Testing
    /\ stop \in Unmatched => match = "none"

IInv == TypeOK /\ Counted /\ Grouped /\ Working /\ Beyond /\ Released

-----------------------------------------------------------------------------
\* What TestSetState and SetStateOnEvent do, row by row of m_mapState.
LEMMA Rows ==
    ASSUME NEW e
    PROVE  TestSetState(e) <=>
             \/ ifState = "Stopped" /\ e = "cmdOpenPort"
             \/ /\ ifState = "Starting"
                /\ e \in {"eventPortStarted", "eventPortStartFailed",
                          "eventDBusOffline", "cmdShutdown"}
             \/ /\ ifState = "Connected"
                /\ e \in {"eventDBusOffline", "cmdShutdown", "eventModOffline"}
             \/ /\ ifState = "Recovery"
                /\ e \in {"eventModOffline", "eventModOnline", "eventDBusOffline",
                          "cmdShutdown"}
             \/ ifState = "Stopping" /\ e = "cmdClosePort"
             \/ ifState = "StartFailed" /\ e = "cmdCleanup"
BY DEF TestSetState, StateMap

LEMMA Switch ==
    ASSUME NEW e, TestSetState(e), SetStateOnEvent(e)
    PROVE  \E r \in StateMap :
             /\ r[1] = ifState /\ r[2] = e
             /\ ifState' = IF r[3] = "Unknown" THEN resumeState ELSE r[3]
             /\ resumeState' = IF r[3] = "Recovery" /\ ifState # "Recovery" THEN ifState
                               ELSE resumeState
<1> DEFINE r == CHOOSE x \in StateMap : x[1] = ifState /\ x[2] = e
<1>1. r \in StateMap /\ r[1] = ifState /\ r[2] = e
  BY DEF TestSetState
<1>2. /\ ifState' = IF r[3] = "Unknown" THEN resumeState ELSE r[3]
      /\ resumeState' = IF r[3] = "Recovery" /\ ifState # "Recovery" THEN ifState
                        ELSE resumeState
  BY DEF SetStateOnEvent
<1> QED
  BY <1>1, <1>2

\* The switches of the start ...
LEMMA SwitchStart ==
    ASSUME NEW e \in {"cmdOpenPort", "eventPortStarted", "eventPortStartFailed"},
           TestSetState(e), SetStateOnEvent(e)
    PROVE  /\ e = "cmdOpenPort" => ifState = "Stopped" /\ ifState' = "Starting"
           /\ e = "eventPortStarted" => ifState = "Starting" /\ ifState' = "Connected"
           /\ e = "eventPortStartFailed" => ifState = "Starting" /\ ifState' = "StartFailed"
           /\ resumeState' = resumeState
BY Switch DEF StateMap

\* ... of the events of the peer ...
LEMMA SwitchMod ==
    ASSUME NEW e \in ModEvents, TestSetState(e), SetStateOnEvent(e), TypeOK, Counted
    PROVE  /\ ifState \in {"Connected", "Recovery"}
           /\ ifState' \in {"Connected", "Recovery"}
           /\ resumeState' \in {"Invalid", "Connected"}
           /\ ifState' = "Recovery" => resumeState' = "Connected"
BY Switch DEF StateMap, ModEvents, TypeOK, Counted

\* ... and of the stop.
LEMMA SwitchStop ==
    ASSUME NEW e \in {"cmdCleanup", "cmdShutdown", "eventDBusOffline", "cmdClosePort"},
           TestSetState(e), SetStateOnEvent(e),
           e = "eventDBusOffline" => ifState # "Starting"
    PROVE  /\ e # "cmdClosePort" => ifState \notin {"Stopped", "Stopping"}
                                     /\ ifState' = "Stopping"
           /\ e = "cmdClosePort" => ifState = "Stopping" /\ ifState' = "Stopped"
           /\ resumeState' = resumeState
BY Switch DEF StateMap

\* The next task of the root group begins with a test, if it begins at all.
LEMMA NextTaskTests ==
    ASSUME TypeOK, Grouped, head \in {"run", "wait"},
           NEW q \in Seq(Tasks), NextTask(q)
    PROVE  /\ rootMade /\ rootMade' = rootMade
           /\ root' \in Seq(Tasks) /\ head' \in {"idle", "sched", "run"}
           /\ root' = <<>> <=> head' = "idle"
           /\ step' \in Testing /\ byEvent' \in BOOLEAN
           /\ head' \in {"idle", "sched"} <=> step' = "none"
           /\ step' = "mod" => root' # <<>> /\ Head(root') \in ModEvents
<1>1. rootMade
  BY DEF TypeOK, Grouped
<1>2. q # <<>> => Head(q) \in Tasks
  OBVIOUS
<1>3. q # <<>> => /\ FirstStep(Head(q)) \in {"open", "recv", "mod"}
                  /\ FirstStep(Head(q)) = "mod" => Head(q) \in ModEvents
  BY <1>2 DEF FirstStep, Tasks
<1> QED
  BY <1>1, <1>3 DEF NextTask, Testing, TypeOK

\* The tail of the root group is a queue of tasks, with or without a listening
\* task behind it.
LEMMA Queues ==
    ASSUME TypeOK, head \in {"run", "wait"}
    PROVE  /\ root # <<>> /\ Tail(root) \in Seq(Tasks)
           /\ AddPara(Tail(root)) \in Seq(Tasks)
BY DEF TypeOK, AddPara, Tasks

-----------------------------------------------------------------------------
\* A switch that a task at the head of the group may make.
Switched ==
    /\ ifState' \in IfStates /\ resumeState' \in {"Invalid", "Connected"}
    /\ ifState' = "Recovery" => resumeState' = "Connected"
    /\ ifState' # ifState => stop = "none" /\ ifState' # "Starting"

\* The task at the head of the group ends.
LEMMA TaskEnds ==
    ASSUME IInv, head \in {"run", "wait"}, NEW q \in Seq(Tasks), NextTask(q), Switched,
           start' \in {start, "clear", "failed", "done"}, listening' = "no",
           UNCHANGED <<env, hPort, topics, evs, stop, app, bus, match>>
    PROVE  IInv'
<1> USE DEF IInv
<1>1. TypeOK /\ Grouped
  OBVIOUS
<1>2. /\ rootMade /\ rootMade' = rootMade
      /\ root' \in Seq(Tasks) /\ head' \in {"idle", "sched", "run"}
      /\ root' = <<>> <=> head' = "idle"
      /\ step' \in Testing /\ byEvent' \in BOOLEAN
      /\ head' \in {"idle", "sched"} <=> step' = "none"
      /\ step' = "mod" => root' # <<>> /\ Head(root') \in ModEvents
  BY <1>1, NextTaskTests
<1>3. TypeOK'
  BY <1>1, <1>2 DEF TypeOK, Switched, evs, bus, Testing, Steps
<1>4. Counted' /\ Grouped'
  BY <1>1, <1>2 DEF Counted, Grouped, Switched, bus
<1>5. Working' /\ Released'
  BY <1>2 DEF Working, Released, Switched, Testing, WithPort
<1>6. Beyond'
  BY <1>1, <1>2 DEF Beyond, Switched, Testing, Grouped, evs, bus
<1> QED
  BY <1>3, <1>4, <1>5, <1>6

\* The task at the head of the group goes on, and may have got something.
LEMMA TaskGoesOn ==
    ASSUME IInv, head \in {"run", "wait"}, step # "listen", stop \notin Cleared,
           NEW s \in Steps \ (Testing \cup {"listen"}),
           step' = s, head' \in {"run", "wait"}, byEvent' \in BOOLEAN, Switched,
           hPort' \in BOOLEAN, topics' \in BOOLEAN,
           hPort => hPort', topics' => hPort', s \in WithPort => hPort',
           ifState' = "Starting" => ~topics' /\ s # "subscribe",
           UNCHANGED <<env, evs, root, rootMade, start, stop, app, bus, prt>>
    PROVE  IInv'
<1> USE DEF IInv
<1>1. TypeOK'
  BY DEF TypeOK, Switched, evs, bus, prt
<1>2. Counted' /\ Grouped'
  BY DEF Counted, Grouped, Switched, Testing, bus, prt
<1>3. Working' /\ Released'
  BY DEF Working, Released, Switched, Testing, WithPort, Cleared, prt
<1>4. Beyond'
  <2>1. start # "none"
    BY DEF Grouped, TypeOK
  <2> QED
    BY <2>1 DEF Beyond, Switched, Testing, evs, bus
<1> QED
  BY <1>1, <1>2, <1>3, <1>4

\* The root group is cancelled, with all that it holds.
LEMMA GroupCancelled ==
    ASSUME IInv, CancelRoot, rootMade, rootMade' \in BOOLEAN,
           start' \in {start, "failed"},
           stop' = stop \/ (stop = "clear" /\ stop' = "disable")
                        \/ (stop = "cleanup" /\ stop' = "done"),
           UNCHANGED <<env, ifs, hPort, topics, evs, app, bus, match>>
    PROVE  IInv'
<1> USE DEF IInv
<1>0. byEvent' \in BOOLEAN
  BY DEF CancelRoot
<1>1. /\ root' = <<>> /\ head' = "idle" /\ step' = "none" /\ listening' = "no"
      /\ root' \in Seq(Tasks)
  BY DEF CancelRoot
<1>2. TypeOK'
  <2>1. /\ start' \in {"none", "queued", "tested", "running", "clear", "done", "failed"}
        /\ stop' \in {"none", "queued", "clear", "disable", "close", "closing", "cleanup",
                      "done"}
    BY DEF TypeOK
  <2> QED
    BY <1>0, <1>1, <2>1 DEF TypeOK, ifs, evs, bus, Steps
<1>3. Counted' /\ Grouped'
  BY <1>1 DEF Counted, Grouped, ifs, bus
<1>4. Working' /\ Released'
  BY <1>1 DEF Working, Released, Testing, WithPort, Cleared, Unmatched, ifs
<1>5. start # "none" /\ start' # "none"
  BY DEF Grouped
<1>6. Beyond'
  BY <1>1, <1>5 DEF Beyond, ifs, evs, bus
<1> QED
  BY <1>2, <1>3, <1>4, <1>6

\* An event enters or leaves the queue of the proxy; nothing else happens.
LEMMA EventsChange ==
    ASSUME IInv, queEvents' \in Seq(Events), event' \in {"test", "append", "run"},
           busUp' \in BOOLEAN, ~busUp' => ~busUp \/ topics, bcasts' \subseteq bcasts,
           \A i \in DOMAIN queEvents' : BusLost(queEvents'[i]) => ~busUp',
           event' # "test" => queEvents' # <<>> /\ ~BusLost(Head(queEvents')),
           UNCHANGED <<env, ifs, hPort, topics, grp, start, stop, app, peer, changes,
                       signals, prt>>
    PROVE  IInv'
<1> USE DEF IInv, ifs, grp, prt
<1>1. TypeOK'
  BY DEF TypeOK
<1>2. Counted' /\ Grouped' /\ Working' /\ Released'
  BY DEF Counted, Grouped, Working, Released
<1>3. Beyond'
  BY DEF Beyond
<1> QED
  BY <1>1, <1>2, <1>3

\* The first event leaves the queue.
LEMMA Popped ==
    ASSUME TypeOK, Beyond, queEvents # <<>>
    PROVE  /\ Head(queEvents) \in Events /\ Tail(queEvents) \in Seq(Events)
           /\ BusLost(Head(queEvents)) => ~busUp
           /\ \A i \in DOMAIN Tail(queEvents) : BusLost(Tail(queEvents)[i]) => ~busUp
<1>1. queEvents \in Seq(Events)
  BY DEF TypeOK
<1>2. Head(queEvents) \in Events /\ Tail(queEvents) \in Seq(Events)
  BY <1>1
<1>3. Head(queEvents) = queEvents[1] /\ 1 \in DOMAIN queEvents
  BY <1>1
<1>4. \A i \in DOMAIN Tail(queEvents) :
         i + 1 \in DOMAIN queEvents /\ Tail(queEvents)[i] = queEvents[i + 1]
  BY <1>1
<1> QED
  BY <1>2, <1>3, <1>4 DEF Beyond

\* An event enters the queue.
LEMMA Pushed ==
    ASSUME TypeOK, Beyond, NEW e \in Events, NEW up \in BOOLEAN,
           up => busUp /\ ~BusLost(e)
    PROVE  /\ Append(queEvents, e) \in Seq(Events)
           /\ Append(queEvents, e) # <<>>
           /\ queEvents # <<>> => Head(Append(queEvents, e)) = Head(queEvents)
           /\ \A i \in DOMAIN Append(queEvents, e) : BusLost(Append(queEvents, e)[i]) => ~up
<1>1. queEvents \in Seq(Events)
  BY DEF TypeOK
<1>2. /\ Append(queEvents, e) \in Seq(Events) /\ Append(queEvents, e) # <<>>
      /\ queEvents # <<>> => Head(Append(queEvents, e)) = Head(queEvents)
  BY <1>1
<1>3. \A i \in DOMAIN Append(queEvents, e) :
         \/ i \in DOMAIN queEvents /\ Append(queEvents, e)[i] = queEvents[i]
         \/ Append(queEvents, e)[i] = e
  BY <1>1
<1> QED
  BY <1>2, <1>3 DEF Beyond

-----------------------------------------------------------------------------
(* The start, step by step.                                                *)

\* A task that is at the head of the group, and a state left alone.
LEMMA AtHead ==
    ASSUME IInv, NEW s, At(s)
    PROVE  /\ TypeOK /\ Grouped /\ head \in {"run", "wait"} /\ step = s
           /\ root # <<>> /\ Tail(root) \in Seq(Tasks) /\ AddPara(Tail(root)) \in Seq(Tasks)
           /\ UNCHANGED ifs => Switched
           /\ ifState \notin {"Stopping", "Stopped"} => stop = "none"
           /\ s # "listen" => listening = "no"
           /\ s \notin Testing => stop \notin Cleared
<1>1. TypeOK /\ Grouped /\ head \in {"run", "wait"} /\ step = s
  BY DEF IInv, At
<1>2. root # <<>> /\ Tail(root) \in Seq(Tasks) /\ AddPara(Tail(root)) \in Seq(Tasks)
  BY <1>1, Queues
<1>3. UNCHANGED ifs => Switched
  BY DEF IInv, TypeOK, Counted, Switched, ifs
<1>4. ifState \notin {"Stopping", "Stopped"} => stop = "none"
  BY DEF IInv, Released, TypeOK
<1>5. s # "listen" => listening = "no"
  BY <1>1 DEF Grouped
<1>6. s \notin Testing => stop \notin Cleared
  BY <1>1 DEF IInv, Released
<1> QED
  BY <1>1, <1>2, <1>3, <1>4, <1>5, <1>6

\* The start fails, with or without a switch of the state.
LEMMA FailedStart ==
    ASSUME IInv, NEW s, At(s), s # "listen", StartFails, Switched,
           UNCHANGED <<env, hPort, topics, evs, stop, app, bus, prt>>
    PROVE  IInv'
<1>1. /\ head \in {"run", "wait"} /\ listening = "no" /\ Tail(root) \in Seq(Tasks)
  BY AtHead
<1>2. NextTask(Tail(root)) /\ start' \in {start, "clear", "failed", "done"}
  BY DEF StartFails
<1> QED
  BY <1>1, <1>2, TaskEnds DEF prt

\* The error of an open switches the state only if the proxy is starting.
LEMMA OpenError ==
    ASSUME IInv, IF TestSetState("eventPortStartFailed")
                 THEN SetStateOnEvent("eventPortStartFailed") ELSE UNCHANGED ifs
    PROVE  Switched
<1>1. CASE TestSetState("eventPortStartFailed")
  <2>1. ifState = "Starting" /\ ifState' = "StartFailed" /\ resumeState' = resumeState
    BY <1>1, SwitchStart
  <2> QED
    BY <2>1 DEF Switched, IfStates, IInv, TypeOK, Released
<1>2. CASE ~TestSetState("eventPortStartFailed")
  BY <1>2 DEF Switched, ifs, IInv, TypeOK, Counted
<1> QED
  BY <1>1, <1>2

\* The port is there: stateStarting ends.
LEMMA OpenSuccess ==
    ASSUME IInv, TestSetState("eventPortStarted"), SetStateOnEvent("eventPortStarted")
    PROVE  Switched /\ ifState' = "Connected" /\ stop = "none"
<1>1. ifState = "Starting" /\ ifState' = "Connected" /\ resumeState' = resumeState
  BY SwitchStart
<1>2. stop = "none"
  BY <1>1 DEF IInv, TypeOK, Released
<1> QED
  BY <1>1, <1>2 DEF Switched, IfStates, IInv, TypeOK

LEMMA StartKeeps == IInv /\ Start => IInv'
<1> SUFFICES ASSUME IInv, Start PROVE IInv'
  OBVIOUS
<1>1. ifState = "Stopped" /\ start = "none" /\ start' = "queued"
  BY DEF IInv, Beyond, Start
<1>2. ifState' = "Starting" /\ resumeState' = resumeState
  BY <1>1, Rows, SwitchStart DEF Start
<1> QED
  BY <1>1, <1>2 DEF IInv, Start, TypeOK, Counted, Grouped, Working, Beyond, Released, WithPort, Testing, Cleared,
   Unmatched, IfStates, evs, grp, bus, prt

LEMMA StartTestKeeps == IInv /\ StartTest => IInv'
BY DEF IInv, StartTest, TypeOK, Counted, Grouped, Working, Beyond, Released, WithPort, Testing, Cleared,
   Unmatched, ifs, evs, grp, bus, prt

LEMMA StartAppendKeeps == IInv /\ StartAppend => IInv'
<1> SUFFICES ASSUME IInv, StartAppend PROVE IInv'
  OBVIOUS
<1>1. rootMade' /\ rootMade' \in BOOLEAN
  BY DEF StartAppend
<1>2. step = "none" /\ root' = <<"start">> /\ root' \in Seq(Tasks) /\ head' = "sched"
  BY DEF IInv, TypeOK, Grouped, StartAppend, Tasks
<1> QED
  BY <1>1, <1>2 DEF IInv, StartAppend, TypeOK, Counted, Grouped, Working, Beyond, Released, WithPort, Testing, Cleared,
   Unmatched, ifs, evs, bus, prt

LEMMA StartClearKeeps == IInv /\ StartClear => IInv'
<1> SUFFICES ASSUME IInv, StartClear PROVE IInv'
  OBVIOUS
<1>1. start = "clear" /\ CancelRoot /\ start' = "failed" /\ rootMade' = rootMade
  BY DEF StartClear
<1>2. CASE rootMade
  BY <1>1, <1>2, GroupCancelled DEF StartClear, IInv, TypeOK
<1>3. CASE ~rootMade
  <2>1. root = <<>> /\ head = "idle" /\ step = "none" /\ listening = "no"
    BY <1>3 DEF IInv, TypeOK, Grouped
  <2>2. root' = root /\ head' = head /\ step' = step /\ listening' = listening
    BY <1>1, <2>1 DEF CancelRoot
  <2>3. byEvent' \in BOOLEAN
    BY <1>1 DEF CancelRoot
  <2> QED
    BY <1>1, <2>1, <2>2, <2>3 DEF IInv, StartClear, TypeOK, Counted, Grouped, Working, Beyond, Released, WithPort, Testing, Cleared,
   Unmatched, ifs, evs, bus
<1> QED
  BY <1>2, <1>3

LEMMA RootRunKeeps == IInv /\ RootRun => IInv'
<1> SUFFICES ASSUME IInv, RootRun PROVE IInv'
  OBVIOUS
<1>1. head = "sched" /\ root # <<>> /\ root \in Seq(Tasks)
  BY DEF IInv, TypeOK, RootRun
<1>2. Head(root) \in Tasks
  BY <1>1
<1>3. /\ step' \in {"open", "recv", "mod"}
      /\ step' = "mod" => Head(root) \in ModEvents
      /\ head' = "run" /\ root' = root
  BY <1>2 DEF RootRun, FirstStep, Tasks
<1>4. TypeOK' /\ Grouped' /\ Counted'
  BY <1>1, <1>3 DEF IInv, RootRun, TypeOK, Grouped, Counted, Steps, ifs, evs, bus, prt
<1>5. Working' /\ Beyond' /\ Released'
  BY <1>3 DEF IInv, RootRun, Working, Beyond, Released, WithPort, Testing, ifs, evs, bus, prt
<1> QED
  BY <1>4, <1>5 DEF IInv

LEMMA OpenTestKeeps == IInv /\ OpenTest => IInv'
<1> SUFFICES ASSUME IInv, OpenTest PROVE IInv'
  OBVIOUS
<1>1. At("open") /\ Switched
  BY AtHead DEF OpenTest
<1>2. CASE ifState = "Starting" /\ Goto("openPort") /\ UNCHANGED start
  <2>1. stop = "none" /\ ifState' = "Starting" /\ ~topics
    BY <1>2 DEF IInv, Released, Beyond, TypeOK, OpenTest, ifs
  <2> QED
    BY <1>1, <1>2, <2>1, AtHead, TaskGoesOn
    DEF OpenTest, Goto, IInv, TypeOK, Working, Steps, Testing, WithPort, Cleared, prt
<1>3. CASE ifState # "Starting" /\ StartFails
  BY <1>1, <1>3, FailedStart DEF OpenTest
<1> QED
  BY <1>2, <1>3 DEF OpenTest

LEMMA OpenPortKeeps == IInv /\ OpenPort => IInv'
<1> SUFFICES ASSUME IInv, OpenPort PROVE IInv'
  OBVIOUS
<1>1. At("openPort")
  BY DEF OpenPort
<1>2. CASE hPort' = TRUE /\ Goto("started") /\ UNCHANGED <<ifs, start>>
  <2>1. hPort' /\ hPort' \in BOOLEAN
    BY <1>2
  <2>2. Switched /\ (ifState' = "Starting" => ~topics') /\ topics' \in BOOLEAN
    BY <1>1, <1>2, AtHead DEF OpenPort, IInv, TypeOK, Beyond, ifs
  <2> QED
    BY <1>1, <1>2, <2>1, <2>2, AtHead, TaskGoesOn
    DEF OpenPort, Goto, IInv, TypeOK, Steps, Testing
<1>3. CASE Wait("opening") /\ UNCHANGED <<hPort, ifs, start>>
  <2>1. byEvent' \in BOOLEAN
    BY <1>3 DEF Wait
  <2>2. /\ Switched /\ (ifState' = "Starting" => ~topics')
        /\ topics' \in BOOLEAN /\ hPort' \in BOOLEAN
    BY <1>1, <1>3, AtHead DEF OpenPort, IInv, TypeOK, Beyond, ifs
  <2> QED
    BY <1>1, <1>3, <2>1, <2>2, AtHead, TaskGoesOn
    DEF OpenPort, Wait, IInv, Working, Steps, Testing, WithPort
<1>4. CASE /\ IF TestSetState("eventPortStartFailed")
              THEN SetStateOnEvent("eventPortStartFailed") ELSE UNCHANGED ifs
           /\ StartFails /\ UNCHANGED hPort
  BY <1>1, <1>4, OpenError, FailedStart DEF OpenPort
<1> QED
  BY <1>2, <1>3, <1>4 DEF OpenPort

LEMMA PortStartedKeeps == IInv /\ PortStarted => IInv'
<1> SUFFICES ASSUME IInv, PortStarted PROVE IInv'
  OBVIOUS
<1>1. At("started")
  BY DEF PortStarted
<1>2. CASE /\ TestSetState("eventPortStarted") /\ SetStateOnEvent("eventPortStarted")
           /\ Goto("subscribe") /\ UNCHANGED start
  <2>1. hPort
    BY <1>1 DEF IInv, Working, WithPort, At
  <2> QED
    BY <1>1, <1>2, <2>1, OpenSuccess, AtHead, TaskGoesOn
    DEF PortStarted, Goto, IInv, TypeOK, Steps, Testing, Cleared
<1>3. CASE ~TestSetState("eventPortStarted") /\ UNCHANGED ifs /\ StartFails
  BY <1>1, <1>3, AtHead, FailedStart DEF PortStarted
<1> QED
  BY <1>2, <1>3 DEF PortStarted

LEMMA SubscribeKeeps == IInv /\ Subscribe => IInv'
<1> SUFFICES ASSUME IInv, Subscribe PROVE IInv'
  OBVIOUS
<1>1. At("subscribe") /\ topics' \in BOOLEAN
  BY DEF Subscribe
<1>2. hPort /\ hPort' = hPort /\ ifState' # "Starting"
  BY <1>1 DEF Subscribe, At, IInv, Working, Beyond, WithPort, ifs
<1> QED
  BY <1>1, <1>2, AtHead, TaskGoesOn
  DEF Subscribe, Goto, IInv, TypeOK, Steps, Testing

LEMMA OpenCompleteKeeps == IInv /\ OpenComplete => IInv'
<1> SUFFICES ASSUME IInv, OpenComplete PROVE IInv'
  OBVIOUS
<1>1. At("opening")
  BY DEF OpenComplete
<1>2. CASE /\ TestSetState("eventPortStarted") /\ SetStateOnEvent("eventPortStarted")
           /\ hPort' = TRUE /\ topics' = TRUE
           /\ Goto("check") /\ UNCHANGED start
  <2>1. hPort' /\ hPort' \in BOOLEAN /\ topics' \in BOOLEAN
    BY <1>2
  <2>2. Switched /\ ifState' = "Connected"
    BY <1>2, OpenSuccess
  <2> QED
    BY <1>1, <1>2, <2>1, <2>2, AtHead, TaskGoesOn
    DEF OpenComplete, Goto, IInv, TypeOK, Steps, Testing
<1>3. CASE /\ ~TestSetState("eventPortStarted") /\ UNCHANGED <<ifs, hPort, topics>>
           /\ StartFails
  BY <1>1, <1>3, AtHead, FailedStart DEF OpenComplete
<1>4. CASE /\ IF TestSetState("eventPortStartFailed")
              THEN SetStateOnEvent("eventPortStartFailed") ELSE UNCHANGED ifs
           /\ StartFails /\ UNCHANGED <<hPort, topics>>
  BY <1>1, <1>4, OpenError, FailedStart DEF OpenComplete
<1> QED
  BY <1>2, <1>3, <1>4 DEF OpenComplete

LEMMA CheckPeerKeeps == IInv /\ CheckPeer => IInv'
<1> SUFFICES ASSUME IInv, CheckPeer PROVE IInv'
  OBVIOUS
<1>1. At("check")
  BY DEF CheckPeer
<1>2. hPort
  BY <1>1 DEF IInv, Working, WithPort, At
<1>3. PICK s \in {"regOn", "regOff"} : Goto(s)
  BY DEF CheckPeer
<1> QED
  BY <1>1, <1>2, <1>3, AtHead, TaskGoesOn
  DEF CheckPeer, Goto, IInv, TypeOK, Beyond, Working, Steps, Testing, ifs

LEMMA RegMatchKeeps == IInv /\ RegMatch => IInv'
<1> SUFFICES ASSUME IInv, RegMatch PROVE IInv'
  OBVIOUS
<1>1. hPort /\ head \in {"run", "wait"} /\ step \in {"regOn", "regOff"}
  BY DEF RegMatch, At, IInv, Working, WithPort
<1>2. match' \in {"on", "off"} /\ step' \in {"listening", "offline"}
  BY DEF RegMatch, Goto
<1> QED
  BY <1>1, <1>2 DEF IInv, RegMatch, Goto, Steps, TypeOK, Counted, Grouped, Working, Beyond, Released, WithPort, Testing, Cleared,
   Unmatched, ifs, evs, bus

LEMMA SetOfflineKeeps == IInv /\ SetOffline => IInv'
<1> SUFFICES ASSUME IInv, SetOffline PROVE IInv'
  OBVIOUS
<1>1. At("offline") /\ hPort
  BY DEF SetOffline, At, IInv, Working, WithPort
<1>2. CASE /\ TestSetState("eventModOffline") /\ SetStateOnEvent("eventModOffline")
           /\ Goto("listening") /\ UNCHANGED start
  <2>1. TypeOK /\ Counted
    BY DEF IInv
  <2>2. /\ ifState \in {"Connected", "Recovery"} /\ ifState' \in {"Connected", "Recovery"}
        /\ resumeState' \in {"Invalid", "Connected"}
        /\ ifState' = "Recovery" => resumeState' = "Connected"
    BY <1>2, <2>1, SwitchMod DEF ModEvents
  <2>3. stop = "none" /\ Switched
    BY <2>2 DEF IInv, Released, TypeOK, Switched, IfStates
  <2> QED
    BY <1>1, <1>2, <2>2, <2>3, AtHead, TaskGoesOn
    DEF SetOffline, Goto, IInv, TypeOK, Working, Steps, Testing, Cleared
<1>3. CASE ~TestSetState("eventModOffline") /\ UNCHANGED ifs /\ StartFails
  BY <1>1, <1>3, AtHead, FailedStart DEF SetOffline
<1> QED
  BY <1>2, <1>3 DEF SetOffline

LEMMA StartCompleteKeeps == IInv /\ StartComplete => IInv'
<1> SUFFICES ASSUME IInv, StartComplete PROVE IInv'
  OBVIOUS
<1>1. At("listening") /\ UNCHANGED ifs
  BY DEF StartComplete
<1>2. PICK q \in {Tail(root), AddPara(Tail(root))} : NextTask(q)
  BY DEF StartComplete
<1> QED
  BY <1>1, <1>2, AtHead, TaskEnds DEF StartComplete, prt

-----------------------------------------------------------------------------
(* Listening, and the peer.                                                *)

LEMMA RecvTestKeeps == IInv /\ RecvTest => IInv'
<1> SUFFICES ASSUME IInv, RecvTest PROVE IInv'
  OBVIOUS
<1>1. At("recv") /\ UNCHANGED ifs
  BY DEF RecvTest
<1>2. CASE ifState = "Connected" /\ Goto("submit")
  <2>1. stop = "none" /\ ifState' = "Connected"
    BY <1>1, <1>2, AtHead DEF ifs
  <2> QED
    BY <1>1, <1>2, <2>1, AtHead, TaskGoesOn
    DEF RecvTest, Goto, IInv, TypeOK, Working, Steps, Testing, WithPort, Cleared
<1>3. CASE ifState # "Connected" /\ NextTask(Tail(root))
  <2>1. /\ Tail(root) \in Seq(Tasks) /\ head \in {"run", "wait"} /\ Switched
        /\ listening' = "no" /\ match' = match
    BY <1>1, AtHead DEF RecvTest, prt
  <2> QED
    BY <1>3, <2>1, TaskEnds DEF RecvTest
<1> QED
  BY <1>2, <1>3 DEF RecvTest

LEMMA HandleListeningKeeps == IInv /\ HandleListening => IInv'
<1> SUFFICES ASSUME IInv, HandleListening PROVE IInv'
  OBVIOUS
<1>1. At("submit") /\ UNCHANGED ifs
  BY DEF HandleListening
<1>2. CASE match = "on" /\ listening' = "yes" /\ Wait("listen")
  <2>1. byEvent' \in BOOLEAN
    BY <1>2 DEF Wait
  <2>2. /\ head \in {"run", "wait"} /\ step = "submit" /\ stop \notin Cleared
        /\ root # <<>> /\ head' = "wait" /\ step' = "listen"
    BY <1>1, <1>2, AtHead DEF Wait, Testing
  <2> QED
    BY <1>2, <2>1, <2>2 DEF HandleListening, Wait, IInv, TypeOK, Counted, Grouped, Working, Beyond, Released, WithPort, Testing, Cleared,
   Unmatched, Steps, ifs, evs, bus
<1>3. CASE match # "on" /\ UNCHANGED listening /\ NextTask(Tail(root))
  <2>1. /\ Tail(root) \in Seq(Tasks) /\ head \in {"run", "wait"} /\ Switched
        /\ listening' = "no"
    BY <1>1, <1>3, AtHead
  <2> QED
    BY <1>3, <2>1, TaskEnds DEF HandleListening
<1> QED
  BY <1>2, <1>3 DEF HandleListening

LEMMA RecvCancelledKeeps == IInv /\ RecvCancelled => IInv'
<1> SUFFICES ASSUME IInv, RecvCancelled PROVE IInv'
  OBVIOUS
<1>1. At("listen") /\ UNCHANGED ifs /\ listening' = "no" /\ NextTask(Tail(root))
  BY DEF RecvCancelled
<1> QED
  BY <1>1, AtHead, TaskEnds DEF RecvCancelled

LEMMA PeerChangeKeeps == IInv /\ PeerChange => IInv'
<1> SUFFICES ASSUME IInv, PeerChange PROVE IInv'
  OBVIOUS
<1>1. changes \in 0..MaxChanges /\ changes' \in 0..MaxChanges /\ changes' = changes + 1
  BY ProxyAssumption DEF IInv, TypeOK, PeerChange
<1>2. peer' \in BOOLEAN /\ (~peer) \in BOOLEAN /\ signals \in Seq(BOOLEAN)
  BY DEF IInv, TypeOK, PeerChange
<1>3. signals' \in Seq(BOOLEAN) /\ Len(signals') = Len(signals) + 1
  BY <1>2 DEF PeerChange
<1>4. Counted'
  BY <1>1, <1>2, <1>3 DEF IInv, Counted, PeerChange, ifs
<1>5. TypeOK'
  BY <1>1, <1>2, <1>3 DEF IInv, TypeOK, PeerChange, ifs, evs, grp, prt
<1> QED
  BY <1>4, <1>5 DEF IInv, PeerChange, Grouped, Working, Beyond, Released, ifs, evs, grp, prt

LEMMA OnModOnOfflineKeeps == IInv /\ OnModOnOffline => IInv'
<1> SUFFICES ASSUME IInv, OnModOnOffline PROVE IInv'
  OBVIOUS
<1>1. signals \in Seq(BOOLEAN) /\ signals # <<>> /\ changes \in 0..MaxChanges
  BY DEF IInv, TypeOK, OnModOnOffline
<1>2. /\ Tail(signals) \in Seq(BOOLEAN) /\ Len(Tail(signals)) = Len(signals) - 1
      /\ Len(signals) \in Nat
  BY <1>1
<1>3. Len(Tail(signals)) <= changes /\ changes - Len(signals) \in 0..MaxChanges
  BY <1>1, <1>2, ProxyAssumption DEF IInv, Counted
<1>4. PICK n \in ModEvents : bcasts' = bcasts \cup {[name |-> n, mine |-> match # "none",
                                                    no |-> changes - Len(signals)]}
  BY DEF OnModOnOffline, ModEvents
<1>5. bcasts' \subseteq Events
  <2>1. [name |-> n, mine |-> match # "none", no |-> changes - Len(signals)] \in Events
    BY <1>3 DEF Events
  <2> QED
    BY <1>4, <2>1 DEF IInv, TypeOK
<1>6. /\ match' \in {"none", "on", "off"} /\ listening' \in {"no", "yes", "cancelled"}
      /\ match = "none" => match' = "none"
      /\ listening = "no" => listening' = "no"
  BY DEF IInv, TypeOK, OnModOnOffline
<1>7. signals' = Tail(signals)
  BY DEF OnModOnOffline
<1>8. TypeOK'
  <2>1. signals' \in Seq(BOOLEAN)
    BY <1>2, <1>7
  <2>2. UNCHANGED <<env, ifs, hPort, topics, evs, grp, start, stop, app, busUp, peer, changes>>
    BY DEF OnModOnOffline
  <2> QED
    BY <1>5, <1>6, <2>1, <2>2 DEF IInv, TypeOK, ifs, evs, grp
<1>9. Counted' /\ Grouped' /\ Working'
  BY <1>3, <1>6, <1>7 DEF IInv, OnModOnOffline, Counted, Grouped, Working, ifs, grp
<1>10. Beyond' /\ Released'
  <2>1. \A b \in bcasts' : ~BusLost(b)
    BY <1>4 DEF IInv, Beyond, BusLost, ModEvents
  <2> QED
    BY <1>6, <2>1 DEF IInv, OnModOnOffline, Beyond, Released, ifs, evs, grp
<1> QED
  BY <1>8, <1>9, <1>10 DEF IInv

LEMMA BroadcastKeeps ==
    ASSUME IInv, NEW b \in bcasts, Broadcast(b)
    PROVE  IInv'
<1>1. TypeOK /\ Beyond /\ b \in Events /\ busUp \in BOOLEAN /\ ~BusLost(b)
  BY DEF IInv, TypeOK, Beyond
<1>2. bcasts' \subseteq bcasts /\ busUp' = busUp /\ event' \in {"test", "append", "run"}
  BY <1>1 DEF Broadcast, TypeOK
<1>3. UNCHANGED <<env, ifs, hPort, topics, grp, start, stop, app, peer, changes,
                  signals, prt>>
  BY DEF Broadcast
<1>4. /\ queEvents' \in Seq(Events)
      /\ \A i \in DOMAIN queEvents' : BusLost(queEvents'[i]) => ~busUp
      /\ event' # "test" => queEvents' # <<>> /\ ~BusLost(Head(queEvents'))
  <2>0. event' = event
    BY DEF Broadcast
  <2>1. CASE queEvents' = Append(queEvents, b)
    BY <1>1, <2>0, <2>1, Pushed DEF Beyond
  <2>2. CASE queEvents' = queEvents
    BY <1>1, <2>0, <2>2 DEF TypeOK, Beyond
  <2> QED
    BY <2>1, <2>2 DEF Broadcast
<1> QED
  BY <1>1, <1>2, <1>3, <1>4, EventsChange

LEMMA DBusOfflineKeeps == IInv /\ DBusOffline => IInv'
<1> SUFFICES ASSUME IInv, DBusOffline PROVE IInv'
  OBVIOUS
<1> DEFINE e == [name |-> "eventDBusOffline", mine |-> TRUE, no |-> 0]
<1>1. TypeOK /\ Beyond /\ e \in Events
  BY ProxyAssumption DEF IInv, Events
<1>2. ~busUp' /\ busUp' \in BOOLEAN /\ topics
  BY DEF DBusOffline
<1>3. queEvents' = Append(queEvents, e)
  BY DEF DBusOffline
<1>4. /\ queEvents' \in Seq(Events)
      /\ \A i \in DOMAIN queEvents' : BusLost(queEvents'[i]) => ~busUp'
      /\ event' # "test" => queEvents' # <<>> /\ ~BusLost(Head(queEvents'))
  <2>1. event' = event
    BY DEF DBusOffline
  <2> QED
    BY <1>1, <1>2, <1>3, <2>1, Pushed DEF Beyond
<1>5. event' \in {"test", "append", "run"} /\ bcasts' \subseteq bcasts
  BY <1>1 DEF DBusOffline, TypeOK
<1>6. UNCHANGED <<env, ifs, hPort, topics, grp, start, stop, app, peer, changes,
                  signals, prt>>
  BY DEF DBusOffline
<1> QED
  BY <1>2, <1>4, <1>5, <1>6, EventsChange

LEMMA EventTestKeeps == IInv /\ EventTest => IInv'
<1> SUFFICES ASSUME IInv, EventTest PROVE IInv'
  OBVIOUS
<1>1. TypeOK /\ Beyond /\ busUp \in BOOLEAN /\ queEvents # <<>>
  BY DEF IInv, TypeOK, EventTest
<1>2. \/ event' = "append" /\ queEvents' = queEvents
      \/ event' = "test" /\ queEvents' = Tail(queEvents)
  BY DEF EventTest, PopEvent
<1>3. /\ queEvents' \in Seq(Events)
      /\ \A i \in DOMAIN queEvents' : BusLost(queEvents'[i]) => ~busUp
      /\ event' # "test" => queEvents' # <<>> /\ ~BusLost(Head(queEvents'))
  BY <1>1, <1>2, Popped DEF TypeOK, Beyond, EventTest, BusLost, ModEvents
<1> QED
  BY <1>1, <1>2, <1>3, EventsChange DEF EventTest, bus

LEMMA EventDoneKeeps == IInv /\ EventDone => IInv'
<1> SUFFICES ASSUME IInv, EventDone PROVE IInv'
  OBVIOUS
<1>1. TypeOK /\ Beyond /\ busUp \in BOOLEAN /\ queEvents # <<>>
  BY DEF IInv, TypeOK, EventDone
<1>2. event' = "test" /\ queEvents' = Tail(queEvents)
  BY DEF EventDone, PopEvent
<1>3. /\ queEvents' \in Seq(Events)
      /\ \A i \in DOMAIN queEvents' : BusLost(queEvents'[i]) => ~busUp
  BY <1>1, <1>2, Popped
<1> QED
  BY <1>1, <1>2, <1>3, EventsChange DEF EventDone, bus

\* Only an event that OnModEvent has tested is appended, so the task is one of the
\* peer's events or sees that it has nothing to do.
LEMMA EventAppendKeeps == IInv /\ EventAppend => IInv'
<1> SUFFICES ASSUME IInv, EventAppend PROVE IInv'
  OBVIOUS
<1>1. TypeOK /\ Beyond /\ busUp \in BOOLEAN /\ queEvents # <<>> /\ event = "append"
  BY DEF IInv, TypeOK, EventAppend
<1>2. CASE ~rootMade \/ root # <<>>
  <2>1. event' = "test" /\ queEvents' = Tail(queEvents) /\ UNCHANGED <<head, byEvent>>
    BY <1>2 DEF EventAppend, PopEvent
  <2>2. /\ queEvents' \in Seq(Events)
        /\ \A i \in DOMAIN queEvents' : BusLost(queEvents'[i]) => ~busUp
    BY <1>1, <2>1, Popped
  <2>3. CASE ~rootMade
    BY <1>1, <2>1, <2>2, <2>3, EventsChange DEF EventAppend, bus, grp
  <2>4. CASE rootMade
    <3>1. root' = Append(root, Head(queEvents).name) /\ root # <<>>
      BY <1>2, <2>4 DEF EventAppend
    <3>2. Head(queEvents).name \in Tasks
      BY <1>1, Popped DEF Beyond, BusLost, Events, Tasks
    <3>3. root' \in Seq(Tasks) /\ root' # <<>> /\ Head(root') = Head(root)
      BY <1>1, <3>1, <3>2 DEF TypeOK
    <3>4. TypeOK'
      BY <1>1, <2>1, <2>2, <3>1, <3>3 DEF EventAppend, TypeOK, ifs, bus, prt
    <3>5. Counted' /\ Grouped' /\ Working' /\ Released'
      BY <2>1, <2>4, <3>1, <3>3
      DEF IInv, EventAppend, Counted, Grouped, Working, Released, ifs, bus, prt
    <3>6. Beyond'
      BY <1>1, <2>1, <2>2 DEF EventAppend, Beyond, ifs, bus
    <3> QED
      BY <3>4, <3>5, <3>6 DEF IInv
  <2> QED
    BY <2>3, <2>4
<1>3. CASE rootMade /\ root = <<>>
  <2>1. /\ event' = "run" /\ UNCHANGED queEvents /\ head' = "sched" /\ byEvent'
        /\ byEvent' \in BOOLEAN
    BY <1>3 DEF EventAppend
  <2>2. Head(queEvents).name \in Tasks
    BY <1>1, Popped DEF Beyond, BusLost, Events, Tasks
  <2>3. root' \in Seq(Tasks) /\ root' # <<>>
    <3>1. root' = Append(root, Head(queEvents).name) /\ root \in Seq(Tasks)
      BY <1>1, <1>3 DEF TypeOK, EventAppend
    <3> QED
      BY <2>2, <3>1
  <2>4. step = "none" /\ step' = "none"
    BY <1>3 DEF EventAppend, IInv, TypeOK, Grouped
  <2>5. TypeOK'
    BY <1>1, <2>1, <2>3 DEF EventAppend, TypeOK, ifs, bus, prt
  <2>6. Counted' /\ Grouped' /\ Working' /\ Released'
    BY <1>3, <2>1, <2>3, <2>4
    DEF IInv, EventAppend, Counted, Grouped, Working, Released, ifs, bus, prt
  <2>7. Beyond'
    BY <1>1, <2>1 DEF EventAppend, Beyond, ifs, bus
  <2> QED
    BY <2>5, <2>6, <2>7 DEF IInv
<1> QED
  BY <1>2, <1>3 DEF IInv, TypeOK

\* A lost connection stops a proxy that is in service; the stop is the first.
LEMMA OnDBusEventKeeps == IInv /\ OnDBusEvent => IInv'
<1> SUFFICES ASSUME IInv, OnDBusEvent PROVE IInv'
  OBVIOUS
<1>1. TypeOK /\ Beyond /\ busUp \in BOOLEAN /\ queEvents # <<>> /\ BusLost(Head(queEvents))
  BY DEF IInv, TypeOK, OnDBusEvent, BusLost
<1>2. event' = "test" /\ queEvents' = Tail(queEvents)
  BY DEF OnDBusEvent, PopEvent
<1>3. /\ queEvents' \in Seq(Events) /\ ~busUp
      /\ \A i \in DOMAIN queEvents' : BusLost(queEvents'[i]) => ~busUp
  BY <1>1, <1>2, Popped
<1>4. CASE UNCHANGED <<ifs, stop>>
  BY <1>1, <1>2, <1>3, <1>4, EventsChange DEF OnDBusEvent, bus
<1>5. CASE /\ TestSetState("eventDBusOffline") /\ SetStateOnEvent("eventDBusOffline")
           /\ stop' = "queued"
  <2>1. ifState # "Starting"
    BY <1>1, <1>3 DEF Beyond
  <2>2. /\ ifState \notin {"Stopped", "Stopping"} /\ ifState' = "Stopping"
        /\ resumeState' = resumeState
    BY <1>5, <2>1, SwitchStop
  <2>3. start # "none" /\ stop = "none"
    BY <2>2 DEF IInv, Beyond, Released, TypeOK
  <2>4. TypeOK'
    BY <1>1, <1>2, <1>3, <1>5, <2>2 DEF OnDBusEvent, TypeOK, IfStates, grp, bus, prt
  <2>5. Counted' /\ Grouped' /\ Working'
    BY <2>2 DEF IInv, OnDBusEvent, Counted, Grouped, Working, grp, bus, prt
  <2>6. Beyond'
    BY <1>2, <1>3, <2>2, <2>3 DEF IInv, OnDBusEvent, Beyond, grp, bus
  <2>7. Released'
    BY <1>5, <2>2 DEF Released, Cleared, Unmatched
  <2> QED
    BY <2>4, <2>5, <2>6, <2>7 DEF IInv
<1> QED
  BY <1>4, <1>5 DEF OnDBusEvent

LEMMA DoModEventKeeps == IInv /\ DoModEvent => IInv'
<1> SUFFICES ASSUME IInv, DoModEvent PROVE IInv'
  OBVIOUS
<1>1. At("mod") /\ Head(root) \in ModEvents /\ TypeOK /\ Counted
  BY DEF DoModEvent, At, IInv, Grouped
<1>2. Switched /\ (ifState' # ifState => stop = "none")
  <2>1. CASE TestSetState(Head(root)) /\ SetStateOnEvent(Head(root))
    <3>1. /\ ifState \in {"Connected", "Recovery"} /\ ifState' \in {"Connected", "Recovery"}
          /\ resumeState' \in {"Invalid", "Connected"}
          /\ ifState' = "Recovery" => resumeState' = "Connected"
      BY <1>1, <2>1, SwitchMod
    <3> QED
      BY <3>1 DEF IInv, Released, TypeOK, Switched, IfStates
  <2>2. CASE UNCHANGED ifs
    BY <1>1, <2>2, AtHead DEF ifs
  <2> QED
    BY <2>1, <2>2 DEF DoModEvent
<1>3. CASE ifState = "Recovery" /\ ifState' = "Connected" /\ Goto("restart")
  <2>1. stop = "none"
    BY <1>2, <1>3
  <2> QED
    BY <1>1, <1>2, <1>3, <2>1, AtHead, TaskGoesOn
    DEF DoModEvent, Goto, IInv, TypeOK, Working, Steps, Testing, WithPort, Cleared
<1>4. CASE NextTask(Tail(root))
  <2>1. /\ Tail(root) \in Seq(Tasks) /\ head \in {"run", "wait"}
        /\ listening' = "no" /\ match' = match
    BY <1>1, AtHead DEF DoModEvent, prt
  <2> QED
    BY <1>2, <1>4, <2>1, TaskEnds DEF DoModEvent
<1> QED
  BY <1>3, <1>4 DEF DoModEvent

LEMMA RestartListeningKeeps == IInv /\ RestartListening => IInv'
<1> SUFFICES ASSUME IInv, RestartListening PROVE IInv'
  OBVIOUS
<1>1. At("restart") /\ UNCHANGED ifs
  BY DEF RestartListening
<1>2. PICK q \in {Tail(root), AddPara(Tail(root))} : NextTask(q)
  BY DEF RestartListening
<1> QED
  BY <1>1, <1>2, AtHead, TaskEnds DEF RestartListening, prt

-----------------------------------------------------------------------------
(* The stop.                                                               *)

LEMMA StopKeeps == IInv /\ Stop => IInv'
BY DEF IInv, Stop, TypeOK, Counted, Grouped, Working, Beyond, Released, WithPort, Testing, Cleared,
   Unmatched, ifs, evs, grp, bus, prt

LEMMA QueueStopTaskKeeps == IInv /\ QueueStopTask => IInv'
<1> SUFFICES ASSUME IInv, QueueStopTask PROVE IInv'
  OBVIOUS
<1>1. app \in {"cmdCleanup", "cmdShutdown"} /\ app' = "done"
  BY DEF QueueStopTask
<1>2. CASE UNCHANGED <<ifs, stop>>
  BY <1>1, <1>2 DEF IInv, QueueStopTask, TypeOK, Counted, Grouped, Working, Beyond, Released, WithPort, Testing, Cleared,
   Unmatched, ifs, evs, grp, bus, prt
<1>3. CASE TestSetState(app) /\ SetStateOnEvent(app) /\ stop' = "queued"
  <2>1. /\ ifState \notin {"Stopped", "Stopping"} /\ ifState' = "Stopping"
        /\ resumeState' = resumeState
    BY <1>1, <1>3, SwitchStop
  <2>2. start # "none" /\ stop = "none"
    BY <2>1 DEF IInv, Beyond, Released, TypeOK
  <2> QED
    BY <1>1, <1>3, <2>1, <2>2 DEF IInv, QueueStopTask, TypeOK, Counted, Grouped, Working, Beyond, Released, WithPort, Testing, Cleared,
   Unmatched, IfStates, evs, grp, bus, prt
<1> QED
  BY <1>2, <1>3 DEF QueueStopTask

LEMMA StopExKeeps == IInv /\ StopEx => IInv'
BY DEF IInv, StopEx, TypeOK, Counted, Grouped, Working, Beyond, Released, WithPort, Testing, Cleared,
   Unmatched, ifs, evs, grp, bus, prt

\* Without a root group there is nothing to cancel.
LEMMA NothingToCancel ==
    ASSUME IInv, ~rootMade, rootMade' \in BOOLEAN, ~rootMade',
           (stop = "clear" /\ stop' = "disable") \/ (stop = "cleanup" /\ stop' = "done"),
           UNCHANGED <<env, ifs, hPort, topics, evs, root, head, step, byEvent, start, app,
                       bus, match, listening>>
    PROVE  IInv'
<1>1. root = <<>> /\ head = "idle" /\ step = "none" /\ listening = "no"
  BY DEF IInv, TypeOK, Grouped
<1>2. start # "none"
  BY DEF IInv, Beyond
<1>3. TypeOK' /\ Counted' /\ Grouped' /\ Working'
  BY <1>1 DEF IInv, TypeOK, Counted, Grouped, Working, ifs, evs, bus
<1>4. Beyond' /\ Released'
  BY <1>1, <1>2 DEF IInv, Beyond, Released, Testing, Cleared, Unmatched, ifs, evs, bus
<1> QED
  BY <1>3, <1>4 DEF IInv

\* ClearActiveTasks has waited for whoever was inside the group: nobody that could
\* obtain anything is left.
LEMMA ClearActiveTasksKeeps == IInv /\ ClearActiveTasks => IInv'
<1> SUFFICES ASSUME IInv, ClearActiveTasks PROVE IInv'
  OBVIOUS
<1>1. /\ stop = "clear" /\ stop' = "disable" /\ rootMade' = rootMade /\ rootMade \in BOOLEAN
  BY DEF IInv, TypeOK, ClearActiveTasks
<1>2. CASE rootMade /\ CancelRoot /\ CancelStart
  <2>1. start' \in {start, "failed"}
    BY <1>2 DEF CancelStart
  <2> QED
    BY <1>1, <1>2, <2>1, GroupCancelled DEF ClearActiveTasks
<1>3. CASE ~rootMade /\ UNCHANGED <<root, head, step, byEvent, listening, start>>
  BY <1>1, <1>3, NothingToCancel DEF ClearActiveTasks
<1> QED
  BY <1>2, <1>3 DEF ClearActiveTasks

LEMMA DisableEventKeeps == IInv /\ DisableEvent => IInv'
<1> SUFFICES ASSUME IInv, DisableEvent PROVE IInv'
  OBVIOUS
<1>1. stop = "disable" /\ stop' = "close" /\ match' = "none"
  BY DEF IInv, Working, DisableEvent
<1> QED
  BY <1>1 DEF IInv, DisableEvent, TypeOK, Counted, Grouped, Working, Beyond, Released, WithPort, Testing, Cleared,
   Unmatched, ifs, evs, grp, bus

LEMMA ClosePortKeeps == IInv /\ ClosePort => IInv'
<1> SUFFICES ASSUME IInv, ClosePort PROVE IInv'
  OBVIOUS
<1>1. /\ stop = "close" /\ ifState = "Stopping" /\ start # "none" /\ match = "none"
      /\ step \in Testing
  BY DEF IInv, Released, Beyond, Cleared, Unmatched, ClosePort
<1>2. CASE hPort /\ topics' = FALSE /\ stop' = "closing" /\ UNCHANGED ifs
  <2>1. ~topics' /\ topics' \in BOOLEAN
    BY <1>2
  <2> QED
    BY <1>1, <1>2, <2>1 DEF IInv, ClosePort, TypeOK, Counted, Grouped, Working, Beyond, Released, WithPort, Testing, Cleared,
   Unmatched, ifs, evs, grp, bus, prt
<1>3. CASE /\ ~hPort /\ SetStateOnEvent("cmdClosePort") /\ stop' = "cleanup"
           /\ UNCHANGED topics
  <2>1. ifState' = "Stopped" /\ resumeState' = resumeState /\ ~topics
    BY <1>1, <1>3, Rows, SwitchStop DEF IInv, Working
  <2> QED
    BY <1>1, <1>3, <2>1 DEF IInv, ClosePort, TypeOK, Counted, Grouped, Working, Beyond, Released, WithPort, Testing, Cleared,
   Unmatched, IfStates, evs, grp, bus, prt
<1> QED
  BY <1>2, <1>3 DEF ClosePort

LEMMA PortStoppedKeeps == IInv /\ PortStopped => IInv'
<1> SUFFICES ASSUME IInv, PortStopped PROVE IInv'
  OBVIOUS
<1>1. /\ stop = "closing" /\ ifState = "Stopping" /\ start # "none" /\ match = "none"
      /\ step \in Testing
  BY DEF IInv, Released, Beyond, Cleared, Unmatched, PortStopped
<1>2. ~hPort' /\ ~topics' /\ hPort' \in BOOLEAN /\ topics' \in BOOLEAN
  BY DEF PortStopped
<1>3. ifState' = "Stopped" /\ resumeState' = resumeState
  BY <1>1, Rows, SwitchStop DEF PortStopped
<1> QED
  BY <1>1, <1>2, <1>3 DEF IInv, PortStopped, TypeOK, Counted, Grouped, Working, Beyond, Released, WithPort, Testing, Cleared,
   Unmatched, IfStates, evs, grp, bus, prt

LEMMA OnPostStopKeeps == IInv /\ OnPostStop => IInv'
<1> SUFFICES ASSUME IInv, OnPostStop PROVE IInv'
  OBVIOUS
<1>1. stop = "cleanup" /\ stop' = "done" /\ ~rootMade' /\ rootMade' \in BOOLEAN
  BY DEF OnPostStop
<1>2. CASE rootMade /\ CancelRoot /\ CancelStart
  <2>1. start' \in {start, "failed"}
    BY <1>2 DEF CancelStart
  <2> QED
    BY <1>1, <1>2, <2>1, GroupCancelled DEF OnPostStop
<1>3. CASE ~rootMade /\ UNCHANGED <<root, head, step, byEvent, listening, start>>
  BY <1>1, <1>3, NothingToCancel DEF OnPostStop
<1> QED
  BY <1>2, <1>3 DEF OnPostStop

-----------------------------------------------------------------------------
LEMMA InitInv == Init => IInv
<1> SUFFICES ASSUME Init PROVE IInv
  OBVIOUS
<1>1. /\ hPort \in BOOLEAN /\ topics \in BOOLEAN /\ rootMade \in BOOLEAN
      /\ byEvent \in BOOLEAN /\ busUp \in BOOLEAN
  BY DEF Init
<1>2. ~hPort /\ ~topics /\ ~rootMade /\ busUp
  BY DEF Init
<1>3. root \in Seq(Tasks) /\ queEvents \in Seq(Events) /\ signals \in Seq(BOOLEAN)
  BY DEF Init
<1>4. DOMAIN queEvents = {} /\ Len(signals) = 0
  BY DEF Init
<1> QED
  BY <1>1, <1>2, <1>3, <1>4, ProxyAssumption DEF Init, IInv, TypeOK, Counted, Grouped, Working, Beyond, Released, WithPort, Testing, Cleared,
   Unmatched, IfStates, Steps

LEMMA NextInv == IInv /\ [Next]_vars => IInv'
<1> SUFFICES ASSUME IInv, [Next]_vars PROVE IInv'
  OBVIOUS
<1>1. CASE UNCHANGED vars
  BY <1>1 DEF vars, IInv, TypeOK, Counted, Grouped, Working, Beyond, Released, ifs, evs,
     grp, bus, prt
<1>2. CASE Start \/ StartTest \/ StartAppend \/ StartClear \/ RootRun
  BY <1>2, StartKeeps, StartTestKeeps, StartAppendKeeps, StartClearKeeps, RootRunKeeps
<1>3. CASE OpenTest \/ OpenPort \/ PortStarted \/ Subscribe \/ OpenComplete
  BY <1>3, OpenTestKeeps, OpenPortKeeps, PortStartedKeeps, SubscribeKeeps, OpenCompleteKeeps
<1>4. CASE CheckPeer \/ RegMatch \/ SetOffline \/ StartComplete
  BY <1>4, CheckPeerKeeps, RegMatchKeeps, SetOfflineKeeps, StartCompleteKeeps
<1>5. CASE \/ RecvTest \/ HandleListening \/ RecvCancelled \/ OnModOnOffline
           \/ PeerChange \/ DBusOffline
  BY <1>5, RecvTestKeeps, HandleListeningKeeps, RecvCancelledKeeps, OnModOnOfflineKeeps,
     PeerChangeKeeps, DBusOfflineKeeps
<1>6. CASE \E b \in bcasts : Broadcast(b)
  BY <1>6, BroadcastKeeps
<1>7. CASE \/ EventTest \/ EventAppend \/ EventDone \/ OnDBusEvent
           \/ DoModEvent \/ RestartListening
  BY <1>7, EventTestKeeps, EventAppendKeeps, EventDoneKeeps, OnDBusEventKeeps,
     DoModEventKeeps, RestartListeningKeeps
<1>8. CASE \/ Stop \/ QueueStopTask \/ StopEx \/ ClearActiveTasks \/ DisableEvent
           \/ ClosePort \/ PortStopped \/ OnPostStop
  BY <1>8, StopKeeps, QueueStopTaskKeeps, StopExKeeps, ClearActiveTasksKeeps,
     DisableEventKeeps, ClosePortKeeps, PortStoppedKeeps, OnPostStopKeeps
<1> QED
  BY <1>1, <1>2, <1>3, <1>4, <1>5, <1>6, <1>7, <1>8 DEF Next, Threads

LEMMA IndInv == Spec => []IInv
BY InitInv, NextInv, PTL DEF Spec

\* The interface state, the queues of the proxy and of its root group and the phases
\* of start and stop keep their types, however often the peer comes and goes; a
\* recovery always has a state to lead back to.
THEOREM ProxyTypeCorrect == Spec => []TypeOK
<1>1. IInv => TypeOK
  BY DEF IInv
<1> QED
  BY <1>1, IndInv, PTL

\* When the stop of a proxy (rpcif.cpp, StopEx to OnPostStop) has ended, the proxy has
\* no port, no subscription, no match in the port and no listening IRP, wherever the
\* start was when the stop came, whatever events of the peer and of the bus were
\* under way, and however often the peer changed.
THEOREM StopReleasesAll == Spec => []StopReleases
<1>1. IInv => StopReleases
  BY DEF IInv, StopReleases, Released, Grouped, Cleared, Unmatched, Testing, TypeOK
<1> QED
  BY <1>1, IndInv, PTL
=============================================================================
