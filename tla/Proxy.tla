------------------------------- MODULE Proxy -------------------------------
(***************************************************************************)
(* A proxy and the process it talks to: the state machine of the interface *)
(* (src/ipc/ifstat.cpp), its start, its stop and its handling of events    *)
(* (src/ipc/rpcif.cpp), the root task group in which these run one after   *)
(* the other (src/ipc/iftasks.cpp), and the port below, which keeps the    *)
(* proxy's match and is told by the D-Bus daemon when the peer comes and   *)
(* goes (src/ipc/rpcpdo.cpp).                                              *)
(*                                                                         *)
(* A signal of the daemon changes the match and puts a task into the queue *)
(* of the pool, which sends the event to the proxy; the proxy tests its    *)
(* state and puts a second task into its root group; only that one changes *)
(* the state.  Meanwhile the proxy may be starting, and may be stopped.    *)
(* An action is one critical section of the interface, of the root group   *)
(* or of the port.                                                         *)
(***************************************************************************)
EXTENDS Naturals, Sequences, FiniteSets

CONSTANTS
    MaxChanges,   \* how often the peer comes or goes
    Envs          \* the kinds of peers: see env

ASSUME ProxyAssumption ==
    /\ MaxChanges \in Nat
    /\ Envs \subseteq {"calm", "rough"}

VARIABLES
    env,         \* chosen at the start: a "calm" peer changes only when the proxy
                 \* has digested the last change, a "rough" one at any time
    ifState,     \* m_iCurState
    resumeState, \* m_iResumeState, where a recovery leads back to
    hPort,       \* m_hPort is valid, the proxy is in the handle map
    topics,      \* m_vecTopicList: the proxy is subscribed to events
    queEvents,   \* m_queEvents; one thread works on its first element
    event,       \* what that thread does next: "test", "append", "run"
    rootMade,    \* m_pRootTaskGroup is not empty
    root,        \* its m_queTasks
    head,        \* who works on its first task: nobody ("idle"), a thread of the
                 \* pool to come ("sched"), a thread ("run"), or the task is pending
                 \* ("wait", the code's waitComplete)
    step,        \* where that task stands
    byEvent,     \* the thread that runs the group is the one of queEvents
    start,       \* where StartEx stands
    stop,        \* where StopEx and DoStop stand
    app,         \* where the application's call of Stop stands
    busUp,       \* the connection to the bus is there
    peer,        \* the peer owns its name on the bus
    changes,     \* how often it came or went
    signals,     \* NameOwnerChanged signals that wait for the bus port
    match,       \* the entry in m_mapEvtTable: "none", or its m_bConnected
    listening,   \* the IRP of CIfStartRecvMsgTask in m_queWaitingIrps
    bcasts       \* CRpcBasePortModOnOfflineTasks in the queue of the pool

ifs == <<ifState, resumeState>>
evs == <<queEvents, event>>
grp == <<rootMade, root, head, step, byEvent>>
bus == <<busUp, peer, changes, signals, bcasts>>
prt == <<match, listening>>
vars == <<env, ifs, hPort, topics, evs, grp, start, stop, app, bus, prt>>

IfStates == {"Stopped", "Starting", "StartFailed", "Connected", "Recovery",
             "Stopping"}

\* The rows of m_mapState for a local proxy that is never paused and whose port is
\* not stopped under it: those of eventPortStopping, by which OnPortEvent queues a
\* stop, are left out.  "Unknown" stands for m_iResumeState.
StateMap ==
    {<<"Stopped", "cmdOpenPort", "Starting">>,
     <<"Starting", "eventPortStarted", "Connected">>,
     <<"Starting", "eventPortStartFailed", "StartFailed">>,
     <<"Starting", "eventDBusOffline", "Stopped">>,
     <<"Starting", "cmdShutdown", "Stopping">>,
     <<"Connected", "eventDBusOffline", "Stopping">>,
     <<"Connected", "cmdShutdown", "Stopping">>,
     <<"Connected", "eventModOffline", "Recovery">>,
     <<"Recovery", "eventModOffline", "Recovery">>,
     <<"Recovery", "eventModOnline", "Unknown">>,
     <<"Recovery", "eventDBusOffline", "Stopping">>,
     <<"Recovery", "cmdShutdown", "Stopping">>,
     <<"Stopping", "cmdClosePort", "Stopped">>,
     <<"StartFailed", "cmdCleanup", "Stopping">>}

Init ==
    /\ env \in Envs
    /\ ifState = "Stopped" /\ resumeState = "Invalid"
    /\ hPort = FALSE /\ topics = FALSE
    /\ queEvents = <<>> /\ event = "test"
    /\ rootMade = FALSE /\ root = <<>> /\ head = "idle" /\ step = "none"
    /\ byEvent = FALSE
    /\ start = "none" /\ stop = "none" /\ app = "none"
    /\ busUp = TRUE /\ peer \in BOOLEAN /\ changes = 0 /\ signals = <<>>
    /\ match = "none" /\ listening = "no" /\ bcasts = {}

TestSetState(e) == \E r \in StateMap : r[1] = ifState /\ r[2] = e

\* Mutant of SetStateOnEvent: an offline event in stateRecovery is saved as well.
SetStateOnEventResaves(e) ==
    LET to == (CHOOSE r \in StateMap : r[1] = ifState /\ r[2] = e)[3] IN
    /\ ifState' = IF to = "Unknown" THEN resumeState ELSE to
    /\ resumeState' = IF to = "Recovery" THEN ifState ELSE resumeState

\* The switch that e makes; the caller sees to it that there is one.
SetStateOnEvent(e) ==
    LET to == (CHOOSE r \in StateMap : r[1] = ifState /\ r[2] = e)[3] IN
    /\ ifState' = IF to = "Unknown" THEN resumeState ELSE to
    /\ resumeState' = IF to = "Recovery" /\ ifState # "Recovery" THEN ifState
                      ELSE resumeState

-----------------------------------------------------------------------------
(***************************************************************************)
(* The root task group.  Its tasks are the "start" of the proxy, events of *)
(* the peer ("eventModOnline", "eventModOffline"), and "para", the         *)
(* parallel group in which the proxy listens.                              *)
(***************************************************************************)
ModEvents == {"eventModOnline", "eventModOffline"}
Tasks == {"start", "para"} \cup ModEvents

FirstStep(t) == IF t = "start" THEN "open" ELSE IF t = "para" THEN "recv" ELSE "mod"

\* Rescheduling, or AppendAndRun's call of the group.
RootRun ==
    /\ head = "sched"
    /\ head' = "run" /\ step' = FirstStep(Head(root))
    /\ UNCHANGED <<env, ifs, hPort, topics, evs, rootMade, root, byEvent, start,
                   stop, app, bus, prt>>

\* The first task has ended and q is what follows it: the thread inside the group
\* takes the next one, OnChildComplete of a pending one schedules the group.
NextTask(q) ==
    /\ root' = q
    /\ head' = IF q = <<>> THEN "idle" ELSE IF head = "run" THEN "run" ELSE "sched"
    /\ step' = IF q # <<>> /\ head = "run" THEN FirstStep(Head(q)) ELSE "none"
    /\ byEvent' = (byEvent /\ q # <<>> /\ head = "run")
    /\ UNCHANGED rootMade

At(s) == head \in {"run", "wait"} /\ step = s
Goto(s) == step' = s /\ UNCHANGED <<rootMade, root, head, byEvent>>
Wait(s) == head' = "wait" /\ step' = s /\ byEvent' = FALSE
           /\ UNCHANGED <<rootMade, root>>

\* AddAndRun of a listening task: into the parallel group at the tail of the
\* queue, or into a new one.
AddPara(q) == IF q # <<>> /\ q[Len(q)] = "para" THEN q ELSE Append(q, "para")

\* Mutant of NoSched: a pending task keeps the group busy.
NoSchedWhileWaiting == head \in {"run", "wait"}

\* IsNoSched, of the group and of the group of start tasks in it: OnCancel waits
\* until no thread is inside.
NoSched ==
    \/ head = "run"
    \/ head = "wait" /\ step \notin {"opening", "listen"}

\* OnCancel of the root group and of all it holds.  The code releases the lock while
\* it cancels a child; the group is stopping and out of schedule meanwhile, and the
\* whole loop is one step here.
CancelRoot ==
    /\ ~NoSched
    /\ root' = <<>> /\ head' = "idle" /\ step' = "none" /\ byEvent' = FALSE
    /\ listening' = "no"

\* The callback of a start that is cancelled with the group.
CancelStart == start' = IF \E i \in DOMAIN root : root[i] = "start" THEN "failed" ELSE start

-----------------------------------------------------------------------------
(***************************************************************************)
(* The start of the proxy.                                                 *)
(***************************************************************************)
Start ==
    /\ start = "none"
    /\ SetStateOnEvent("cmdOpenPort")
    /\ start' = "queued"
    /\ UNCHANGED <<env, hPort, topics, evs, grp, stop, app, bus, prt>>

StartTest ==
    /\ start = "queued"
    /\ start' = IF ifState = "Starting" THEN "tested" ELSE "failed"
    /\ UNCHANGED <<env, ifs, hPort, topics, evs, grp, stop, app, bus, prt>>

StartAppend ==
    /\ start = "tested"
    /\ start' = "running"
    /\ rootMade' = TRUE
    /\ root' = <<"start">> /\ head' = "sched"
    /\ UNCHANGED <<env, ifs, hPort, topics, evs, step, byEvent, stop, app, bus, prt>>

\* The start tasks have failed.  StartEx clears the root group when it is told
\* at once.
StartFails ==
    /\ NextTask(Tail(root))
    /\ start' = IF head = "run" THEN "clear" ELSE "failed"

StartClear ==
    /\ start = "clear"
    /\ CancelRoot /\ start' = "failed"
    /\ UNCHANGED <<env, ifs, hPort, topics, evs, rootMade, stop, app, bus, match>>

\* Mutant of OpenTest: the port is opened without a look at the state.
OpenTestBlindly ==
    /\ At("open")
    /\ Goto("openPort")
    /\ UNCHANGED <<env, ifs, hPort, topics, evs, start, stop, app, bus, prt>>

OpenTest ==
    /\ At("open")
    /\ \/ /\ ifState = "Starting"
          /\ Goto("openPort") /\ UNCHANGED start
       \/ ifState # "Starting" /\ StartFails
    /\ UNCHANGED <<env, ifs, hPort, topics, evs, stop, app, bus, prt>>

\* CIoManager::OpenPort: the port is there, or is being created, or fails.
OpenPort ==
    /\ At("openPort")
    /\ \/ /\ hPort' = TRUE
          /\ Goto("started") /\ UNCHANGED <<ifs, start>>
       \/ Wait("opening") /\ UNCHANGED <<hPort, ifs, start>>
       \/ /\ IF TestSetState("eventPortStartFailed")
             THEN SetStateOnEvent("eventPortStartFailed") ELSE UNCHANGED ifs
          /\ StartFails /\ UNCHANGED hPort
    /\ UNCHANGED <<env, topics, evs, stop, app, bus, prt>>

PortStarted ==
    /\ At("started")
    /\ \/ /\ TestSetState("eventPortStarted") /\ SetStateOnEvent("eventPortStarted")
          /\ Goto("subscribe") /\ UNCHANGED start
       \/ /\ ~TestSetState("eventPortStarted") /\ UNCHANGED ifs
          /\ StartFails
    /\ UNCHANGED <<env, hPort, topics, evs, stop, app, bus, prt>>

Subscribe ==
    /\ At("subscribe")
    /\ topics' = TRUE /\ Goto("check")
    /\ UNCHANGED <<env, ifs, hPort, evs, start, stop, app, bus, prt>>

\* OnPortEvent for a port that was being created: all under the lock.
OpenComplete ==
    /\ At("opening")
    /\ \/ /\ TestSetState("eventPortStarted") /\ SetStateOnEvent("eventPortStarted")
          /\ hPort' = TRUE /\ topics' = TRUE
          /\ Goto("check") /\ UNCHANGED start
       \/ /\ ~TestSetState("eventPortStarted") /\ UNCHANGED <<ifs, hPort, topics>>
          /\ StartFails
       \/ /\ IF TestSetState("eventPortStartFailed")
             THEN SetStateOnEvent("eventPortStartFailed") ELSE UNCHANGED ifs
          /\ StartFails /\ UNCHANGED <<hPort, topics>>
    /\ UNCHANGED <<env, evs, stop, app, bus, prt>>

\* SetupDBusSetting asks the daemon whether the peer is there, without the lock
\* of the port.
CheckPeer ==
    /\ At("check")
    /\ Goto(IF peer THEN "regOn" ELSE "regOff")
    /\ UNCHANGED <<env, ifs, hPort, topics, evs, start, stop, app, bus, prt>>

RegMatch ==
    /\ At("regOn") \/ At("regOff")
    /\ match' = IF step = "regOn" THEN "on" ELSE "off"
    /\ Goto(IF step = "regOn" THEN "listening" ELSE "offline")
    /\ UNCHANGED <<env, ifs, hPort, topics, evs, start, stop, app, bus, listening>>

\* CIfEnableEventTask takes -ENOTCONN for an offline event.
SetOffline ==
    /\ At("offline")
    /\ \/ /\ TestSetState("eventModOffline") /\ SetStateOnEvent("eventModOffline")
          /\ Goto("listening") /\ UNCHANGED start
       \/ /\ ~TestSetState("eventModOffline") /\ UNCHANGED ifs
          /\ StartFails
    /\ UNCHANGED <<env, hPort, topics, evs, stop, app, bus, prt>>

StartComplete ==
    /\ At("listening")
    /\ start' = "done"
    /\ NextTask(IF ifState = "Connected" THEN AddPara(Tail(root)) ELSE Tail(root))
    /\ UNCHANGED <<env, ifs, hPort, topics, evs, stop, app, bus, prt>>
-----------------------------------------------------------------------------
(***************************************************************************)
(* Listening, and the peer's comings and goings.                           *)
(***************************************************************************)
RecvTest ==
    /\ At("recv")
    /\ \/ ifState = "Connected" /\ Goto("submit")
       \/ ifState # "Connected" /\ NextTask(Tail(root))
    /\ UNCHANGED <<env, ifs, hPort, topics, evs, start, stop, app, bus, prt>>

HandleListening ==
    /\ At("submit")
    /\ \/ match = "on" /\ listening' = "yes" /\ Wait("listen")
       \/ match # "on" /\ UNCHANGED listening /\ NextTask(Tail(root))
    /\ UNCHANGED <<env, ifs, hPort, topics, evs, start, stop, app, bus, match>>

\* The cancelled IRP ends the listening task, and with it the parallel group.
RecvCancelled ==
    /\ At("listen") /\ listening = "cancelled"
    /\ listening' = "no" /\ NextTask(Tail(root))
    /\ UNCHANGED <<env, ifs, hPort, topics, evs, start, stop, app, bus, match>>

Settled ==
    /\ start = "done" /\ signals = <<>> /\ bcasts = {} /\ queEvents = <<>>
    /\ \/ root = <<>>
       \/ root = <<"para">> /\ listening = "yes"

PeerChange ==
    /\ busUp /\ changes < MaxChanges
    /\ env = "calm" => Settled
    /\ peer' = ~peer /\ changes' = changes + 1
    /\ signals' = Append(signals, ~peer)
    /\ UNCHANGED <<env, ifs, hPort, topics, evs, grp, start, stop, app, busUp, bcasts,
                   prt>>

\* CRpcBasePort::OnModOnOffline.  "mine": the flag MOD_ONOFFLINE_IRRELEVANT, which
\* says that the port has a match for this peer.
OnModOnOffline ==
    /\ signals # <<>> /\ signals' = Tail(signals)
    /\ match' = IF match = "none" THEN "none" ELSE IF Head(signals) THEN "on" ELSE "off"
    /\ listening' = IF ~Head(signals) /\ listening = "yes" THEN "cancelled" ELSE listening
    /\ bcasts' = bcasts \cup {[name |-> IF Head(signals) THEN "eventModOnline"
                                        ELSE "eventModOffline",
                               mine |-> match # "none",
                               no |-> changes - Len(signals)]}
    /\ UNCHANGED <<env, ifs, hPort, topics, evs, grp, start, stop, app, busUp, peer,
                   changes>>

\* CRpcServices::OnEvent; the tasks of the pool run in any order.
Broadcast(b) ==
    /\ b \in bcasts /\ bcasts' = bcasts \ {b}
    /\ queEvents' = IF topics THEN Append(queEvents, b) ELSE queEvents
    /\ UNCHANGED <<env, ifs, hPort, topics, event, grp, start, stop, app, busUp, peer,
                   changes, signals, prt>>

\* The bus connection is lost: the same way, once.
DBusOffline ==
    /\ busUp /\ busUp' = FALSE /\ topics
    /\ queEvents' = Append(queEvents, [name |-> "eventDBusOffline", mine |-> TRUE,
                                       no |-> 0])
    /\ UNCHANGED <<env, ifs, hPort, topics, event, grp, start, stop, app, peer,
                   changes, signals, bcasts, prt>>

PopEvent == queEvents' = Tail(queEvents) /\ event' = "test"

\* OnModEvent asks the table, and leaves the switch to a task.
EventTest ==
    /\ queEvents # <<>> /\ event = "test" /\ Head(queEvents).name \in ModEvents
    /\ LET e == Head(queEvents) IN
       \/ e.mine /\ TestSetState(e.name) /\ event' = "append" /\ UNCHANGED queEvents
       \/ ~(e.mine /\ TestSetState(e.name)) /\ PopEvent
    /\ UNCHANGED <<env, ifs, hPort, topics, grp, start, stop, app, bus, prt>>

EventAppend ==
    /\ queEvents # <<>> /\ event = "append"
    /\ \/ /\ rootMade
          /\ root' = Append(root, Head(queEvents).name)
          /\ IF root = <<>>
             THEN head' = "sched" /\ byEvent' = TRUE /\ event' = "run"
                  /\ UNCHANGED queEvents
             ELSE PopEvent /\ UNCHANGED <<head, byEvent>>
       \/ ~rootMade /\ PopEvent /\ UNCHANGED <<root, head, byEvent>>
    /\ UNCHANGED <<env, ifs, hPort, topics, rootMade, step, start, stop, app, bus, prt>>

EventDone ==
    /\ queEvents # <<>> /\ event = "run" /\ ~byEvent
    /\ PopEvent
    /\ UNCHANGED <<env, ifs, hPort, topics, grp, start, stop, app, bus, prt>>

\* OnDBusEvent switches at once and queues a stop.
OnDBusEvent ==
    /\ queEvents # <<>> /\ Head(queEvents).name = "eventDBusOffline" /\ PopEvent
    /\ \/ /\ TestSetState("eventDBusOffline") /\ SetStateOnEvent("eventDBusOffline")
          /\ stop' = "queued"
       \/ ~TestSetState("eventDBusOffline") /\ UNCHANGED <<ifs, stop>>
    /\ UNCHANGED <<env, hPort, topics, grp, start, app, bus, prt>>

\* Mutant of DoModEvent: nobody listens again after a recovery.
DoModEventNoRestart ==
    /\ At("mod")
    /\ IF TestSetState(Head(root)) THEN SetStateOnEvent(Head(root)) ELSE UNCHANGED ifs
    /\ NextTask(Tail(root))
    /\ UNCHANGED <<env, hPort, topics, evs, start, stop, app, bus, prt>>

\* DoModEvent: the task switches the state, if it still can, ...
DoModEvent ==
    /\ At("mod")
    /\ IF TestSetState(Head(root)) THEN SetStateOnEvent(Head(root)) ELSE UNCHANGED ifs
    /\ IF ifState = "Recovery" /\ ifState' = "Connected" THEN Goto("restart")
       ELSE NextTask(Tail(root))
    /\ UNCHANGED <<env, hPort, topics, evs, start, stop, app, bus, prt>>

\* ... and RestartListening listens again after a recovery.
RestartListening ==
    /\ At("restart")
    /\ NextTask(IF ifState = "Connected" THEN AddPara(Tail(root)) ELSE Tail(root))
    /\ UNCHANGED <<env, ifs, hPort, topics, evs, start, stop, app, bus, prt>>
-----------------------------------------------------------------------------
(***************************************************************************)
(* The stop of the proxy.                                                  *)
(***************************************************************************)
\* CRpcServices::Stop chooses the command by the state, ...
Stop ==
    /\ app = "none" /\ start # "none"
    /\ app' = IF ifState = "StartFailed" THEN "cmdCleanup" ELSE "cmdShutdown"
    /\ UNCHANGED <<env, ifs, hPort, topics, evs, grp, start, stop, bus, prt>>

\* ... gives it, and queues StopEx.  When it is refused, Stop fails or waits for
\* the stop that is under way.
QueueStopTask ==
    /\ app \in {"cmdCleanup", "cmdShutdown"} /\ app' = "done"
    /\ \/ TestSetState(app) /\ SetStateOnEvent(app) /\ stop' = "queued"
       \/ ~TestSetState(app) /\ UNCHANGED <<ifs, stop>>
    /\ UNCHANGED <<env, hPort, topics, evs, grp, start, bus, prt>>

StopEx ==
    /\ stop = "queued" /\ ifState = "Stopping"
    /\ stop' = "clear"
    /\ UNCHANGED <<env, ifs, hPort, topics, evs, grp, start, app, bus, prt>>

\* DoStop: ClearActiveTasks, then the tasks that disable events, then CIfStopTask.
ClearActiveTasks ==
    /\ stop = "clear" /\ ifState = "Stopping" /\ stop' = "disable"
    /\ \/ rootMade /\ CancelRoot /\ CancelStart
       \/ ~rootMade /\ UNCHANGED <<root, head, step, byEvent, listening, start>>
    /\ UNCHANGED <<env, ifs, hPort, topics, evs, rootMade, app, bus, match>>

DisableEvent ==
    /\ stop = "disable" /\ stop' = "close"
    /\ match' = IF hPort THEN "none" ELSE match
    /\ UNCHANGED <<env, ifs, hPort, topics, evs, grp, start, app, bus, listening>>

ClosePort ==
    /\ stop = "close"
    /\ \/ /\ hPort /\ topics' = FALSE /\ stop' = "closing" /\ UNCHANGED ifs
       \/ /\ ~hPort /\ SetStateOnEvent("cmdClosePort") /\ stop' = "cleanup"
          /\ UNCHANGED topics
    /\ UNCHANGED <<env, hPort, evs, grp, start, app, bus, prt>>

PortStopped ==
    /\ stop = "closing" /\ stop' = "cleanup"
    /\ hPort' = FALSE /\ topics' = FALSE
    /\ SetStateOnEvent("cmdClosePort")
    /\ UNCHANGED <<env, evs, grp, start, app, bus, prt>>

OnPostStop ==
    /\ stop = "cleanup" /\ stop' = "done"
    /\ \/ rootMade /\ CancelRoot /\ CancelStart
       \/ ~rootMade /\ UNCHANGED <<root, head, step, byEvent, listening, start>>
    /\ rootMade' = FALSE
    /\ UNCHANGED <<env, ifs, hPort, topics, evs, app, bus, match>>
-----------------------------------------------------------------------------
Threads ==
    \/ StartTest \/ StartAppend \/ StartClear \/ RootRun
    \/ OpenTest \/ OpenPort \/ PortStarted \/ Subscribe \/ OpenComplete
    \/ CheckPeer \/ RegMatch \/ SetOffline \/ StartComplete
    \/ RecvTest \/ HandleListening \/ RecvCancelled \/ OnModOnOffline
    \/ \E b \in bcasts : Broadcast(b)
    \/ EventTest \/ EventAppend \/ EventDone \/ OnDBusEvent
    \/ DoModEvent \/ RestartListening
    \/ QueueStopTask \/ StopEx \/ ClearActiveTasks \/ DisableEvent \/ ClosePort
    \/ PortStopped \/ OnPostStop

Next == Threads \/ Start \/ PeerChange \/ DBusOffline \/ Stop

Spec == Init /\ [][Next]_vars

\* What is handed to a thread is done.  Nothing is assumed of the application, of
\* the peer and of the bus.
FairSpec == Spec /\ WF_vars(Threads)
-----------------------------------------------------------------------------
Events == [name : ModEvents \cup {"eventDBusOffline"}, mine : BOOLEAN,
           no : 0..MaxChanges]
Steps == {"none", "open", "openPort", "started", "subscribe", "opening", "check",
          "regOn", "regOff", "offline", "listening", "recv", "submit", "listen",
          "mod", "restart"}

\* Every variable keeps its type; a root group without tasks is idle.
TypeOK ==
    /\ env \in Envs
    /\ ifState \in IfStates /\ resumeState \in {"Invalid", "Connected"}
    /\ hPort \in BOOLEAN /\ topics \in BOOLEAN
    /\ queEvents \in Seq(Events) /\ event \in {"test", "append", "run"}
    /\ rootMade \in BOOLEAN /\ root \in Seq(Tasks)
    /\ head \in {"idle", "sched", "run", "wait"} /\ step \in Steps
    /\ root = <<>> <=> head = "idle"
    /\ byEvent \in BOOLEAN
    /\ start \in {"none", "queued", "tested", "running", "clear", "done", "failed"}
    /\ stop \in {"none", "queued", "clear", "disable", "close", "closing", "cleanup",
                 "done"}
    /\ app \in {"none", "cmdCleanup", "cmdShutdown", "done"}
    /\ busUp \in BOOLEAN /\ peer \in BOOLEAN
    /\ changes \in 0..MaxChanges /\ signals \in Seq(BOOLEAN)
    /\ match \in {"none", "on", "off"} /\ listening \in {"no", "yes", "cancelled"}
    /\ bcasts \subseteq Events

\* A proxy whose stop has ended keeps nothing: no port, no subscription, no match
\* in the port, no listening IRP.  The stop overlaps a start in any of its steps:
\* DoStop may look for the port only after ClearActiveTasks has waited for it.
StopReleases ==
    stop = "done" => /\ ifState = "Stopped" /\ ~hPort /\ ~topics
                     /\ match = "none" /\ listening = "no"

\* A stop that is queued ends, whatever the proxy is doing: no task of the root
\* group keeps ClearActiveTasks waiting for ever.
StopCompletes == stop = "queued" ~> stop = "done"

InService == start = "done" /\ ifState \in {"Connected", "Recovery"}
Agrees ==
    /\ ifState = IF peer THEN "Connected" ELSE "Recovery"
    /\ listening = IF peer THEN "yes" ELSE "no"

\* A proxy follows a calm peer: it recovers while the peer is away and connects and
\* listens again when it is back, though its events wait behind the parallel group.
PeerFollowed == env = "calm" /\ InService ~> Agrees \/ ~InService

\* A proxy that waits for its peer does not wait for ever when the peer is there for
\* good: stateRecovery ends with the peer's return.
RecoveryEnds == <>[]peer => []<>(ifState # "Recovery")
=============================================================================
