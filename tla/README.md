# A verification project for rpc-frmwrk

rpc-frmwrk is an asynchronous, event-driven RPC framework in C++. Every request
is an IRP (I/O request packet) that travels down a stack of ports, or a task
that a group of tasks runs; threads of several pools, timers and the plug and
play manager work on them at the same time. This directory holds TLA+ models of
the parts that carry this concurrency, TLC runs that check them on small
instances, and TLAPS proofs that hold for instances of any size. Paths below are
relative to `src/`.

## 1. Inventory

| Part | State it keeps | Operations | Hard behaviour | What makes it correct |
|---|---|---|---|---|
| Port state machine, `ipc/portstat.cpp` | stack `m_vecStates`, deferred IRP `m_pExclIrp`, resume task `m_pResume` | `CanContinue`, `PushState`, `PopState`, `SetPortState`, `SetPortStateWake`, resume task | requests share the port, a stop excludes them and waits for them | a stop excludes every request; the stack is balanced; a deferred stop goes through |
| Port, `ipc/port.cpp` | the IRPs inside (`m_mapIrpIn`), the PnP state of its IRP | submit, complete, cancel of START, STOP, QUERY_STOP, FUNC and stack IRPs; `PreStop` | everything pends, fails and times out | nothing is pending in a stopped port; BUSY is given back |
| PnP manager, `ipc/pnpmgr.cpp` | where each START and STOP stands | `StartPortsInternal`, `QueryStop`, `StopPortAndDestroyTask`, `DestroyPortStack` | a start that is undone overlaps a stop | as for the port |
| IRP and I/O manager, `ipc/irp.cpp`, `ipc/iomgr.cpp` | state, context stack, slaves of an IRP | submit, complete, cancel, timeout; association of master and slaves | these four race for one IRP, and slaves race for the master | one result per submitter; the last slave ends the master |
| Tasklet, `ipc/tasklets.h` | `m_bInProcess`, `m_semReentSync` | `MarkInProcess`, `ClearInProcess` around `Process` | several threads, one flag, one semaphore | one thread inside; nobody waits for ever |
| Task groups, `ipc/iftasks.cpp` | queue of children, their results, state, flags | append, insert, run, child completion, cancel, complete | children are called without the lock and end on any thread | one child at a time; one completion; honest result; no lost wake-up |
| Flow-controlled groups, `ipc/iftasks.cpp`, `rpc/reqfwdr.cpp` | requests queued, running and ended of one client, limit | append, run, change of the limit, deferred removal, kill | threads run one group at once, the limit changes under running requests | the limit is respected, no request is left behind |
| Round-robin scheduler, `rpc/taskschd.cpp` | ready and waiting groups of a connection, slots | add, remove, next group, exchange of slots, change of limits | slots move while requests run | slots add up and are shared fairly |
| Interface, `ipc/ifstat.cpp`, `ipc/rpcif.cpp` | state of a proxy or server, its port, match, subscription, events and root group | start, stop, pause, resume, events of the bus and of peers | events arrive in the middle of a transition, a stop in the middle of a start | a stop gives everything back; a proxy recovers when its peer does |
| Streams, `ipc/streamex.cpp`, `ipc/uxstream.*`, `ipc/uxport.cpp` | window of unacknowledged packets, queues of both tasks and of the port | write, read, report, pause, resume | flow control in both directions over one socket | no loss, no dead window, a slow reader stops the writer |
| Router, `rpc/*.cpp` | connections, forwarded requests | forward, cancel, drop of a connection | a connection goes while its requests are under way | every forwarded request is answered |

The rest (drivers, message matching, event loops, transports, security, base
library, bindings, code generator, monitor, tools) is listed in `PROJECT.json`
with the reason why it is left out.

How the parts interact. A proxy or server turns a call into a task of its task
groups; the task submits an IRP through the I/O manager to the top port of a
stack; a port admits it with `CanContinue`, passes it to the port below or keeps
it pending, and gives the port back with `PopState`. The answer, a timer or a
cancellation completes the IRP on some thread, which calls the task back, whose
completion lets the group run its next child. The PnP manager starts and stops
whole stacks with IRPs of its own through the same gate.

The hazards this code is exposed to are listed in `PROJECT.json`, each with its
line and with the properties aimed at it.

## 2. Modules and the code they model

`PROJECT.json` maps every definition to its lines.

**PortState** is `CPortState` as operators on stacks: the table of legal
switches, `CanContinue` with its handlers for READY, ATTACHED, STOPPED,
BUSY_SHARED, STOP_RESUME and BUSY_RESUME, `PushState` with its bound by the
number of cores, `PopState`, `SetPortState`. Each returns the new stack and the
return code.

**Port** is one `CPort` with all the IRPs that reach it. A phase of an IRP names
the place between two critical sections of the port lock where its thread, or
the pending IRP, stands; an action is one critical section. What subclasses and
lower ports do in `OnSubmitIrp`, `StartEx`, `StopEx`, `OnQueryStop` and
`OnPortReady` is a choice of their return value. The actions follow the code:
STACK_BUILT, START (`StartSubmit` to `StartComplete`), STACK_READY, opening of the port, FUNC
(`FuncSubmit`, `FuncEnter`, `FuncLeave`, `FuncOut`, `FuncDone`), QUERY_STOP, STOP
(`StopSubmit`, `ResumeSubmit`, `StopResume`, `PreStop`, `CancelVictim`,
`PreStopDone`, `StopSelf`, `StopComplete`), timers of START and STOP,
STACK_DESTROY, and `FidoWritten`, the second entry of
`CRpcTcpFido::CompleteFuncIrp`.

**IoGate** is what a port promises, in four phases and a set: requests enter
while the gate is open, a stop that finds some inside waits while nobody else
enters, the gate shuts when it is empty and never opens again. `Port!GateSpec`
is this specification under the mapping `GatePhase`, `Inside`.

**AssocIrp** is a master IRP with its slaves: the START of the D-Bus bus port,
pending in `OnPortReady` until the STARTs of its child ports have ended. An
action is one critical section of an IRP's recursive mutex; nested calls of
`CompleteIrp`, `CancelIrp`, `CancelSlaves` and `CompleteAssocIrp` are frames on
the stack of a worker. `setting`, chosen at the start, says what may disturb it (a
child that cannot be attached, timers, a stop of the bus) and whether the bus has a
D-Bus connection: without one (`m_bNoDBusConn`) it has no local port, and its last
slave gives the master success whatever became of the others. Timers fire only for
IRPs that were submitted. When the
last context of the master has been popped the code goes on with undefined
behaviour, and the model stops there.

**TaskGroup** is `CIfTaskGroup`, the group that runs its children one after the
other, with the relations AND, OR and NONE. An action is one critical section of
the group's lock or one call of a child. The children are `CIfRetryTask`s that
end on the spot, or pend and end on another thread, or time out in the queue; a
result is OK, an error, or cancelled. A child's retry (`STATUS_MORE_PROCESS_NEEDED`)
is a child that pends a little longer, because the group treats it as pending. The test at the head of the group's
`Process` is merged with that of `RunTaskInternal`, which repeats it. `OnRetry` of
the group is not reached: the group never returns a code that `Retriable`
accepts unless a child does, and children of the model do not end with
`-EAGAIN`. Because of what TaskletGuard shows, a child that was run before may be
cancelled while it completes on another thread; `CancelChild` then finds
`m_pParentTask` set or cleared.

**TaskletGuard** is `CTasklet::CReentrancyGuard`, one action for each
`compare_exchange_strong`, `Sem_Wait` and `Sem_Post`, with `bExpected` as C++
defines it: a failed exchange stores the value it found.

**RfcGroup** is `CIfParallelTaskGrpRfc` and `CIfParallelTaskGrpRfc2`: the requests
of a client as numbers (queued, running, ended but not yet removed, chosen to be
killed) and what one critical section of the group's lock does to them.
**RRScheduler** composes such groups with `CRRTaskScheduler` and with the steps of
`CRpcReqForwarder` that drive it: clients come and go, requests are submitted,
answered, killed and tried again, remote bridges change the slots of their
connection. `scheduled`, chosen at the start, says whether there is a scheduler.
The swapped branches of `SetSlotCount` (`rpc/taskschd.cpp:371`) are modelled as they
are.

**StreamParams** declares the sizes of the flow control. **FlowControl** is
`CFlowControl` as operators on its counters, with the wrap-around of an unsigned
difference. **Stream** puts two of them into the two ends of a stream, each with
write task, port, listening task and read task, and lets both directions share
the socket: a report of one direction queues behind the data of the other.
`setup`, chosen at the start, says how much the applications write, in how many
blocks, how they read, and whether the socket ever refuses. **FlowWindow** is the
abstract specification of one direction: a sender that may have one window
outstanding, a receiver that reports when it has received one. `Stream!WindowSpec`
says that each direction of Stream implements it.

**Proxy** is a local proxy and its peer: the table of `CInterfaceState`, the start
(`Start` to `StartComplete`), the queue of events and the tasks in the root task
group that apply them, listening, and the stop (`Stop` to `OnPostStop`), together
with the match in the port and the signals of the D-Bus daemon. A signal changes
the match at once, the broadcast of its event is a task of the pool, and the
change of the proxy's state a second task in the root group, so the three may be
about different changes of the peer. `env`, chosen at the start, is "calm" (the
peer changes when the proxy has digested its last change) or "rough" (it changes
at any time). Opening the port succeeds at once, or pends, or fails. The port is
the same as long as the proxy has it; what happens inside it is the subject of
Port.

The modules MCPort, MCAssocIrp, MCTaskGroup, MCTaskletGuard, MCSched, MCStream and
MCProxy only add what TLC needs; **PortProofs**, **AssocProofs**, **GroupProofs**,
**GuardProofs**, **ProxyProofs**, **SchedProofs**, **FlowProofs** and **StreamProofs** hold
the proofs. Operators commented as mutants are variants of the code with a plausible
mistake in them; `PROJECT.json` names, for each property, one that violates it.

## 3. Runs

| Run | Instance | Distinct states | Shows |
|---|---|---|---|
| `port_safety` | 3 FUNC IRPs, 2 stops, 2 cores, fair | 7 648 | a stop excludes every request, the stack is balanced, nothing throws, nothing is left pending, a deferred stop goes through; refinement of IoGate |
| `port_faults` | the same with a TCP fido on top, 4 cores, a failing or pending `OnPortReady`, timers of START and STOP, overlapping stops | 70 857 | the stack is balanced until somebody stops the port, and a draining port lets nobody in |
| `port_stop_timeout` | the timer of a deferred stop | violation | finding 1 |
| `irp` | master and 2 slaves; undisturbed, with failing attachment, with timers, with a stop of the bus, without a D-Bus connection; fair | 268 815 | one result for each submitter; with a connection, success only if the local port was started and succeeded; where nobody cancels the master, it ends last and because of the last slave, and every START is answered |
| `group` | 3 children, 2 pool threads, a canceller, each relation, fair | 382 642 | one child at a time, one completion, nothing left behind, an honest and defined result, no child after the decision, no lost wake-up |
| `guard` | 3 threads, 3 calls each, fair | 112 912 | nobody waits for ever, the flag is clear at rest |
| `guard_overlap` | 2 threads, 2 calls each | violation | finding 2 |
| `sched` | 3 clients of one connection, 1 or 2 slots, at most 2 requests per group, 5 units of work, with and without scheduler | 732 834 | the slots add up, are shared fairly, and belong to groups on the lists; no group runs more than the largest share; without a scheduler no request is left behind |
| `stream` | windows of 3 packets or 4 bytes, packets of 1 or 2 bytes, 5 setups, fair | 539 748 | data arrives intact and in order, all of it unless a request stalls in a full queue; no more than a window and one packet is held; each direction implements FlowWindow |
| `stream_report` | both ends write 4 and 2 packets over a socket that refuses | violation | finding 3 |
| `proxy` | 3 changes of the peer, calm and rough, fair | 272 755 | a stop in any step of the start gives everything back and ends; a calm peer is followed |
| `proxy_lost` | one change of a rough peer, fair | violation | finding 4 |

Bounds. Three FUNC IRPs are enough for a stop to wait with two requests still
inside while a third tries to enter, and an IRP is submitted again and again, so
a run is not bounded in length. Two stops meet in every phase. On two cores the
stack is full with three requests inside, and a stop is then told -EAGAIN; on four
there is room for all. The exclusion and the balance of a port without a fido
under faults are not model-checked but proved (`StopExcludesRequests`,
`StackCountsRequests`). Two slaves give a last and a not-last one; a timer and a
stop of the bus that meet on one master are not explored. Three children give a
deciding child, a running one and a queued one. Three threads let one enter
between the two exchanges of two others that leave; three calls each (`MaxCalls`)
let the semaphore collect counts. In `sched`, three groups on one or two slots give
ready, waiting and exchanged groups at once; connections share nothing but the
lock, so one is enough; `MaxWork` bounds clients, requests and changes of limits
together. With three groups the shares never shrink when one leaves; that they may,
for a group that runs as much as it was given (five slots, four groups), is why
`OverrunBounded` speaks of the largest share and not of the limit of the group. It
was checked on such an instance too, which has 4.7 million states and is too large
to be kept as a run. In `stream` the window is 3 packets instead of 32: with fewer, the buffer
of `ReadStreamNoWait` would go from full to empty in one read, which the code's
sizes exclude. Five packets fill a window, wait for its report and start the
next; three requests of one or two blocks exercise the split of a request and fill
the queue of the write task; four and
one, or three and two, packets in opposite directions make reports queue behind
data. In `proxy`, three changes (`MaxChanges`) are enough for offline, online and
offline events to be in flight together, and a stop or the loss of the bus may
come at every step.

Deadlock is not checked: a stopped port, a completed group, a delivered stream
and a stopped proxy really do stop. Symmetry is used in `port_faults` and `sched`,
which check no liveness.

Fairness. Weak fairness of the steps of a thread that is inside the framework
(the scheduler of the operating system), of tasks that are in the queue of a
pool, and of timers that are armed. Nothing is assumed of who submits, calls or
cancels. In Port a stop pending in a lower port is completed; in AssocIrp ports
may never answer, only timers are fair; in TaskGroup a pending child ends, by its
answer or its timer. In Stream the applications go on writing and reading, as
long as they have something to write, and the socket that refused takes data
again, as the kernel promises. In Proxy only the threads are fair: neither the
application, nor the peer, nor the bus need do anything; a port that is being
created comes up or fails, which its START's timer sees to. RRScheduler is
checked for safety only: no fairness of the code was found under which waiting
groups are served.

## 4. Findings

1. `ipc/pnpmgr.cpp:798`: a STOP IRP has a timer although `PreStop` assumes that it
   cannot be cancelled; when it fires while the stop waits, the port stays in
   BUSY_RESUME.
2. `ipc/tasklets.h:163`: `MarkInProcess` does not reset `bExpected`, and the
   semaphore counts posts nobody waited for, so two threads run one tasklet.
3. `ipc/uxport.cpp:2068`: what the socket refused is written later with the token
   for data, reports included. The peer takes a report for a packet.
4. `ipc/rpcpdo.cpp:489`: the peer is looked up before the match is entered; one that
   comes up in between is not noticed, and the proxy stays in stateRecovery. The
   same loss happens when an online event is tested (`ipc/rpcif.cpp:1501`) while the
   offline one before it is still queued.

Four more were checked with these modules and can be reproduced, though no run
is kept for them:

- `rpc/tcpfido.cpp:803`: `CRpcTcpFido::CompleteFuncIrp` pops a state even when
  `CanContinue` refused it, and so takes off the BUSY_SHARED of another request; the
  stop that waits for it starts while that request is inside. (MCPort with the
  constants of `port_safety.cfg`, `NumCores = 4` and `FidoPort = TRUE`: `StopExclusive`
  fails.)
- `ipc/port.cpp:2497`: `CompleteAssocIrp` recognises the association context by a
  minor code that START shares, and pops the submitter's context. (MCAssocIrp with
  `Settings = {{"timeout"}}`: `FirstCtxKept` fails.)
- `ipc/pnpmgr.cpp:465`: a slave cancelled between `MakeAssocIrp` and
  `SubmitIrpInternal` is submitted all the same and never ends. (MCAssocIrp with one
  slave and `Settings = {{"timeout"}}`: `StartAnswered` fails.)
- `ipc/streamex.cpp:408`: `RESCHED_WRITE_TASK` does not run the task again when the
  port has written a block of a request that has more of them and the queue is full.
  Nothing moves until the timer of the request, which is not modelled, fires; so
  `AllDelivered` excludes the behaviours with such a stall, `StallsWhenFull`. The run
  `stream` reaches it. (MCStream with `stream.cfg`: `<>Finished` alone fails.)

Observations from reading the code, not checked by a run:

- a port without a registry path stays BUSY (`ipc/port.cpp:1424`); a request admitted
  while `OnPortReady` is pending makes a successful start look lost
  (`ipc/port.cpp:2039`); STACK_DESTROY is admitted in BUSY_RESUME
  (`ipc/portstat.cpp:904`), which the model contains and the exclusion survives;
- `m_pParentTask` is read and cleared without a lock (`ipc/iftasks.cpp:570`);
- two callers of the public `WriteStream` may raise `m_byFlowCtrl` to 2
  (`ipc/uxstream.h:1070`); `CompleteReadIrp` copies a report as data
  (`ipc/streamex.cpp:1131`); `SetDiscard` drops reports (`ipc/streamex.h:215`);
  a write that times out may complete another request (`ipc/streamex.cpp:608`);
- a waiting group without a slot is served only when another group completes a
  request (`rpc/taskschd.cpp:590`);
- `CRpcServices::Stop` reads the state before it chooses the command
  (`ipc/rpcif.cpp:2663`): a retry of the open between the two makes it refuse; events
  of the peer are refused in statePausing and stateResuming.

## 5. Proofs

Every theorem is about `Spec`, without fairness, for all values of the constants
that satisfy the named assumptions (`PortAssumption`, `NumCoresAssumption`,
`AssocAssumption`, `GroupAssumption`, `GroupsAssumption`, `GuardAssumption`, `ProxyAssumption`,
`SchedAssumption`, `WindowAssumption`, `StreamAssumption`), which TLC evaluates on its
instances. A property is proved from
an inductive invariant that implies it; TLC was run on these invariants before
they were proved. The step proofs have one lemma for each action, or for each
group of actions that touch the same state.

*PortProofs* is built in layers.

1. `TypeCorrect` is inductive by itself: the only delicate variable is
   `resumeTasks`, for which `PopState` must not schedule an empty IRP.
   `DrainingPortAdmitsNobody` needs only the types, and holds for fido ports too.
2. `StopExcludesRequests` and `StackCountsRequests` assume `~FidoPort` (section 4 says
   why) and rest on `IInv`. Neither property is inductive: whether the next
   `PopState` is right depends on the whole stack. `Shape` says that the stack is
   READY with one BUSY_SHARED for each request inside, or the same with
   EXCLUDE_PENDING on top, or one of a few stacks with nobody inside; `StartShape`
   fixes the stack in each phase of the start; `StopShape` says that a stop that was
   let through has shut the port; `DestroyShape` and `DestroyedShape` do the same for
   STACK_DESTROY. Lemmas state what each operation of PortState does to each shape.
3. `PortNeverThrows` and `StopAnswersAll` assume `~StopMayTimeout` as well, since the
   timer of a deferred stop takes away the IRP `PopState` looks for (finding 1).
   `BooksInv` relates the stack to the other records: a draining port has its
   deferred IRP and its resume point (`Armed`), one stop at a time is at work on
   a shut port (`OneStop`), every request under way is in the port's map or among
   those `PreStop` is cancelling, and none enters the map after it (`Tracked`), a
   port that was never READY has seen no request (`Unused`), and a stopped port has
   answered all (`Answered`).
4. `DeferredStopHasOwner` adds that a port that waits, or is STOPPING, has somebody
   that goes on with its stop (`Owned`). Its property is the one the run
   `port_stop_timeout` violates: without the timer it holds.
5. `PortIsAGate` is the refinement of IoGate. It assumes besides that `OnPortReady`
   succeeds at once: a start that fails or pends on a READY port is outside the
   start/stop queue, and the stack may be destroyed while a stop is deferred, which
   the gate does not allow. `Serial` says that the queue does its work:
   one stop at a time on a started port, which is destroyed only once it has been
   stopped. `GateIs` gives the phase of the gate from the shape of the stack, and one lemma
   for each kind of step shows which step of the gate, or stutter, it is.
6. `SecondEntryBalanced` is about every kind of port and assumes nothing. On a fido
   it rests on `FidoInv`: until a stop begins `IInv` holds, and a FUNC IRP is pending
   only on a READY port with nothing but BUSY_SHARED on top (`Reenterable`), where
   `CanContinue` lets the second entry in whatever the number of cores, so that
   `PopState` takes off what it put on. A start that fails on a READY port leaves
   the stack as it is. Once a stop has begun nothing is promised (section 4).

*AssocProofs.* The state of AssocIrp is a set of call stacks, one for each thread
that works on an IRP, so an invariant says what each frame, at whatever depth, may
rely on. `Home` fixes the frames a thread can have and `Fresh` that nothing has
happened before the master is pending; with the types these are inductive
(`AssocTypeCorrect`). `OneCallback` and `BusStartHonest` need `Facts` (what a frame that
is going to finish, link or notify an IRP knows of it), `OneEnd` (no two frames are
on the way to call the same submitter back), `Told` and `Recorded` (a success on
record is that of a slave that was submitted and has finished, and a master that
succeeded has that of its local port on record, if the bus has a connection). The
property would be empty without the record: the status of an IRP is success from the
start. `MasterCompletesLast` is about masters nobody cancels; `CalmInv`
says of these that the number of slaves still to come is exactly the number of
those that have neither been linked nor been heard of, so that it falls to zero
with the last one only.

*GroupProofs* has three layers. `GroupCompletesOnce` rests on `OneOwner`: at most one
thread is calling children, cancelling them or about to call `OnComplete`, and the
flags `state`, `noSched` and `canceling` tell the others that it does. `SafeInv` adds
the queue (`QueueShape`: it holds the children that wait or run, each once, and is
empty when `OnComplete` is called) and the child that runs (`RunShape`: it is the head
of the queue; if no thread is calling it, the group waits for it; a child that left
the queue behind the back of its caller has left its result). It gives
`GroupTypeCorrect`, `ChildrenRunInTurn` and `NoChildLeftBehind`. `ResultInv` adds what the
recorded results say of the children, with what each thread carries in its local
variables, for groups none of whose children timed out in the queue (those leave no
trace in the code); it gives `ResultIsHonest` and the action property
`DecisionStopsGroup`.

*GuardProofs.* `GuardFreeAtRest` rests on `FlagOwned`: while the flag is set some
thread has still to clear it. Who, the flag does not say, since two may be
inside. `GuardTypeCorrect` comes with it.

*ProxyProofs.* `StopReleasesAll` rests on the phases of the stop: `Released` says, for
each of them, which state the interface is in and what has been given back, and
that no step that obtains something is still under way once `ClearActiveTasks` has
passed. It needs `Grouped` (the task at work is the head of the root group), `Working`
(a match, a subscription and a listening IRP rest on a port), `Beyond` (the bus
is lost only under a proxy that has got beyond stateStarting) and `Counted` (a
recovery leads back to Connected). `ProxyTypeCorrect` is not inductive without the
last. No hypothesis is made about the number of changes of the peer.

*SchedProofs.* `NoRequestForgotten` is about the groups of bridges and proxies, which
have no scheduler. It rests on `AloneInv`: the lists stay empty and nothing is killed
or left to `DeferredRemove` (`Unmanaged`), a group that was not created has no request
(`Unfilled`), and one with a request and a free slot is being run or called (`Called`).
The other theorems are about the scheduler, for any number of groups, connections
and slots, in three layers.

1. `SchedTyped` and `SeatsAlwaysKept` rest on `SeatInv`. Neither is inductive. That a group
   is on one list only depends on what the others know of it: a group on a list, or
   in an exchange, is one whose `AddTaskGrp` has succeeded (`ConnFacts`, `SwapFacts`), so
   that `AddTaskGrp` cannot add it twice; the two groups of an exchange are on no list,
   and the waiting one still has no slot; a connection that is not in `m_lstConns` has
   empty lists, and is in it once; a client that was added is listed (`KnownFacts`). For
   each group, `GrpFacts` relates its life to its limit and its requests: victims run, and
   what runs is at most `RFC_MAX_REQS`. `Redealt` is what every operator that deals out
   slots guarantees: the same groups, each on one list, those that wait without slots.
2. `SlotsAlwaysBounded` and `SharesAlwaysFair` rest on `DealInv`: either groups wait and as many
   groups as there are slots have one each (`Crowded`; a group that is losing its slot
   in an exchange still counts), or nobody waits and there is a set `B` of slots mod
   groups members whose share is one larger than that of the others (`Roomy`). Both
   properties are about sums, of which nothing can be kept by a step that deals out all
   slots again; the shape of the deal can. `DealingTotal` gives the sum that belongs to
   it: `MapThenSumSet` is a recursion over subsets, and its value is proved by
   induction on their size, with the set of sizes for which it holds as a set (`NatStep`
   follows from the library's `WFMin`, so that no operator is instantiated).
   `resized = 0` is needed: `SetSlotCount` calls `IncSlotCount` for fewer slots and
   `DecSlotCount` for more, and `SlotsBound` need not hold afterwards.
3. `OverrunAlwaysBounded` is inductive together with these two: `CapLimit` says that no limit
   exceeds the largest share, so that a batch does not; `KilledEnough` that
   `SelTasksToKill` picks what a cut leaves over; `CeilMono` that the largest share of
   fewer groups is no smaller; `CrowdedShare` that a group that has to wait finds the
   largest share at one already.

*FlowProofs.* `WindowSafe` is about the abstract FlowWindow, for every window,
packet size and number of packets: `WindowOK` says that neither end acknowledges
what was not sent (so no unsigned difference wraps around), that at most a window
is outstanding, that `m_byFlowCtrl` is 1 exactly when the window is full, and that
a sender that may not send has a packet or a report on its way. None of these is
inductive, because the sender's count says nothing of what the receiver will
report. `WindowInv` adds that only the last packet sent can have filled the window
(`LastFills`), that a report on its way is the only one and covers all that was sent
(`OneReport`), that what the receiver has not reported is less than a window
(`Unreported`) and that byte counts grow along the stream (`Growing`).

*StreamProofs* is about the detailed Stream, for every window, packet size and number
of blocks and both directions at once. `StreamTyped` (no counter wraps around),
`StreamIntact` (no packet is lost, doubled or reordered), `StreamBounded` (at most a
window and the packet being taken is held between the applications) and
`StreamIsWindow` (each direction implements FlowWindow) all rest on one invariant,
`StreamInv`. None of the four is inductive: whether the sender's counters stay right
depends on the report it will get, this on the packets that arrive, and these on the
queues they pass through. `Counted` says that the counters of the two ends are those
of one window; it is `WindowInv` with the counters of `CFlowControl` in it. `Chained`
says that each packet under way is in exactly one of the four queues, in its place;
`Reported` that the report the sender waits for is in exactly one of the six places a
report passes through, and that there is none when it waits for none; `Told` that a
report leaves only after the packets it is about; `Reading` what the read task may
hold, and when; `Writing` that a block the port has queued is the only one and that
the task is not running meanwhile. The theorems have the hypothesis `SafeSetups`: a
socket refuses only where one of the two applications does not write. All setups of
the run `stream` satisfy it. Without it `StreamIntact` is false: the run
`stream_report` has a setup in which both write, and finding 3 is its counterexample.

Only model-checked: all liveness (`DeferredStopCompletes`, `MasterAnswered`,
`StartAnsweredUndisturbed`, `GroupCompletes`, `CallerGetsIn`, `AllDelivered`,
`StopCompletes`, `PeerFollowed`), which is out of the prover's reach. Every other
property of the passing runs is stated by a theorem.

## 6. Plan

1. Done: PortState, Port, IoGate, AssocIrp, TaskGroup, TaskletGuard, RfcGroup,
   RRScheduler, FlowControl, FlowWindow, Stream, Proxy and the proofs above.
2. Interfaces: pause and resume, the retry of the open, events of remote modules,
   servers; requests in the parallel group, with their timers.
3. Streams: reads of a fixed number of bytes, `SetDiscard`, the timers of requests,
   close.
4. A stack of two ports, so that a stop passes from one to the other.

## 7. Not modelled, and why

Of the parts that are modelled: in RRScheduler the entry of the manager itself
(`m_ocqSchdMgr`), `RemoveTaskGrp` for a single group, a client that comes after its
connection was dropped (`AddConn` would add the connection again) and the counters; in Stream
reads of a fixed number of bytes, `SetDiscard`, `PeekStream`, ping and pong, the
timers of requests, the limit of 128 packets in the port (the window of 32 keeps
it out of reach of one writer) and the relay of streams by the router; in Proxy
pause and resume, the retry of a failed open, requests of the application and
incoming messages, more than one match, events of remote peers, servers, and a
second start of the same object, and the stop of the port under the proxy
(`eventPortStopping`). There the loop of `CIfRootTaskGroup::OnCancel`, which releases
the lock for each child, is one step. In Port the throws of the completion handlers
for a port that has changed its state while `StartEx` or `StopEx` was called again
(`ipc/port.cpp:2066`, `2094`, `2184`) are not modelled.

Transports, handshakes and authentication are those of external libraries
(libdbus, OpenSSL, Kerberos). Marshalling and the base library are sequential
data conversions. The event loops and pools are what the models take for granted:
what is handed to them is run once, by any thread. Destruction of objects is left
out: reference counting keeps everything in these models alive as long as
somebody points to it, except for the unlocked `m_pParentTask` listed among the
hazards. Memory exhaustion and the failure of system calls are left out.
