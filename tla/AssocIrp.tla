------------------------------ MODULE AssocIrp ------------------------------
(***************************************************************************)
(* A master IRP and its slaves (src/ipc/irp.cpp, iomgr.cpp, pnpmgr.cpp and *)
(* the association methods of CPort).  The master is the START IRP of the  *)
(* D-Bus bus port, which is pending in OnPortReady until the START IRPs of *)
(* its child ports, the slaves, have ended; its result is the result of    *)
(* one of them, the local PDO.  Port threads, timers and a stop of the bus *)
(* complete and cancel these IRPs at the same time.                        *)
(*                                                                         *)
(* Every action is one critical section of an IRP's recursive mutex; the   *)
(* states COMPLETING, CANCELLING, CANCEL_SLAVE and COMPLETING_ASSOC are    *)
(* entered and left inside one and never seen.  A worker is a flow of      *)
(* control, and its calls of CompleteIrp, CancelIrp, CancelSlaves and      *)
(* CompleteAssocIrp, which nest, are frames on its stack.                  *)
(***************************************************************************)
EXTENDS Integers, Sequences, FiniteSets

CONSTANTS
    Slaves,           \* the START IRPs of the child ports
    Master,           \* the START IRP of the bus port
    Local,            \* the slave of the port m_iLocalPortId
    Dummy,            \* the null pointer CancelSlaves puts into the slave map
    Settings          \* the settings the bus may start in, see setting

ASSUME AssocAssumption ==
    /\ IsFiniteSet(Slaves) /\ Local \in Slaves
    /\ Master \notin Slaves /\ Dummy \notin Slaves \cup {Master}
    /\ Settings \subseteq SUBSET {"attach", "timeout", "stop", "noconn"}

Irps == Slaves \cup {Master}

\* StartPortStack of a child, the port that answers it, the timers, PreStop.
Workers == ({"start", "port"} \X Slaves) \cup ({"timer"} \X Irps)
           \cup {<<"stop", Master>>}

VARIABLES
    setting,   \* chosen at the start: "attach", a child may fail before its START
               \* IRP is created; "timeout", the timer of the master may fire;
               \* "stop", PreStop of the bus port may cancel the master;
               \* "noconn", m_bNoDBusConn: the bus has no local port, and Local
               \* is a child like the others
    state,     \* m_atmState of each IRP
    status,    \* the status on top of its context stack
    pending,   \* IRP_PENDING: SubmitIrp has returned STATUS_PENDING
    sent,      \* the slave has reached SubmitIrpInternal and holds its port
    masterOf,  \* the slave's m_pMasterIrp is set
    notified,  \* how often the submitter of the IRP was given a result
    slaves,    \* m_mapSlaveIrps of the master
    minSlaves, \* m_wMinSlaves of the master
    ctx,       \* contexts on the master's stack: START, and ASSOC above it
    res,       \* m_mapIdToRes, the results of the slaves
    work       \* the call stack of each worker, innermost call first

irp == <<state, status, pending, sent, masterOf>>
assoc == <<slaves, minSlaves, ctx, res>>
vars == <<setting, state, status, pending, sent, masterOf, notified, slaves,
          minSlaves, ctx, res, work>>

Results == {"OK", "ERR"}
Finished == {"COMPLETED", "CANCELLED"}
Frame(pc, i) == [pc |-> pc, irp |-> i]
Pcs == {"start", "submit", "linkStart", "callback", "complete", "completing",
        "link", "post", "cancelSlaves", "cancel"}
Frames == [pc : Pcs, irp : Irps]

Init ==
    /\ setting \in Settings
    /\ state = [i \in Irps |-> "READY"]
    /\ status = [i \in Irps |-> "OK"]
    /\ pending = [i \in Irps |-> FALSE]
    /\ sent = [s \in Slaves |-> FALSE]
    /\ masterOf = [s \in Slaves |-> FALSE]
    /\ notified = [i \in Irps |-> 0]
    /\ slaves = {} /\ minSlaves = 0 /\ ctx = 1
    /\ res = [s \in Slaves |-> "none"]
    /\ work = [w \in Workers |-> <<>>]

At(w, pc) == work[w] # <<>> /\ Head(work[w]).pc = pc
Cur(w) == Head(work[w]).irp
\* The innermost call of w goes on as, or calls, the frames fs.
Continue(w, fs) == work' = [work EXCEPT ![w] = fs \o Tail(@)]
Return(w) == Continue(w, <<>>)
Goto(w, pc) == Continue(w, <<Frame(pc, Cur(w))>>)

\* CDBusBusPort::IsNoDBusConn: a built-in router without a D-Bus connection.
NoDBusConn == "noconn" \in setting

SlaveCount(S) == Cardinality(S) + minSlaves

\* CIoManager::CancelIrp begins with CancelSlaves, idle for an IRP without any.
CancelIrp(i) ==
    IF i = Master THEN <<Frame("cancelSlaves", i), Frame("cancel", i)>>
                  ELSE <<Frame("cancel", i)>>

-----------------------------------------------------------------------------
(* The bus port and its children start.                                    *)

\* OnPortReady of the bus, within SubmitIrpInternal and the master's lock: the
\* master waits for as many slaves as there are children.  The START of each is
\* a deferred task, unless attaching the child fails first.
SubmitMaster ==
    /\ ~pending[Master] /\ state[Master] = "READY"
    /\ minSlaves' = Cardinality(Slaves)
    /\ pending' = [pending EXCEPT ![Master] = TRUE]
    /\ \E A \in IF "attach" \in setting THEN SUBSET Slaves ELSE {Slaves} :
          work' = [w \in Workers |-> IF w[1] = "start" /\ w[2] \in A
                                     THEN <<Frame("start", w[2])>> ELSE <<>>]
    /\ UNCHANGED <<state, status, sent, masterOf, notified, slaves, ctx, res>>

\* ... or the start of the bus or of its D-Bus connection fails, and the callback
\* is called on the spot.
MasterFails ==
    /\ ~pending[Master] /\ state[Master] = "READY"
    /\ state' = [state EXCEPT ![Master] = "COMPLETED"]
    /\ status' = [status EXCEPT ![Master] = "ERR"]
    /\ notified' = [notified EXCEPT ![Master] = @ + 1]
    /\ UNCHANGED <<pending, sent, masterOf, assoc, work>>

\* Mutants: m_wMinSlaves is not counted down, or counted down below zero.
StartAssocKeepsMin(w) ==
    /\ At(w, "start")
    /\ slaves' = slaves \cup {Cur(w)}
    /\ ctx' = 2
    /\ masterOf' = [masterOf EXCEPT ![Cur(w)] = TRUE]
    /\ Goto(w, "submit")
    /\ UNCHANGED <<status, minSlaves, state, pending, sent, notified, res>>
StartAssocBelowZero(w) ==
    /\ At(w, "start")
    /\ slaves' = slaves \cup {Cur(w)}
    /\ minSlaves' = minSlaves - 1
    /\ ctx' = 2
    /\ masterOf' = [masterOf EXCEPT ![Cur(w)] = TRUE]
    /\ Goto(w, "submit")
    /\ UNCHANGED <<status, state, pending, sent, notified, res>>

\* StartPortsInternal: MakeAssocIrp under the master's lock, which is released
\* before the slave is submitted.  A finished master takes no slave.
StartAssoc(w) ==
    /\ At(w, "start")
    /\ IF state[Master] = "READY"
       THEN /\ slaves' = slaves \cup {Cur(w)}
            /\ minSlaves' = IF minSlaves > 0 THEN minSlaves - 1 ELSE 0
            /\ ctx' = 2
            /\ masterOf' = [masterOf EXCEPT ![Cur(w)] = TRUE]
            /\ Goto(w, "submit")
            /\ UNCHANGED status
       ELSE /\ status' = [status EXCEPT ![Cur(w)] = "ERR"]
            /\ Goto(w, "linkStart")
            /\ UNCHANGED <<slaves, minSlaves, ctx, masterOf>>
    /\ UNCHANGED <<state, pending, sent, notified, res>>

\* SubmitIrpInternal of the slave, which does not look at its state: pending,
\* or a result at once.  A stopping I/O manager does not submit it at all.
SubmitSlave(w) ==
    LET s == Cur(w) IN
    /\ At(w, "submit")
    /\ \/ /\ pending' = [pending EXCEPT ![s] = TRUE]
          /\ sent' = [sent EXCEPT ![s] = TRUE]
          /\ Return(w)
          /\ UNCHANGED <<state, status>>
       \/ /\ sent' = [sent EXCEPT ![s] = TRUE]
          /\ state' = [state EXCEPT ![s] = IF @ = "READY" THEN "COMPLETED" ELSE @]
          /\ \E r \in Results : status' = [status EXCEPT ![s] = r]
          /\ Goto(w, "linkStart")
          /\ UNCHANGED pending
       \/ /\ status' = [status EXCEPT ![s] = "ERR"]
          /\ Goto(w, "linkStart")
          /\ UNCHANGED <<state, pending, sent>>
    /\ UNCHANGED <<masterOf, notified, assoc>>

\* The callback of a START that did not pend is called on the spot.
Callback(w) ==
    /\ At(w, "callback")
    /\ notified' = [notified EXCEPT ![Cur(w)] = @ + 1]
    /\ masterOf' = [masterOf EXCEPT ![Cur(w)] = FALSE]
    /\ Return(w)
    /\ UNCHANGED <<state, status, pending, sent, assoc>>

-----------------------------------------------------------------------------
(* Completion.                                                             *)

\* The port of a pending slave has its answer and calls CompleteIrp.
Respond(w) ==
    /\ w[1] = "port" /\ work[w] = <<>>
    /\ pending[w[2]] /\ state[w[2]] = "READY"
    /\ \E r \in Results : status' = [status EXCEPT ![w[2]] = r]
    /\ work' = [work EXCEPT ![w] = <<Frame("complete", w[2])>>]
    /\ UNCHANGED <<state, pending, sent, masterOf, notified, assoc>>

\* CompleteIrp, under the lock and with the IRP still READY: the ports on its
\* stack complete it, unless one of them has more to do and it stays pending.
FinishIrp(w) ==
    LET i == Cur(w) IN
    \/ /\ i \in Slaves
       /\ Return(w)
       /\ UNCHANGED <<irp, notified, assoc>>
    \/ /\ state' = [state EXCEPT ![i] = "COMPLETED"]
       /\ Goto(w, IF i = Master THEN "post" ELSE "link")
       /\ UNCHANGED <<status, pending, sent, masterOf, notified, assoc>>

\* Mutant: CompleteIrp does not ask whether the IRP is finished already.
CompleteFinishedToo(w) ==
    /\ At(w, "complete")
    /\ FinishIrp(w)

\* CompleteIrp up to the lock.  A master that failed first cancels its slaves,
\* with the lock released.
Complete(w) ==
    LET i == Cur(w) IN
    /\ At(w, "complete")
    /\ IF state[i] # "READY"
       THEN Return(w) /\ UNCHANGED <<irp, notified, assoc>>
       ELSE IF i = Master /\ status[i] = "ERR" /\ SlaveCount(slaves) > 0
       THEN /\ Continue(w, <<Frame("cancelSlaves", i), Frame("completing", i)>>)
            /\ UNCHANGED <<irp, notified, assoc>>
       ELSE FinishIrp(w)

Completing(w) ==
    /\ At(w, "completing")
    /\ IF state[Cur(w)] = "READY" THEN FinishIrp(w)
       ELSE Return(w) /\ UNCHANGED <<irp, notified, assoc>>

\* Mutant: a local port that left no result counts as started.
MissingIsSuccess(s, r) ==
    IF ctx = 2 /\ sent[s] /\ (NoDBusConn \/ r[Local] # "ERR") THEN "OK" ELSE "ERR"

\* OnCompleteSlaveIrp of the bus: the last slave gives the master the result of
\* the local port, an error if it left none, and success if the bus has no local
\* port.  It needs the ASSOC context and the port of the slave.
MasterResult(s, r) ==
    IF ctx = 2 /\ sent[s] /\ (NoDBusConn \/ r[Local] = "OK") THEN "OK" ELSE "ERR"

\* Mutant: the first slave completes the master.
AnySlaveIsLast(rest) == rest = rest

IsLast(rest) == SlaveCount(rest) = 0

AfterLink(w) == Frame(IF At(w, "linkStart") THEN "callback" ELSE "post", Cur(w))

\* CompleteAssocIrp and CancelAssocIrp: a READY master loses the slave.  The
\* last one pops the master's ASSOC context and, with the lock released, calls
\* CompleteIrp.  The test that the top context is the ASSOC context compares
\* minor commands only, and IRP_MN_ASSOC_RUN = IRP_MN_PNP_START: it always holds.
Link(w) ==
    LET s == Cur(w)
        rest == slaves \ {s}
        r == IF ctx = 2 /\ sent[s] THEN [res EXCEPT ![s] = status[s]] ELSE res
    IN
    /\ At(w, "link") \/ At(w, "linkStart")
    /\ IF masterOf[s] /\ state[Master] = "READY"
       THEN /\ slaves' = rest
            /\ res' = r
            /\ IF IsLast(rest)
               THEN /\ ctx' = ctx - 1
                    /\ status' = [status EXCEPT ![Master] = MasterResult(s, r)]
                    /\ Continue(w, <<Frame("complete", Master), AfterLink(w)>>)
               ELSE Continue(w, <<AfterLink(w)>>) /\ UNCHANGED <<ctx, status>>
       ELSE Continue(w, <<AfterLink(w)>>) /\ UNCHANGED <<slaves, res, ctx, status>>
    /\ UNCHANGED <<state, pending, sent, masterOf, notified, minSlaves>>

\* PostCompleteIrp: the callback of a pending IRP is due; the slave has parted
\* from its master.
Post(w) ==
    LET i == Cur(w) IN
    /\ At(w, "post")
    /\ notified' = [notified EXCEPT ![i] = IF pending[i] THEN @ + 1 ELSE @]
    /\ masterOf' = [s \in Slaves |-> masterOf[s] /\ s # i]
    /\ Return(w)
    /\ UNCHANGED <<state, status, pending, sent, assoc>>

-----------------------------------------------------------------------------
(* Cancellation.                                                           *)

\* The timer of a pending IRP fires: OnEvent sets -ETIMEDOUT and cancels it.
Timeout(w) ==
    LET i == w[2] IN
    /\ w[1] = "timer" /\ work[w] = <<>>
    /\ i = Master => "timeout" \in setting
    /\ pending[i] /\ state[i] = "READY"
    /\ status' = [status EXCEPT ![i] = "ERR"]
    /\ work' = [work EXCEPT ![w] = CancelIrp(i)]
    /\ UNCHANGED <<state, pending, sent, masterOf, notified, assoc>>

\* CCancelIrpsTask of PreStop.
StopBus(w) ==
    /\ "stop" \in setting
    /\ w[1] = "stop" /\ work[w] = <<>>
    /\ pending[w[2]] /\ state[w[2]] = "READY"
    /\ work' = [work EXCEPT ![w] = CancelIrp(w[2])]
    /\ UNCHANGED <<irp, notified, assoc>>

\* One turn of the loop of CancelSlaves.  The null pointer, the smallest key of
\* the map, comes first.  The last slave leaves it in its place, so that the
\* slave's own cancellation does not complete the master.
CancelSlaves(w) ==
    /\ At(w, "cancelSlaves")
    /\ IF state[Master] # "READY" \/ slaves = {}
       THEN /\ minSlaves' = IF state[Master] = "READY" THEN 0 ELSE minSlaves
            /\ Return(w)
            /\ UNCHANGED slaves
       ELSE \E x \in IF Dummy \in slaves THEN {Dummy} ELSE slaves :
            LET rest == slaves \ {x}
                empty == SlaveCount(rest) = 0
            IN
            /\ slaves' = IF empty /\ x # Dummy THEN {Dummy} ELSE rest
            /\ IF x # Dummy
               THEN Continue(w, Append(CancelIrp(x), Head(work[w])))
               ELSE Continue(w, IF empty THEN <<>> ELSE <<Head(work[w])>>)
            /\ UNCHANGED minSlaves
    /\ UNCHANGED <<irp, notified, ctx, res>>

\* Mutant: nobody is told of a cancelled IRP.
CancelSilently(w) ==
    /\ At(w, "cancel")
    /\ state' = [state EXCEPT ![Cur(w)] = "CANCELLED"]
    /\ Return(w)
    /\ UNCHANGED <<status, pending, sent, masterOf, notified, assoc>>

\* CancelIrp, after CancelSlaves.
Cancel(w) ==
    LET i == Cur(w) IN
    /\ At(w, "cancel")
    /\ IF state[i] = "READY"
       THEN /\ state' = [state EXCEPT ![i] = "CANCELLED"]
            /\ status' = [status EXCEPT ![i] = "ERR"]
            /\ Goto(w, IF i = Master THEN "post" ELSE "link")
       ELSE Return(w) /\ UNCHANGED <<state, status>>
    /\ UNCHANGED <<pending, sent, masterOf, notified, assoc>>

-----------------------------------------------------------------------------
Step(w) ==
    \/ StartAssoc(w) \/ SubmitSlave(w) \/ Callback(w)
    \/ Complete(w) \/ Completing(w) \/ Link(w) \/ Post(w)
    \/ CancelSlaves(w) \/ Cancel(w)

\* A master without any context left is undefined behaviour: GetTopStack reads
\* the end of an empty vector, and nothing is said of what follows.
Next ==
    /\ ctx > 0
    /\ UNCHANGED setting
    /\ \/ SubmitMaster \/ MasterFails
       \/ \E w \in Workers : Step(w) \/ Respond(w) \/ Timeout(w) \/ StopBus(w)

Spec == Init /\ [][Next]_vars

\* Threads run on and timers fire; ports may never answer.
Fairness ==
    \A w \in Workers : /\ WF_vars(ctx > 0 /\ Step(w) /\ UNCHANGED setting)
                        /\ WF_vars(ctx > 0 /\ Timeout(w) /\ UNCHANGED setting)

FairSpec == Spec /\ Fairness

-----------------------------------------------------------------------------
(* Properties.                                                             *)

TypeOK ==
    /\ setting \in Settings
    /\ state \in [Irps -> {"READY"} \cup Finished]
    /\ status \in [Irps -> Results]
    /\ pending \in [Irps -> BOOLEAN]
    /\ sent \in [Slaves -> BOOLEAN] /\ masterOf \in [Slaves -> BOOLEAN]
    /\ notified \in [Irps -> Nat]
    /\ slaves \subseteq Slaves \cup {Dummy}
    /\ minSlaves \in Nat
    /\ ctx \in 0..2
    /\ res \in [Slaves -> Results \cup {"none"}]
    /\ work \in [Workers -> Seq(Frames)]

\* However its completion, its timer, its master's cancellation and a stop race,
\* the submitter of an IRP gets one result.
NotifiedOnce == \A i \in Irps : notified[i] <= 1

\* A bus with a D-Bus connection that reports a successful start has a local port
\* whose START was submitted and ended with success, and the bus has been told.
\* Without a connection the bus reports success whatever became of its ports.
HonestStart ==
    ~NoDBusConn /\ state[Master] = "COMPLETED" /\ status[Master] = "OK" =>
        /\ sent[Local] /\ state[Local] \in Finished /\ status[Local] = "OK"
        /\ res[Local] = "OK"

\* Nobody cancels the master: neither its timer nor a stop of the bus.
Undisturbed == setting \cap {"timeout", "stop"} = {}

\* "the slaves must complete before the master completes" (iomgr.cpp:181): no
\* submitted slave outlives a master that nobody cancels.
MasterLast ==
    Undisturbed /\ state[Master] \in Finished =>
        \A s \in Slaves : pending[s] => state[s] \in Finished

\* "we should not pop out the first io stack because it is owned by the user
\* land" (iomgr.cpp:396): the master keeps its own context.
FirstCtxKept == ctx >= 1

\* The master is "completed by the last CompleteAssocIrp" (pnpmgr.cpp:511), if all
\* its children were attached.
MasterAnswered ==
    setting \cap {"attach", "timeout", "stop"} = {} =>
        (pending[Master] ~> notified[Master] = 1)

\* "we can wait 2 minutes for a start operation" (pnpmgr.cpp:367): the timer
\* ends every pending START.
StartAnswered == \A s \in Slaves : pending[s] ~> notified[s] = 1

\* The same as long as nobody cancels the master.
StartAnsweredUndisturbed == Undisturbed => StartAnswered
=============================================================================
