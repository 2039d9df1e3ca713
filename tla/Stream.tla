------------------------------- MODULE Stream -------------------------------
(***************************************************************************)
(* A stream over a pair of unix sockets (ipc/streamex.cpp, ipc/uxstream.h, *)
(* ipc/uxport.cpp).  Each end has                                          *)
(*   - a write task, CIfStmReadWriteTask, with the requests of the         *)
(*     application and two reasons to be paused;                           *)
(*   - the flow control FlowControl, whose count the write task tests;     *)
(*   - a port, CUnixSockStmPdo, that queues what the socket does not take, *)
(*     and the events it has read for the listening task;                  *)
(*   - a listening task that hands data to the read task and reports to    *)
(*     the flow control;                                                   *)
(*   - a read task with the buffer m_queBufRead, in which a report waits   *)
(*     until the application has taken the data in front of it.            *)
(* A report is sent on the same socket as the data of the other direction. *)
(***************************************************************************)
EXTENDS FlowControl, Sequences, SequencesExt

CONSTANTS End,       \* the two ends
          Setups     \* what the applications and the socket do, see Init

\* the reader is paused and the writer refuses requests at the same number,
\* SYNC_STM_MAX_PENDING_PKTS = STM_MAX_PACKETS_REPORT
ASSUME StreamAssumption ==
  /\ \E a, b \in End : a # b /\ End = {a, b}
  /\ Pkts >= 3
  /\ \A s \in Setups : s.writes \in [End -> Nat] /\ s.blocks \subseteq Nat \ {0}

VARIABLES setup,    \* [writes, blocks, full, read], never changes
          flow,     \* m_oFlowCtrl of each end
          writer,   \* the write task and its application
          port,     \* the port
          reader,   \* the listening task, the read task and its application
          mark      \* history: bytes sent up to each packet

streamVars == <<setup, flow, writer, port, reader, mark>>

Peer(e) == CHOOSE d \in End : d # e

Data(n, s) == [kind |-> "data", n |-> n, size |-> s]
Report(r) == [kind |-> "report", b |-> r.b, p |-> r.p]
IsReport(it) == it.kind = "report"

\* no report in hand
NoReport == [b |-> 0, p |-> 0]

Init ==
  /\ setup \in Setups
  /\ flow = [e \in End |-> NewFlow]
  /\ writer = [e \in End |->
       [left |-> setup.writes[e], reqs |-> << >>, pc |-> "idle",
        sub |-> FALSE, done |-> FALSE, reasons |-> {"que"}]]
  /\ port = [e \in End |-> [wq |-> << >>, wire |-> << >>, evq |-> << >>, looping |-> FALSE]]
  /\ reader = [e \in End |->
       [buf |-> << >>, waiting |-> FALSE, stopped |-> FALSE, lpc |-> "idle",
        apc |-> "idle", hand |-> NoReport, got |-> 0]]
  /\ mark = [e \in End |-> << >>]

-----------------------------------------------------------------------------
(* The port.                                                               *)

\* SubmitWriteIrp and HandleStreamCommand: what is submitted to an empty queue
\* goes to the socket, which may refuse it; the rest waits.
Accepted(q, it) == [q EXCEPT !.wire = Append(@, it)]
Queued(q, it) == [q EXCEPT !.wq = Append(@, it)]

SubmitResults(q, it) ==
  (IF q.wq = << >> THEN {Accepted(q, it)} ELSE {})
    \cup (IF q.wq # << >> \/ setup.full THEN {Queued(q, it)} ELSE {})

\* OnSendReady writes what it takes from the queue with the token for data,
\* whatever it is; the number 0 marks a report that has lost its token.
AsData(it) == IF IsReport(it) THEN Data(0, 1) ELSE it

SendReady(e) ==
  LET q == port[e].wq
      head == Head(q)
  IN  /\ q # << >>
      /\ port' = [port EXCEPT
           ![e].wire = Append(@, head),
           ![e].wq = IF Len(q) = 1 THEN << >>
                     ELSE <<AsData(q[2])>> \o SubSeq(q, 3, Len(q))]
      /\ writer' = [writer EXCEPT
           ![e].done = @ \/ (~IsReport(head) /\ head.n > 0)]
      /\ UNCHANGED <<setup, flow, reader, mark>>

\* The watch of the socket.  PauseReading stops it, but the loop of OnIoReady
\* that is running goes on until it finds the socket empty.
PortRecv(e) ==
  LET w == port[Peer(e)].wire
  IN  /\ ~reader[e].stopped \/ port[e].looping
      /\ w # << >>
      /\ port' = [port EXCEPT ![e].evq = Append(@, Head(w)),
                              ![e].looping = Len(w) > 1,
                              ![Peer(e)].wire = Tail(@)]
      /\ UNCHANGED <<setup, flow, writer, reader, mark>>

-----------------------------------------------------------------------------
(* The write task.  It holds its lock while RunTask is in its loop.        *)

Locked(w) == w.pc \in {"loop", "go", "full"}

\* Pause and Resume with a reason: the task is paused as long as there is one,
\* and the Resume that removes the last one schedules RunTask.
Pause(w, why) == [w EXCEPT !.reasons = @ \cup {why}]
Resume(w, why) ==
  [w EXCEPT !.reasons = @ \ {why},
            !.pc = IF w.reasons = {why} THEN "sched" ELSE @]

\* mutant: the task is not run again when there are more requests
ReschedOnlyPauses(w) == IF w.reqs = << >> THEN Pause(w, "que") ELSE w

\* RESCHED_WRITE_TASK, after a request has been written
Resched(w) ==
  IF w.reqs = << >> THEN Pause(w, "que")
  ELSE IF Len(w.reqs) >= Pkts THEN w
  ELSE IF w.reasons = {} THEN [w EXCEPT !.pc = "sched"]
  ELSE Resume(w, "que")

\* mutant: the head stays when its last block has gone
BlockWrittenStays(w) ==
  [w EXCEPT !.reqs = <<Head(@) - 1>> \o Tail(@), !.sub = FALSE]

\* One block of the head is written; the head goes with its last block.
BlockWritten(w) ==
  LET n == Head(w.reqs)
  IN  [w EXCEPT !.reqs = IF n = 1 THEN Tail(@) ELSE <<n - 1>> \o Tail(@),
                !.sub = FALSE]

\* WriteStreamInternal: a request is a number of blocks.
Write(e) ==
  LET w == writer[e]
  IN  /\ w.left > 0 /\ ~Locked(w)
      /\ Len(w.reqs) < Pkts
      /\ \E k \in setup.blocks :
           LET v == [w EXCEPT !.left = @ - 1, !.reqs = Append(@, k)]
           IN  writer' = [writer EXCEPT ![e] =
                 IF w.reqs = << >> /\ w.reasons # {} THEN Resume(v, "que") ELSE v]
      /\ UNCHANGED <<setup, flow, port, reader, mark>>

\* An iteration of RunTask up to the test of CUnixSockStream::WriteStream.
RunTask(e) ==
  LET w == writer[e]
  IN  /\ w.pc \in {"sched", "loop"}
      /\ writer' = [writer EXCEPT ![e] =
           IF w.reqs = << >> THEN [Pause(w, "que") EXCEPT !.pc = "idle"]
           ELSE IF w.sub THEN [w EXCEPT !.pc = "idle"]
           ELSE [w EXCEPT !.sub = TRUE,
                          !.pc = IF CanSend(flow[e]) THEN "go" ELSE "full"]]
      /\ UNCHANGED <<setup, flow, port, reader, mark>>

\* ERROR_QUEUE_FULL
QueueFull(e) ==
  /\ writer[e].pc = "full"
  /\ writer' = [writer EXCEPT ![e] =
       [Pause(@, "flow") EXCEPT !.sub = FALSE, !.pc = "idle"]]
  /\ UNCHANGED <<setup, flow, port, reader, mark>>

\* The rest of WriteStream, under the lock of the flow control.
SubmitBlock(e) ==
  /\ writer[e].pc = "go"
  /\ \E s \in Sizes :
       LET f == IncTxBytes(flow[e], s)
       IN  /\ flow' = [flow EXCEPT ![e] = f]
           /\ mark' = [mark EXCEPT ![e] = Append(@, f.txB)]
           /\ \E q \in SubmitResults(port[e], Data(f.txP, s)) :
                /\ port' = [port EXCEPT ![e] = q]
                /\ writer' = [writer EXCEPT ![e] =
                     IF q.wq = << >>
                     THEN [BlockWritten(@) EXCEPT !.pc = "loop"]
                     ELSE [@ EXCEPT !.pc = "idle"]]
  /\ UNCHANGED <<setup, reader>>

\* OnIoIrpComplete: the port has written the block.
WriteDone(e) ==
  /\ writer[e].done /\ ~Locked(writer[e])
  /\ writer' = [writer EXCEPT ![e] =
       Resched(BlockWritten([@ EXCEPT !.done = FALSE]))]
  /\ UNCHANGED <<setup, flow, port, reader, mark>>

-----------------------------------------------------------------------------
(* The listening task: one event at a time.                                *)

\* OnDataReceived up to the read task's OnStmRecv
ReceiveData(e) ==
  LET it == Head(port[e].evq)
      r == reader[e]
      lpc == IF ReportDue(flow[e], it.size) THEN "report" ELSE "idle"
  IN  /\ r.lpc = "idle" /\ port[e].evq # << >> /\ ~IsReport(it)
      /\ port' = [port EXCEPT ![e].evq = Tail(@)]
      /\ flow' = [flow EXCEPT ![e] = IncRxBytes(@, it.size)]
      /\ reader' = [reader EXCEPT ![e] =
           IF r.waiting
           THEN [r EXCEPT !.lpc = lpc, !.waiting = FALSE, !.got = @ + 1]
           ELSE [r EXCEPT !.lpc = lpc, !.buf = Append(@, it),
                          !.stopped = @ \/ Len(r.buf) + 1 >= Pkts]]
      /\ UNCHANGED <<setup, writer, mark>>

\* mutant: the report is sent at once
ReceiveReportAtOnce(e) ==
  /\ reader[e].lpc = "report"
  /\ \E q \in SubmitResults(port[e], Report(GetReport(flow[e]))) :
       port' = [port EXCEPT ![e] = q]
  /\ reader' = [reader EXCEPT ![e].lpc = "idle"]
  /\ UNCHANGED <<setup, flow, writer, mark>>

\* OnStmRecv of a report: it waits behind the data in the buffer.
ReceiveReport(e) ==
  LET it == Report(GetReport(flow[e]))
  IN  /\ reader[e].lpc = "report"
      /\ IF reader[e].buf = << >>
         THEN /\ \E q \in SubmitResults(port[e], it) : port' = [port EXCEPT ![e] = q]
              /\ reader' = [reader EXCEPT ![e].lpc = "idle"]
         ELSE /\ reader' = [reader EXCEPT ![e].lpc = "idle", ![e].buf = Append(@, it)]
              /\ port' = port
      /\ UNCHANGED <<setup, flow, writer, mark>>

\* OnProgress up to the event it may send
Progress(e) ==
  LET it == Head(port[e].evq)
  IN  /\ reader[e].lpc = "idle" /\ port[e].evq # << >> /\ IsReport(it)
      /\ port' = [port EXCEPT ![e].evq = Tail(@)]
      /\ flow' = [flow EXCEPT ![e] = OnFCReport(@, it)]
      /\ reader' = [reader EXCEPT ![e].lpc = IF Lifts(flow[e], it) THEN "lift" ELSE @]
      /\ UNCHANGED <<setup, writer, mark>>

\* OnFCLifted of the write task, which takes its lock
FCLifted(e) ==
  /\ reader[e].lpc = "lift" /\ ~Locked(writer[e])
  /\ reader' = [reader EXCEPT ![e].lpc = "idle"]
  /\ writer' = [writer EXCEPT ![e] = Resume(@, "flow")]
  /\ UNCHANGED <<setup, flow, port, mark>>

-----------------------------------------------------------------------------
(* The application reads: ReadStreamInternal.                              *)

\* CompleteReadIrp for a new request, and the branch of ReadStreamNoWait,
\* which resumes only when the buffer stops being full
WithinLimit(b) == Len(b) < Pkts

\* mutant: the packet stays in the buffer
TakePacketKeepsIt(r) == [r EXCEPT !.apc = "idle", !.got = @ + 1, !.stopped = FALSE]

TakePacket(r) ==
  LET b == Tail(r.buf)
  IN  [r EXCEPT !.apc = "idle", !.buf = b, !.got = @ + 1,
         !.stopped = @ /\ ~(WithinLimit(b) /\ (setup.read = "msg" \/ ~WithinLimit(r.buf)))]

\* A report at the head is sent and the read starts over; one behind the head
\* is sent before the head is taken.
Read(e) ==
  LET r == reader[e]
      b == r.buf
  IN  /\ r.apc = "idle" /\ ~r.waiting
      /\ \/ /\ b = << >> /\ setup.read = "msg"
            /\ reader' = [reader EXCEPT ![e].waiting = TRUE]
         \/ /\ b # << >> /\ IsReport(b[1])
            /\ reader' = [reader EXCEPT ![e] =
                 [r EXCEPT !.apc = "retry", !.hand = [b |-> b[1].b, p |-> b[1].p],
                           !.buf = Tail(b)]]
         \/ /\ Len(b) >= 2 /\ ~IsReport(b[1]) /\ IsReport(b[2])
            /\ reader' = [reader EXCEPT ![e] =
                 [r EXCEPT !.apc = "take", !.hand = [b |-> b[2].b, p |-> b[2].p],
                           !.buf = RemoveAt(b, 2)]]
         \/ /\ b # << >> /\ ~IsReport(b[1]) /\ (Len(b) >= 2 => ~IsReport(b[2]))
            /\ reader' = [reader EXCEPT ![e] = TakePacket(r)]
      /\ UNCHANGED <<setup, flow, writer, port, mark>>

\* SendProgress, with the lock of the read task released; the lock is not taken
\* again for the rest of the read
SendProgress(e) ==
  LET r == reader[e]
  IN  /\ r.apc \in {"retry", "take"} /\ r.hand # NoReport
      /\ \E q \in SubmitResults(port[e], Report(r.hand)) : port' = [port EXCEPT ![e] = q]
      /\ reader' = [reader EXCEPT ![e].hand = NoReport,
                                  ![e].apc = IF @ = "retry" THEN "idle" ELSE @]
      /\ UNCHANGED <<setup, flow, writer, mark>>

Take(e) ==
  /\ reader[e].apc = "take" /\ reader[e].hand = NoReport
  /\ reader' = [reader EXCEPT ![e] = TakePacket(@)]
  /\ UNCHANGED <<setup, flow, writer, port, mark>>

-----------------------------------------------------------------------------
\* every application has written and read what it wanted
Finished ==
  /\ \A e \in End : writer[e].left = 0 /\ writer[e].reqs = << >> /\ ~writer[e].done
  /\ \A e \in End : reader[e].got = flow[Peer(e)].txP

Step(e) ==
  \/ Write(e) \/ RunTask(e) \/ QueueFull(e) \/ SubmitBlock(e) \/ WriteDone(e)
  \/ SendReady(e) \/ PortRecv(e)
  \/ ReceiveData(e) \/ ReceiveReport(e) \/ Progress(e) \/ FCLifted(e)
  \/ Read(e) \/ SendProgress(e) \/ Take(e)

Next == \E e \in End : Step(e)

Spec == Init /\ [][Next]_streamVars

\* The threads of the pool run what is scheduled, the socket drains, and the
\* applications write and read on.
FairSpec ==
  /\ Spec
  /\ \A e \in End :
       /\ WF_streamVars(Write(e))
       /\ WF_streamVars(RunTask(e) \/ QueueFull(e) \/ SubmitBlock(e))
       /\ WF_streamVars(WriteDone(e))
       /\ WF_streamVars(SendReady(e))
       /\ WF_streamVars(PortRecv(e))
       /\ WF_streamVars(ReceiveData(e) \/ ReceiveReport(e) \/ Progress(e) \/ FCLifted(e))
       /\ WF_streamVars(Read(e) \/ SendProgress(e) \/ Take(e))

-----------------------------------------------------------------------------
(* Properties.                                                             *)

Items == [kind : {"data"}, n : Nat, size : Nat]
           \cup [kind : {"report"}, b : Nat, p : Nat]

\* TypeOK: the counters are natural numbers that never pass each other by
\* wrapping, the queues hold packets and reports, and a request in the queue of
\* the write task has at least one block left.
TypeOK ==
  /\ setup \in Setups
  /\ \A e \in End :
       /\ \A c \in DOMAIN NewFlow : flow[e][c] \in Nat
       /\ writer[e].reqs \in Seq(Nat \ {0})
       /\ writer[e].pc \in {"idle", "sched", "loop", "go", "full"}
       /\ writer[e].reasons \subseteq {"que", "flow"}
       /\ writer[e].sub \in BOOLEAN /\ writer[e].done \in BOOLEAN
       /\ writer[e].done => writer[e].sub
       /\ port[e].wq \in Seq(Items) /\ port[e].wire \in Seq(Items)
       /\ port[e].looping \in BOOLEAN
       /\ port[e].evq \in Seq(Items) /\ reader[e].buf \in Seq(Items)
       /\ reader[e].lpc \in {"idle", "report", "lift"}
       /\ reader[e].apc \in {"idle", "retry", "take"}

\* what e has submitted and its peer has not taken yet, oldest first; the
\* reports in the buffer are those of the peer
Underway(e) ==
  reader[Peer(e)].buf \o port[Peer(e)].evq \o port[e].wire \o port[e].wq

\* DataIntact: the application of the other end is given the packets that
\* WriteStream has submitted, each once and in order, and never a report
\* instead of one, whatever waits in the queues of the port, in the socket or
\* in m_queBufRead.
DataIntact ==
  \A e \in End :
    LET u == Underway(e)
        packets == {i \in DOMAIN u : ~IsReport(u[i])}
        taken == reader[Peer(e)].got
    IN  /\ taken <= flow[e].txP
        /\ {u[i].n : i \in packets} = (taken + 1)..flow[e].txP
        /\ \A i, j \in packets : i < j => u[i].n < u[j].n

\* OneWindowHeld: a report leaves the read task when the data in front of it
\* does, so no more than a window, and the packet being taken, is ever held
\* between the two applications: a slow reader stops the writer.
OneWindowHeld ==
  \A e \in End : flow[e].txP - reader[Peer(e)].got <= Pkts + 1

ReportsIn(q) == {it.p : it \in {it \in ToSet(q) : IsReport(it)}}

\* the reports that d has made and its peer has not seen
ReportsFrom(d) ==
  (IF reader[d].lpc = "report" THEN {flow[d].rxP} ELSE {})
    \cup (IF reader[d].hand # NoReport THEN {reader[d].hand.p} ELSE {})
    \cup ReportsIn(reader[d].buf) \cup ReportsIn(port[d].wq)
    \cup ReportsIn(port[d].wire) \cup ReportsIn(port[Peer(d)].evq)

\* what e sends, seen as the abstract window
Win(e) == INSTANCE FlowWindow WITH
  mark <- mark[e], rx <- flow[Peer(e)].rxP, reported <- flow[Peer(e)].ackRxP,
  reports <- ReportsFrom(Peer(e)), acked <- flow[e].ackTxP, count <- flow[e].count

\* WindowSpec: each direction implements the abstract window FlowWindow: the two
\* CFlowControl objects, the buffers and the sockets between them act as one
\* window that is filled by the sender and opened by the receiver.
WindowSpec ==
  /\ \A e \in End : Win(e)!WinInit
  /\ [][\A e \in End : [Win(e)!WinNext]_(Win(e)!winVars)]_streamVars

\* the port has written a block of a request that has more of them, and the
\* queue of the write task is full: RESCHED_WRITE_TASK (streamex.cpp:408) does
\* not run the task again, and only the timer of the request, which is not
\* modelled, ends the wait
StallsWhenFull(e) ==
  /\ writer[e].done /\ Len(writer[e].reqs) >= Pkts
  /\ Head(writer[e].reqs) > 1

\* AllDelivered: unless a request of several blocks stalls at the head of a full
\* queue, and as long as the application at the other end keeps reading,
\* everything an application writes is delivered: no lift, no resume of the
\* reader and no other run of the write task is lost.
AllDelivered == [](\A e \in End : ~StallsWhenFull(e)) => <>Finished

=============================================================================
