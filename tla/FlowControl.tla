---------------------------- MODULE FlowControl ----------------------------
(***************************************************************************)
(* CFlowControl, the counters each end of a unix-socket stream keeps       *)
(* (ipc/uxstream.h, ipc/uxstream.cpp).  Both ends apply one test to two    *)
(* pairs of counters: what was sent and not yet acknowledged, and what was *)
(* received and not yet reported.  Every operator is one call made under   *)
(* the lock of the object.                                                 *)
(***************************************************************************)
EXTENDS StreamParams

\* the counters after construction
NewFlow ==
  [txB |-> 0, txP |-> 0, ackTxB |-> 0, ackTxP |-> 0,
   rxB |-> 0, rxP |-> 0, ackRxB |-> 0, ackRxP |-> 0, count |-> 0]

\* more than a window of bytes, or of packets, is outstanding; the difference
\* of two guint64 that is below zero wraps around to a huge number
AboveBytes(b, ackB) == b < ackB \/ b - ackB >= Bytes
AbovePkts(p, ackP)  == p < ackP \/ p - ackP >= Pkts
Above(b, p, ackB, ackP) == AboveBytes(b, ackB) \/ AbovePkts(p, ackP)

\* one of the two limits is crossed when a packet of s bytes is counted
Crosses(b, p, ackB, ackP, s) ==
  \/ AboveBytes(b + s, ackB) # AboveBytes(b, ackB)
  \/ AbovePkts(p + 1, ackP) # AbovePkts(p, ackP)

CanSend(f) == f.count = 0

\* mutant: only the bytes are looked at
IncTxBytesNoPackets(f, s) ==
  [f EXCEPT !.txB = @ + s, !.txP = @ + 1,
            !.count = IF AboveBytes(f.txB + s, f.ackTxB) # AboveBytes(f.txB, f.ackTxB)
                      THEN @ + 1 ELSE @]

\* IncTxBytes: the packet that fills the window raises m_byFlowCtrl
IncTxBytes(f, s) ==
  [f EXCEPT !.txB = @ + s, !.txP = @ + 1,
            !.count = IF Crosses(f.txB, f.txP, f.ackTxB, f.ackTxP, s)
                      THEN @ + 1 ELSE @]

\* IncRxBytes: fcsReport
ReportDue(f, s) == Crosses(f.rxB, f.rxP, f.ackRxB, f.ackRxP, s)

IncRxBytes(f, s) ==
  LET b == f.rxB + s
      p == f.rxP + 1
  IN  IF ReportDue(f, s)
      THEN [f EXCEPT !.rxB = b, !.rxP = p, !.ackRxB = b, !.ackRxP = p]
      ELSE [f EXCEPT !.rxB = b, !.rxP = p]

\* GetReport
GetReport(f) == [b |-> f.rxB, p |-> f.rxP]

\* OnReportInternal: a report that brings nothing new is ignored
Stale(f, r) == r.b <= f.ackTxB \/ r.p <= f.ackTxP

Below(f, r) ==
  Above(f.txB, f.txP, f.ackTxB, f.ackTxP) # Above(f.txB, f.txP, r.b, r.p)

OnFCReport(f, r) ==
  IF Stale(f, r) THEN f
  ELSE [f EXCEPT !.ackTxB = r.b, !.ackTxP = r.p,
                 !.count = IF Below(f, r) THEN @ - 1 ELSE @]

\* fcsLift: the report took the count to zero
Lifts(f, r) == ~Stale(f, r) /\ Below(f, r) /\ OnFCReport(f, r).count = 0
=============================================================================
