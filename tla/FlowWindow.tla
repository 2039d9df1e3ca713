----------------------------- MODULE FlowWindow -----------------------------
(***************************************************************************)
(* What the flow control of one direction of a stream promises, without    *)
(* buffers, sockets and threads.  The sender may have at most one window   *)
(* outstanding; the receiver reports when it has received a window since   *)
(* its last report; the report opens the next window.                      *)
(*                                                                         *)
(* Packets are numbered from 1.  mark[n] is the number of bytes of the     *)
(* first n packets, so a position in the stream is a packet number and     *)
(* the byte counters of CFlowControl are functions of it.                  *)
(***************************************************************************)
EXTENDS StreamParams, Sequences

VARIABLES mark,      \* bytes up to each packet sent
          rx,        \* packets received
          reported,  \* packets covered by the last report of the receiver
          reports,   \* reports on their way
          acked,     \* packets covered by the last report the sender has seen
          count      \* m_byFlowCtrl of the sender

winVars == <<mark, rx, reported, reports, acked, count>>

\* packets sent, and bytes of the first n of the packets marked by k
tx == Len(mark)
BytesAt(k, n) == IF n = 0 THEN 0 ELSE k[n]

\* packets m + 1 .. n fill a window
Full(k, m, n) == BytesAt(k, n) - BytesAt(k, m) >= Bytes \/ n - m >= Pkts

WinInit ==
  /\ mark = << >> /\ rx = 0 /\ reported = 0
  /\ reports = {} /\ acked = 0 /\ count = 0

Send(s) ==
  /\ count = 0
  /\ mark' = Append(mark, BytesAt(mark, tx) + s)
  /\ count' = IF Full(mark', acked, tx + 1) THEN 1 ELSE 0
  /\ UNCHANGED <<rx, reported, reports, acked>>

Receive ==
  /\ rx < tx
  /\ rx' = rx + 1
  /\ IF Full(mark, reported, rx + 1)
     THEN reported' = rx + 1 /\ reports' = reports \cup {rx + 1}
     ELSE UNCHANGED <<reported, reports>>
  /\ UNCHANGED <<mark, acked, count>>

Acknowledge(r) ==
  /\ r \in reports
  /\ reports' = reports \ {r}
  /\ acked' = r
  /\ count' = IF Full(mark, r, tx) THEN 1 ELSE 0
  /\ UNCHANGED <<mark, rx, reported>>

WinNext ==
  \/ \E s \in Sizes : Send(s)
  \/ Receive
  \/ \E r \in reports : Acknowledge(r)

WinSpec == WinInit /\ [][WinNext]_winVars

-----------------------------------------------------------------------------
\* Neither end ever acknowledges what the other has not sent: the unsigned
\* differences of OnReportInternal and IncRxBytes never wrap around.
AcksBehind == acked <= reported /\ reported <= rx /\ rx <= tx

\* At most one window of packets is outstanding.
WindowBounded == tx - acked <= Pkts

\* m_byFlowCtrl counts one when the window is full and nothing otherwise, so
\* one DecFCCount is all it takes to lift the flow control.
CountIsWindow == count = IF Full(mark, acked, tx) THEN 1 ELSE 0

\* A sender that may not send has a packet on its way to the receiver or a
\* report on its way back: the two ends never wait for each other.
ReportComes == count > 0 => rx < tx \/ reports # {}

WindowOK == AcksBehind /\ WindowBounded /\ CountIsWindow /\ ReportComes
=============================================================================
