----------------------------- MODULE FlowProofs -----------------------------
(***************************************************************************)
(* The flow control of a stream, for every window size, packet size and    *)
(* number of packets: THEOREM WindowSafe.                                  *)
(*                                                                         *)
(* The properties are not inductive: that the sender's count is right says *)
(* nothing of what the receiver will report.  WindowInv adds how the two   *)
(* ends stay in step.  The packet that fills the window of the sender is   *)
(* the last one it sends, and it is the one at which the receiver reports. *)
(***************************************************************************)
EXTENDS FlowWindow, TLAPS

WindowType ==
  /\ mark \in Seq(Nat)
  /\ rx \in Nat /\ reported \in Nat /\ acked \in Nat /\ count \in Nat

\* the bytes grow along the stream
Growing == \A i, j \in 0..tx : i <= j => BytesAt(mark, i) <= BytesAt(mark, j)

\* only the last packet sent can have filled the window
LastFills == acked < tx => ~Full(mark, acked, tx - 1)

\* a report on its way is the only one, and is about all that was sent
OneReport ==
  \/ reported = acked /\ reports = {}
  \/ reported # acked /\ reports = {reported} /\ reported = tx /\ Full(mark, acked, tx)

\* what the receiver has not reported does not fill a window
Unreported == ~Full(mark, reported, rx)

WindowInv ==
  /\ WindowType /\ AcksBehind /\ Growing /\ WindowBounded
  /\ LastFills /\ OneReport /\ Unreported /\ CountIsWindow

-----------------------------------------------------------------------------
\* BytesAt is a number wherever it is used.
LEMMA BytesType ==
  ASSUME WindowType, NEW n \in 0..tx
  PROVE  BytesAt(mark, n) \in Nat
  BY DEF WindowType, BytesAt, tx

\* No window is filled by no packet.
LEMMA EmptyNotFull ==
  ASSUME WindowType, NEW n \in 0..tx
  PROVE  ~Full(mark, n, n)
  BY BytesType, WindowAssumption DEF Full

\* A window that a packet fills stays full for the later ones.
LEMMA FullGrows ==
  ASSUME WindowType, Growing,
         NEW m \in 0..tx, NEW i \in 0..tx, NEW j \in 0..tx, m <= i, i <= j, Full(mark, m, i)
  PROVE  Full(mark, m, j)
<1>1. BytesAt(mark, m) \in Nat /\ BytesAt(mark, i) \in Nat /\ BytesAt(mark, j) \in Nat
  BY BytesType
<1>2. BytesAt(mark, i) <= BytesAt(mark, j)
  BY DEF Growing
<1> QED
  BY <1>1, <1>2, WindowAssumption DEF Full, tx, WindowType

\* The invariant implies the properties.
LEMMA InvImplies == WindowInv => WindowOK
<1> SUFFICES ASSUME WindowInv PROVE WindowOK
  OBVIOUS
<1>1. tx \in Nat /\ rx \in Nat
  BY DEF WindowInv, WindowType, tx
<1>2. ASSUME count > 0, ~(rx < tx), reports = {} PROVE FALSE
  <2>1. rx = tx
    BY <1>1, <1>2 DEF WindowInv, AcksBehind
  <2>2. reported = acked
    BY <1>2 DEF WindowInv, OneReport
  <2>3. Full(mark, acked, tx)
    BY <1>2 DEF WindowInv, CountIsWindow
  <2> QED
    BY <2>1, <2>2, <2>3 DEF WindowInv, Unreported
<1> QED
  BY <1>2 DEF WindowInv, WindowOK, ReportComes

-----------------------------------------------------------------------------
LEMMA InitInv == WinInit => WindowInv
<1> SUFFICES ASSUME WinInit PROVE WindowInv
  OBVIOUS
<1>1. WindowType /\ tx = 0
  BY DEF WinInit, WindowType, tx
<1>2. ~Full(mark, 0, 0)
  BY <1>1, EmptyNotFull
<1>3. Growing
  BY <1>1 DEF Growing, BytesAt
<1> QED
  BY <1>1, <1>2, <1>3, WindowAssumption
  DEF WinInit, WindowInv, AcksBehind, WindowBounded, LastFills, OneReport,
      Unreported, CountIsWindow

\* Sending: the window was not full, so no report is on its way.
LEMMA SendKeeps ==
  ASSUME WindowInv, NEW s \in Sizes, Send(s)
  PROVE  WindowInv'
<1>1. WindowType /\ AcksBehind /\ Growing /\ tx \in Nat /\ s \in Nat /\ s > 0
  BY WindowAssumption DEF WindowInv, WindowType, tx
<1>2. BytesAt(mark, tx) \in Nat
  BY <1>1, BytesType
<1>3. mark' \in Seq(Nat) /\ tx' = tx + 1
  BY <1>1, <1>2 DEF Send, tx, WindowType
<1>4. /\ \A n \in 0..tx : BytesAt(mark', n) = BytesAt(mark, n)
      /\ BytesAt(mark', tx + 1) = BytesAt(mark, tx) + s
  BY <1>1, <1>2 DEF Send, tx, WindowType, BytesAt
<1>5. /\ rx' = rx /\ reported' = reported /\ reports' = reports /\ acked' = acked
      /\ count = 0
  BY DEF Send
<1>6. acked \in 0..tx /\ rx \in 0..tx /\ reported \in 0..tx
  BY <1>1 DEF AcksBehind, WindowType
<1>7. ~Full(mark, acked, tx)
  BY <1>5 DEF WindowInv, CountIsWindow
<1>8. reported = acked /\ reports = {}
  BY <1>7 DEF WindowInv, OneReport
<1>9. WindowType'
  BY <1>1, <1>3, <1>5 DEF WindowType, Send
<1>10. AcksBehind'
  BY <1>1, <1>3, <1>5 DEF AcksBehind, WindowType
<1>11. Growing'
  <2> SUFFICES ASSUME NEW i \in 0..(tx + 1), NEW j \in 0..(tx + 1), i <= j
               PROVE  BytesAt(mark', i) <= BytesAt(mark', j)
    BY <1>3 DEF Growing
  <2>1. CASE j <= tx
    BY <2>1, <1>1, <1>4 DEF Growing
  <2>2. CASE j = tx + 1 /\ i <= tx
    <3>1. i \in 0..tx /\ tx \in 0..tx
      BY <2>2, <1>1
    <3>2. BytesAt(mark, i) \in Nat /\ BytesAt(mark, i) <= BytesAt(mark, tx)
      BY <3>1, <1>1, BytesType DEF Growing
    <3> QED
      BY <3>1, <3>2, <2>2, <1>1, <1>2, <1>4
  <2>3. CASE j = tx + 1 /\ i = tx + 1
    BY <2>3, <1>1, <1>2, <1>4
  <2> QED
    BY <2>1, <2>2, <2>3, <1>1
<1>12. \A m, n \in 0..tx : Full(mark', m, n) <=> Full(mark, m, n)
  BY <1>4 DEF Full
<1>13. WindowBounded'
  <2>1. tx - acked < Pkts
    BY <1>1, <1>6, <1>7, WindowAssumption DEF Full
  <2> QED
    BY <2>1, <1>1, <1>3, <1>5, <1>6, WindowAssumption DEF WindowBounded
<1>14. LastFills'
  <2>1. tx' - 1 = tx /\ tx \in 0..tx
    BY <1>1, <1>3
  <2>2. ~Full(mark', acked, tx)
    BY <2>1, <1>6, <1>7, <1>12
  <2> QED
    BY <2>1, <2>2, <1>5 DEF LastFills
<1>15. OneReport'
  BY <1>5, <1>8 DEF OneReport
<1>16. Unreported'
  BY <1>5, <1>6, <1>12 DEF WindowInv, Unreported
<1>17. CountIsWindow'
  BY <1>3, <1>5 DEF CountIsWindow, Send
<1> QED
  BY <1>9, <1>10, <1>11, <1>13, <1>14, <1>15, <1>16, <1>17 DEF WindowInv

\* Receiving: the packet that fills the window is the last one sent.
LEMMA ReceiveKeeps ==
  ASSUME WindowInv, Receive
  PROVE  WindowInv'
<1>1. WindowType /\ AcksBehind /\ Growing /\ tx \in Nat /\ rx < tx /\ rx \in Nat
  BY DEF WindowInv, WindowType, tx, Receive
<1>2. mark' = mark /\ acked' = acked /\ count' = count /\ tx' = tx /\ rx' = rx + 1
  BY DEF Receive, tx
<1>3. reported = acked /\ reports = {} /\ acked \in Nat /\ acked <= rx
  BY <1>1 DEF WindowInv, OneReport, AcksBehind, WindowType
<1>4. /\ WindowBounded' /\ LastFills' /\ CountIsWindow' /\ Growing'
  BY <1>2 DEF WindowInv, WindowBounded, LastFills, CountIsWindow, Growing
<1>5. CASE Full(mark, reported, rx + 1)
  <2>1. reported' = rx + 1 /\ reports' = {rx + 1}
    BY <1>3, <1>5 DEF Receive
  <2>2. rx + 1 = tx
    <3> SUFFICES ASSUME rx + 1 <= tx - 1 PROVE FALSE
      BY <1>1
    <3>1. Full(mark, acked, tx - 1)
      BY <1>1, <1>3, <1>5, FullGrows
    <3> QED
      BY <3>1, <1>1, <1>3 DEF WindowInv, LastFills
  <2>3. ~Full(mark, tx, tx)
    BY <1>1, EmptyNotFull
  <2>4. WindowType' /\ AcksBehind'
    BY <2>1, <1>1, <1>2, <1>3 DEF WindowType, AcksBehind
  <2>5. OneReport'
    BY <2>1, <2>2, <1>1, <1>2, <1>3, <1>5 DEF OneReport
  <2>6. Unreported'
    BY <2>1, <2>2, <2>3, <1>2 DEF Unreported
  <2> QED
    BY <2>4, <2>5, <2>6, <1>4 DEF WindowInv
<1>6. CASE ~Full(mark, reported, rx + 1)
  <2>1. reported' = reported /\ reports' = reports
    BY <1>6 DEF Receive
  <2>2. WindowType' /\ AcksBehind'
    BY <2>1, <1>1, <1>2, <1>3 DEF WindowType, AcksBehind
  <2>3. OneReport' /\ Unreported'
    BY <2>1, <1>2, <1>3, <1>6 DEF OneReport, Unreported
  <2> QED
    BY <2>2, <2>3, <1>4 DEF WindowInv
<1> QED
  BY <1>5, <1>6

\* Acknowledging: the report is about all that was sent, and opens the window.
LEMMA AcknowledgeKeeps ==
  ASSUME WindowInv, NEW r \in reports, Acknowledge(r)
  PROVE  WindowInv'
<1>1. WindowType /\ AcksBehind /\ tx \in Nat
  BY DEF WindowInv, WindowType, tx
<1>2. r = tx /\ reported = tx /\ reports' = {}
  BY DEF WindowInv, OneReport, Acknowledge
<1>3. mark' = mark /\ rx' = rx /\ reported' = reported /\ tx' = tx /\ acked' = tx
  BY <1>2 DEF Acknowledge, tx
<1>4. ~Full(mark, tx, tx)
  BY <1>1, EmptyNotFull
<1>5. count' = 0
  BY <1>2, <1>4 DEF Acknowledge
<1>6. WindowType' /\ AcksBehind'
  BY <1>1, <1>2, <1>3, <1>5 DEF WindowType, AcksBehind
<1>7. WindowBounded' /\ LastFills'
  BY <1>1, <1>3, WindowAssumption DEF WindowBounded, LastFills
<1>8. Growing' /\ Unreported'
  BY <1>3 DEF WindowInv, Growing, Unreported
<1>9. OneReport' /\ CountIsWindow'
  BY <1>2, <1>3, <1>4, <1>5 DEF OneReport, CountIsWindow
<1> QED
  BY <1>6, <1>7, <1>8, <1>9 DEF WindowInv

LEMMA NextKeeps == WindowInv /\ [WinNext]_winVars => WindowInv'
<1> SUFFICES ASSUME WindowInv, [WinNext]_winVars PROVE WindowInv'
  OBVIOUS
<1>1. CASE UNCHANGED winVars
  BY <1>1 DEF winVars, WindowInv, WindowType, AcksBehind, Growing, WindowBounded,
     LastFills, OneReport, Unreported, CountIsWindow, tx
<1>2. CASE \E s \in Sizes : Send(s)
  BY <1>2, SendKeeps
<1>3. CASE Receive
  BY <1>3, ReceiveKeeps
<1>4. CASE \E r \in reports : Acknowledge(r)
  BY <1>4, AcknowledgeKeeps
<1> QED
  BY <1>1, <1>2, <1>3, <1>4 DEF WinNext

\* WindowSafe: for every window and every size of packet, the two CFlowControl
\* objects of a direction never acknowledge what was not sent, keep at most one
\* window outstanding, count a full window once, and never wait for each other.
THEOREM WindowSafe == WinSpec => []WindowOK
<1>1. WinSpec => []WindowInv
  BY InitInv, NextKeeps, PTL DEF WinSpec
<1> QED
  BY <1>1, InvImplies, PTL
=============================================================================
