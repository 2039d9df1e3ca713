---------------------------- MODULE StreamProofs ----------------------------
(***************************************************************************)
(* A stream and its flow control (module Stream), for every window, every  *)
(* packet size and every number of blocks: its types, that no packet is    *)
(* lost, doubled or reordered, that at most a window is held between the   *)
(* applications, and that each direction implements FlowWindow.            *)
(*                                                                         *)
(* None of these is inductive.  That the sender's counters are right next  *)
(* depends on the report it will get, that on the packets that arrive, and *)
(* these on the order of the queues they pass through.  StreamInv says, of *)
(* the direction in which an end sends,                                    *)
(*   Counted   the counters of the two ends are those of one window,       *)
(*   Chained   each packet under way is in one queue, in its place,        *)
(*   Reported  the report the sender waits for is in exactly one place,    *)
(*   Told      a report leaves only after the packets it is about,         *)
(* and of the tasks of each end                                            *)
(*   Reading   what the read task may hold, and when,                      *)
(*   Writing   a block the port has queued is the only one.                *)
(*                                                                         *)
(* The theorems assume SafeSetups: a socket refuses only where one of the  *)
(* two applications does not write.  Where both write, a report can be     *)
(* queued behind a block in m_queWritingIrps and is then sent as data; the *)
(* run stream_report shows that DataIntact fails.                          *)
(***************************************************************************)
EXTENDS Stream, SequenceTheorems, TLAPS

\* bytes of the first n of the packets marked by k
At(k, n) == IF n = 0 THEN 0 ELSE k[n]

\* packets m + 1 .. n fill a window
Fills(k, m, n) == At(k, n) - At(k, m) >= Bytes \/ n - m >= Pkts

\* every packet has bytes
Marked(k) ==
  /\ k \in Seq(Nat)
  /\ \A i, j \in 0..Len(k) : i < j => At(k, i) < At(k, j)

\* The invariant of module FlowProofs, for the packets marked by k of which rx are
\* received, rep reported and ack acknowledged.  A report is on its way exactly
\* when rep # ack.
Window(k, rx, rep, ack, cnt) ==
  /\ rx \in 0..Len(k) /\ rep \in 0..rx /\ ack \in 0..rep
  /\ Len(k) - ack <= Pkts
  /\ ack < Len(k) => ~Fills(k, ack, Len(k) - 1)
  /\ ~Fills(k, rep, rx)
  /\ cnt = IF Fills(k, ack, Len(k)) THEN 1 ELSE 0
  /\ rep # ack => rep = Len(k) /\ Fills(k, ack, Len(k))

\* the packets in queue s are lo + 1 .. hi, in order
Run(k, s, lo, hi) ==
  /\ lo \in Nat /\ hi \in Nat /\ lo <= hi
  /\ \A i \in DOMAIN s : ~IsReport(s[i]) =>
       s[i].n \in (lo + 1)..hi /\ At(k, s[i].n) = At(k, s[i].n - 1) + s[i].size
  /\ \A n \in (lo + 1)..hi : \E i \in DOMAIN s : ~IsReport(s[i]) /\ s[i].n = n
  /\ \A i, j \in DOMAIN s : i < j /\ ~IsReport(s[i]) /\ ~IsReport(s[j]) => s[i].n < s[j].n

\* queue s holds the report r and no other one, or no report
Holds(s, r, here) ==
  IF here THEN \E i \in DOMAIN s : s[i] = r /\ \A j \in DOMAIN s : IsReport(s[j]) => j = i
  ELSE \A j \in DOMAIN s : ~IsReport(s[j])

\* the last report of the receiver of k
LastReport(k, rep) == [b |-> At(k, rep), p |-> rep]

\* where it may be
Places == {"none", "due", "hand", "buf", "wq", "wire", "evq"}

Located(r, at, lpc, hand, buf, wq, wire, evq) ==
  /\ at \in Places
  /\ lpc = "report" <=> at = "due"
  /\ hand = IF at = "hand" THEN r ELSE NoReport
  /\ Holds(buf, Report(r), at = "buf")
  /\ Holds(wq, Report(r), at = "wq")
  /\ Holds(wire, Report(r), at = "wire")
  /\ Holds(evq, Report(r), at = "evq")
  /\ at = "buf" => IsReport(buf[Len(buf)])

-----------------------------------------------------------------------------
(* The invariant.  In the direction in which e sends, d is its peer.       *)

Counters == [txB : Nat, txP : Nat, ackTxB : Nat, ackTxP : Nat,
             rxB : Nat, rxP : Nat, ackRxB : Nat, ackRxP : Nat, count : Nat]
Writers == [left : Nat, reqs : Seq(Nat \ {0}), pc : {"idle", "sched", "loop", "go", "full"},
            sub : BOOLEAN, done : BOOLEAN, reasons : SUBSET {"que", "flow"}]
Ports == [wq : Seq(Items), wire : Seq(Items), evq : Seq(Items), looping : BOOLEAN]
Readers == [buf : Seq(Items), waiting : BOOLEAN, stopped : BOOLEAN,
            lpc : {"idle", "report", "lift"}, apc : {"idle", "retry", "take"},
            hand : [b : Nat, p : Nat], got : Nat]

StreamType ==
  /\ setup \in Setups
  /\ flow \in [End -> Counters] /\ writer \in [End -> Writers]
  /\ port \in [End -> Ports] /\ reader \in [End -> Readers]
  /\ mark \in [End -> Seq(Nat)]

\* the counters of the two ends are those of one window
Counted(e) ==
  LET d == Peer(e)
      k == mark[e]
  IN  /\ Marked(k)
      /\ flow[e].txP = Len(k) /\ flow[e].txB = At(k, Len(k))
      /\ flow[e].ackTxB = At(k, flow[e].ackTxP)
      /\ flow[d].rxB = At(k, flow[d].rxP) /\ flow[d].ackRxB = At(k, flow[d].ackRxP)
      /\ Window(k, flow[d].rxP, flow[d].ackRxP, flow[e].ackTxP, flow[e].count)

\* every packet is in one queue and in its place: b and c are where the event
\* queue and the socket end
Chained(e) ==
  LET d == Peer(e)
      k == mark[e]
  IN  /\ Run(k, reader[d].buf, reader[d].got, flow[d].rxP)
      /\ \E b, c \in Nat :
           /\ Run(k, port[d].evq, flow[d].rxP, b)
           /\ Run(k, port[e].wire, b, c)
           /\ Run(k, port[e].wq, c, Len(k))

\* the report that e waits for is in one place
ReportAt(e, at) ==
  LET d == Peer(e)
      r == LastReport(mark[e], flow[d].ackRxP)
  IN  /\ Located(r, at, reader[d].lpc, reader[d].hand, reader[d].buf,
                 port[d].wq, port[d].wire, port[e].evq)
      /\ at = "none" <=> flow[d].ackRxP = flow[e].ackTxP

Reported(e) == \E at \in Places : ReportAt(e, at)

\* what has been told about is taken, or is being taken
Taking(d) == IF reader[d].apc = "take" THEN 1 ELSE 0

Told(e) ==
  LET d == Peer(e)
  IN  /\ flow[e].ackTxP <= reader[d].got + Taking(d)
      /\ \/ flow[d].ackRxP <= reader[d].got + Taking(d)
         \/ reader[d].lpc = "report"
         \/ \E i \in DOMAIN reader[d].buf : IsReport(reader[d].buf[i])

\* the read task
Reading(d) ==
  /\ reader[d].waiting => reader[d].buf = << >> /\ reader[d].apc = "idle"
  /\ reader[d].apc = "take" => reader[d].buf # << >> /\ ~IsReport(reader[d].buf[1])
  /\ reader[d].hand # NoReport => reader[d].apc # "idle"
  /\ reader[d].apc = "retry" => reader[d].hand # NoReport

\* the write task: a block that the port has queued is the only one
Pending(q) == {i \in DOMAIN q : ~IsReport(q[i])}

Writing(e) ==
  LET w == writer[e]
      q == port[e].wq
  IN  /\ w.sub => w.reqs # << >>
      /\ w.done => w.sub /\ ~Locked(w) /\ Pending(q) = {}
      /\ w.pc \in {"go", "full"} => w.sub /\ Pending(q) = {}
      /\ w.pc = "go" => flow[e].count = 0
      /\ Pending(q) # {} => w.sub /\ ~Locked(w)
      /\ \A i, j \in Pending(q) : i = j
      /\ setup.writes[e] = 0 => w.left = 0 /\ w.reqs = << >> /\ mark[e] = << >>
      /\ ~setup.full => q = << >>

\* A report that the socket refuses waits alone: the socket takes everything, or
\* one of the two applications does not write.
SafeSetups == \A s \in Setups : s.full => \E e \in End : s.writes[e] = 0
-----------------------------------------------------------------------------
(* Queues of packets and reports.                                          *)

\* The bytes before a packet are a number.
LEMMA AtType == ASSUME NEW k, Marked(k), NEW n \in 0..Len(k) PROVE At(k, n) \in Nat
  BY DEF Marked, At

\* The bytes grow along the stream.
LEMMA AtOrder ==
  ASSUME NEW k, Marked(k), NEW i \in 0..Len(k), NEW j \in 0..Len(k), i <= j
  PROVE  At(k, i) <= At(k, j)
<1>1. At(k, i) \in Nat /\ At(k, j) \in Nat
  BY AtType
<1> QED
  BY <1>1 DEF Marked

\* A new packet leaves the bytes of the earlier ones alone.
LEMMA AtAppend ==
  ASSUME NEW k, Marked(k), NEW x \in Nat
  PROVE  /\ \A n \in 0..Len(k) : At(Append(k, x), n) = At(k, n)
         /\ At(Append(k, x), Len(k) + 1) = x
  BY DEF Marked, At

\* A packet that is not empty keeps the bytes growing.
LEMMA MarkedAppend ==
  ASSUME NEW k, Marked(k), NEW z \in Nat, z > 0
  PROVE  Marked(Append(k, At(k, Len(k)) + z))
<1> DEFINE x == At(k, Len(k)) + z
           q == Append(k, x)
<1>1. k \in Seq(Nat) /\ Len(k) \in Nat /\ At(k, Len(k)) \in Nat /\ x \in Nat
  BY AtType DEF Marked
<1>2. q \in Seq(Nat) /\ Len(q) = Len(k) + 1
  BY <1>1
<1>3. /\ \A n \in 0..Len(k) : At(q, n) = At(k, n)
      /\ At(q, Len(k) + 1) = x
  BY <1>1, AtAppend
<1>4. ASSUME NEW i \in 0..Len(q), NEW j \in 0..Len(q), i < j PROVE At(q, i) < At(q, j)
  <2>1. i \in 0..Len(k)
    BY <1>1, <1>2, <1>4
  <2>2. CASE j \in 0..Len(k)
    BY <2>1, <2>2, <1>3, <1>4 DEF Marked
  <2>3. CASE j = Len(k) + 1
    <3>1. At(k, i) \in Nat /\ At(k, i) <= At(k, Len(k))
      BY <1>1, <2>1, AtType, AtOrder
    <3> QED
      BY <3>1, <2>1, <2>3, <1>1, <1>3
  <2> QED
    BY <2>2, <2>3, <1>1, <1>2
<1> QED
  BY <1>2, <1>4 DEF Marked

\* No packet.
LEMMA RunEmpty ==
  ASSUME NEW k, NEW n \in Nat PROVE Run(k, << >>, n, n)
  BY DEF Run

\* A packet is sent: what is under way stays what it is.
LEMMA RunMark ==
  ASSUME NEW k, Marked(k), NEW x \in Nat, NEW s \in Seq(Items),
         NEW lo, NEW hi, Run(k, s, lo, hi), hi <= Len(k)
  PROVE  Run(Append(k, x), s, lo, hi)
<1>1. ASSUME NEW n \in (lo + 1)..hi
      PROVE  At(Append(k, x), n) = At(k, n) /\ At(Append(k, x), n - 1) = At(k, n - 1)
  <2>1. n \in 0..Len(k) /\ n - 1 \in 0..Len(k)
    BY DEF Run, Marked
  <2> QED
    BY <2>1, AtAppend
<1> QED
  BY <1>1 DEF Run

\* A packet enters a queue.
LEMMA RunPacket ==
  ASSUME NEW k, NEW s \in Seq(Items), NEW lo, NEW hi, Run(k, s, lo, hi),
         NEW it \in Items, ~IsReport(it), it.n = hi + 1,
         At(k, hi + 1) = At(k, hi) + it.size
  PROVE  Run(k, Append(s, it), lo, hi + 1)
<1> DEFINE q == Append(s, it)
<1>1. /\ lo \in Nat /\ hi \in Nat /\ lo <= hi
      /\ \A i \in DOMAIN s : ~IsReport(s[i]) =>
           s[i].n \in (lo + 1)..hi /\ At(k, s[i].n) = At(k, s[i].n - 1) + s[i].size
      /\ \A n \in (lo + 1)..hi : \E i \in DOMAIN s : ~IsReport(s[i]) /\ s[i].n = n
      /\ \A i, j \in DOMAIN s : i < j /\ ~IsReport(s[i]) /\ ~IsReport(s[j]) => s[i].n < s[j].n
  BY DEF Run
<1>2. /\ Len(s) \in Nat /\ DOMAIN s = 1..Len(s) /\ DOMAIN q = 1..(Len(s) + 1)
      /\ \A i \in DOMAIN s : q[i] = s[i]
      /\ q[Len(s) + 1] = it
  OBVIOUS
<1> HIDE DEF q
<1>3. ASSUME NEW i \in DOMAIN q, ~IsReport(q[i])
      PROVE  q[i].n \in (lo + 1)..(hi + 1) /\ At(k, q[i].n) = At(k, q[i].n - 1) + q[i].size
  <2>1. CASE i \in DOMAIN s
    BY <1>1, <1>2, <1>3, <2>1
  <2>2. CASE i = Len(s) + 1
    <3>1. hi \in Nat /\ lo \in Nat /\ lo <= hi
      BY <1>1
    <3>2. q[i] = it
      BY <1>2, <2>2
    <3>3. it.n \in (lo + 1)..(hi + 1) /\ At(k, it.n) = At(k, it.n - 1) + it.size
      BY <3>1
    <3> QED
      BY <3>2, <3>3, Zenon
  <2> QED
    BY <2>1, <2>2, <1>2
<1>4. ASSUME NEW n \in (lo + 1)..(hi + 1)
      PROVE  \E i \in DOMAIN q : ~IsReport(q[i]) /\ q[i].n = n
  <2>1. CASE n = hi + 1
    BY <2>1, <1>2
  <2>2. CASE n # hi + 1
    <3>1. n \in (lo + 1)..hi
      BY <2>2, <1>1
    <3>2. PICK i \in DOMAIN s : ~IsReport(s[i]) /\ s[i].n = n
      BY <3>1, <1>1
    <3> QED
      BY <3>2, <1>2
  <2> QED
    BY <2>1, <2>2
<1>5. ASSUME NEW i \in DOMAIN q, NEW j \in DOMAIN q, i < j, ~IsReport(q[i]), ~IsReport(q[j])
      PROVE  q[i].n < q[j].n
  <2>1. i \in DOMAIN s
    BY <1>2, <1>5
  <2>2. CASE j \in DOMAIN s
    BY <1>1, <1>2, <1>5, <2>1, <2>2
  <2>3. CASE j = Len(s) + 1
    BY <1>1, <1>2, <1>5, <2>1, <2>3
  <2> QED
    BY <2>2, <2>3, <1>2
<1>6. hi + 1 \in Nat /\ lo <= hi + 1
  BY <1>1
<1>7. Run(k, q, lo, hi + 1)
  BY <1>1, <1>3, <1>4, <1>5, <1>6 DEF Run
<1> QED
  BY <1>7 DEF q

\* A report enters a queue.
LEMMA RunReport ==
  ASSUME NEW k, NEW s \in Seq(Items), NEW lo, NEW hi, Run(k, s, lo, hi),
         NEW it \in Items, IsReport(it)
  PROVE  Run(k, Append(s, it), lo, hi)
<1> DEFINE q == Append(s, it)
<1>1. /\ Len(s) \in Nat /\ DOMAIN s = 1..Len(s) /\ DOMAIN q = 1..(Len(s) + 1)
      /\ \A i \in DOMAIN s : q[i] = s[i]
      /\ q[Len(s) + 1] = it
  OBVIOUS
<1> HIDE DEF q
<1>2. \A i \in DOMAIN q : ~IsReport(q[i]) => i \in DOMAIN s
  BY <1>1
<1>3. \A i \in DOMAIN s : i \in DOMAIN q
  BY <1>1
<1>4. Run(k, q, lo, hi)
  BY <1>1, <1>2, <1>3 DEF Run
<1> QED
  BY <1>4 DEF q

\* The oldest packet leaves a queue.
LEMMA RunTail ==
  ASSUME NEW k, NEW s \in Seq(Items), NEW lo, NEW hi, Run(k, s, lo, hi),
         s # << >>, ~IsReport(s[1])
  PROVE  /\ s[1].n = lo + 1 /\ lo + 1 <= hi /\ At(k, lo + 1) = At(k, lo) + s[1].size
         /\ Run(k, Tail(s), lo + 1, hi)
<1> DEFINE q == Tail(s)
<1>1. /\ Len(s) \in Nat /\ Len(s) > 0 /\ DOMAIN s = 1..Len(s) /\ DOMAIN q = 1..(Len(s) - 1)
      /\ \A i \in DOMAIN q : q[i] = s[i + 1]
  OBVIOUS
<1> HIDE DEF q
<1>2. /\ lo \in Nat /\ hi \in Nat /\ lo <= hi
      /\ \A i \in DOMAIN s : ~IsReport(s[i]) =>
           s[i].n \in (lo + 1)..hi /\ At(k, s[i].n) = At(k, s[i].n - 1) + s[i].size
      /\ \A n \in (lo + 1)..hi : \E i \in DOMAIN s : ~IsReport(s[i]) /\ s[i].n = n
      /\ \A i, j \in DOMAIN s : i < j /\ ~IsReport(s[i]) /\ ~IsReport(s[j]) => s[i].n < s[j].n
  BY DEF Run
<1>3. 1 \in DOMAIN s /\ s[1].n \in (lo + 1)..hi
  BY <1>1, <1>2
<1>4. PICK i \in DOMAIN s : ~IsReport(s[i]) /\ s[i].n = lo + 1
  BY <1>2, <1>3
<1>5. s[1].n = lo + 1
  <2>1. CASE i = 1
    BY <2>1, <1>4
  <2>2. CASE 1 < i
    <3>1. s[1].n < s[i].n
      BY <2>2, <1>2, <1>3, <1>4
    <3> QED
      BY <3>1, <1>2, <1>3, <1>4
  <2> QED
    BY <2>1, <2>2, <1>1
<1>6. ASSUME NEW j \in DOMAIN q PROVE j + 1 \in DOMAIN s /\ (~IsReport(q[j]) => q[j].n > lo + 1)
  <2>1. j + 1 \in DOMAIN s /\ 1 < j + 1 /\ q[j] = s[j + 1]
    BY <1>1
  <2>2. ASSUME ~IsReport(s[j + 1]) PROVE s[1].n < s[j + 1].n /\ s[j + 1].n \in (lo + 1)..hi
    BY <2>1, <2>2, <1>2, <1>3
  <2> QED
    BY <2>1, <2>2, <1>2, <1>5
<1>7. ASSUME NEW n \in (lo + 2)..hi PROVE \E j \in DOMAIN q : ~IsReport(q[j]) /\ q[j].n = n
  <2>0. n \in (lo + 1)..hi /\ n # lo + 1
    BY <1>2
  <2>1. PICK j \in DOMAIN s : ~IsReport(s[j]) /\ s[j].n = n
    BY <2>0, <1>2
  <2>2. j # 1
    BY <2>0, <2>1, <1>5
  <2>3. j - 1 \in DOMAIN q /\ q[j - 1] = s[j]
    BY <2>2, <1>1
  <2> QED
    BY <2>1, <2>3
<1>8. Run(k, q, lo + 1, hi)
  <2>1. lo + 1 \in Nat /\ lo + 1 <= hi /\ lo + 1 + 1 = lo + 2
    BY <1>2, <1>3
  <2>2. ASSUME NEW j \in DOMAIN q, ~IsReport(q[j])
        PROVE  q[j].n \in (lo + 1 + 1)..hi /\ At(k, q[j].n) = At(k, q[j].n - 1) + q[j].size
    <3>1. j + 1 \in DOMAIN s /\ q[j] = s[j + 1] /\ q[j].n > lo + 1
      BY <2>2, <1>1, <1>6
    <3>2. q[j].n \in (lo + 1)..hi /\ At(k, q[j].n) = At(k, q[j].n - 1) + q[j].size
      BY <3>1, <2>2, <1>2
    <3> QED
      BY <3>1, <3>2, <1>2
  <2>3. ASSUME NEW i1 \in DOMAIN q, NEW j \in DOMAIN q, i1 < j, ~IsReport(q[i1]), ~IsReport(q[j])
        PROVE  q[i1].n < q[j].n
    <3>1. /\ i1 + 1 \in DOMAIN s /\ j + 1 \in DOMAIN s /\ i1 + 1 < j + 1
          /\ q[i1] = s[i1 + 1] /\ q[j] = s[j + 1]
      BY <2>3, <1>1
    <3> QED
      BY <3>1, <2>3, <1>2
  <2> QED
    BY <2>1, <2>2, <2>3, <1>2, <1>7 DEF Run
<1>9. At(k, lo + 1) = At(k, lo) + s[1].size
  <2>1. lo + 1 - 1 = lo
    BY <1>2
  <2> QED
    BY <2>1, <1>2, <1>3, <1>5
<1> QED
  BY <1>3, <1>5, <1>8, <1>9 DEF q

\* A report leaves a queue: the elements of q are the others of s, in order.
LEMMA RunDrop ==
  ASSUME NEW k, NEW s \in Seq(Items), NEW lo, NEW hi, Run(k, s, lo, hi),
         NEW m \in DOMAIN s, IsReport(s[m]), NEW q \in Seq(Items), Len(q) = Len(s) - 1,
         \A i \in DOMAIN q : q[i] = IF i < m THEN s[i] ELSE s[i + 1]
  PROVE  Run(k, q, lo, hi)
<1>1. Len(s) \in Nat /\ Len(q) \in Nat /\ DOMAIN s = 1..Len(s) /\ DOMAIN q = 1..Len(q)
  OBVIOUS
<1> DEFINE f(i) == IF i < m THEN i ELSE i + 1
<1>2. \A i \in DOMAIN q : f(i) \in DOMAIN s /\ q[i] = s[f(i)]
  BY <1>1
<1>3. \A i, j \in DOMAIN q : i < j => f(i) < f(j)
  BY <1>1
<1>4. ASSUME NEW j \in DOMAIN s, j # m PROVE \E i \in DOMAIN q : q[i] = s[j]
  <2>1. CASE j < m
    BY <2>1, <1>1
  <2>2. CASE j > m
    <3>1. j - 1 \in DOMAIN q /\ q[j - 1] = s[j]
      BY <2>2, <1>1
    <3> QED
      BY <3>1
  <2> QED
    BY <2>1, <2>2, <1>1, <1>4
<1> HIDE DEF f
<1>5. /\ lo \in Nat /\ hi \in Nat /\ lo <= hi
      /\ \A i \in DOMAIN s : ~IsReport(s[i]) =>
           s[i].n \in (lo + 1)..hi /\ At(k, s[i].n) = At(k, s[i].n - 1) + s[i].size
      /\ \A n \in (lo + 1)..hi : \E i \in DOMAIN s : ~IsReport(s[i]) /\ s[i].n = n
      /\ \A i, j \in DOMAIN s : i < j /\ ~IsReport(s[i]) /\ ~IsReport(s[j]) => s[i].n < s[j].n
  BY DEF Run
<1>6. ASSUME NEW n \in (lo + 1)..hi PROVE \E i \in DOMAIN q : ~IsReport(q[i]) /\ q[i].n = n
  <2>1. PICK j \in DOMAIN s : ~IsReport(s[j]) /\ s[j].n = n
    BY <1>5
  <2>2. j # m
    BY <2>1
  <2> QED
    BY <2>1, <2>2, <1>4
<1>7. ASSUME NEW i \in DOMAIN q, ~IsReport(q[i])
      PROVE  q[i].n \in (lo + 1)..hi /\ At(k, q[i].n) = At(k, q[i].n - 1) + q[i].size
  BY <1>2, <1>5, <1>7
<1>8. ASSUME NEW i \in DOMAIN q, NEW j \in DOMAIN q, i < j, ~IsReport(q[i]), ~IsReport(q[j])
      PROVE  q[i].n < q[j].n
  <2>1. f(i) \in DOMAIN s /\ f(j) \in DOMAIN s /\ f(i) < f(j) /\ q[i] = s[f(i)] /\ q[j] = s[f(j)]
    BY <1>2, <1>3, <1>8
  <2> QED
    BY <2>1, <1>5, <1>8
<1> QED
  BY <1>5, <1>6, <1>7, <1>8 DEF Run

\* Where no report is, it does not matter which.
LEMMA HoldsNone ==
  ASSUME NEW s, NEW r, NEW t, Holds(s, r, FALSE)
  PROVE  Holds(s, t, FALSE)
  BY DEF Holds

\* A packet enters a queue.
LEMMA HoldsPacket ==
  ASSUME NEW s \in Seq(Items), NEW r, NEW h \in BOOLEAN, Holds(s, r, h),
         NEW it \in Items, ~IsReport(it)
  PROVE  Holds(Append(s, it), r, h)
<1> DEFINE q == Append(s, it)
<1>1. /\ Len(s) \in Nat /\ DOMAIN s = 1..Len(s) /\ DOMAIN q = 1..(Len(s) + 1)
      /\ \A i \in DOMAIN s : q[i] = s[i]
      /\ q[Len(s) + 1] = it
  OBVIOUS
<1> HIDE DEF q
<1>2. \A i \in DOMAIN q : IsReport(q[i]) => i \in DOMAIN s
  BY <1>1
<1>3. DOMAIN s \subseteq DOMAIN q
  BY <1>1
<1>4. Holds(q, r, h)
  BY <1>1, <1>2, <1>3 DEF Holds
<1> QED
  BY <1>4 DEF q

\* The report enters a queue.
LEMMA HoldsReport ==
  ASSUME NEW s \in Seq(Items), NEW r \in Items, NEW t, IsReport(r), Holds(s, t, FALSE)
  PROVE  Holds(Append(s, r), r, TRUE)
<1> DEFINE q == Append(s, r)
<1>1. /\ Len(s) \in Nat /\ DOMAIN s = 1..Len(s) /\ DOMAIN q = 1..(Len(s) + 1)
      /\ \A i \in DOMAIN s : q[i] = s[i]
      /\ q[Len(s) + 1] = r
  OBVIOUS
<1> HIDE DEF q
<1>2. \A i \in DOMAIN q : IsReport(q[i]) => i = Len(s) + 1
  BY <1>1 DEF Holds
<1>3. Len(s) + 1 \in DOMAIN q
  BY <1>1
<1>4. Holds(q, r, TRUE)
  BY <1>1, <1>2, <1>3 DEF Holds
<1> QED
  BY <1>4 DEF q

\* A packet leaves a queue.
LEMMA HoldsTail ==
  ASSUME NEW s \in Seq(Items), NEW r, NEW h \in BOOLEAN, IsReport(r), Holds(s, r, h),
         s # << >>, ~IsReport(s[1])
  PROVE  Holds(Tail(s), r, h)
<1> DEFINE q == Tail(s)
<1>1. /\ Len(s) \in Nat /\ DOMAIN s = 1..Len(s) /\ DOMAIN q = 1..(Len(s) - 1)
      /\ \A i \in DOMAIN q : i + 1 \in DOMAIN s /\ q[i] = s[i + 1]
      /\ \A i \in DOMAIN s : i # 1 => i - 1 \in DOMAIN q /\ q[i - 1] = s[i]
  OBVIOUS
<1> HIDE DEF q
<1>2. CASE h
  <2>1. PICK i \in DOMAIN s : s[i] = r /\ \A j \in DOMAIN s : IsReport(s[j]) => j = i
    BY <1>2 DEF Holds
  <2>2. i - 1 \in DOMAIN q /\ q[i - 1] = r
    BY <2>1, <1>1
  <2>3. ASSUME NEW j \in DOMAIN q, IsReport(q[j]) PROVE j = i - 1
    <3>1. j + 1 = i
      BY <2>1, <2>3, <1>1
    <3> QED
      BY <3>1, <1>1
  <2>4. Holds(q, r, h)
    BY <2>2, <2>3, <1>2 DEF Holds
  <2> QED
    BY <2>4 DEF q
<1>3. CASE ~h
  <2>1. Holds(q, r, h)
    BY <1>1, <1>3 DEF Holds
  <2> QED
    BY <2>1 DEF q
<1> QED
  BY <1>2, <1>3

\* The report leaves a queue: it was the only one.
LEMMA HoldsDrop ==
  ASSUME NEW s \in Seq(Items), NEW r, NEW t, NEW h \in BOOLEAN, Holds(s, r, h),
         NEW m \in DOMAIN s, IsReport(s[m]), NEW q \in Seq(Items), Len(q) = Len(s) - 1,
         \A i \in DOMAIN q : q[i] = IF i < m THEN s[i] ELSE s[i + 1]
  PROVE  h /\ s[m] = r /\ Holds(q, t, FALSE)
<1>1. h /\ s[m] = r /\ \A j \in DOMAIN s : IsReport(s[j]) => j = m
  BY DEF Holds
<1>2. Len(s) \in Nat /\ Len(q) \in Nat /\ DOMAIN s = 1..Len(s) /\ DOMAIN q = 1..Len(q)
  OBVIOUS
<1>3. ASSUME NEW i \in DOMAIN q PROVE ~IsReport(q[i])
  <2>1. i \in DOMAIN s /\ i + 1 \in DOMAIN s /\ (i < m \/ i + 1 # m)
    BY <1>2
  <2>2. CASE i < m
    <3>1. q[i] = s[i] /\ i # m
      BY <2>2, <1>2
    <3> QED
      BY <3>1, <2>1, <1>1
  <2>3. CASE ~(i < m)
    <3>1. q[i] = s[i + 1] /\ i + 1 # m
      BY <2>3, <1>2
    <3> QED
      BY <3>1, <2>1, <1>1
  <2> QED
    BY <2>2, <2>3
<1> QED
  BY <1>1, <1>3 DEF Holds

\* The elements of a queue without its first one, and without its second one.
LEMMA TailElements ==
  ASSUME NEW s \in Seq(Items), s # << >>
  PROVE  /\ 1 \in DOMAIN s /\ Tail(s) \in Seq(Items) /\ Len(Tail(s)) = Len(s) - 1
         /\ \A i \in DOMAIN Tail(s) : Tail(s)[i] = IF i < 1 THEN s[i] ELSE s[i + 1]
  OBVIOUS

\* What is left when the second element is removed from a queue.
LEMMA RemoveElements ==
  ASSUME NEW s \in Seq(Items), Len(s) >= 2
  PROVE  /\ 2 \in DOMAIN s /\ RemoveAt(s, 2) \in Seq(Items) /\ Len(RemoveAt(s, 2)) = Len(s) - 1
         /\ \A i \in DOMAIN RemoveAt(s, 2) :
              RemoveAt(s, 2)[i] = IF i < 2 THEN s[i] ELSE s[i + 1]
<1>0. Len(s) \in Nat
  OBVIOUS
<1>1. PICK a : a = SubSeq(s, 1, 1)
  OBVIOUS
<1>2. PICK b : b = SubSeq(s, 3, Len(s))
  OBVIOUS
<1>3. PICK c : c = a \o b
  OBVIOUS
<1>4. RemoveAt(s, 2) = c
  BY <1>1, <1>2, <1>3 DEF RemoveAt
<1>5. a \in Seq(Items) /\ Len(a) = 1 /\ a[1] = s[1]
  BY <1>1, SubSeqProperties
<1>6. /\ b \in Seq(Items) /\ Len(b) = IF 3 <= Len(s) THEN Len(s) - 3 + 1 ELSE 0
      /\ \A i \in 1..(Len(s) - 3 + 1) : b[i] = s[3 + i - 1]
  <2>1. 3 \in 1..(Len(s) + 1) /\ Len(s) \in (3 - 1)..Len(s)
    BY <1>0
  <2> QED
    BY <2>1, <1>2, SubSeqProperties
<1>7. Len(b) = Len(s) - 2
  <2>1. PICK n \in Nat : n = Len(s)
    BY <1>0
  <2>2. Len(b) = IF 3 <= n THEN n - 3 + 1 ELSE 0
    BY <2>1, <1>6
  <2>3. n >= 2
    BY <2>1
  <2>4. (IF 3 <= n THEN n - 3 + 1 ELSE 0) = n - 2
    BY <2>3
  <2> QED
    BY <2>1, <2>2, <2>4
<1>8. /\ c \in Seq(Items) /\ Len(c) = Len(a) + Len(b)
      /\ \A i \in 1..(Len(a) + Len(b)) : c[i] = IF i <= Len(a) THEN a[i] ELSE b[i - Len(a)]
  BY <1>3, <1>5, <1>6, ConcatProperties
<1>9. Len(c) = Len(s) - 1
  BY <1>0, <1>5, <1>7, <1>8
<1>10. ASSUME NEW i \in 1..(Len(s) - 1) PROVE c[i] = IF i < 2 THEN s[i] ELSE s[i + 1]
  <2>0. c[i] = IF i <= 1 THEN a[i] ELSE b[i - 1]
    BY <1>0, <1>5, <1>7, <1>8
  <2>1. CASE i = 1
    BY <2>0, <2>1, <1>5
  <2>2. CASE i # 1
    <3>1. i - 1 \in 1..(Len(s) - 3 + 1) /\ 3 + (i - 1) - 1 = i + 1
      BY <2>2, <1>0
    <3>2. b[i - 1] = s[i + 1]
      BY <3>1, <1>6
    <3> QED
      BY <3>2, <2>0, <2>2
  <2> QED
    BY <2>1, <2>2
<1>11. 2 \in DOMAIN s /\ DOMAIN c = 1..(Len(s) - 1)
  BY <1>0, <1>8, <1>9
<1> QED
  BY <1>4, <1>8, <1>9, <1>10, <1>11

\* What a queue contributes to the reports on their way.
LEMMA HoldsReports ==
  ASSUME NEW s \in Seq(Items), NEW r, NEW h \in BOOLEAN, IsReport(r), Holds(s, r, h)
  PROVE  ReportsIn(s) = IF h THEN {r.p} ELSE {}
<1>1. CASE h
  <2>1. {it \in ToSet(s) : IsReport(it)} = {r}
    BY <1>1 DEF Holds, ToSet
  <2> QED
    BY <2>1, <1>1 DEF ReportsIn
<1>2. CASE ~h
  <2>1. {it \in ToSet(s) : IsReport(it)} = {}
    BY <1>2 DEF Holds, ToSet
  <2> QED
    BY <2>1, <1>2 DEF ReportsIn
<1> QED
  BY <1>1, <1>2

-----------------------------------------------------------------------------
(* The window.                                                             *)

\* No window is filled by no packet.
LEMMA NoneFills ==
  ASSUME NEW k, Marked(k), NEW n \in 0..Len(k) PROVE ~Fills(k, n, n)
<1>1. At(k, n) \in Nat
  BY AtType
<1> QED
  BY <1>1, WindowAssumption DEF Fills

\* A window that a packet fills stays full for the later ones.
LEMMA FillsOn ==
  ASSUME NEW k, Marked(k), NEW m \in 0..Len(k), NEW i \in 0..Len(k), NEW j \in 0..Len(k),
         i <= j, Fills(k, m, i)
  PROVE  Fills(k, m, j)
<1>1. At(k, m) \in Nat /\ At(k, i) \in Nat /\ At(k, j) \in Nat /\ At(k, i) <= At(k, j)
  BY AtType, AtOrder
<1>2. Len(k) \in Nat
  BY DEF Marked
<1> QED
  BY <1>1, <1>2, WindowAssumption DEF Fills

\* IncTxBytes at the sender, which was free to send.
LEMMA WindowSend ==
  ASSUME NEW k, Marked(k), NEW rx, NEW rep, NEW ack, Window(k, rx, rep, ack, 0),
         NEW x \in Nat
  PROVE  /\ rep = ack /\ ~Fills(k, ack, Len(k))
         /\ Window(Append(k, x), rx, rep, ack,
                   IF Fills(Append(k, x), ack, Len(k) + 1) THEN 1 ELSE 0)
<1> DEFINE q == Append(k, x)
<1>1. Len(k) \in Nat /\ Len(q) = Len(k) + 1
  BY DEF Marked
<1>2. \A n \in 0..Len(k) : At(q, n) = At(k, n)
  BY AtAppend
<1>3. rx \in 0..Len(k) /\ rep \in 0..Len(k) /\ ack \in 0..Len(k) /\ rep \in 0..rx /\ ack \in 0..rep
  BY <1>1 DEF Window
<1>4. \A m, n \in 0..Len(k) : Fills(q, m, n) <=> Fills(k, m, n)
  BY <1>2 DEF Fills
<1>5. ~Fills(k, ack, Len(k)) /\ ~Fills(k, rep, rx)
  BY DEF Window
<1>6. rep = ack
  BY <1>5 DEF Window
<1>7. Len(k) - ack < Pkts
  <2>1. ~(Len(k) - ack >= Pkts)
    BY <1>5 DEF Fills
  <2> QED
    BY <2>1, <1>1, <1>3, WindowAssumption
<1>8. Len(k) \in 0..Len(k) /\ Len(q) - 1 = Len(k)
  BY <1>1
<1>9. ~Fills(q, ack, Len(q) - 1) /\ ~Fills(q, rep, rx)
  BY <1>3, <1>4, <1>5, <1>8
<1> HIDE DEF q
<1>10. rx \in 0..Len(q) /\ Len(q) - ack <= Pkts
  BY <1>1, <1>3, <1>7, WindowAssumption
<1>11. Window(q, rx, rep, ack, IF Fills(q, ack, Len(k) + 1) THEN 1 ELSE 0)
  BY <1>1, <1>3, <1>6, <1>9, <1>10 DEF Window
<1> QED
  BY <1>5, <1>6, <1>11 DEF q

\* IncRxBytes at the receiver: the packet that fills the window is the last one.
LEMMA WindowReceive ==
  ASSUME NEW k, Marked(k), NEW rx, NEW rep, NEW ack, NEW c, Window(k, rx, rep, ack, c),
         rx < Len(k)
  PROVE  /\ rep = ack /\ ~Fills(k, rep, rx) /\ rx + 1 \in 0..Len(k)
         /\ Fills(k, rep, rx + 1) => rx + 1 = Len(k) /\ Window(k, rx + 1, rx + 1, ack, c)
         /\ ~Fills(k, rep, rx + 1) => Window(k, rx + 1, rep, ack, c)
<1>1. Len(k) \in Nat
  BY DEF Marked
<1>2. /\ rx \in 0..Len(k) /\ rep \in 0..rx /\ ack \in 0..rep /\ ~Fills(k, rep, rx)
      /\ Len(k) - ack <= Pkts /\ (ack < Len(k) => ~Fills(k, ack, Len(k) - 1))
      /\ c = IF Fills(k, ack, Len(k)) THEN 1 ELSE 0
      /\ (rep # ack => rep = Len(k))
  BY DEF Window
<1>3. rep = ack /\ rx + 1 \in 0..Len(k)
  BY <1>1, <1>2
<1>4. ASSUME Fills(k, rep, rx + 1) PROVE rx + 1 = Len(k)
  <2> SUFFICES ASSUME rx + 1 # Len(k) PROVE FALSE
    OBVIOUS
  <2>1. rx + 1 <= Len(k) - 1 /\ Len(k) - 1 \in 0..Len(k) /\ ack < Len(k) /\ ack \in 0..Len(k)
    BY <1>1, <1>2
  <2>2. Fills(k, ack, Len(k) - 1)
    BY <2>1, <1>3, <1>4, FillsOn
  <2> QED
    BY <2>1, <2>2, <1>2
<1>5. ASSUME Fills(k, rep, rx + 1) PROVE Window(k, rx + 1, rx + 1, ack, c)
  <2>1. rx + 1 = Len(k) /\ ~Fills(k, rx + 1, rx + 1) /\ Fills(k, ack, Len(k))
    BY <1>3, <1>4, <1>5, NoneFills
  <2>2. rx + 1 \in 0..(rx + 1) /\ ack \in 0..(rx + 1)
    BY <1>2
  <2> QED
    BY <2>1, <2>2, <1>2, <1>3 DEF Window
<1>6. ASSUME ~Fills(k, rep, rx + 1) PROVE Window(k, rx + 1, rep, ack, c)
  <2>1. rep \in 0..(rx + 1)
    BY <1>2
  <2> QED
    BY <2>1, <1>2, <1>3, <1>6 DEF Window
<1> QED
  BY <1>2, <1>3, <1>4, <1>5, <1>6

\* OnFCReport at the sender: the report is about all that was sent.
LEMMA WindowAck ==
  ASSUME NEW k, Marked(k), NEW rx, NEW rep, NEW ack, NEW c, Window(k, rx, rep, ack, c),
         rep # ack
  PROVE  /\ rep = Len(k) /\ rx = Len(k) /\ c = 1 /\ ack < rep
         /\ Fills(k, ack, Len(k)) /\ ~Fills(k, Len(k), Len(k))
         /\ Window(k, rx, rep, rep, 0)
<1>1. Len(k) \in Nat
  BY DEF Marked
<1>2. /\ rx \in 0..Len(k) /\ rep \in 0..rx /\ ack \in 0..rep /\ ~Fills(k, rep, rx)
      /\ rep = Len(k) /\ Fills(k, ack, Len(k))
      /\ c = IF Fills(k, ack, Len(k)) THEN 1 ELSE 0
  BY DEF Window
<1>3. rx = Len(k) /\ ack < rep /\ Len(k) \in 0..Len(k)
  BY <1>1, <1>2
<1>4. ~Fills(k, Len(k), Len(k))
  BY <1>3, NoneFills
<1>5. Len(k) - Len(k) <= Pkts /\ ~(Len(k) < Len(k))
  BY <1>1, WindowAssumption
<1>6. rx \in 0..Len(k) /\ rep \in 0..rx /\ rep \in 0..rep
  BY <1>1, <1>2, <1>3
<1>7. Window(k, rx, rep, rep, 0)
  BY <1>2, <1>3, <1>4, <1>5, <1>6 DEF Window
<1> QED
  BY <1>2, <1>3, <1>4, <1>7

\* The tests of CFlowControl are those of the window.
LEMMA CrossesFills ==
  ASSUME NEW k, Marked(k), NEW m \in 0..Len(k), NEW n \in 0..Len(k), m <= n,
         ~Fills(k, m, n), NEW z \in Nat, NEW q, At(q, n + 1) = At(k, n) + z, At(q, m) = At(k, m)
  PROVE  Crosses(At(k, n), n, At(k, m), m, z) <=> Fills(q, m, n + 1)
<1>1. At(k, m) \in Nat /\ At(k, n) \in Nat /\ At(k, m) <= At(k, n)
  BY AtType, AtOrder
<1>2. m \in Nat /\ n \in Nat
  OBVIOUS
<1>3. ~(At(k, n) - At(k, m) >= Bytes) /\ ~(n - m >= Pkts)
  BY DEF Fills
<1>4. ~AboveBytes(At(k, n), At(k, m)) /\ ~AbovePkts(n, m)
  BY <1>1, <1>2, <1>3 DEF AboveBytes, AbovePkts
<1>5. AboveBytes(At(k, n) + z, At(k, m)) <=> (At(k, n) + z) - At(k, m) >= Bytes
  BY <1>1 DEF AboveBytes
<1>6. AbovePkts(n + 1, m) <=> (n + 1) - m >= Pkts
  BY <1>2 DEF AbovePkts
<1>7. Fills(q, m, n + 1) <=> (At(k, n) + z) - At(k, m) >= Bytes \/ (n + 1) - m >= Pkts
  BY <1>1, Zenon DEF Fills
<1>8. /\ AboveBytes(At(k, n) + z, At(k, m)) \in BOOLEAN /\ AboveBytes(At(k, n), At(k, m)) \in BOOLEAN
      /\ AbovePkts(n + 1, m) \in BOOLEAN /\ AbovePkts(n, m) \in BOOLEAN
  BY DEF AboveBytes, AbovePkts
<1> QED
  BY <1>4, <1>5, <1>6, <1>7, <1>8, Zenon DEF Crosses

\* The thresholds of CFlowControl are those of a window.
LEMMA AboveFills ==
  ASSUME NEW k, Marked(k), NEW m \in 0..Len(k), NEW n \in 0..Len(k), m <= n
  PROVE  Above(At(k, n), n, At(k, m), m) <=> Fills(k, m, n)
<1>1. At(k, m) \in Nat /\ At(k, n) \in Nat /\ At(k, m) <= At(k, n) /\ m \in Nat /\ n \in Nat
  BY AtType, AtOrder
<1> QED
  BY <1>1 DEF Above, AboveBytes, AbovePkts, Fills

-----------------------------------------------------------------------------
(* The two ends.                                                           *)

\* A stream has two ends, and each is the peer of the other.
LEMMA PeerOf ==
  ASSUME NEW e \in End
  PROVE  Peer(e) \in End /\ Peer(e) # e /\ Peer(Peer(e)) = e /\ End = {e, Peer(e)}
<1>1. PICK a, b \in End : a # b /\ End = {a, b}
  BY StreamAssumption
<1>2. ASSUME NEW d \in End PROVE Peer(d) \in End /\ Peer(d) # d
  <2>1. \E c \in End : c # d
    BY <1>1
  <2> QED
    BY <2>1 DEF Peer
<1>3. Peer(e) \in End /\ Peer(e) # e /\ Peer(Peer(e)) \in End /\ Peer(Peer(e)) # Peer(e)
  BY <1>2
<1> QED
  BY <1>1, <1>3

\* Counted is about the counters of the two ends only.
LEMMA CountedFrame ==
  ASSUME NEW e \in End, Counted(e), mark'[e] = mark[e],
         flow'[e] = flow[e], flow'[Peer(e)] = flow[Peer(e)]
  PROVE  Counted(e)'
  BY DEF Counted

\* Chained is about the packets in the queues, and what is received and taken.
LEMMA ChainedFrame ==
  ASSUME NEW e \in End, Chained(e), mark'[e] = mark[e],
         flow'[Peer(e)].rxP = flow[Peer(e)].rxP,
         reader'[Peer(e)].buf = reader[Peer(e)].buf, reader'[Peer(e)].got = reader[Peer(e)].got,
         port'[Peer(e)].evq = port[Peer(e)].evq,
         port'[e].wire = port[e].wire, port'[e].wq = port[e].wq
  PROVE  Chained(e)'
  BY DEF Chained

\* Reported is about what is received and the places where a report may be.
LEMMA ReportedFrame ==
  ASSUME NEW e \in End, Reported(e), mark'[e] = mark[e],
         flow'[Peer(e)].ackRxP = flow[Peer(e)].ackRxP, flow'[e].ackTxP = flow[e].ackTxP,
         reader'[Peer(e)].lpc = "report" <=> reader[Peer(e)].lpc = "report",
         reader'[Peer(e)].hand = reader[Peer(e)].hand,
         reader'[Peer(e)].buf = reader[Peer(e)].buf,
         port'[Peer(e)].wq = port[Peer(e)].wq, port'[Peer(e)].wire = port[Peer(e)].wire,
         port'[e].evq = port[e].evq
  PROVE  Reported(e)'
  BY DEF Reported, ReportAt, Located

\* Told is about the counters and the read task of the receiver.
LEMMA ToldFrame ==
  ASSUME NEW e \in End, Told(e),
         flow'[Peer(e)].ackRxP = flow[Peer(e)].ackRxP, flow'[e].ackTxP = flow[e].ackTxP,
         reader'[Peer(e)].lpc = "report" <=> reader[Peer(e)].lpc = "report",
         reader'[Peer(e)].got = reader[Peer(e)].got,
         reader'[Peer(e)].apc = reader[Peer(e)].apc,
         reader'[Peer(e)].buf = reader[Peer(e)].buf
  PROVE  Told(e)'
  BY DEF Told, Taking

\* Reading is about one read task.
LEMMA ReadingFrame ==
  ASSUME NEW e \in End, Reading(e), reader'[e].waiting = reader[e].waiting,
         reader'[e].buf = reader[e].buf, reader'[e].apc = reader[e].apc,
         reader'[e].hand = reader[e].hand
  PROVE  Reading(e)'
  BY DEF Reading

\* Writing is about the write task of one end, its port and its count.
LEMMA WritingFrame ==
  ASSUME NEW e \in End, Writing(e), setup' = setup, mark'[e] = mark[e],
         writer'[e] = writer[e], port'[e].wq = port[e].wq, flow'[e].count = flow[e].count
  PROVE  Writing(e)'
  BY DEF Writing, Locked

StreamInv ==
  /\ StreamType
  /\ \A e \in End : /\ Counted(e) /\ Chained(e) /\ Reported(e)
                    /\ Told(e) /\ Reading(e) /\ Writing(e)

-----------------------------------------------------------------------------
(* The write task.                                                         *)

\* Steps that touch the write task of x only.
LEMMA WriterStep ==
  ASSUME StreamInv, NEW x \in End, NEW v \in Writers, writer' = [writer EXCEPT ![x] = v],
         UNCHANGED <<setup, flow, port, reader, mark>>, Writing(x)'
  PROVE  StreamInv'
<1>1. StreamType'
  BY DEF StreamInv, StreamType
<1>2. ASSUME NEW e \in End
      PROVE  (Counted(e) /\ Chained(e) /\ Reported(e) /\ Told(e) /\ Reading(e) /\ Writing(e))'
  <2>1. Counted(e) /\ Chained(e) /\ Reported(e) /\ Told(e) /\ Reading(e) /\ Writing(e)
    BY DEF StreamInv
  <2>2. Peer(e) \in End
    BY PeerOf
  <2>3. (Counted(e) /\ Chained(e) /\ Reported(e) /\ Told(e) /\ Reading(e))'
    BY <2>1, <2>2, CountedFrame, ChainedFrame, ReportedFrame, ToldFrame, ReadingFrame
  <2>4. CASE e = x
    BY <2>3, <2>4
  <2>5. CASE e # x
    <3>1. writer'[e] = writer[e]
      BY <2>5 DEF StreamInv, StreamType
    <3>2. Writing(e)'
      BY <3>1, <2>1, WritingFrame
    <3> QED
      BY <2>3, <3>2
  <2> QED
    BY <2>4, <2>5
<1> QED
  BY <1>1, <1>2 DEF StreamInv

\* What the invariant says of a writer.
LEMMA WriterType ==
  ASSUME StreamInv, NEW x \in End
  PROVE  /\ writer[x] \in Writers /\ setup \in Setups /\ Writing(x)
         /\ setup.writes \in [End -> Nat] /\ setup.blocks \subseteq Nat \ {0}
  BY StreamAssumption DEF StreamInv, StreamType

\* Pausing and resuming the writer leaves its requests alone.
LEMMA ResumeType ==
  ASSUME NEW w \in Writers, NEW why \in {"que", "flow"}
  PROVE  /\ Resume(w, why) \in Writers /\ Pause(w, why) \in Writers
         /\ Resume(w, why).left = w.left /\ Pause(w, why).left = w.left
         /\ Resume(w, why).reqs = w.reqs /\ Pause(w, why).reqs = w.reqs
         /\ Resume(w, why).sub = w.sub /\ Pause(w, why).sub = w.sub
         /\ Resume(w, why).done = w.done /\ Pause(w, why).done = w.done
         /\ Resume(w, why).pc \in {w.pc, "sched"} /\ Pause(w, why).pc = w.pc
<1>1. ASSUME NEW s \in SUBSET {"que", "flow"}, NEW p \in {"idle", "sched", "loop", "go", "full"},
             NEW v, v = [w EXCEPT !.reasons = s, !.pc = p]
      PROVE  /\ v \in Writers /\ v.left = w.left /\ v.reqs = w.reqs /\ v.sub = w.sub
             /\ v.done = w.done /\ v.pc = p
  BY <1>1 DEF Writers
<1>2. ASSUME NEW s \in SUBSET {"que", "flow"}, NEW v, v = [w EXCEPT !.reasons = s]
      PROVE  /\ v \in Writers /\ v.left = w.left /\ v.reqs = w.reqs /\ v.sub = w.sub
             /\ v.done = w.done /\ v.pc = w.pc
  BY <1>2 DEF Writers
<1>3. w.reasons \in SUBSET {"que", "flow"} /\ w.pc \in {"idle", "sched", "loop", "go", "full"}
  BY DEF Writers
<1>4. PICK s : s = w.reasons \ {why}
  OBVIOUS
<1>5. PICK p : p = IF w.reasons = {why} THEN "sched" ELSE w.pc
  OBVIOUS
<1>6. s \in SUBSET {"que", "flow"} /\ p \in {w.pc, "sched"}
  BY <1>3, <1>4, <1>5
<1>7. PICK v : v = Resume(w, why)
  OBVIOUS
<1>8. v = [w EXCEPT !.reasons = s, !.pc = p]
  BY <1>4, <1>5, <1>7 DEF Resume
<1>9. PICK u : u = w.reasons \cup {why}
  OBVIOUS
<1>10. u \in SUBSET {"que", "flow"}
  BY <1>3, <1>9
<1>11. PICK z : z = Pause(w, why)
  OBVIOUS
<1>12. z = [w EXCEPT !.reasons = u]
  BY <1>9, <1>11 DEF Pause
<1>13. p \in {"idle", "sched", "loop", "go", "full"}
  BY <1>3, <1>6
<1>14. /\ v \in Writers /\ v.left = w.left /\ v.reqs = w.reqs /\ v.sub = w.sub
       /\ v.done = w.done /\ v.pc = p
  BY <1>6, <1>8, <1>13 DEF Writers
<1>15. /\ z \in Writers /\ z.left = w.left /\ z.reqs = w.reqs /\ z.sub = w.sub
       /\ z.done = w.done /\ z.pc = w.pc
  BY <1>2, <1>10, <1>12
<1> QED
  BY <1>6, <1>7, <1>11, <1>14, <1>15

\* A block less, or a request less.
LEMMA BlockType ==
  ASSUME NEW w \in Writers, w.reqs # << >>
  PROVE  /\ BlockWritten(w) \in Writers
         /\ BlockWritten(w).left = w.left /\ BlockWritten(w).sub = FALSE
         /\ BlockWritten(w).done = w.done /\ BlockWritten(w).pc = w.pc
<1>1. PICK s : s = w.reqs
  OBVIOUS
<1>2. s \in Seq(Nat \ {0}) /\ s # << >>
  BY <1>1 DEF Writers
<1>3. PICK t : t = IF Head(s) = 1 THEN Tail(s) ELSE <<Head(s) - 1>> \o Tail(s)
  OBVIOUS
<1>4. t \in Seq(Nat \ {0})
  <2>1. Head(s) \in Nat \ {0} /\ Tail(s) \in Seq(Nat \ {0})
    BY <1>2
  <2>2. CASE Head(s) = 1
    BY <2>1, <2>2, <1>3
  <2>3. CASE Head(s) # 1
    <3>1. Head(s) - 1 \in Nat \ {0}
      BY <2>1, <2>3
    <3>2. <<Head(s) - 1>> \in Seq(Nat \ {0})
      BY <3>1
    <3> QED
      BY <3>2, <2>1, <2>3, <1>3, ConcatProperties
  <2> QED
    BY <2>2, <2>3
<1>5. BlockWritten(w) = [w EXCEPT !.reqs = t, !.sub = FALSE]
  BY <1>1, <1>3, Zenon DEF BlockWritten
<1> QED
  BY <1>4, <1>5 DEF Writers

\* An application that writes a request keeps the invariant.
LEMMA WriteKeeps ==
  ASSUME StreamInv, NEW x \in End, Write(x) PROVE StreamInv'
<1> DEFINE w == writer[x]
<1>1. /\ w \in Writers /\ Writing(x) /\ w.left > 0 /\ ~Locked(w)
      /\ UNCHANGED <<setup, flow, port, reader, mark>>
  BY WriterType DEF Write
<1>2. PICK k \in setup.blocks :
        LET u == [w EXCEPT !.left = @ - 1, !.reqs = Append(@, k)]
        IN  writer' = [writer EXCEPT ![x] =
              IF w.reqs = << >> /\ w.reasons # {} THEN Resume(u, "que") ELSE u]
  BY Zenon DEF Write
<1>3. k \in Nat \ {0}
  BY WriterType
<1>4. PICK u : u = [w EXCEPT !.left = @ - 1, !.reqs = Append(@, k)]
  OBVIOUS
<1>5. /\ u \in Writers /\ u.reqs # << >> /\ u.sub = w.sub /\ u.done = w.done /\ u.pc = w.pc
  <2>1. w.reqs \in Seq(Nat \ {0}) /\ w.left \in Nat /\ w.left > 0
    BY <1>1 DEF Writers
  <2>2. w.left - 1 \in Nat
    BY <2>1
  <2>3. Append(w.reqs, k) \in Seq(Nat \ {0}) /\ Append(w.reqs, k) # << >>
    BY <2>1, <1>3, AppendProperties
  <2> QED
    BY <1>1, <1>4, <2>2, <2>3 DEF Writers
<1>6. PICK v : v = IF w.reqs = << >> /\ w.reasons # {} THEN Resume(u, "que") ELSE u
  OBVIOUS
<1>7. writer' = [writer EXCEPT ![x] = v]
  BY <1>2, <1>4, <1>6
<1>8. /\ v \in Writers /\ v.reqs # << >> /\ v.sub = w.sub /\ v.done = w.done
      /\ v.pc \in {w.pc, "sched"}
  BY <1>5, <1>6, ResumeType
<1>9. writer'[x] = v
  BY <1>7 DEF StreamInv, StreamType
<1>10. setup.writes[x] # 0
  BY <1>1 DEF Writing
<1>11. Writing(x)'
  BY <1>1, <1>8, <1>9, <1>10 DEF Writing, Locked
<1> QED
  BY <1>1, <1>7, <1>8, <1>11, WriterStep

\* A run of the write task keeps the invariant.
LEMMA RunTaskKeeps ==
  ASSUME StreamInv, NEW x \in End, RunTask(x) PROVE StreamInv'
<1> DEFINE w == writer[x]
<1>1. /\ w \in Writers /\ Writing(x) /\ w.pc \in {"sched", "loop"}
      /\ UNCHANGED <<setup, flow, port, reader, mark>>
  BY WriterType DEF RunTask
<1>2. PICK v : v = IF w.reqs = << >> THEN [Pause(w, "que") EXCEPT !.pc = "idle"]
                   ELSE IF w.sub THEN [w EXCEPT !.pc = "idle"]
                   ELSE [w EXCEPT !.sub = TRUE, !.pc = IF CanSend(flow[x]) THEN "go" ELSE "full"]
  OBVIOUS
<1>3. writer' = [writer EXCEPT ![x] = v]
  BY <1>2 DEF RunTask
<1>4. writer'[x] = v
  BY <1>3 DEF StreamInv, StreamType
<1>5. CASE w.reqs = << >> \/ w.sub
  <2>1. /\ v \in Writers /\ v.left = w.left /\ v.reqs = w.reqs /\ v.sub = w.sub
        /\ v.done = w.done /\ v.pc = "idle"
    <3>1. PICK u : u = Pause(w, "que")
      OBVIOUS
    <3>2. /\ u \in Writers /\ u.left = w.left /\ u.reqs = w.reqs /\ u.sub = w.sub
          /\ u.done = w.done
      BY <3>1, <1>1, ResumeType
    <3>3. v = [u EXCEPT !.pc = "idle"] \/ v = [w EXCEPT !.pc = "idle"]
      BY <3>1, <1>2, <1>5
    <3> QED
      BY <3>2, <3>3, <1>1 DEF Writers
  <2>2. Writing(x)'
    BY <1>1, <1>4, <2>1 DEF Writing, Locked
  <2> QED
    BY <1>1, <1>3, <2>1, <2>2, WriterStep
<1>6. CASE w.reqs # << >> /\ ~w.sub
  <2>1. /\ v \in Writers /\ v.left = w.left /\ v.reqs = w.reqs /\ v.sub = TRUE
        /\ v.done = w.done /\ v.pc \in {"go", "full"} /\ (v.pc = "go" => flow[x].count = 0)
    BY <1>1, <1>2, <1>6 DEF Writers, CanSend
  <2>2. Pending(port[x].wq) = {} /\ w.done = FALSE
    BY <1>1, <1>6 DEF Writing, Writers
  <2>3. setup.writes[x] # 0
    BY <1>1, <1>6 DEF Writing
  <2>4. Writing(x)'
    BY <1>1, <1>4, <1>6, <2>1, <2>2, <2>3 DEF Writing, Locked
  <2> QED
    BY <1>1, <1>3, <2>1, <2>4, WriterStep
<1> QED
  BY <1>5, <1>6

\* A write task that finds its window full keeps the invariant.
LEMMA QueueFullKeeps ==
  ASSUME StreamInv, NEW x \in End, QueueFull(x) PROVE StreamInv'
<1> DEFINE w == writer[x]
<1>1. /\ w \in Writers /\ Writing(x) /\ w.pc = "full"
      /\ UNCHANGED <<setup, flow, port, reader, mark>>
  BY WriterType DEF QueueFull
<1>2. PICK v : v = [Pause(w, "flow") EXCEPT !.sub = FALSE, !.pc = "idle"]
  OBVIOUS
<1>3. writer' = [writer EXCEPT ![x] = v]
  BY <1>2 DEF QueueFull
<1>4. writer'[x] = v
  BY <1>3 DEF StreamInv, StreamType
<1>5. /\ v \in Writers /\ v.left = w.left /\ v.reqs = w.reqs /\ v.sub = FALSE
      /\ v.done = w.done /\ v.pc = "idle"
  <2>1. PICK u : u = Pause(w, "flow")
    OBVIOUS
  <2>2. /\ u \in Writers /\ u.left = w.left /\ u.reqs = w.reqs /\ u.done = w.done
    BY <2>1, <1>1, ResumeType
  <2>3. v = [u EXCEPT !.sub = FALSE, !.pc = "idle"]
    BY <2>1, <1>2
  <2> QED
    BY <2>2, <2>3 DEF Writers
<1>6. Pending(port[x].wq) = {} /\ w.done = FALSE
  BY <1>1 DEF Writing, Writers, Locked
<1>7. Writing(x)'
  BY <1>1, <1>4, <1>5, <1>6 DEF Writing, Locked
<1> QED
  BY <1>1, <1>3, <1>5, <1>7, WriterStep

\* The completion of a write keeps the invariant.
LEMMA WriteDoneKeeps ==
  ASSUME StreamInv, NEW x \in End, WriteDone(x) PROVE StreamInv'
<1> DEFINE w == writer[x]
<1>1. /\ w \in Writers /\ Writing(x) /\ w.done /\ ~Locked(w)
      /\ UNCHANGED <<setup, flow, port, reader, mark>>
  BY WriterType DEF WriteDone
<1>2. PICK u : u = [w EXCEPT !.done = FALSE]
  OBVIOUS
<1>3. PICK t : t = BlockWritten(u)
  OBVIOUS
<1>4. PICK v : v = Resched(t)
  OBVIOUS
<1>5. writer' = [writer EXCEPT ![x] = v]
  BY <1>2, <1>3, <1>4 DEF WriteDone
<1>6. writer'[x] = v
  BY <1>5 DEF StreamInv, StreamType
<1>7. w.sub /\ w.reqs # << >> /\ Pending(port[x].wq) = {}
  BY <1>1 DEF Writing
<1>8. /\ u \in Writers /\ u.reqs # << >> /\ u.left = w.left /\ u.done = FALSE /\ u.pc = w.pc
  BY <1>1, <1>2, <1>7 DEF Writers
<1>9. /\ t \in Writers /\ t.left = w.left /\ t.sub = FALSE /\ t.done = FALSE /\ t.pc = w.pc
  BY <1>3, <1>8, BlockType
<1>10. /\ v \in Writers /\ v.left = w.left /\ v.reqs = t.reqs /\ v.sub = FALSE /\ v.done = FALSE
       /\ v.pc \in {w.pc, "sched"}
  <2>1. \/ v = Pause(t, "que") \/ v = t \/ v = [t EXCEPT !.pc = "sched"] \/ v = Resume(t, "que")
    BY <1>4 DEF Resched
  <2>2. CASE v = [t EXCEPT !.pc = "sched"]
    BY <2>2, <1>9 DEF Writers
  <2>3. CASE v = Pause(t, "que") \/ v = Resume(t, "que")
    <3>1. "que" \in {"que", "flow"}
      OBVIOUS
    <3> QED
      BY <3>1, <2>3, <1>9, ResumeType
  <2>4. CASE v = t
    BY <2>4, <1>9
  <2> QED
    BY <2>1, <2>2, <2>3, <2>4
<1>11. setup.writes[x] # 0
  BY <1>7, <1>1 DEF Writing
<1>12. Writing(x)'
  BY <1>1, <1>6, <1>7, <1>10, <1>11 DEF Writing, Locked
<1> QED
  BY <1>1, <1>5, <1>10, <1>12, WriterStep

-----------------------------------------------------------------------------
(* Packets, reports and what the port does with them.                      *)

\* What is in a queue is a packet or a report.
LEMMA ItemType ==
  ASSUME NEW it \in Items
  PROVE  /\ ~IsReport(it) => it.n \in Nat /\ it.size \in Nat
         /\ IsReport(it) => /\ it.b \in Nat /\ it.p \in Nat
                            /\ it = Report([b |-> it.b, p |-> it.p])
  BY DEF Items, IsReport, Report

\* A packet has its number and its size.
LEMMA DataType ==
  ASSUME NEW n \in Nat, NEW s \in Nat
  PROVE  /\ Data(n, s) \in Items /\ ~IsReport(Data(n, s))
         /\ Data(n, s).n = n /\ Data(n, s).size = s
  BY DEF Items, IsReport, Data

\* A report carries the counters it was made of.
LEMMA ReportType ==
  ASSUME NEW r \in [b : Nat, p : Nat]
  PROVE  /\ Report(r) \in Items /\ IsReport(Report(r))
         /\ Report(r).b = r.b /\ Report(r).p = r.p
         /\ r = [b |-> Report(r).b, p |-> Report(r).p]
  BY DEF Items, IsReport, Report

\* Nothing is between the two ends of an empty queue.
LEMMA RunNone ==
  ASSUME NEW k, NEW lo, NEW hi, Run(k, << >>, lo, hi) PROVE lo = hi
<1>1. lo \in Nat /\ hi \in Nat /\ lo <= hi
  BY DEF Run
<1>2. \A n \in (lo + 1)..hi : FALSE
  BY DEF Run
<1>3. lo < hi => lo + 1 \in (lo + 1)..hi
  BY <1>1
<1> QED
  BY <1>1, <1>2, <1>3

\* What is submitted goes to the socket or, when the queue is not empty or the
\* socket is full, into the queue.
LEMMA Submitted ==
  ASSUME NEW p \in Ports, NEW it \in Items, NEW q \in SubmitResults(p, it)
  PROVE  /\ q \in Ports /\ q.evq = p.evq /\ q.looping = p.looping
         /\ \/ p.wq = << >> /\ q.wq = << >> /\ q.wire = Append(p.wire, it)
            \/ q.wire = p.wire /\ q.wq = Append(p.wq, it) /\ (p.wq # << >> \/ setup.full)
<1>1. /\ p.wq \in Seq(Items) /\ p.wire \in Seq(Items) /\ p.evq \in Seq(Items)
      /\ p.looping \in BOOLEAN
  BY DEF Ports
<1>2. Append(p.wq, it) \in Seq(Items) /\ Append(p.wire, it) \in Seq(Items)
  BY <1>1
<1>3. \/ p.wq = << >> /\ q = Accepted(p, it)
      \/ (p.wq # << >> \/ setup.full) /\ q = Queued(p, it)
  BY DEF SubmitResults
<1>4. CASE p.wq = << >> /\ q = Accepted(p, it)
  BY <1>1, <1>2, <1>4 DEF Accepted, Ports
<1>5. CASE (p.wq # << >> \/ setup.full) /\ q = Queued(p, it)
  BY <1>1, <1>2, <1>5 DEF Queued, Ports
<1> QED
  BY <1>3, <1>4, <1>5

\* What is pending in a queue that something enters or leaves.
LEMMA PendingPacket ==
  ASSUME NEW s \in Seq(Items), NEW it \in Items, ~IsReport(it), Pending(s) = {}
  PROVE  Pending(Append(s, it)) # {} /\ \A i, j \in Pending(Append(s, it)) : i = j
<1>1. PICK q : q = Append(s, it)
  OBVIOUS
<1>2. /\ Len(s) + 1 \in DOMAIN q /\ q[Len(s) + 1] = it
      /\ \A i \in DOMAIN q : i = Len(s) + 1 \/ (i \in DOMAIN s /\ q[i] = s[i])
  BY <1>1
<1>3. \A i \in DOMAIN s : IsReport(s[i])
  BY DEF Pending
<1>4. Pending(q) = {Len(s) + 1}
  BY <1>2, <1>3 DEF Pending
<1> QED
  BY <1>1, <1>4

\* A report that is queued in the port is no block.
LEMMA PendingReport ==
  ASSUME NEW s \in Seq(Items), NEW it \in Items, IsReport(it)
  PROVE  Pending(Append(s, it)) = Pending(s)
<1>1. PICK q : q = Append(s, it)
  OBVIOUS
<1>2. /\ q[Len(s) + 1] = it
      /\ \A i \in DOMAIN q : i = Len(s) + 1 \/ i \in DOMAIN s
      /\ \A i \in DOMAIN s : i \in DOMAIN q /\ q[i] = s[i]
  BY <1>1
<1>3. Pending(q) = Pending(s)
  BY <1>2 DEF Pending
<1> QED
  BY <1>1, <1>3

\* The blocks behind the head were in the queue before.
LEMMA PendingTail ==
  ASSUME NEW s \in Seq(Items), s # << >>, NEW i \in Pending(Tail(s))
  PROVE  i \in Nat /\ i + 1 \in Pending(s) /\ i + 1 # 1
<1>1. /\ i \in DOMAIN Tail(s) /\ ~IsReport(Tail(s)[i])
  BY DEF Pending
<1>2. i \in 1..(Len(s) - 1) /\ Tail(s)[i] = s[i + 1]
  BY <1>1
<1>3. i \in Nat /\ i + 1 \in DOMAIN s /\ i + 1 # 1
  BY <1>2
<1> QED
  BY <1>1, <1>2, <1>3 DEF Pending

\* The read task that peels off a report keeps what comes after it in order.
LEMMA TailOf ==
  ASSUME NEW s \in Seq(Items), Len(s) >= 2
  PROVE  <<s[2]>> \o SubSeq(s, 3, Len(s)) = Tail(s)
<1>0. PICK n \in Nat : n = Len(s)
  OBVIOUS
<1>1. PICK b : b = SubSeq(s, 3, Len(s))
  OBVIOUS
<1>2. PICK a : a = <<s[2]>>
  OBVIOUS
<1>3. a \in Seq(Items) /\ Len(a) = 1 /\ a[1] = s[2]
  BY <1>0, <1>2
<1>4. b \in Seq(Items) /\ Len(b) = n - 2 /\ \A i \in 1..(n - 2) : b[i] = s[i + 2]
  <2>1. CASE n >= 3
    <3>1. /\ Len(b) = n - 3 + 1 /\ \A i \in 1..(n - 3 + 1) : b[i] = s[3 + i - 1]
      BY <2>1, <1>0, <1>1, SubSeqProperties
    <3>2. n - 3 + 1 = n - 2 /\ \A i \in 1..(n - 2) : 3 + i - 1 = i + 2
      BY <2>1
    <3>3. b \in Seq(Items)
      BY <2>1, <1>0, <1>1
    <3> QED
      BY <3>1, <3>2, <3>3
  <2>2. CASE n = 2
    <3>0. n \in Int /\ 3 \in Int /\ n < 3
      BY <2>2
    <3>1. b = << >>
      BY <3>0, <1>0, <1>1, SubSeqEmpty
    <3> QED
      BY <3>1, <2>2
  <2> QED
    BY <2>1, <2>2, <1>0
<1>5. PICK c : c = a \o b
  OBVIOUS
<1>6. /\ c \in Seq(Items) /\ Len(c) = Len(a) + Len(b)
      /\ \A i \in 1..(Len(a) + Len(b)) : c[i] = IF i <= Len(a) THEN a[i] ELSE b[i - Len(a)]
  BY <1>3, <1>4, <1>5, ConcatProperties
<1>7. PICK t : t = Tail(s)
  OBVIOUS
<1>8. t \in Seq(Items) /\ Len(t) = n - 1 /\ \A i \in 1..(n - 1) : t[i] = s[i + 1]
  BY <1>0, <1>7
<1>9. Len(c) = n - 1
  BY <1>0, <1>3, <1>4, <1>6
<1>10. ASSUME NEW i \in 1..(n - 1) PROVE c[i] = t[i]
  <2>1. c[i] = IF i <= 1 THEN a[i] ELSE b[i - 1]
    BY <1>0, <1>3, <1>4, <1>6, <1>10
  <2>2. CASE i = 1
    BY <2>1, <2>2, <1>3, <1>8
  <2>3. CASE i # 1
    <3>1. i - 1 \in 1..(n - 2) /\ i - 1 + 2 = i + 1 /\ ~(i <= 1)
      BY <2>3
    <3>2. b[i - 1] = s[i + 1]
      BY <3>1, <1>4
    <3> QED
      BY <3>1, <3>2, <2>1, <1>8
  <2> QED
    BY <2>2, <2>3
<1>11. c = t
  BY <1>6, <1>8, <1>9, <1>10
<1> QED
  BY <1>1, <1>2, <1>5, <1>7, <1>11

\* The report leaves at the head of a queue.
LEMMA HoldsHead ==
  ASSUME NEW s \in Seq(Items), NEW r, Holds(s, r, TRUE), s # << >>, IsReport(s[1])
  PROVE  s[1] = r /\ Holds(Tail(s), r, FALSE)
<1>1. PICK i \in DOMAIN s : s[i] = r /\ \A j \in DOMAIN s : IsReport(s[j]) => j = i
  BY DEF Holds
<1>2. i = 1
  BY <1>1
<1>3. PICK q : q = Tail(s)
  OBVIOUS
<1>4. ASSUME NEW j \in DOMAIN q PROVE ~IsReport(q[j])
  <2>1. j + 1 \in DOMAIN s /\ q[j] = s[j + 1] /\ j + 1 # 1
    BY <1>3, <1>4
  <2> QED
    BY <2>1, <1>1, <1>2
<1> QED
  BY <1>1, <1>2, <1>3, <1>4 DEF Holds

\* What the invariant says of one end.
LEMMA EndOf ==
  ASSUME StreamInv, NEW x \in End
  PROVE  /\ flow[x] \in Counters /\ writer[x] \in Writers /\ port[x] \in Ports
         /\ reader[x] \in Readers /\ mark[x] \in Seq(Nat)
         /\ Counted(x) /\ Chained(x) /\ Reported(x) /\ Told(x) /\ Reading(x) /\ Writing(x)
  BY DEF StreamInv, StreamType

\* The invariant is that of the two ends.
LEMMA Both ==
  ASSUME NEW x \in End, StreamType',
         Counted(x)', Chained(x)', Reported(x)', Told(x)', Reading(x)', Writing(x)',
         Counted(Peer(x))', Chained(Peer(x))', Reported(Peer(x))', Told(Peer(x))',
         Reading(Peer(x))', Writing(Peer(x))'
  PROVE  StreamInv'
<1>1. End = {x, Peer(x)}
  BY PeerOf
<1>2. ASSUME NEW e \in End
      PROVE  (Counted(e) /\ Chained(e) /\ Reported(e) /\ Told(e) /\ Reading(e) /\ Writing(e))'
  <2>1. e = x \/ e = Peer(x)
    BY <1>1
  <2>2. CASE e = x
    BY <2>2
  <2>3. CASE e = Peer(x)
    BY <2>3
  <2> QED
    BY <2>1, <2>2, <2>3
<1> QED
  BY <1>2 DEF StreamInv

\* The direction in which e sends does not depend on the other counters.
LEMMA CountedKept ==
  ASSUME NEW e \in End, Counted(e), mark'[e] = mark[e],
         flow'[e].txB = flow[e].txB, flow'[e].txP = flow[e].txP,
         flow'[e].ackTxB = flow[e].ackTxB, flow'[e].ackTxP = flow[e].ackTxP,
         flow'[e].count = flow[e].count,
         flow'[Peer(e)].rxB = flow[Peer(e)].rxB, flow'[Peer(e)].rxP = flow[Peer(e)].rxP,
         flow'[Peer(e)].ackRxB = flow[Peer(e)].ackRxB,
         flow'[Peer(e)].ackRxP = flow[Peer(e)].ackRxP
  PROVE  Counted(e)'
  BY DEF Counted

\* A report that is on its way.
LEMMA ReportOf ==
  ASSUME StreamInv, NEW e \in End
  PROVE  /\ Peer(e) \in End /\ Marked(mark[e]) /\ Len(mark[e]) \in Nat
         /\ flow[Peer(e)].rxP \in 0..Len(mark[e])
         /\ flow[Peer(e)].ackRxP \in 0..Len(mark[e]) /\ flow[e].ackTxP \in 0..Len(mark[e])
         /\ LastReport(mark[e], flow[Peer(e)].ackRxP) \in [b : Nat, p : Nat]
         /\ IsReport(Report(LastReport(mark[e], flow[Peer(e)].ackRxP)))
         /\ Report(LastReport(mark[e], flow[Peer(e)].ackRxP)) \in Items
<1>1. Peer(e) \in End /\ Counted(e)
  BY PeerOf, EndOf
<1>2. Marked(mark[e]) /\ Len(mark[e]) \in Nat
  BY <1>1 DEF Counted, Marked
<1>3. Window(mark[e], flow[Peer(e)].rxP, flow[Peer(e)].ackRxP, flow[e].ackTxP, flow[e].count)
  BY <1>1 DEF Counted
<1>4. /\ flow[Peer(e)].rxP \in 0..Len(mark[e])
      /\ flow[Peer(e)].ackRxP \in 0..Len(mark[e]) /\ flow[e].ackTxP \in 0..Len(mark[e])
  BY <1>2, <1>3 DEF Window
<1>5. At(mark[e], flow[Peer(e)].ackRxP) \in Nat
  BY <1>2, <1>4, AtType
<1>6. LastReport(mark[e], flow[Peer(e)].ackRxP) \in [b : Nat, p : Nat]
  BY <1>4, <1>5 DEF LastReport
<1> QED
  BY <1>1, <1>2, <1>4, <1>6, ReportType

-----------------------------------------------------------------------------
(* A block is submitted.                                                   *)

\* A block that goes to the port, and is counted before, keeps the invariant.
LEMMA SubmitBlockKeeps ==
  ASSUME StreamInv, NEW x \in End, SubmitBlock(x) PROVE StreamInv'
<1>1. PICK s \in Sizes :
        LET f == IncTxBytes(flow[x], s)
        IN  /\ flow' = [flow EXCEPT ![x] = f]
            /\ mark' = [mark EXCEPT ![x] = Append(@, f.txB)]
            /\ \E q \in SubmitResults(port[x], Data(f.txP, s)) :
                 /\ port' = [port EXCEPT ![x] = q]
                 /\ writer' = [writer EXCEPT ![x] =
                      IF q.wq = << >>
                      THEN [BlockWritten(@) EXCEPT !.pc = "loop"]
                      ELSE [@ EXCEPT !.pc = "idle"]]
  BY Zenon DEF SubmitBlock
<1>2. PICK f : f = IncTxBytes(flow[x], s)
  OBVIOUS
<1>3. PICK q \in SubmitResults(port[x], Data(f.txP, s)) :
        /\ port' = [port EXCEPT ![x] = q]
        /\ writer' = [writer EXCEPT ![x] =
             IF q.wq = << >>
             THEN [BlockWritten(@) EXCEPT !.pc = "loop"]
             ELSE [@ EXCEPT !.pc = "idle"]]
  BY <1>1, <1>2
<1>4. PICK k : k = mark[x]
  OBVIOUS
<1>5. PICK k1 : k1 = Append(k, f.txB)
  OBVIOUS
<1>6. flow' = [flow EXCEPT ![x] = f] /\ mark' = [mark EXCEPT ![x] = k1]
  BY <1>1, <1>2, <1>4, <1>5
<1>7. writer[x].pc = "go" /\ setup' = setup /\ reader' = reader
  BY DEF SubmitBlock
<1>8. PICK y : y = Peer(x)
  OBVIOUS
<1>9. y \in End /\ y # x /\ Peer(y) = x
  BY <1>8, PeerOf
<1>10. /\ flow[x] \in Counters /\ writer[x] \in Writers /\ port[x] \in Ports
       /\ mark[x] \in Seq(Nat)
       /\ Counted(x) /\ Chained(x) /\ Reported(x) /\ Told(x) /\ Reading(x) /\ Writing(x)
  BY EndOf
<1>11. /\ Counted(y) /\ Chained(y) /\ Reported(y) /\ Told(y) /\ Reading(y) /\ Writing(y)
  BY <1>9, EndOf
<1>12. flow[x].count = 0 /\ writer[x].sub /\ Pending(port[x].wq) = {} /\ writer[x].reqs # << >>
  BY <1>7, <1>10 DEF Writing
<1>13. writer[x].done = FALSE
  BY <1>7, <1>10 DEF Writing, Writers, Locked
<1>14. s \in Nat /\ s > 0
  BY WindowAssumption
\* the counters
<1>15. /\ Marked(k) /\ flow[x].txP = Len(k) /\ flow[x].txB = At(k, Len(k))
       /\ flow[x].ackTxB = At(k, flow[x].ackTxP)
       /\ Window(k, flow[y].rxP, flow[y].ackRxP, flow[x].ackTxP, 0)
       /\ flow[y].rxB = At(k, flow[y].rxP) /\ flow[y].ackRxB = At(k, flow[y].ackRxP)
  BY <1>4, <1>8, <1>10, <1>12 DEF Counted
<1>16. /\ Len(k) \in Nat /\ flow[x].ackTxP \in 0..Len(k) /\ flow[y].rxP \in 0..Len(k)
       /\ flow[y].ackRxP \in 0..Len(k)
  BY <1>4, <1>8, ReportOf
<1>17. At(k, Len(k)) \in Nat
  BY <1>15, <1>16, AtType
<1>18. /\ f.txB = At(k, Len(k)) + s /\ f.txP = Len(k) + 1
       /\ f.ackTxB = flow[x].ackTxB /\ f.ackTxP = flow[x].ackTxP
       /\ f.rxB = flow[x].rxB /\ f.rxP = flow[x].rxP
       /\ f.ackRxB = flow[x].ackRxB /\ f.ackRxP = flow[x].ackRxP
       /\ f.count = IF Crosses(At(k, Len(k)), Len(k), At(k, flow[x].ackTxP), flow[x].ackTxP, s)
                    THEN 1 ELSE 0
  BY <1>2, <1>10, <1>12, <1>15 DEF IncTxBytes, Counters
<1>19. f \in Counters
  <2>1. f.txB \in Nat /\ f.txP \in Nat /\ f.count \in Nat
    BY <1>14, <1>16, <1>17, <1>18
  <2> HIDE <1>18
  <2>2. f = [flow[x] EXCEPT !.txB = f.txB, !.txP = f.txP, !.count = f.count]
    BY <1>2, <1>10 DEF IncTxBytes, Counters
  <2> QED
    BY <2>1, <2>2, <1>10 DEF Counters
<1>20. k1 = Append(k, At(k, Len(k)) + s) /\ f.txB \in Nat
  BY <1>5, <1>18, <1>19 DEF Counters
<1>21. Marked(k1) /\ Len(k1) = Len(k) + 1 /\ k1 \in Seq(Nat)
  <2>1. Marked(k1)
    BY <1>14, <1>15, <1>20, MarkedAppend
  <2>2. k \in Seq(Nat)
    BY <1>15 DEF Marked
  <2>3. k1 \in Seq(Nat) /\ Len(k1) = Len(k) + 1
    <3>1. f.txB \in Nat
      BY <1>20
    <3> QED
      BY <2>2, <3>1, <1>5, AppendProperties
  <2> QED
    BY <2>1, <2>3
<1>22. /\ \A n \in 0..Len(k) : At(k1, n) = At(k, n)
       /\ At(k1, Len(k) + 1) = At(k, Len(k)) + s
  BY <1>15, <1>18, <1>20, AtAppend
<1>23. /\ ~Fills(k, flow[x].ackTxP, Len(k))
       /\ Window(k1, flow[y].rxP, flow[y].ackRxP, flow[x].ackTxP,
                 IF Fills(k1, flow[x].ackTxP, Len(k) + 1) THEN 1 ELSE 0)
  <2>1. At(k, Len(k)) + s \in Nat
    BY <1>14, <1>17
  <2> QED
    BY <2>1, <1>15, <1>20, WindowSend
<1>24. Crosses(At(k, Len(k)), Len(k), At(k, flow[x].ackTxP), flow[x].ackTxP, s)
         <=> Fills(k1, flow[x].ackTxP, Len(k) + 1)
  <2>1. Len(k) \in 0..Len(k) /\ flow[x].ackTxP <= Len(k)
    BY <1>16
  <2>2. At(k1, flow[x].ackTxP) = At(k, flow[x].ackTxP)
    BY <1>16, <1>22
  <2> QED
    BY <2>1, <2>2, <1>14, <1>15, <1>16, <1>22, <1>23, CrossesFills
<1>25. /\ flow'[x] = f /\ flow'[y] = flow[y] /\ mark'[x] = k1 /\ mark'[y] = mark[y]
       /\ port'[x] = q /\ port'[y] = port[y] /\ writer'[y] = writer[y]
  BY <1>3, <1>6, <1>9 DEF StreamInv, StreamType
<1>26. Counted(x)'
  <2>1. /\ f.ackTxB = At(k1, f.ackTxP)
        /\ flow[y].rxB = At(k1, flow[y].rxP) /\ flow[y].ackRxB = At(k1, flow[y].ackRxP)
    BY <1>15, <1>16, <1>18, <1>22
  <2>2. f.txP = Len(k1) /\ f.txB = At(k1, Len(k1))
    BY <1>18, <1>21, <1>22
  <2>3. Window(k1, flow[y].rxP, flow[y].ackRxP, f.ackTxP, f.count)
    BY <1>18, <1>23, <1>24
  <2> QED
    BY <2>1, <2>2, <2>3, <1>8, <1>21, <1>25 DEF Counted
<1>27. Counted(y)'
  BY <1>9, <1>11, <1>18, <1>25, CountedKept
\* the packet
<1>28. PICK it : it = Data(Len(k) + 1, s)
  OBVIOUS
<1>29. it \in Items /\ ~IsReport(it) /\ it.n = Len(k) + 1 /\ it.size = s
  <2>1. Len(k) + 1 \in Nat
    BY <1>16
  <2> QED
    BY <2>1, <1>14, <1>28, DataType
<1>30. /\ q \in Ports /\ q.evq = port[x].evq
       /\ \/ port[x].wq = << >> /\ q.wq = << >> /\ q.wire = Append(port[x].wire, it)
          \/ /\ q.wire = port[x].wire /\ q.wq = Append(port[x].wq, it)
             /\ port[x].wq # << >> \/ setup.full
  <2>1. q \in SubmitResults(port[x], it)
    BY <1>3, <1>18, <1>28
  <2> QED
    BY <2>1, <1>10, <1>29, Submitted
<1>31. /\ port[x].wq \in Seq(Items) /\ port[x].wire \in Seq(Items)
       /\ port[y].evq \in Seq(Items) /\ reader[y].buf \in Seq(Items)
  BY <1>9, <1>10, EndOf DEF Ports, Readers
<1>32. Chained(x)'
  <2>1. Run(k, reader[y].buf, reader[y].got, flow[y].rxP)
    BY <1>4, <1>8, <1>10 DEF Chained
  <2>2. PICK b, c \in Nat :
           /\ Run(k, port[y].evq, flow[y].rxP, b)
           /\ Run(k, port[x].wire, b, c)
           /\ Run(k, port[x].wq, c, Len(k))
    BY <1>4, <1>8, <1>10 DEF Chained
  <2>3. flow[y].rxP <= b /\ b <= c /\ c <= Len(k) /\ flow[y].rxP <= Len(k)
    BY <2>2, <1>16 DEF Run
  <2>4. b <= Len(k) /\ c <= Len(k) /\ Len(k) <= Len(k) /\ flow[y].rxP <= Len(k)
    BY <2>3, <1>16
  <2>5. k1 = Append(k, f.txB) /\ f.txB \in Nat
    BY <1>5, <1>20
  <2>6. /\ Run(k1, reader[y].buf, reader[y].got, flow[y].rxP)
        /\ Run(k1, port[y].evq, flow[y].rxP, b)
        /\ Run(k1, port[x].wire, b, c)
        /\ Run(k1, port[x].wq, c, Len(k))
    BY <2>1, <2>2, <2>4, <2>5, <1>15, <1>31, RunMark
  <2>7. At(k1, Len(k) + 1) = At(k1, Len(k)) + it.size
    BY <1>16, <1>22, <1>29
  <2>8. \E b1, c1 \in Nat :
           /\ Run(k1, port[y].evq, flow[y].rxP, b1)
           /\ Run(k1, q.wire, b1, c1)
           /\ Run(k1, q.wq, c1, Len(k) + 1)
    <3>1. CASE port[x].wq = << >> /\ q.wq = << >> /\ q.wire = Append(port[x].wire, it)
      <4>1. c = Len(k)
        BY <3>1, <2>6, RunNone
      <4>2. Run(k1, q.wire, b, Len(k) + 1)
        BY <3>1, <4>1, <2>6, <2>7, <1>29, <1>31, RunPacket
      <4>3. Len(k) + 1 \in Nat
        BY <1>16
      <4>4. Run(k1, q.wq, Len(k) + 1, Len(k) + 1)
        BY <3>1, <4>3, RunEmpty
      <4> QED
        BY <4>2, <4>3, <4>4, <2>6
    <3>2. CASE q.wire = port[x].wire /\ q.wq = Append(port[x].wq, it)
      <4>1. Run(k1, q.wq, c, Len(k) + 1)
        BY <3>2, <2>6, <2>7, <1>29, <1>31, RunPacket
      <4> QED
        BY <3>2, <4>1, <2>6
    <3> QED
      BY <3>1, <3>2, <1>30
  <2> QED
    BY <2>6, <2>8, <1>7, <1>8, <1>21, <1>25 DEF Chained
<1>33. Chained(y)'
  BY <1>7, <1>9, <1>11, <1>18, <1>25, <1>30, ChainedFrame
\* the reports
<1>34. Reported(x)'
  <2>1. PICK at \in Places : ReportAt(x, at)
    BY <1>10 DEF Reported
  <2>2. LastReport(k1, flow[y].ackRxP) = LastReport(k, flow[y].ackRxP)
    BY <1>16, <1>22 DEF LastReport
  <2>3. ReportAt(x, at)'
    BY <2>1, <2>2, <1>4, <1>7, <1>8, <1>18, <1>25, <1>30 DEF ReportAt
  <2> QED
    BY <2>3 DEF Reported
<1>35. Reported(y)'
  <2>1. PICK at \in Places : ReportAt(y, at)
    BY <1>11 DEF Reported
  <2>2. PICK r : r = LastReport(mark[y], flow[x].ackRxP)
    OBVIOUS
  <2>3. /\ Located(r, at, reader[x].lpc, reader[x].hand, reader[x].buf,
                   port[x].wq, port[x].wire, port[y].evq)
        /\ at = "none" <=> flow[x].ackRxP = flow[y].ackTxP
    BY <2>1, <2>2, <1>9 DEF ReportAt
  <2>4. /\ Holds(port[x].wq, Report(r), at = "wq") /\ Holds(port[x].wire, Report(r), at = "wire")
    BY <2>3 DEF Located
  <2>5. (at = "wq") \in BOOLEAN /\ (at = "wire") \in BOOLEAN
    OBVIOUS
  <2>6. /\ Holds(q.wq, Report(r), at = "wq") /\ Holds(q.wire, Report(r), at = "wire")
    BY <2>4, <2>5, <1>29, <1>30, <1>31, HoldsPacket
  <2>7. Located(r, at, reader[x].lpc, reader[x].hand, reader[x].buf,
                q.wq, q.wire, port[y].evq)
    BY <2>3, <2>6 DEF Located
  <2>8. ReportAt(y, at)'
    BY <2>2, <2>3, <2>7, <1>7, <1>9, <1>18, <1>25 DEF ReportAt
  <2> QED
    BY <2>8 DEF Reported
<1>36. Told(x)' /\ Told(y)' /\ Reading(x)' /\ Reading(y)'
  BY <1>7, <1>8, <1>9, <1>10, <1>11, <1>18, <1>25, ToldFrame, ReadingFrame
\* the write task
<1>37. PICK v : v = IF q.wq = << >> THEN [BlockWritten(writer[x]) EXCEPT !.pc = "loop"]
                    ELSE [writer[x] EXCEPT !.pc = "idle"]
  OBVIOUS
<1>38. writer' = [writer EXCEPT ![x] = v]
  BY <1>3, <1>37
<1>39. writer'[x] = v
  BY <1>38 DEF StreamInv, StreamType
<1>40. /\ v \in Writers /\ v.left = writer[x].left /\ v.done = FALSE
       /\ q.wq = << >> => v.sub = FALSE /\ v.pc = "loop"
       /\ q.wq # << >> => v.sub = TRUE /\ v.pc = "idle" /\ v.reqs = writer[x].reqs
  <2>1. CASE q.wq = << >>
    <3>1. PICK u : u = BlockWritten(writer[x])
      OBVIOUS
    <3>2. u \in Writers /\ u.left = writer[x].left /\ u.sub = FALSE /\ u.done = FALSE
      BY <3>1, <1>10, <1>12, <1>13, BlockType
    <3>3. v = [u EXCEPT !.pc = "loop"]
      BY <2>1, <3>1, <1>37
    <3> QED
      BY <2>1, <3>2, <3>3 DEF Writers
  <2>2. CASE q.wq # << >>
    <3>1. v = [writer[x] EXCEPT !.pc = "idle"]
      BY <2>2, <1>37
    <3> QED
      BY <2>2, <3>1, <1>10, <1>12, <1>13 DEF Writers
  <2> QED
    BY <2>1, <2>2
<1>41. setup.writes[x] # 0
  BY <1>10, <1>12 DEF Writing
<1>42. Writing(x)'
  <2>1. CASE q.wq = << >>
    <3>1. Pending(q.wq) = {}
      BY <2>1 DEF Pending
    <3> QED
      BY <2>1, <3>1, <1>7, <1>25, <1>39, <1>40, <1>41 DEF Writing, Locked
  <2>2. CASE q.wq # << >>
    <3>1. q.wq = Append(port[x].wq, it) /\ (port[x].wq # << >> \/ setup.full)
      BY <2>2, <1>30
    <3>2. Pending(q.wq) # {} /\ \A i, j \in Pending(q.wq) : i = j
      BY <3>1, <1>12, <1>29, <1>31, PendingPacket
    <3>3. setup.full
      BY <3>1, <1>10 DEF Writing
    <3> QED
      BY <2>2, <3>2, <3>3, <1>7, <1>12, <1>25, <1>39, <1>40, <1>41 DEF Writing, Locked
  <2> QED
    BY <2>1, <2>2
<1>43. Writing(y)'
  BY <1>7, <1>9, <1>11, <1>25, WritingFrame
<1>44. StreamType'
  <2>1. /\ flow' \in [End -> Counters] /\ port' \in [End -> Ports] /\ writer' \in [End -> Writers]
        /\ mark' \in [End -> Seq(Nat)]
    BY <1>3, <1>6, <1>19, <1>21, <1>30, <1>38, <1>40 DEF StreamInv, StreamType
  <2> QED
    BY <2>1, <1>7 DEF StreamInv, StreamType
<1> QED
  BY <1>8, <1>26, <1>27, <1>32, <1>33, <1>34, <1>35, <1>36, <1>42, <1>43, <1>44, Both

-----------------------------------------------------------------------------
(* The socket.                                                             *)

\* Between two applications of which one does not write, or when the socket takes
\* everything, no report waits behind a packet.
LEMMA NoReportBehind ==
  ASSUME SafeSetups, StreamInv, NEW x \in End, NEW m \in DOMAIN port[x].wq, m # 1
  PROVE  ~IsReport(port[x].wq[m])
<1> SUFFICES ASSUME IsReport(port[x].wq[m]) PROVE FALSE
  OBVIOUS
<1>1. PICK y : y = Peer(x)
  OBVIOUS
<1>2. y \in End /\ y # x /\ Peer(y) = x /\ End = {x, y}
  BY <1>1, PeerOf
<1>3. PICK q : q = port[x].wq
  OBVIOUS
<1>4. q \in Seq(Items) /\ m \in DOMAIN q /\ IsReport(q[m]) /\ 1 \in DOMAIN q
  BY <1>3, EndOf DEF Ports
<1>5. PICK at \in Places : ReportAt(y, at)
  BY <1>2, EndOf DEF Reported
<1>6. PICK r : r = LastReport(mark[y], flow[x].ackRxP)
  OBVIOUS
<1>7. Holds(q, Report(r), at = "wq") /\ (at = "none" <=> flow[x].ackRxP = flow[y].ackTxP)
  BY <1>2, <1>3, <1>5, <1>6 DEF ReportAt, Located
<1>8. at = "wq" /\ \A j \in DOMAIN q : IsReport(q[j]) => j = m
  BY <1>4, <1>7 DEF Holds
<1>9. flow[x].ackRxP # flow[y].ackTxP
  BY <1>7, <1>8
<1>10. mark[y] # << >>
  BY <1>2, <1>9, ReportOf
<1>11. ~IsReport(q[1])
  BY <1>4, <1>8
<1>12. mark[x] # << >>
  <2>1. PICK c \in Nat : Run(mark[x], q, c, Len(mark[x]))
    BY <1>3, EndOf DEF Chained
  <2>2. q[1].n \in (c + 1)..Len(mark[x])
    BY <2>1, <1>4, <1>11 DEF Run
  <2>3. Len(mark[x]) # 0
    BY <2>2
  <2> QED
    BY <2>3
<1>13. setup.writes[x] # 0 /\ setup.writes[y] # 0 /\ setup.full
  BY <1>2, <1>3, <1>4, <1>10, <1>12, EndOf DEF Writing
<1>14. setup \in Setups
  BY DEF StreamInv, StreamType
<1> QED
  BY <1>2, <1>13, <1>14 DEF SafeSetups

\* A socket that takes the head of the queue of the port keeps the invariant.
LEMMA SendReadyKeeps ==
  ASSUME SafeSetups, StreamInv, NEW x \in End, SendReady(x) PROVE StreamInv'
<1>1. PICK y : y = Peer(x)
  OBVIOUS
<1>2. y \in End /\ y # x /\ Peer(y) = x
  BY <1>1, PeerOf
<1>3. /\ flow[x] \in Counters /\ writer[x] \in Writers /\ port[x] \in Ports
      /\ Counted(x) /\ Chained(x) /\ Reported(x) /\ Told(x) /\ Reading(x) /\ Writing(x)
  BY EndOf
<1>4. Counted(y) /\ Chained(y) /\ Reported(y) /\ Told(y) /\ Reading(y) /\ Writing(y)
  BY <1>2, EndOf
<1>5. PICK s : s = port[x].wq
  OBVIOUS
<1>6. PICK t : t = Tail(s)
  OBVIOUS
<1>7. PICK u : u = port[x].wire
  OBVIOUS
<1>8. s \in Seq(Items) /\ s # << >> /\ u \in Seq(Items) /\ UNCHANGED <<setup, flow, reader, mark>>
  BY <1>3, <1>5, <1>7 DEF SendReady, Ports
<1>9. PICK h : h = s[1]
  OBVIOUS
<1>10. h \in Items /\ t \in Seq(Items) /\ Head(s) = h /\ 1 \in DOMAIN s
  BY <1>6, <1>8, <1>9
<1>11. PICK v : v = Append(u, h)
  OBVIOUS
<1>12. v \in Seq(Items)
  BY <1>8, <1>10, <1>11
<1>13. port' = [port EXCEPT ![x].wire = v, ![x].wq = t]
  <2>1. PICK z : z = IF Len(s) = 1 THEN << >> ELSE <<AsData(s[2])>> \o SubSeq(s, 3, Len(s))
    OBVIOUS
  <2>2. port' = [port EXCEPT ![x].wire = v, ![x].wq = z]
    BY <2>1, <1>5, <1>7, <1>10, <1>11 DEF SendReady
  <2>3. CASE Len(s) = 1
    <3>1. Tail(s) = << >>
      <4>1. Len(Tail(s)) = 0 /\ Tail(s) \in Seq(Items)
        BY <2>3, <1>8
      <4> QED
        BY <4>1, EmptySeq
    <3> QED
      BY <2>1, <2>2, <2>3, <3>1, <1>6
  <2>4. CASE Len(s) # 1
    <3>0. PICK n \in Nat : n = Len(s)
      BY <1>8
    <3>1. Len(s) >= 2 /\ 2 \in DOMAIN s
      <4>1. n # 0 /\ n # 1
        BY <3>0, <2>4, <1>8, EmptySeq
      <4>2. n >= 2 /\ 2 \in 1..n
        BY <4>1
      <4> QED
        BY <4>2, <3>0, <1>8
    <3>2. ~IsReport(s[2])
      BY <3>1, <1>5, NoReportBehind
    <3>3. z = t
      BY <3>1, <3>2, <2>1, <2>4, <1>6, <1>8, TailOf DEF AsData
    <3> QED
      BY <2>2, <3>3
  <2> QED
    BY <2>3, <2>4
<1>14. /\ port'[x].wire = v /\ port'[x].wq = t /\ port'[x].evq = port[x].evq
       /\ port'[y] = port[y] /\ port' \in [End -> Ports]
  BY <1>2, <1>3, <1>10, <1>12, <1>13 DEF StreamInv, StreamType, Ports
<1>15. PICK w : w = [writer[x] EXCEPT !.done = @ \/ (~IsReport(h) /\ h.n > 0)]
  OBVIOUS
<1>16. writer' = [writer EXCEPT ![x] = w]
  <2>1. writer' = [writer EXCEPT ![x].done = @ \/ (~IsReport(h) /\ h.n > 0)]
    BY <1>5, <1>10 DEF SendReady
  <2> QED
    BY <2>1, <1>15
<1>17. /\ w \in Writers /\ w.left = writer[x].left /\ w.reqs = writer[x].reqs
       /\ w.pc = writer[x].pc /\ w.sub = writer[x].sub
       /\ w.done = (writer[x].done \/ (~IsReport(h) /\ h.n > 0))
  BY <1>3, <1>15 DEF Writers
<1>18. writer'[x] = w /\ writer'[y] = writer[y] /\ writer' \in [End -> Writers]
  BY <1>2, <1>16, <1>17 DEF StreamInv, StreamType
<1>19. StreamType'
  BY <1>8, <1>14, <1>18 DEF StreamInv, StreamType
<1>20. Counted(x)' /\ Counted(y)' /\ Told(x)' /\ Told(y)' /\ Reading(x)' /\ Reading(y)'
  BY <1>2, <1>3, <1>4, <1>8, CountedFrame, ToldFrame, ReadingFrame
<1>21. Chained(y)' /\ Reported(x)' /\ Writing(y)'
  BY <1>1, <1>2, <1>3, <1>4, <1>8, <1>14, <1>18, ChainedFrame, ReportedFrame, WritingFrame
\* the item moves from the queue to the socket
<1>22. PICK b, c \in Nat :
         /\ Run(mark[x], port[y].evq, flow[y].rxP, b)
         /\ Run(mark[x], u, b, c)
         /\ Run(mark[x], s, c, Len(mark[x]))
  BY <1>1, <1>3, <1>5, <1>7 DEF Chained
<1>23. Run(mark[x], reader[y].buf, reader[y].got, flow[y].rxP)
  BY <1>1, <1>3 DEF Chained
<1>24. PICK at \in Places : ReportAt(y, at)
  BY <1>4 DEF Reported
<1>25. PICK r : r = LastReport(mark[y], flow[x].ackRxP)
  OBVIOUS
<1>26. IsReport(Report(r)) /\ Report(r) \in Items
  BY <1>2, <1>25, ReportOf
<1>27. /\ Located(r, at, reader[x].lpc, reader[x].hand, reader[x].buf, s, u, port[y].evq)
       /\ at = "none" <=> flow[x].ackRxP = flow[y].ackTxP
  BY <1>2, <1>5, <1>7, <1>24, <1>25 DEF ReportAt
<1>28. Holds(s, Report(r), at = "wq") /\ Holds(u, Report(r), at = "wire")
  BY <1>27 DEF Located
<1>29. (at = "wq") \in BOOLEAN /\ (at = "wire") \in BOOLEAN
  OBVIOUS
<1>30. CASE ~IsReport(h)
  <2>1. /\ h.n = c + 1 /\ At(mark[x], c + 1) = At(mark[x], c) + h.size
        /\ Run(mark[x], t, c + 1, Len(mark[x]))
    <3>1. ~IsReport(s[1])
      BY <1>9, <1>30
    <3>0. PICK m : m = Len(mark[x])
      OBVIOUS
    <3>3. Run(mark[x], s, c, m)
      BY <3>0, <1>22
    <3>2. /\ s[1].n = c + 1 /\ At(mark[x], c + 1) = At(mark[x], c) + s[1].size
          /\ Run(mark[x], Tail(s), c + 1, Len(mark[x]))
      BY <3>0, <3>1, <3>3, <1>8, RunTail
    <3> QED
      BY <3>2, <1>6, <1>9
  <2>2. Run(mark[x], v, b, c + 1)
    BY <2>1, <1>8, <1>10, <1>11, <1>22, <1>30, RunPacket
  <2>3. Chained(x)'
    <3>1. c + 1 \in Nat
      OBVIOUS
    <3> QED
      BY <3>1, <2>1, <2>2, <1>1, <1>8, <1>14, <1>22, <1>23 DEF Chained
  <2>4. Holds(t, Report(r), at = "wq") /\ Holds(v, Report(r), at = "wire")
    BY <1>6, <1>8, <1>9, <1>10, <1>11, <1>26, <1>28, <1>29, <1>30, HoldsTail, HoldsPacket
  <2>5. Located(r, at, reader[x].lpc, reader[x].hand, reader[x].buf, t, v, port[y].evq)
    BY <2>4, <1>27 DEF Located
  <2>6. ReportAt(y, at)'
    BY <2>5, <1>2, <1>8, <1>14, <1>25, <1>27 DEF ReportAt
  <2>7. 1 \in Pending(s) /\ h.n > 0
    BY <2>1, <1>9, <1>10, <1>30 DEF Pending
  <2>8. Pending(t) = {}
    BY <2>7, <1>3, <1>5, <1>6, <1>8, PendingTail DEF Writing
  <2>9. Writing(x)'
    <3>1. w.done = TRUE /\ w.sub /\ ~Locked(w)
      BY <2>7, <1>3, <1>5, <1>17, <1>30 DEF Writing, Locked
    <3> QED
      BY <3>1, <2>8, <1>3, <1>5, <1>8, <1>14, <1>17, <1>18 DEF Writing, Locked
  <2>10. Reported(y)'
    BY <2>6 DEF Reported
  <2> QED
    BY <2>3, <2>9, <2>10, <1>1, <1>19, <1>20, <1>21, Both
<1>31. CASE IsReport(h)
  <2>0. /\ 1 \in DOMAIN s /\ Len(t) = Len(s) - 1 /\ IsReport(s[1])
        /\ \A i \in DOMAIN t : t[i] = IF i < 1 THEN s[i] ELSE s[i + 1]
    BY <1>6, <1>8, <1>9, <1>31, TailElements
  <2>1. Run(mark[x], t, c, Len(mark[x]))
    BY <2>0, <1>8, <1>10, <1>22, RunDrop
  <2>2. Run(mark[x], v, b, c)
    BY <1>8, <1>10, <1>11, <1>22, <1>31, RunReport
  <2>3. Chained(x)'
    BY <2>1, <2>2, <1>1, <1>8, <1>14, <1>22, <1>23 DEF Chained
  <2>4. at = "wq" /\ h = Report(r) /\ Holds(t, Report(r), FALSE)
    <3>1. at = "wq"
      BY <2>0, <1>28 DEF Holds
    <3>2. Holds(s, Report(r), TRUE)
      BY <3>1, <1>28
    <3>3. s[1] = Report(r) /\ Holds(t, Report(r), FALSE)
      BY <3>2, <2>0, <1>6, <1>8, HoldsHead
    <3> QED
      BY <3>1, <3>3, <1>9
  <2>5. Holds(v, Report(r), TRUE)
    <3>1. Holds(u, Report(r), FALSE)
      BY <2>4, <1>28
    <3> QED
      BY <3>1, <2>4, <1>8, <1>11, <1>26, HoldsReport
  <2>6. Located(r, "wire", reader[x].lpc, reader[x].hand, reader[x].buf, t, v, port[y].evq)
    BY <2>4, <2>5, <1>27 DEF Located, Places
  <2>7. ReportAt(y, "wire")'
    BY <2>4, <2>6, <1>2, <1>8, <1>14, <1>25, <1>27 DEF ReportAt
  <2>8. /\ Pending(t) # {} => Pending(s) # {}
        /\ \A i, j \in Pending(t) : i = j
    <3>1. \A i \in Pending(t) : i \in Nat /\ i + 1 \in Pending(s)
      BY <1>6, <1>8, PendingTail
    <3>2. \A i, j \in Pending(s) : i = j
      BY <1>3, <1>5 DEF Writing
    <3>3. ASSUME NEW i \in Pending(t), NEW j \in Pending(t) PROVE i = j
      <4>1. i \in Nat /\ j \in Nat /\ i + 1 = j + 1
        BY <3>1, <3>2
      <4> QED
        BY <4>1
    <3> QED
      BY <3>1, <3>3
  <2>9. Writing(x)'
    <3>1. w.done = writer[x].done
      BY <1>3, <1>17, <1>31 DEF Writers
    <3> QED
      BY <3>1, <2>8, <1>3, <1>5, <1>8, <1>14, <1>17, <1>18 DEF Writing, Locked
  <2>10. Reported(y)'
    <3>1. "wire" \in Places
      BY DEF Places
    <3> QED
      BY <3>1, <2>7 DEF Reported
  <2> QED
    BY <2>3, <2>9, <2>10, <1>1, <1>19, <1>20, <1>21, Both
<1> QED
  BY <1>30, <1>31

\* A port that takes what the socket delivers keeps the invariant.
LEMMA PortRecvKeeps ==
  ASSUME StreamInv, NEW x \in End, PortRecv(x) PROVE StreamInv'
<1>1. PICK y : y = Peer(x)
  OBVIOUS
<1>2. y \in End /\ y # x /\ Peer(y) = x
  BY <1>1, PeerOf
<1>3. /\ port[x] \in Ports
      /\ Counted(x) /\ Chained(x) /\ Reported(x) /\ Told(x) /\ Reading(x) /\ Writing(x)
  BY EndOf
<1>4. /\ port[y] \in Ports
      /\ Counted(y) /\ Chained(y) /\ Reported(y) /\ Told(y) /\ Reading(y) /\ Writing(y)
  BY <1>2, EndOf
<1>5. PICK s : s = port[y].wire
  OBVIOUS
<1>6. PICK t : t = Tail(s)
  OBVIOUS
<1>7. PICK u : u = port[x].evq
  OBVIOUS
<1>8. /\ s \in Seq(Items) /\ s # << >> /\ u \in Seq(Items)
      /\ UNCHANGED <<setup, flow, writer, reader, mark>>
  BY <1>1, <1>3, <1>4, <1>5, <1>7 DEF PortRecv, Ports
<1>9. PICK h : h = s[1]
  OBVIOUS
<1>10. h \in Items /\ t \in Seq(Items) /\ Head(s) = h /\ 1 \in DOMAIN s
  BY <1>6, <1>8, <1>9
<1>11. PICK v : v = Append(u, h)
  OBVIOUS
<1>12. v \in Seq(Items)
  BY <1>8, <1>10, <1>11
<1>13. PICK l \in BOOLEAN : port' = [port EXCEPT ![x].evq = v, ![x].looping = l, ![y].wire = t]
  <2>1. (Len(s) > 1) \in BOOLEAN
    OBVIOUS
  <2>2. port' = [port EXCEPT ![x].evq = Append(@, Head(s)), ![x].looping = Len(s) > 1,
                             ![y].wire = Tail(@)]
    BY <1>1, <1>5 DEF PortRecv
  <2>3. port' = [port EXCEPT ![x].evq = v, ![x].looping = Len(s) > 1, ![y].wire = t]
    BY <2>2, <1>2, <1>5, <1>6, <1>7, <1>10, <1>11 DEF StreamInv, StreamType
  <2> QED
    BY <2>1, <2>3
<1>14. /\ port'[x].evq = v /\ port'[x].wq = port[x].wq /\ port'[x].wire = port[x].wire
       /\ port'[y].wire = t /\ port'[y].wq = port[y].wq /\ port'[y].evq = port[y].evq
       /\ port' \in [End -> Ports]
  BY <1>2, <1>3, <1>4, <1>10, <1>12, <1>13 DEF StreamInv, StreamType, Ports
<1>19. StreamType'
  BY <1>8, <1>14 DEF StreamInv, StreamType
<1>20. Counted(x)' /\ Counted(y)' /\ Told(x)' /\ Told(y)' /\ Reading(x)' /\ Reading(y)'
  BY <1>2, <1>3, <1>4, <1>8, CountedFrame, ToldFrame, ReadingFrame
<1>21. Chained(x)' /\ Reported(y)' /\ Writing(x)' /\ Writing(y)'
  BY <1>1, <1>2, <1>3, <1>4, <1>8, <1>14, ChainedFrame, ReportedFrame, WritingFrame
\* the item moves from the socket to the events
<1>22. PICK b, c \in Nat :
         /\ Run(mark[y], u, flow[x].rxP, b)
         /\ Run(mark[y], s, b, c)
         /\ Run(mark[y], port[y].wq, c, Len(mark[y]))
  BY <1>2, <1>4, <1>5, <1>7 DEF Chained
<1>23. Run(mark[y], reader[x].buf, reader[x].got, flow[x].rxP)
  BY <1>2, <1>4 DEF Chained
<1>24. PICK at \in Places : ReportAt(x, at)
  BY <1>3 DEF Reported
<1>25. PICK r : r = LastReport(mark[x], flow[y].ackRxP)
  OBVIOUS
<1>26. IsReport(Report(r)) /\ Report(r) \in Items
  BY <1>1, <1>25, ReportOf
<1>27. /\ Located(r, at, reader[y].lpc, reader[y].hand, reader[y].buf, port[y].wq, s, u)
       /\ at = "none" <=> flow[y].ackRxP = flow[x].ackTxP
  BY <1>1, <1>5, <1>7, <1>24, <1>25 DEF ReportAt
<1>28. Holds(s, Report(r), at = "wire") /\ Holds(u, Report(r), at = "evq")
  BY <1>27 DEF Located
<1>29. (at = "evq") \in BOOLEAN /\ (at = "wire") \in BOOLEAN
  OBVIOUS
<1>30. CASE ~IsReport(h)
  <2>1. /\ h.n = b + 1 /\ At(mark[y], b + 1) = At(mark[y], b) + h.size
        /\ Run(mark[y], t, b + 1, c)
    BY <1>6, <1>8, <1>9, <1>22, <1>30, RunTail
  <2>2. Run(mark[y], v, flow[x].rxP, b + 1)
    BY <2>1, <1>8, <1>10, <1>11, <1>22, <1>30, RunPacket
  <2>3. Chained(y)'
    <3>1. b + 1 \in Nat
      OBVIOUS
    <3> QED
      BY <3>1, <2>1, <2>2, <1>2, <1>8, <1>14, <1>22, <1>23 DEF Chained
  <2>4. Holds(t, Report(r), at = "wire") /\ Holds(v, Report(r), at = "evq")
    BY <1>6, <1>8, <1>9, <1>10, <1>11, <1>26, <1>28, <1>29, <1>30, HoldsTail, HoldsPacket
  <2>5. Located(r, at, reader[y].lpc, reader[y].hand, reader[y].buf, port[y].wq, t, v)
    BY <2>4, <1>27 DEF Located
  <2>6. ReportAt(x, at)'
    BY <2>5, <1>1, <1>8, <1>14, <1>25, <1>27 DEF ReportAt
  <2>7. Reported(x)'
    BY <2>6 DEF Reported
  <2> QED
    BY <2>3, <2>7, <1>1, <1>19, <1>20, <1>21, Both
<1>31. CASE IsReport(h)
  <2>0. /\ 1 \in DOMAIN s /\ Len(t) = Len(s) - 1 /\ IsReport(s[1])
        /\ \A i \in DOMAIN t : t[i] = IF i < 1 THEN s[i] ELSE s[i + 1]
    BY <1>6, <1>8, <1>9, <1>31, TailElements
  <2>1. Run(mark[y], t, b, c)
    BY <2>0, <1>8, <1>10, <1>22, RunDrop
  <2>2. Run(mark[y], v, flow[x].rxP, b)
    BY <1>8, <1>10, <1>11, <1>22, <1>31, RunReport
  <2>3. Chained(y)'
    BY <2>1, <2>2, <1>2, <1>8, <1>14, <1>22, <1>23 DEF Chained
  <2>4. at = "wire" /\ h = Report(r) /\ Holds(t, Report(r), FALSE)
    <3>1. at = "wire"
      BY <2>0, <1>28 DEF Holds
    <3>2. Holds(s, Report(r), TRUE)
      BY <3>1, <1>28
    <3>3. s[1] = Report(r) /\ Holds(t, Report(r), FALSE)
      BY <3>2, <2>0, <1>6, <1>8, HoldsHead
    <3> QED
      BY <3>1, <3>3, <1>9
  <2>5. Holds(v, Report(r), TRUE)
    <3>1. Holds(u, Report(r), FALSE)
      BY <2>4, <1>28
    <3> QED
      BY <3>1, <2>4, <1>8, <1>11, <1>26, HoldsReport
  <2>6. Located(r, "evq", reader[y].lpc, reader[y].hand, reader[y].buf, port[y].wq, t, v)
    BY <2>4, <2>5, <1>27 DEF Located, Places
  <2>7. ReportAt(x, "evq")'
    BY <2>4, <2>6, <1>1, <1>8, <1>14, <1>25, <1>27 DEF ReportAt
  <2>8. Reported(x)'
    <3>1. "evq" \in Places
      BY DEF Places
    <3> QED
      BY <3>1, <2>7 DEF Reported
  <2> QED
    BY <2>3, <2>8, <1>1, <1>19, <1>20, <1>21, Both
<1> QED
  BY <1>30, <1>31

-----------------------------------------------------------------------------
(* The listening task.                                                     *)

\* The resume of the writer after a report keeps the invariant.
LEMMA FCLiftedKeeps ==
  ASSUME StreamInv, NEW x \in End, FCLifted(x) PROVE StreamInv'
<1>1. PICK y : y = Peer(x)
  OBVIOUS
<1>2. y \in End /\ y # x /\ Peer(y) = x
  BY <1>1, PeerOf
<1>3. /\ writer[x] \in Writers /\ reader[x] \in Readers
      /\ Counted(x) /\ Chained(x) /\ Reported(x) /\ Told(x) /\ Reading(x) /\ Writing(x)
  BY EndOf
<1>4. Counted(y) /\ Chained(y) /\ Reported(y) /\ Told(y) /\ Reading(y) /\ Writing(y)
  BY <1>2, EndOf
<1>5. /\ reader[x].lpc = "lift" /\ ~Locked(writer[x]) /\ UNCHANGED <<setup, flow, port, mark>>
      /\ reader' = [reader EXCEPT ![x].lpc = "idle"]
  BY DEF FCLifted
<1>6. /\ reader'[x].lpc = "idle" /\ reader'[x].buf = reader[x].buf
      /\ reader'[x].waiting = reader[x].waiting /\ reader'[x].apc = reader[x].apc
      /\ reader'[x].hand = reader[x].hand /\ reader'[x].got = reader[x].got
      /\ reader'[y] = reader[y] /\ reader' \in [End -> Readers]
  BY <1>2, <1>3, <1>5 DEF StreamInv, StreamType, Readers
<1>7. PICK v : v = Resume(writer[x], "flow")
  OBVIOUS
<1>8. writer' = [writer EXCEPT ![x] = v]
  BY <1>7 DEF FCLifted
<1>9. /\ v \in Writers /\ v.left = writer[x].left /\ v.reqs = writer[x].reqs
      /\ v.sub = writer[x].sub /\ v.done = writer[x].done /\ v.pc \in {writer[x].pc, "sched"}
  <2>1. "flow" \in {"que", "flow"}
    OBVIOUS
  <2> QED
    BY <2>1, <1>3, <1>7, ResumeType
<1>10. writer'[x] = v /\ writer'[y] = writer[y] /\ writer' \in [End -> Writers]
  BY <1>2, <1>8, <1>9 DEF StreamInv, StreamType
<1>11. StreamType'
  BY <1>5, <1>6, <1>10 DEF StreamInv, StreamType
<1>12. Writing(x)'
  BY <1>3, <1>5, <1>9, <1>10 DEF Writing, Locked
<1>13. /\ Counted(x)' /\ Counted(y)' /\ Chained(x)' /\ Chained(y)' /\ Reported(x)'
       /\ Told(x)' /\ Reading(x)' /\ Reading(y)' /\ Writing(y)'
  BY <1>1, <1>2, <1>3, <1>4, <1>5, <1>6, <1>10, CountedFrame, ChainedFrame, ReportedFrame,
     ToldFrame, ReadingFrame, WritingFrame
<1>14. Reported(y)' /\ Told(y)'
  BY <1>2, <1>4, <1>5, <1>6, ReportedFrame, ToldFrame
<1> QED
  BY <1>1, <1>11, <1>12, <1>13, <1>14, Both

\* The listening task that gets a packet, and may come to owe a report, keeps the
\* invariant.
LEMMA ReceiveDataKeeps ==
  ASSUME StreamInv, NEW x \in End, ReceiveData(x) PROVE StreamInv'
<1>1. PICK y : y = Peer(x)
  OBVIOUS
<1>2. y \in End /\ y # x /\ Peer(y) = x
  BY <1>1, PeerOf
<1>3. /\ flow[x] \in Counters /\ port[x] \in Ports /\ reader[x] \in Readers
      /\ Counted(x) /\ Chained(x) /\ Reported(x) /\ Told(x) /\ Reading(x) /\ Writing(x)
  BY EndOf
<1>4. Counted(y) /\ Chained(y) /\ Reported(y) /\ Told(y) /\ Reading(y) /\ Writing(y)
  BY <1>2, EndOf
<1>5. PICK s : s = port[x].evq
  OBVIOUS
<1>6. PICK t : t = Tail(s)
  OBVIOUS
<1>7. PICK it : it = s[1]
  OBVIOUS
<1>8. PICK u : u = reader[x].buf
  OBVIOUS
<1>9. /\ s \in Seq(Items) /\ s # << >> /\ Head(s) = it /\ ~IsReport(it) /\ reader[x].lpc = "idle"
      /\ u \in Seq(Items) /\ UNCHANGED <<setup, writer, mark>>
  BY <1>3, <1>5, <1>7, <1>8 DEF ReceiveData, Ports, Readers
<1>10. it \in Items /\ it.size \in Nat /\ t \in Seq(Items)
  <2>1. it \in Items /\ t \in Seq(Items)
    BY <1>6, <1>7, <1>9
  <2> QED
    BY <2>1, <1>9, ItemType
<1>11. PICK due \in BOOLEAN : due = ReportDue(flow[x], it.size)
  <2>1. ReportDue(flow[x], it.size) \in BOOLEAN
    BY DEF ReportDue, Crosses
  <2> QED
    BY <2>1
<1>12. PICK lpc : lpc = IF due THEN "report" ELSE "idle"
  OBVIOUS
<1>13. PICK f : f = IncRxBytes(flow[x], it.size)
  OBVIOUS
<1>14. PICK v : v = IF reader[x].waiting
                    THEN [reader[x] EXCEPT !.lpc = lpc, !.waiting = FALSE, !.got = @ + 1]
                    ELSE [reader[x] EXCEPT !.lpc = lpc, !.buf = Append(@, it),
                                           !.stopped = @ \/ Len(u) + 1 >= Pkts]
  OBVIOUS
<1>15. /\ port' = [port EXCEPT ![x].evq = t] /\ flow' = [flow EXCEPT ![x] = f]
       /\ reader' = [reader EXCEPT ![x] = v]
  <2>1. port' = [port EXCEPT ![x].evq = t]
    BY <1>5, <1>6 DEF ReceiveData
  <2>2. flow' = [flow EXCEPT ![x] = f]
    BY <1>5, <1>9, <1>13 DEF ReceiveData
  <2>3. reader' = [reader EXCEPT ![x] = v]
    BY <1>5, <1>8, <1>9, <1>11, <1>12, <1>14 DEF ReceiveData
  <2> QED
    BY <2>1, <2>2, <2>3
\* the window
<1>16. PICK k : k = mark[y]
  OBVIOUS
<1>17. PICK rx : rx = flow[x].rxP
  OBVIOUS
<1>18. PICK rep : rep = flow[x].ackRxP
  OBVIOUS
<1>19. PICK ack : ack = flow[y].ackTxP
  OBVIOUS
<1>20. /\ Marked(k) /\ flow[y].txP = Len(k) /\ flow[y].txB = At(k, Len(k))
       /\ flow[y].ackTxB = At(k, ack) /\ flow[x].rxB = At(k, rx) /\ flow[x].ackRxB = At(k, rep)
       /\ Window(k, rx, rep, ack, flow[y].count)
  BY <1>2, <1>4, <1>16, <1>17, <1>18, <1>19 DEF Counted
<1>21. /\ Len(k) \in Nat /\ rx \in 0..Len(k) /\ rep \in 0..Len(k) /\ ack \in 0..Len(k) /\ rep <= rx
       /\ rx \in Nat
  <2>1. Len(k) \in Nat
    BY <1>20 DEF Marked
  <2> QED
    BY <2>1, <1>20 DEF Window
<1>22. PICK b, c \in Nat :
         /\ Run(k, s, rx, b)
         /\ Run(k, port[y].wire, b, c)
         /\ Run(k, port[y].wq, c, Len(k))
  BY <1>2, <1>4, <1>5, <1>16, <1>17 DEF Chained
<1>23. Run(k, u, reader[x].got, rx)
  BY <1>2, <1>4, <1>8, <1>16, <1>17 DEF Chained
<1>24. /\ it.n = rx + 1 /\ rx + 1 <= b /\ At(k, rx + 1) = At(k, rx) + it.size
       /\ Run(k, t, rx + 1, b)
  <2>1. ~IsReport(s[1])
    BY <1>7, <1>9
  <2> QED
    BY <2>1, <1>6, <1>7, <1>9, <1>22, RunTail
<1>25. rx < Len(k)
  <2>1. b <= c /\ c <= Len(k)
    BY <1>22 DEF Run
  <2> QED
    BY <2>1, <1>21, <1>22, <1>24
<1>26. /\ rep = ack /\ ~Fills(k, rep, rx) /\ rx + 1 \in 0..Len(k)
       /\ Fills(k, rep, rx + 1) => Window(k, rx + 1, rx + 1, ack, flow[y].count)
       /\ ~Fills(k, rep, rx + 1) => Window(k, rx + 1, rep, ack, flow[y].count)
  BY <1>20, <1>25, WindowReceive
<1>27. due <=> Fills(k, rep, rx + 1)
  <2>1. Crosses(At(k, rx), rx, At(k, rep), rep, it.size) <=> Fills(k, rep, rx + 1)
    BY <1>10, <1>20, <1>21, <1>24, <1>26, CrossesFills
  <2>2. ReportDue(flow[x], it.size) = Crosses(At(k, rx), rx, At(k, rep), rep, it.size)
    BY <1>17, <1>18, <1>20 DEF ReportDue
  <2> QED
    BY <2>1, <2>2, <1>11
<1>28. /\ f.rxB = At(k, rx + 1) /\ f.rxP = rx + 1
       /\ f.ackRxB = IF due THEN At(k, rx + 1) ELSE At(k, rep)
       /\ f.ackRxP = IF due THEN rx + 1 ELSE rep
       /\ f.txB = flow[x].txB /\ f.txP = flow[x].txP /\ f.ackTxB = flow[x].ackTxB
       /\ f.ackTxP = flow[x].ackTxP /\ f.count = flow[x].count /\ f \in Counters
  <2>1. PICK z : z = At(k, rx + 1)
    OBVIOUS
  <2>2. z \in Nat /\ rx + 1 \in Nat
    BY <2>1, <1>20, <1>21, <1>26, AtType
  <2>3. flow[x].rxB + it.size = z /\ flow[x].rxP + 1 = rx + 1
    BY <2>1, <1>17, <1>20, <1>24
  <2>6. f = IF due THEN [flow[x] EXCEPT !.rxB = z, !.rxP = rx + 1, !.ackRxB = z, !.ackRxP = rx + 1]
            ELSE [flow[x] EXCEPT !.rxB = z, !.rxP = rx + 1]
    BY <2>3, <1>11, <1>13 DEF IncRxBytes
  <2>7. CASE due
    <3>1. f = [flow[x] EXCEPT !.rxB = z, !.rxP = rx + 1, !.ackRxB = z, !.ackRxP = rx + 1]
      BY <2>6, <2>7
    <3> QED
      BY <2>1, <2>2, <2>7, <3>1, <1>3 DEF Counters
  <2>8. CASE ~due
    <3>1. f = [flow[x] EXCEPT !.rxB = z, !.rxP = rx + 1]
      BY <2>6, <2>8
    <3>2. flow[x].ackRxB = At(k, rep) /\ flow[x].ackRxP = rep
      BY <1>18, <1>20
    <3> QED
      BY <2>1, <2>2, <2>8, <3>1, <3>2, <1>3 DEF Counters
  <2> QED
    BY <2>7, <2>8
<1>29. /\ v \in Readers /\ v.lpc = lpc /\ v.waiting = FALSE /\ v.apc = reader[x].apc
       /\ v.hand = reader[x].hand
       /\ reader[x].waiting => v.buf = u /\ v.got = reader[x].got + 1
       /\ ~reader[x].waiting => v.buf = Append(u, it) /\ v.got = reader[x].got
  <2>1. lpc \in {"idle", "report", "lift"} /\ Append(u, it) \in Seq(Items)
    BY <1>9, <1>10, <1>12
  <2>2. CASE reader[x].waiting
    <3>0. PICK z : z = reader[x].got + 1
      OBVIOUS
    <3>1. v = [reader[x] EXCEPT !.lpc = lpc, !.waiting = FALSE, !.got = z]
      BY <3>0, <2>2, <1>14
    <3>2. z \in Nat
      <4>1. reader[x].got \in Nat
        BY <1>3 DEF Readers
      <4> QED
        BY <3>0, <4>1
    <3>3. v \in Readers /\ v.lpc = lpc /\ v.waiting = FALSE /\ v.apc = reader[x].apc
      BY <3>1, <3>2, <2>1, <1>3 DEF Readers
    <3>4. v.hand = reader[x].hand /\ v.buf = u /\ v.got = reader[x].got + 1
      BY <3>0, <3>1, <1>3, <1>8 DEF Readers
    <3> QED
      BY <3>3, <3>4, <2>2
  <2>3. CASE ~reader[x].waiting
    <3>1. PICK z \in BOOLEAN : z = (reader[x].stopped \/ Len(u) + 1 >= Pkts)
      OBVIOUS
    <3>2. v = [reader[x] EXCEPT !.lpc = lpc, !.buf = Append(u, it), !.stopped = z]
      BY <3>1, <2>3, <1>8, <1>14
    <3>3. reader[x].waiting = FALSE
      BY <2>3, <1>3 DEF Readers
    <3> QED
      BY <3>2, <3>3, <2>1, <1>3 DEF Readers
  <2> QED
    BY <2>2, <2>3
<1>30. /\ flow'[x] = f /\ flow'[y] = flow[y] /\ reader'[x] = v /\ reader'[y] = reader[y]
       /\ port'[x].evq = t /\ port'[x].wq = port[x].wq /\ port'[x].wire = port[x].wire
       /\ port'[y] = port[y] /\ port' \in [End -> Ports]
  BY <1>2, <1>3, <1>10, <1>15 DEF StreamInv, StreamType, Ports
<1>31. StreamType'
  BY <1>9, <1>15, <1>28, <1>29, <1>30 DEF StreamInv, StreamType
<1>32. Counted(x)' /\ Writing(x)' /\ Writing(y)' /\ Chained(x)' /\ Told(x)' /\ Reading(y)'
  <2>1. Counted(x)'
    BY <1>1, <1>3, <1>9, <1>28, <1>30, CountedKept
  <2>2. Writing(x)' /\ Writing(y)'
    BY <1>2, <1>3, <1>4, <1>9, <1>28, <1>30, WritingFrame
  <2>3. Chained(x)' /\ Told(x)' /\ Reading(y)'
    BY <1>1, <1>2, <1>3, <1>4, <1>9, <1>28, <1>30, ChainedFrame, ToldFrame, ReadingFrame
  <2> QED
    BY <2>1, <2>2, <2>3
<1>33. Counted(y)'
  <2>1. CASE due
    BY <2>1, <1>2, <1>9, <1>16, <1>19, <1>20, <1>26, <1>27, <1>28, <1>30 DEF Counted
  <2>2. CASE ~due
    BY <2>2, <1>2, <1>9, <1>16, <1>19, <1>20, <1>26, <1>27, <1>28, <1>30 DEF Counted
  <2> QED
    BY <2>1, <2>2
<1>34. Run(k, v.buf, v.got, rx + 1)
  <2>1. CASE reader[x].waiting
    <3>1. u = << >>
      BY <2>1, <1>3, <1>8 DEF Reading
    <3>2. reader[x].got = rx
      BY <3>1, <1>23, RunNone
    <3>3. rx + 1 \in Nat
      BY <1>21
    <3> QED
      BY <2>1, <3>1, <3>2, <3>3, <1>29, RunEmpty
  <2>2. CASE ~reader[x].waiting
    BY <2>2, <1>9, <1>10, <1>23, <1>24, <1>29, RunPacket
  <2> QED
    BY <2>1, <2>2
<1>35. Chained(y)'
  BY <1>2, <1>9, <1>16, <1>22, <1>24, <1>28, <1>30, <1>34 DEF Chained
\* no report is on its way
<1>36. PICK r : r = LastReport(k, rep)
  OBVIOUS
<1>37. Located(r, "none", reader[x].lpc, reader[x].hand, u, port[x].wq, port[x].wire, port[y].evq)
  <2>1. PICK at \in Places : ReportAt(y, at)
    BY <1>4 DEF Reported
  <2>2. at = "none"
    BY <2>1, <1>2, <1>18, <1>19, <1>26 DEF ReportAt
  <2> QED
    BY <2>1, <2>2, <1>2, <1>8, <1>16, <1>18, <1>36 DEF ReportAt
<1>38. /\ Holds(u, Report(r), FALSE) /\ Holds(port[x].wq, Report(r), FALSE)
       /\ Holds(port[x].wire, Report(r), FALSE) /\ Holds(port[y].evq, Report(r), FALSE)
       /\ reader[x].hand = NoReport
  BY <1>37 DEF Located
<1>39. Holds(v.buf, Report(r), FALSE)
  <2>1. PICK h \in BOOLEAN : h = FALSE
    OBVIOUS
  <2>2. Holds(u, Report(r), h)
    BY <2>1, <1>38
  <2>3. Holds(Append(u, it), Report(r), h)
    BY <2>2, <1>9, <1>10, HoldsPacket
  <2> QED
    BY <2>1, <2>3, <1>29, <1>38
<1>40. Reported(y)'
  <2>1. PICK z : z = LastReport(k, f.ackRxP)
    OBVIOUS
  <2>2. /\ Holds(v.buf, Report(z), FALSE) /\ Holds(port[x].wq, Report(z), FALSE)
        /\ Holds(port[x].wire, Report(z), FALSE) /\ Holds(port[y].evq, Report(z), FALSE)
    BY <1>38, <1>39, HoldsNone
  <2>3. CASE due
    <3>1. Located(z, "due", v.lpc, v.hand, v.buf, port[x].wq, port[x].wire, port[y].evq)
      BY <2>2, <2>3, <1>12, <1>29, <1>38 DEF Located, Places
    <3>2. f.ackRxP # ack
      BY <2>3, <1>21, <1>26, <1>28
    <3>3. ReportAt(y, "due")'
      BY <2>1, <3>1, <3>2, <1>2, <1>9, <1>16, <1>19, <1>30 DEF ReportAt
    <3>4. "due" \in Places
      BY DEF Places
    <3> QED
      BY <3>3, <3>4 DEF Reported
  <2>4. CASE ~due
    <3>1. Located(z, "none", v.lpc, v.hand, v.buf, port[x].wq, port[x].wire, port[y].evq)
      BY <2>2, <2>4, <1>12, <1>29, <1>38 DEF Located, Places
    <3>2. f.ackRxP = ack
      BY <2>4, <1>26, <1>28
    <3>3. ReportAt(y, "none")'
      BY <2>1, <3>1, <3>2, <1>2, <1>9, <1>16, <1>19, <1>30 DEF ReportAt
    <3>4. "none" \in Places
      BY DEF Places
    <3> QED
      BY <3>3, <3>4 DEF Reported
  <2> QED
    BY <2>3, <2>4
<1>41. Reported(x)'
  <2>1. PICK at \in Places : ReportAt(x, at)
    BY <1>3 DEF Reported
  <2>2. PICK z : z = LastReport(mark[x], flow[y].ackRxP)
    OBVIOUS
  <2>3. /\ Located(z, at, reader[y].lpc, reader[y].hand, reader[y].buf,
                   port[y].wq, port[y].wire, s)
        /\ at = "none" <=> flow[y].ackRxP = flow[x].ackTxP
    BY <2>1, <2>2, <1>1, <1>5 DEF ReportAt
  <2>4. IsReport(Report(z))
    BY <2>2, <1>1, ReportOf
  <2>5. PICK h \in BOOLEAN : h = (at = "evq")
    OBVIOUS
  <2>6. Holds(s, Report(z), h)
    BY <2>3, <2>5 DEF Located
  <2>7. ~IsReport(s[1])
    BY <1>7, <1>9
  <2>8. Holds(t, Report(z), h)
    BY <2>4, <2>6, <2>7, <1>6, <1>9, HoldsTail
  <2>9. Located(z, at, reader[y].lpc, reader[y].hand, reader[y].buf, port[y].wq, port[y].wire, t)
    BY <2>3, <2>5, <2>8 DEF Located
  <2>10. ReportAt(x, at)'
    BY <2>2, <2>3, <2>9, <1>1, <1>9, <1>28, <1>30 DEF ReportAt
  <2> QED
    BY <2>10 DEF Reported
<1>42. reader[x].got \in Nat /\ v.got \in Nat /\ v.got >= reader[x].got
  <2>1. reader[x].got \in Nat
    BY <1>3 DEF Readers
  <2> QED
    BY <2>1, <1>29
<1>43. Told(y)'
  <2>1. PICK T \in {0, 1} : T = Taking(x)
    BY DEF Taking
  <2>2. Taking(x)' = T
    BY <2>1, <1>29, <1>30 DEF Taking
  <2>3. ack <= reader[x].got + T
    BY <2>1, <1>2, <1>4, <1>19 DEF Told
  <2>4. ack <= v.got + T
    <3>1. T \in Nat /\ ack \in Nat
      BY <2>1, <1>21
    <3> QED
      BY <3>1, <2>3, <1>42
  <2>5. f.ackRxP <= v.got + T \/ v.lpc = "report"
    BY <2>4, <1>12, <1>26, <1>28, <1>29
  <2> QED
    BY <2>2, <2>4, <2>5, <1>2, <1>19, <1>30 DEF Told
<1>44. Reading(x)'
  <2>1. CASE reader[x].waiting
    <3>1. v.buf = reader[x].buf
      BY <2>1, <1>8, <1>29
    <3> QED
      BY <3>1, <1>3, <1>29, <1>30 DEF Reading
  <2>2. CASE ~reader[x].waiting
    <3>1. v.buf = Append(u, it) /\ v.buf # << >>
      BY <2>2, <1>9, <1>10, <1>29, AppendProperties
    <3>2. u # << >> => v.buf[1] = u[1]
      <4>1. u # << >> => 1 \in 1..Len(u)
        BY <1>9
      <4> QED
        BY <3>1, <4>1, <1>9, <1>10
    <3> QED
      BY <3>1, <3>2, <1>3, <1>8, <1>29, <1>30 DEF Reading
  <2> QED
    BY <2>1, <2>2
<1> QED
  BY <1>1, <1>31, <1>32, <1>33, <1>35, <1>40, <1>41, <1>43, <1>44, Both

\* The report goes to the port.
LEMMA ReportSent ==
  ASSUME StreamInv, NEW x \in End, NEW at \in {"due", "hand"}, ReportAt(Peer(x), at),
         NEW q \in SubmitResults(port[x],
                     Report(LastReport(mark[Peer(x)], flow[x].ackRxP))),
         port' = [port EXCEPT ![x] = q], UNCHANGED <<setup, flow, writer, mark>>,
         reader' \in [End -> Readers], reader'[Peer(x)] = reader[Peer(x)],
         reader'[x].buf = reader[x].buf, reader'[x].got = reader[x].got,
         reader'[x].lpc # "report", reader'[x].hand = NoReport,
         Told(Peer(x))', Reading(x)'
  PROVE  StreamInv'
<1>1. PICK y : y = Peer(x)
  OBVIOUS
<1>2. y \in End /\ y # x /\ Peer(y) = x
  BY <1>1, PeerOf
<1>3. /\ port[x] \in Ports
      /\ Counted(x) /\ Chained(x) /\ Reported(x) /\ Told(x) /\ Reading(x) /\ Writing(x)
  BY EndOf
<1>4. Counted(y) /\ Chained(y) /\ Reported(y) /\ Told(y) /\ Reading(y) /\ Writing(y)
  BY <1>2, EndOf
<1>5. PICK r : r = LastReport(mark[y], flow[x].ackRxP)
  OBVIOUS
<1>6. IsReport(Report(r)) /\ Report(r) \in Items
  BY <1>2, <1>5, ReportOf
<1>7. PICK it : it = Report(r)
  OBVIOUS
<1>8. PICK s : s = port[x].wq
  OBVIOUS
<1>9. PICK u : u = port[x].wire
  OBVIOUS
<1>10. s \in Seq(Items) /\ u \in Seq(Items) /\ it \in Items /\ IsReport(it)
  BY <1>3, <1>6, <1>7, <1>8, <1>9 DEF Ports
<1>11. /\ q \in Ports /\ q.evq = port[x].evq
       /\ \/ s = << >> /\ q.wq = << >> /\ q.wire = Append(u, it)
          \/ q.wire = u /\ q.wq = Append(s, it) /\ (s # << >> \/ setup.full)
  <2>1. q \in SubmitResults(port[x], it)
    BY <1>1, <1>5, <1>7
  <2> QED
    BY <2>1, <1>3, <1>8, <1>9, <1>10, Submitted
<1>12. port'[x] = q /\ port'[y] = port[y] /\ port' \in [End -> Ports]
  BY <1>2, <1>11 DEF StreamInv, StreamType
<1>13. StreamType'
  BY <1>12 DEF StreamInv, StreamType
<1>14. /\ Counted(x)' /\ Counted(y)' /\ Chained(y)' /\ Reported(x)'
       /\ Told(x)' /\ Reading(y)' /\ Writing(y)'
  BY <1>1, <1>2, <1>3, <1>4, <1>11, <1>12, CountedFrame, ChainedFrame, ReportedFrame,
     ToldFrame, ReadingFrame, WritingFrame
<1>15. PICK b, c \in Nat :
         /\ Run(mark[x], port[y].evq, flow[y].rxP, b)
         /\ Run(mark[x], u, b, c)
         /\ Run(mark[x], s, c, Len(mark[x]))
  BY <1>1, <1>3, <1>8, <1>9 DEF Chained
<1>16. Run(mark[x], reader[y].buf, reader[y].got, flow[y].rxP)
  BY <1>1, <1>3 DEF Chained
<1>17. /\ Located(r, at, reader[x].lpc, reader[x].hand, reader[x].buf, s, u, port[y].evq)
       /\ flow[x].ackRxP # flow[y].ackTxP
  BY <1>1, <1>2, <1>5, <1>8, <1>9 DEF ReportAt
<1>18. /\ Holds(s, it, FALSE) /\ Holds(u, it, FALSE) /\ Holds(port[y].evq, it, FALSE)
       /\ Holds(reader[x].buf, it, FALSE)
  BY <1>7, <1>17 DEF Located
<1>19. CASE s = << >> /\ q.wq = << >> /\ q.wire = Append(u, it)
  <2>1. Run(mark[x], q.wire, b, c)
    BY <1>10, <1>15, <1>19, RunReport
  <2>2. Chained(x)'
    BY <2>1, <1>1, <1>12, <1>15, <1>16, <1>19 DEF Chained
  <2>3. Holds(q.wire, it, TRUE)
    BY <1>10, <1>18, <1>19, HoldsReport
  <2>4. Located(r, "wire", reader'[x].lpc, reader'[x].hand, reader'[x].buf,
                q.wq, q.wire, port[y].evq)
    BY <2>3, <1>7, <1>18, <1>19 DEF Located, Places
  <2>5. ReportAt(y, "wire")'
    BY <2>4, <1>2, <1>5, <1>12, <1>17 DEF ReportAt
  <2>6. Reported(y)'
    BY <2>5 DEF Reported, Places
  <2>7. Writing(x)'
    BY <1>3, <1>8, <1>12, <1>19, WritingFrame
  <2> QED
    BY <2>2, <2>6, <2>7, <1>1, <1>13, <1>14, Both
<1>20. CASE q.wire = u /\ q.wq = Append(s, it) /\ (s # << >> \/ setup.full)
  <2>1. Run(mark[x], q.wq, c, Len(mark[x]))
    <3>1. PICK n : n = Len(mark[x])
      OBVIOUS
    <3> QED
      BY <3>1, <1>10, <1>15, <1>20, RunReport
  <2>2. Chained(x)'
    BY <2>1, <1>1, <1>12, <1>15, <1>16, <1>20 DEF Chained
  <2>3. Holds(q.wq, it, TRUE)
    BY <1>10, <1>18, <1>20, HoldsReport
  <2>4. Located(r, "wq", reader'[x].lpc, reader'[x].hand, reader'[x].buf,
                q.wq, q.wire, port[y].evq)
    BY <2>3, <1>7, <1>18, <1>20 DEF Located, Places
  <2>5. ReportAt(y, "wq")'
    BY <2>4, <1>2, <1>5, <1>12, <1>17 DEF ReportAt
  <2>6. Reported(y)'
    BY <2>5 DEF Reported, Places
  <2>7. Pending(q.wq) = Pending(s)
    BY <1>10, <1>20, PendingReport
  <2>8. Writing(x)'
    <3>1. setup.full
      BY <1>3, <1>8, <1>20 DEF Writing
    <3> QED
      BY <3>1, <2>7, <1>3, <1>8, <1>12 DEF Writing, Locked
  <2> QED
    BY <2>2, <2>6, <2>8, <1>1, <1>13, <1>14, Both
<1> QED
  BY <1>11, <1>19, <1>20

\* Steps that touch the reader of x only.
LEMMA ReaderStep ==
  ASSUME StreamInv, NEW x \in End, NEW v \in Readers, reader' = [reader EXCEPT ![x] = v],
         UNCHANGED <<setup, flow, port, writer, mark>>,
         Chained(Peer(x))', Reported(Peer(x))', Told(Peer(x))', Reading(x)'
  PROVE  StreamInv'
<1>1. PICK y : y = Peer(x)
  OBVIOUS
<1>2. y \in End /\ y # x /\ Peer(y) = x
  BY <1>1, PeerOf
<1>3. Counted(x) /\ Chained(x) /\ Reported(x) /\ Told(x) /\ Reading(x) /\ Writing(x)
  BY EndOf
<1>4. Counted(y) /\ Chained(y) /\ Reported(y) /\ Told(y) /\ Reading(y) /\ Writing(y)
  BY <1>2, EndOf
<1>5. reader'[x] = v /\ reader'[y] = reader[y] /\ reader' \in [End -> Readers]
  BY <1>2 DEF StreamInv, StreamType
<1>6. StreamType'
  BY <1>5 DEF StreamInv, StreamType
<1>7. /\ Counted(x)' /\ Counted(y)' /\ Chained(x)' /\ Reported(x)'
      /\ Told(x)' /\ Reading(y)' /\ Writing(x)' /\ Writing(y)'
  BY <1>1, <1>2, <1>3, <1>4, <1>5, CountedFrame, ChainedFrame, ReportedFrame,
     ToldFrame, ReadingFrame, WritingFrame
<1> QED
  BY <1>1, <1>6, <1>7, Both

\* The listening task that gets a report, and may open the window, keeps the invariant.
LEMMA ReceiveReportKeeps ==
  ASSUME StreamInv, NEW x \in End, ReceiveReport(x) PROVE StreamInv'
<1>1. PICK y : y = Peer(x)
  OBVIOUS
<1>2. y \in End /\ y # x /\ Peer(y) = x
  BY <1>1, PeerOf
<1>3. flow[x] \in Counters /\ reader[x] \in Readers /\ Reading(x)
  BY EndOf
<1>4. Counted(y) /\ Chained(y) /\ Reported(y) /\ Told(y)
  BY <1>2, EndOf
<1>5. reader[x].lpc = "report" /\ UNCHANGED <<setup, flow, writer, mark>>
  BY DEF ReceiveReport
<1>6. PICK at \in Places : ReportAt(y, at)
  BY <1>4 DEF Reported
<1>7. PICK k : k = mark[y]
  OBVIOUS
<1>8. PICK rep : rep = flow[x].ackRxP
  OBVIOUS
<1>9. PICK r : r = LastReport(k, rep)
  OBVIOUS
<1>10. /\ Located(r, at, reader[x].lpc, reader[x].hand, reader[x].buf,
                  port[x].wq, port[x].wire, port[y].evq)
       /\ at = "none" <=> rep = flow[y].ackTxP
  BY <1>2, <1>6, <1>7, <1>8, <1>9 DEF ReportAt
<1>11. at = "due"
  BY <1>5, <1>10 DEF Located
<1>12. flow[x].rxP = Len(k) /\ rep = Len(k) /\ flow[x].rxB = At(k, Len(k))
  <2>1. /\ Marked(k) /\ Window(k, flow[x].rxP, rep, flow[y].ackTxP, flow[y].count)
        /\ flow[x].rxB = At(k, flow[x].rxP)
    BY <1>2, <1>4, <1>7, <1>8 DEF Counted
  <2>2. rep # flow[y].ackTxP
    BY <1>10, <1>11
  <2>3. flow[x].rxP = Len(k) /\ rep = Len(k)
    BY <2>1, <2>2, WindowAck
  <2> QED
    BY <2>1, <2>3
<1>13. GetReport(flow[x]) = r
  BY <1>9, <1>12 DEF GetReport, LastReport
<1>14. PICK it : it = Report(r)
  OBVIOUS
<1>15. it \in Items /\ IsReport(it)
  BY <1>2, <1>7, <1>8, <1>9, <1>14, ReportOf
<1>16. PICK u : u = reader[x].buf
  OBVIOUS
<1>17. u \in Seq(Items) /\ Run(k, u, reader[x].got, Len(k)) /\ reader[x].got \in Nat
  BY <1>2, <1>3, <1>4, <1>7, <1>12, <1>16 DEF Chained, Readers
<1>18. CASE u = << >>
  <2>1. reader' = [reader EXCEPT ![x].lpc = "idle"]
    BY <1>16, <1>18 DEF ReceiveReport
  <2>2. PICK q \in SubmitResults(port[x], it) : port' = [port EXCEPT ![x] = q]
    BY <1>13, <1>14, <1>16, <1>18 DEF ReceiveReport
  <2>3. /\ reader'[x].lpc = "idle" /\ reader'[x].buf = u /\ reader'[x].got = reader[x].got
        /\ reader'[x].waiting = reader[x].waiting /\ reader'[x].apc = reader[x].apc
        /\ reader'[x].hand = reader[x].hand
        /\ reader'[y] = reader[y] /\ reader' \in [End -> Readers]
    BY <2>1, <1>2, <1>3, <1>16 DEF StreamInv, StreamType, Readers
  <2>4. reader[x].hand = NoReport
    BY <1>10, <1>11 DEF Located
  <2>5. Reading(x)'
    BY <2>3, <1>3, <1>16, ReadingFrame
  <2>6. reader[x].got = Len(k)
    BY <1>17, <1>18, RunNone
  <2>7. Told(y)'
    <3>1. PICK T \in {0, 1} : T = Taking(x)
      BY DEF Taking
    <3>2. Taking(x)' = T
      BY <3>1, <2>3 DEF Taking
    <3>3. flow[y].ackTxP <= reader[x].got + T
      BY <3>1, <1>2, <1>4 DEF Told
    <3>4. rep <= reader[x].got + T
      BY <3>1, <2>6, <1>12, <1>17
    <3> QED
      BY <3>2, <3>3, <3>4, <2>3, <1>2, <1>5, <1>8 DEF Told
  <2>8. q \in SubmitResults(port[x], Report(LastReport(mark[Peer(x)], flow[x].ackRxP)))
    BY <2>2, <1>1, <1>7, <1>8, <1>9, <1>14
  <2>9. at \in {"due", "hand"} /\ ReportAt(Peer(x), at) /\ reader'[x].lpc # "report"
    BY <2>3, <1>1, <1>6, <1>11
  <2>10. port' = [port EXCEPT ![x] = q]
    BY <2>2
  <2>11. reader'[Peer(x)] = reader[Peer(x)] /\ reader'[x].buf = reader[x].buf /\ Told(Peer(x))'
    BY <2>3, <2>7, <1>1, <1>16
  <2> QED
    BY <2>3, <2>4, <2>5, <2>8, <2>9, <2>10, <2>11, <1>5, ReportSent
<1>19. CASE u # << >>
  <2>1. PICK t : t = Append(u, it)
    OBVIOUS
  <2>2. PICK v : v = [reader[x] EXCEPT !.lpc = "idle", !.buf = t]
    OBVIOUS
  <2>3. reader' = [reader EXCEPT ![x] = v] /\ port' = port
    BY <2>1, <2>2, <1>13, <1>14, <1>16, <1>19 DEF ReceiveReport, StreamInv, StreamType
  <2>4. t \in Seq(Items) /\ t # << >> /\ t[1] = u[1] /\ Len(t) = Len(u) + 1 /\ t[Len(t)] = it
        /\ Len(t) \in DOMAIN t
    BY <2>1, <1>15, <1>17, <1>19
  <2>5. /\ v \in Readers /\ v.lpc = "idle" /\ v.buf = t /\ v.got = reader[x].got
        /\ v.waiting = reader[x].waiting /\ v.apc = reader[x].apc /\ v.hand = reader[x].hand
    BY <2>2, <2>4, <1>3 DEF Readers
  <2>6. reader'[x] = v
    BY <2>3 DEF StreamInv, StreamType
  <2>7. Run(k, t, reader[x].got, Len(k))
    <3>1. PICK n : n = Len(k)
      OBVIOUS
    <3> QED
      BY <3>1, <2>1, <1>15, <1>17, RunReport
  <2>8. Chained(y)'
    <3>1. \E b, c \in Nat :
             /\ Run(k, port[x].evq, flow[x].rxP, b)
             /\ Run(k, port[y].wire, b, c)
             /\ Run(k, port[y].wq, c, Len(k))
      BY <1>2, <1>4, <1>7 DEF Chained
    <3> QED
      BY <3>1, <2>3, <2>5, <2>6, <2>7, <1>2, <1>5, <1>7, <1>12 DEF Chained
  <2>9. Holds(t, it, TRUE)
    <3>1. Holds(u, it, FALSE)
      BY <1>10, <1>11, <1>14, <1>16 DEF Located
    <3> QED
      BY <3>1, <2>1, <1>15, <1>17, HoldsReport
  <2>10. Located(r, "buf", v.lpc, v.hand, v.buf, port[x].wq, port[x].wire, port[y].evq)
    BY <2>4, <2>5, <2>9, <1>10, <1>11, <1>14, <1>15 DEF Located, Places
  <2>11. ReportAt(y, "buf")'
    BY <2>3, <2>6, <2>10, <1>2, <1>5, <1>7, <1>8, <1>9, <1>10, <1>11 DEF ReportAt
  <2>12. Reported(y)'
    BY <2>11 DEF Reported, Places
  <2>13. Told(y)'
    <3>1. \E i \in DOMAIN t : IsReport(t[i])
      BY <2>4, <1>15
    <3>2. flow[y].ackTxP <= reader[x].got + Taking(x)
      BY <1>2, <1>4 DEF Told
    <3> QED
      BY <3>1, <3>2, <2>5, <2>6, <1>2, <1>5 DEF Told, Taking
  <2>14. Reading(x)'
    BY <2>4, <2>5, <2>6, <1>3, <1>16, <1>19 DEF Reading
  <2> QED
    BY <2>3, <2>5, <2>8, <2>12, <2>13, <2>14, <1>1, <1>5, ReaderStep
<1> QED
  BY <1>18, <1>19

\* A read task that sends the report it holds keeps the invariant.
LEMMA SendProgressKeeps ==
  ASSUME StreamInv, NEW x \in End, SendProgress(x) PROVE StreamInv'
<1>1. PICK y : y = Peer(x)
  OBVIOUS
<1>2. y \in End /\ y # x /\ Peer(y) = x
  BY <1>1, PeerOf
<1>3. reader[x] \in Readers /\ Reading(x)
  BY EndOf
<1>4. Reported(y) /\ Told(y)
  BY <1>2, EndOf
<1>5. reader[x].apc \in {"retry", "take"} /\ reader[x].hand # NoReport
      /\ UNCHANGED <<setup, flow, writer, mark>>
  BY DEF SendProgress
<1>6. PICK at \in Places : ReportAt(y, at)
  BY <1>4 DEF Reported
<1>7. PICK r : r = LastReport(mark[y], flow[x].ackRxP)
  OBVIOUS
<1>8. Located(r, at, reader[x].lpc, reader[x].hand, reader[x].buf,
              port[x].wq, port[x].wire, port[y].evq)
  BY <1>2, <1>6, <1>7 DEF ReportAt
<1>9. at = "hand" /\ reader[x].hand = r /\ reader[x].lpc # "report"
  BY <1>5, <1>8 DEF Located
<1>10. PICK q \in SubmitResults(port[x], Report(r)) : port' = [port EXCEPT ![x] = q]
  BY <1>9 DEF SendProgress
<1>11. PICK a : a = IF reader[x].apc = "retry" THEN "idle" ELSE reader[x].apc
  OBVIOUS
<1>12. reader' = [reader EXCEPT ![x].hand = NoReport, ![x].apc = a]
  BY <1>11 DEF SendProgress
<1>13. NoReport \in [b : Nat, p : Nat] /\ a \in {"idle", "take"}
       /\ (a = "take" <=> reader[x].apc = "take")
  BY <1>5, <1>11 DEF NoReport
<1>14. /\ reader'[x].lpc = reader[x].lpc /\ reader'[x].buf = reader[x].buf
       /\ reader'[x].got = reader[x].got /\ reader'[x].waiting = reader[x].waiting
       /\ reader'[x].apc = a /\ reader'[x].hand = NoReport
       /\ reader'[y] = reader[y] /\ reader' \in [End -> Readers]
  BY <1>2, <1>3, <1>12, <1>13 DEF StreamInv, StreamType, Readers
<1>15. Reading(x)'
  BY <1>3, <1>5, <1>13, <1>14 DEF Reading
<1>16. Told(y)'
  <2>1. Taking(x)' = Taking(x)
    BY <1>13, <1>14 DEF Taking
  <2> QED
    BY <2>1, <1>2, <1>4, <1>5, <1>14 DEF Told
<1>17. /\ q \in SubmitResults(port[x], Report(LastReport(mark[Peer(x)], flow[x].ackRxP)))
       /\ port' = [port EXCEPT ![x] = q] /\ at \in {"due", "hand"} /\ ReportAt(Peer(x), at)
       /\ reader'[Peer(x)] = reader[Peer(x)] /\ reader'[x].lpc # "report" /\ Told(Peer(x))'
  BY <1>1, <1>6, <1>7, <1>9, <1>10, <1>14, <1>16
<1> QED
  BY <1>5, <1>14, <1>15, <1>17, ReportSent

\* What the report that x waits for does to its counters.
LEMMA ProgressEffect ==
  ASSUME StreamInv, NEW x \in End, Progress(x)
  PROVE  /\ flow[Peer(x)].ackRxP # flow[x].ackTxP /\ UNCHANGED mark
         /\ flow' = [flow EXCEPT ![x] =
              [flow[x] EXCEPT !.ackTxB = At(mark[x], flow[Peer(x)].ackRxP),
                              !.ackTxP = flow[Peer(x)].ackRxP, !.count = 0]]
<1>1. PICK y : y = Peer(x)
  OBVIOUS
<1>2. y \in End /\ y # x /\ Peer(y) = x
  BY <1>1, PeerOf
<1>3. flow[x] \in Counters /\ port[x] \in Ports /\ Counted(x) /\ Reported(x)
  BY EndOf
<1>5. PICK s : s = port[x].evq
  OBVIOUS
<1>7. PICK it : it = s[1]
  OBVIOUS
<1>8. s \in Seq(Items) /\ s # << >> /\ Head(s) = it /\ IsReport(it) /\ UNCHANGED mark
  BY <1>3, <1>5, <1>7 DEF Progress, Ports
<1>10. PICK f : f = OnFCReport(flow[x], it)
  OBVIOUS
<1>12. flow' = [flow EXCEPT ![x] = f]
  BY <1>5, <1>8, <1>10 DEF Progress
<1>13. PICK k : k = mark[x]
  OBVIOUS
<1>14. PICK rep : rep = flow[y].ackRxP
  OBVIOUS
<1>15. PICK ack : ack = flow[x].ackTxP
  OBVIOUS
<1>16. PICK r : r = LastReport(k, rep)
  OBVIOUS
<1>17. PICK at \in Places : ReportAt(x, at)
  BY <1>3 DEF Reported
<1>18. Holds(s, Report(r), at = "evq") /\ (at = "none" <=> rep = ack)
  BY <1>1, <1>5, <1>13, <1>14, <1>15, <1>16, <1>17 DEF ReportAt, Located
<1>20. 1 \in DOMAIN s /\ IsReport(s[1])
  BY <1>7, <1>8
<1>21. at = "evq"
  BY <1>18, <1>20 DEF Holds
<1>22. it = Report(r)
  <2>1. Holds(s, Report(r), TRUE)
    BY <1>18, <1>21
  <2> QED
    BY <2>1, <1>7, <1>8, <1>20, HoldsHead
<1>23. it.b = At(k, rep) /\ it.p = rep
  BY <1>16, <1>22 DEF Report, LastReport
<1>24. /\ Marked(k) /\ flow[x].txP = Len(k) /\ flow[x].txB = At(k, Len(k))
       /\ flow[x].ackTxB = At(k, ack)
       /\ flow[y].rxB = At(k, flow[y].rxP) /\ flow[y].ackRxB = At(k, rep)
       /\ Window(k, flow[y].rxP, rep, ack, flow[x].count)
  BY <1>1, <1>3, <1>13, <1>14, <1>15 DEF Counted
<1>25. /\ rep = Len(k) /\ flow[x].count = 1 /\ ack < rep
       /\ Fills(k, ack, Len(k)) /\ ~Fills(k, Len(k), Len(k))
       /\ Window(k, flow[y].rxP, rep, rep, 0)
  BY <1>18, <1>21, <1>24, WindowAck
<1>26. Len(k) \in Nat /\ rep \in 0..Len(k) /\ ack \in 0..Len(k) /\ Len(k) \in 0..Len(k)
  BY <1>1, <1>13, <1>14, <1>15, <1>25, ReportOf
<1>27. At(k, ack) < At(k, rep) /\ At(k, ack) \in Nat /\ At(k, rep) \in Nat
  <2>1. At(k, ack) \in Nat /\ At(k, rep) \in Nat
    BY <1>24, <1>26, AtType
  <2> QED
    BY <2>1, <1>24, <1>25, <1>26 DEF Marked
<1>28. ~Stale(flow[x], it)
  <2>1. ~(At(k, rep) <= At(k, ack)) /\ ~(rep <= ack)
    BY <1>25, <1>26, <1>27
  <2> QED
    BY <2>1, <1>15, <1>23, <1>24 DEF Stale
<1>29. Below(flow[x], it) = TRUE
  <2>1. Above(At(k, Len(k)), Len(k), At(k, ack), ack) <=> TRUE
    BY <1>24, <1>25, <1>26, AboveFills
  <2>2. Above(At(k, Len(k)), Len(k), At(k, rep), rep) <=> FALSE
    BY <1>24, <1>25, <1>26, AboveFills
  <2>3. /\ Above(At(k, Len(k)), Len(k), At(k, ack), ack) \in BOOLEAN
        /\ Above(At(k, Len(k)), Len(k), At(k, rep), rep) \in BOOLEAN
    BY DEF Above
  <2>4. Below(flow[x], it) = (Above(At(k, Len(k)), Len(k), At(k, ack), ack)
                                # Above(At(k, Len(k)), Len(k), At(k, rep), rep))
    BY <1>15, <1>23, <1>24 DEF Below
  <2> QED
    BY <2>1, <2>2, <2>3, <2>4, Zenon
<1>30. f = [flow[x] EXCEPT !.ackTxB = At(k, rep), !.ackTxP = rep, !.count = 0]
  <2>1. f = [flow[x] EXCEPT !.ackTxB = it.b, !.ackTxP = it.p, !.count = @ - 1]
    BY <1>10, <1>28, <1>29 DEF OnFCReport
  <2> QED
    BY <2>1, <1>23, <1>25
<1> QED
  BY <1>1, <1>8, <1>12, <1>13, <1>14, <1>15, <1>18, <1>21, <1>30

\* The listening task that makes a report keeps the invariant.
LEMMA ProgressKeeps ==
  ASSUME StreamInv, NEW x \in End, Progress(x) PROVE StreamInv'
<1>1. PICK y : y = Peer(x)
  OBVIOUS
<1>2. y \in End /\ y # x /\ Peer(y) = x
  BY <1>1, PeerOf
<1>3. /\ flow[x] \in Counters /\ port[x] \in Ports /\ reader[x] \in Readers
      /\ Counted(x) /\ Chained(x) /\ Reported(x) /\ Told(x) /\ Reading(x) /\ Writing(x)
  BY EndOf
<1>4. Counted(y) /\ Chained(y) /\ Reported(y) /\ Told(y) /\ Reading(y) /\ Writing(y)
  BY <1>2, EndOf
<1>5. PICK s : s = port[x].evq
  OBVIOUS
<1>6. PICK t : t = Tail(s)
  OBVIOUS
<1>7. PICK it : it = s[1]
  OBVIOUS
<1>8. /\ s \in Seq(Items) /\ s # << >> /\ Head(s) = it /\ IsReport(it) /\ reader[x].lpc = "idle"
      /\ UNCHANGED <<setup, writer, mark>>
  BY <1>3, <1>5, <1>7 DEF Progress, Ports
<1>9. t \in Seq(Items)
  BY <1>6, <1>8
<1>10. PICK f : f = OnFCReport(flow[x], it)
  OBVIOUS
<1>11. PICK l : l = IF Lifts(flow[x], it) THEN "lift" ELSE "idle"
  OBVIOUS
<1>12. /\ port' = [port EXCEPT ![x].evq = t] /\ flow' = [flow EXCEPT ![x] = f]
       /\ reader' = [reader EXCEPT ![x].lpc = l]
  <2>1. port' = [port EXCEPT ![x].evq = t]
    BY <1>5, <1>6 DEF Progress
  <2>2. flow' = [flow EXCEPT ![x] = f]
    BY <1>5, <1>8, <1>10 DEF Progress
  <2>3. reader' = [reader EXCEPT ![x].lpc = l]
    BY <1>5, <1>8, <1>11 DEF Progress
  <2> QED
    BY <2>1, <2>2, <2>3
\* the report is the one that x waits for
<1>13. PICK k : k = mark[x]
  OBVIOUS
<1>14. PICK rep : rep = flow[y].ackRxP
  OBVIOUS
<1>15. PICK ack : ack = flow[x].ackTxP
  OBVIOUS
<1>16. PICK r : r = LastReport(k, rep)
  OBVIOUS
<1>17. PICK at \in Places : ReportAt(x, at)
  BY <1>3 DEF Reported
<1>18. /\ Located(r, at, reader[y].lpc, reader[y].hand, reader[y].buf,
                  port[y].wq, port[y].wire, s)
       /\ at = "none" <=> rep = ack
  BY <1>1, <1>5, <1>13, <1>14, <1>15, <1>16, <1>17 DEF ReportAt
<1>19. Holds(s, Report(r), at = "evq")
  BY <1>18 DEF Located
<1>20. 1 \in DOMAIN s /\ IsReport(s[1])
  BY <1>7, <1>8
<1>21. at = "evq"
  BY <1>19, <1>20 DEF Holds
<1>22. Holds(t, Report(r), FALSE)
  <2>1. Holds(s, Report(r), TRUE)
    BY <1>19, <1>21
  <2> QED
    BY <2>1, <1>6, <1>7, <1>8, <1>20, HoldsHead
<1>24. /\ Marked(k) /\ flow[x].txP = Len(k) /\ flow[x].txB = At(k, Len(k))
       /\ flow[y].rxB = At(k, flow[y].rxP) /\ flow[y].ackRxB = At(k, rep)
       /\ Window(k, flow[y].rxP, rep, ack, flow[x].count)
  BY <1>1, <1>3, <1>13, <1>14, <1>15 DEF Counted
<1>25. Window(k, flow[y].rxP, rep, rep, 0)
  BY <1>18, <1>21, <1>24, WindowAck
<1>26. At(k, rep) \in Nat /\ rep \in Nat
  <2>1. rep \in 0..Len(k)
    BY <1>1, <1>13, <1>14, ReportOf
  <2> QED
    BY <2>1, <1>24, AtType
<1>30. f = [flow[x] EXCEPT !.ackTxB = At(k, rep), !.ackTxP = rep, !.count = 0]
  <2>1. PICK g : g = [flow[x] EXCEPT !.ackTxB = At(k, rep), !.ackTxP = rep, !.count = 0]
    OBVIOUS
  <2>2. flow' = [flow EXCEPT ![x] = g]
    <3>1. flow' = [flow EXCEPT ![x] =
            [flow[x] EXCEPT !.ackTxB = At(mark[x], flow[Peer(x)].ackRxP),
                            !.ackTxP = flow[Peer(x)].ackRxP, !.count = 0]]
      BY ProgressEffect, Zenon
    <3> QED
      BY <3>1, <2>1, <1>1, <1>13, <1>14
  <2>3. flow'[x] = g /\ flow'[x] = f
    BY <2>2, <1>12 DEF StreamInv, StreamType
  <2> QED
    BY <2>1, <2>3
<1>31. /\ f \in Counters /\ f.txB = flow[x].txB /\ f.txP = flow[x].txP
       /\ f.ackTxB = At(k, rep) /\ f.ackTxP = rep /\ f.count = 0
       /\ f.rxB = flow[x].rxB /\ f.rxP = flow[x].rxP
       /\ f.ackRxB = flow[x].ackRxB /\ f.ackRxP = flow[x].ackRxP
  BY <1>3, <1>26, <1>30 DEF Counters
<1>32. l \in {"idle", "lift"}
  BY <1>11
<1>33. /\ flow'[x] = f /\ flow'[y] = flow[y] /\ reader'[y] = reader[y]
       /\ flow' \in [End -> Counters]
  BY <1>2, <1>12, <1>31 DEF StreamInv, StreamType
<1>34. /\ reader'[x].lpc = l /\ reader'[x].buf = reader[x].buf /\ reader'[x].got = reader[x].got
       /\ reader'[x].waiting = reader[x].waiting /\ reader'[x].apc = reader[x].apc
       /\ reader'[x].hand = reader[x].hand /\ reader' \in [End -> Readers]
  BY <1>3, <1>12, <1>32 DEF StreamInv, StreamType, Readers
<1>35. /\ port'[x].evq = t /\ port'[x].wq = port[x].wq /\ port'[x].wire = port[x].wire
       /\ port'[y] = port[y] /\ port' \in [End -> Ports]
  BY <1>2, <1>3, <1>9, <1>12 DEF StreamInv, StreamType, Ports
<1>36. StreamType'
  BY <1>8, <1>33, <1>34, <1>35 DEF StreamInv, StreamType
<1>37. Counted(x)'
  BY <1>1, <1>8, <1>13, <1>14, <1>24, <1>25, <1>31, <1>33 DEF Counted
<1>38. Counted(y)'
  BY <1>2, <1>4, <1>8, <1>31, <1>33, CountedKept
<1>39. Chained(x)'
  BY <1>1, <1>3, <1>8, <1>33, <1>35, ChainedFrame
<1>40. Chained(y)'
  <2>1. PICK b, c \in Nat :
           /\ Run(mark[y], s, flow[x].rxP, b)
           /\ Run(mark[y], port[y].wire, b, c)
           /\ Run(mark[y], port[y].wq, c, Len(mark[y]))
    BY <1>2, <1>4, <1>5 DEF Chained
  <2>2. /\ Len(t) = Len(s) - 1
        /\ \A i \in DOMAIN t : t[i] = IF i < 1 THEN s[i] ELSE s[i + 1]
    BY <1>6, <1>8, TailElements
  <2>3. Run(mark[y], t, flow[x].rxP, b)
    BY <2>1, <2>2, <1>8, <1>9, <1>20, RunDrop
  <2>4. Run(mark[y], reader[x].buf, reader[x].got, flow[x].rxP)
    BY <1>2, <1>4 DEF Chained
  <2> QED
    BY <2>1, <2>3, <2>4, <1>2, <1>8, <1>31, <1>33, <1>34, <1>35 DEF Chained
<1>41. Reported(x)'
  <2>1. Located(r, "none", reader[y].lpc, reader[y].hand, reader[y].buf,
                port[y].wq, port[y].wire, t)
    BY <1>18, <1>21, <1>22 DEF Located, Places
  <2>2. ReportAt(x, "none")'
    BY <2>1, <1>1, <1>8, <1>13, <1>14, <1>16, <1>31, <1>33, <1>35 DEF ReportAt
  <2> QED
    BY <2>2 DEF Reported, Places
<1>42. Reported(y)' /\ Told(y)'
  <2>1. reader'[x].lpc = "report" <=> reader[x].lpc = "report"
    BY <1>8, <1>32, <1>34
  <2> QED
    BY <2>1, <1>2, <1>4, <1>8, <1>31, <1>33, <1>34, <1>35, ReportedFrame, ToldFrame
<1>43. Told(x)'
  <2>1. reader[y].lpc # "report" /\ \A i \in DOMAIN reader[y].buf : ~IsReport(reader[y].buf[i])
    BY <1>18, <1>21 DEF Located, Holds
  <2>2. rep <= reader[y].got + Taking(y)
    BY <2>1, <1>1, <1>3, <1>14 DEF Told
  <2> QED
    BY <2>2, <1>1, <1>14, <1>31, <1>33 DEF Told, Taking
<1>44. Reading(x)' /\ Reading(y)'
  BY <1>2, <1>3, <1>4, <1>33, <1>34, ReadingFrame
<1>45. Writing(x)'
  BY <1>3, <1>8, <1>31, <1>33, <1>35 DEF Writing, Locked
<1>46. Writing(y)'
  BY <1>2, <1>4, <1>8, <1>33, <1>35, WritingFrame
<1> QED
  BY <1>1, <1>36, <1>37, <1>38, <1>39, <1>40, <1>41, <1>42, <1>43, <1>44, <1>45, <1>46, Both

-----------------------------------------------------------------------------
(* The application reads.                                                  *)

\* A packet that the application takes keeps the invariant.
LEMMA TakePacketKeeps ==
  ASSUME StreamInv, NEW x \in End, reader[x].buf # << >>, ~IsReport(reader[x].buf[1]),
         reader[x].hand = NoReport, reader' = [reader EXCEPT ![x] = TakePacket(reader[x])],
         UNCHANGED <<setup, flow, writer, port, mark>>
  PROVE  StreamInv'
<1>1. PICK y : y = Peer(x)
  OBVIOUS
<1>2. y \in End /\ y # x /\ Peer(y) = x
  BY <1>1, PeerOf
<1>3. reader[x] \in Readers /\ Reading(x)
  BY EndOf
<1>4. Counted(y) /\ Chained(y) /\ Reported(y) /\ Told(y)
  BY <1>2, EndOf
<1>5. PICK s : s = reader[x].buf
  OBVIOUS
<1>6. PICK t : t = Tail(s)
  OBVIOUS
<1>7. s \in Seq(Items) /\ s # << >> /\ ~IsReport(s[1]) /\ t \in Seq(Items)
  BY <1>3, <1>5, <1>6 DEF Readers
<1>8. PICK v : v = TakePacket(reader[x])
  OBVIOUS
<1>9. PICK g : g = reader[x].got
  OBVIOUS
<1>10. g \in Nat /\ reader[x].waiting = FALSE
  BY <1>3, <1>5, <1>7, <1>9 DEF Readers, Reading
<1>11. /\ v \in Readers /\ v.apc = "idle" /\ v.buf = t /\ v.got = g + 1 /\ v.lpc = reader[x].lpc
       /\ v.hand = NoReport /\ v.waiting = FALSE
  <2>1. PICK z \in BOOLEAN :
          z = (reader[x].stopped
                 /\ ~(WithinLimit(t) /\ (setup.read = "msg" \/ ~WithinLimit(s))))
    BY <1>3 DEF Readers
  <2>2. PICK n : n = g + 1
    OBVIOUS
  <2>3. v = [reader[x] EXCEPT !.apc = "idle", !.buf = t, !.got = n, !.stopped = z]
    BY <2>1, <2>2, <1>5, <1>6, <1>8, <1>9 DEF TakePacket
  <2>4. n \in Nat
    BY <2>2, <1>10
  <2> QED
    BY <2>2, <2>3, <2>4, <1>3, <1>7, <1>10 DEF Readers
<1>12. reader' = [reader EXCEPT ![x] = v] /\ reader'[x] = v
  BY <1>8 DEF StreamInv, StreamType
<1>13. Run(mark[y], t, g + 1, flow[x].rxP)
  <2>1. Run(mark[y], s, g, flow[x].rxP)
    BY <1>2, <1>4, <1>5, <1>9 DEF Chained
  <2> QED
    BY <2>1, <1>6, <1>7, RunTail
<1>14. Chained(y)'
  <2>1. \E b, c \in Nat :
           /\ Run(mark[y], port[x].evq, flow[x].rxP, b)
           /\ Run(mark[y], port[y].wire, b, c)
           /\ Run(mark[y], port[y].wq, c, Len(mark[y]))
    BY <1>2, <1>4 DEF Chained
  <2> QED
    BY <2>1, <1>2, <1>11, <1>12, <1>13 DEF Chained
<1>15. PICK at \in Places : ReportAt(y, at)
  BY <1>4 DEF Reported
<1>16. PICK r : r = LastReport(mark[y], flow[x].ackRxP)
  OBVIOUS
<1>17. /\ Located(r, at, reader[x].lpc, reader[x].hand, s, port[x].wq, port[x].wire, port[y].evq)
       /\ at = "none" <=> flow[x].ackRxP = flow[y].ackTxP
  BY <1>2, <1>5, <1>15, <1>16 DEF ReportAt
<1>18. PICK h \in BOOLEAN : h = (at = "buf")
  OBVIOUS
<1>19. Holds(s, Report(r), h) /\ (h => IsReport(s[Len(s)]))
  BY <1>17, <1>18 DEF Located
<1>20. IsReport(Report(r))
  BY <1>2, <1>16, ReportOf
<1>21. Holds(t, Report(r), h)
  BY <1>6, <1>7, <1>19, <1>20, HoldsTail
<1>22. h => IsReport(t[Len(t)])
  <2> SUFFICES ASSUME h PROVE IsReport(t[Len(t)])
    OBVIOUS
  <2>1. PICK n \in Nat : n = Len(s)
    BY <1>7
  <2>2. n # 1
    BY <2>1, <1>7, <1>19
  <2>3. n # 0
    BY <2>1, <1>7, EmptySeq
  <2>4. Len(t) = n - 1 /\ n - 1 \in 1..(n - 1) /\ n - 1 + 1 = n
    BY <2>1, <2>2, <2>3, <1>6, <1>7
  <2>5. t[n - 1] = s[n]
    BY <2>1, <2>4, <1>6, <1>7
  <2> QED
    BY <2>1, <2>4, <2>5, <1>19
<1>23. Reported(y)'
  <2>1. Located(r, at, v.lpc, v.hand, v.buf, port[x].wq, port[x].wire, port[y].evq)
    BY <1>11, <1>17, <1>18, <1>21, <1>22 DEF Located
  <2>2. ReportAt(y, at)'
    BY <2>1, <1>2, <1>12, <1>16, <1>17 DEF ReportAt
  <2> QED
    BY <2>2 DEF Reported
<1>24. Told(y)'
  <2>1. PICK T \in {0, 1} : T = Taking(x)
    BY DEF Taking
  <2>2. Taking(x)' = 0
    BY <1>11, <1>12 DEF Taking
  <2>3. flow[y].ackTxP \in Nat /\ flow[x].ackRxP \in Nat
    BY <1>2, ReportOf
  <2>4. flow[y].ackTxP <= v.got + 0
    <3>1. flow[y].ackTxP <= g + T
      BY <2>1, <1>2, <1>4, <1>9 DEF Told
    <3> QED
      BY <3>1, <2>1, <2>3, <1>10, <1>11
  <2>5. \/ flow[x].ackRxP <= g + T
        \/ reader[x].lpc = "report"
        \/ \E i \in DOMAIN s : IsReport(s[i])
    BY <2>1, <1>2, <1>4, <1>5, <1>9 DEF Told
  <2>6. CASE flow[x].ackRxP <= g + T
    <3>1. flow[x].ackRxP <= v.got + 0
      BY <2>1, <2>3, <2>6, <1>10, <1>11
    <3> QED
      BY <3>1, <2>2, <2>4, <1>2, <1>12 DEF Told
  <2>7. CASE reader[x].lpc = "report"
    BY <2>2, <2>4, <2>7, <1>2, <1>11, <1>12 DEF Told
  <2>8. CASE \E i \in DOMAIN s : IsReport(s[i])
    <3>1. PICK i \in DOMAIN s : IsReport(s[i])
      BY <2>8
    <3>2. i # 1
      BY <3>1, <1>7
    <3>3. i - 1 \in DOMAIN t /\ t[i - 1] = s[i]
      BY <3>2, <1>6, <1>7
    <3>4. \E j \in DOMAIN v.buf : IsReport(v.buf[j])
      BY <3>1, <3>3, <1>11
    <3> QED
      BY <3>4, <2>2, <2>4, <1>2, <1>12 DEF Told
  <2> QED
    BY <2>5, <2>6, <2>7, <2>8
<1>25. Reading(x)'
  BY <1>11, <1>12 DEF Reading
<1> QED
  BY <1>1, <1>11, <1>12, <1>14, <1>23, <1>24, <1>25, ReaderStep

\* A read that goes on to take its packet keeps the invariant.
LEMMA TakeKeeps ==
  ASSUME StreamInv, NEW x \in End, Take(x) PROVE StreamInv'
<1>1. reader[x].buf # << >> /\ ~IsReport(reader[x].buf[1])
  BY EndOf DEF Take, Reading
<1> QED
  BY <1>1, TakePacketKeeps DEF Take

\* Queue t is s without its element m.
Without(s, m, t) ==
  /\ m \in DOMAIN s /\ t \in Seq(Items) /\ Len(t) = Len(s) - 1
  /\ \A i \in DOMAIN t : t[i] = IF i < m THEN s[i] ELSE s[i + 1]

\* The report in the buffer, at the head or behind it, is the last of it.
LEMMA HandKeeps ==
  ASSUME StreamInv, NEW x \in End, NEW m \in {1, 2},
         Without(reader[x].buf, m, reader'[x].buf), IsReport(reader[x].buf[m]),
         m = 2 => ~IsReport(reader[x].buf[1]),
         NEW v \in Readers, reader' = [reader EXCEPT ![x] = v],
         m = 1 => v.apc = "retry", m = 2 => v.apc = "take",
         v.hand = [b |-> reader[x].buf[m].b, p |-> reader[x].buf[m].p],
         v.waiting = FALSE, v.lpc = reader[x].lpc, v.got = reader[x].got,
         UNCHANGED <<setup, flow, writer, port, mark>>
  PROVE  StreamInv'
<1>1. PICK y : y = Peer(x)
  OBVIOUS
<1>2. y \in End /\ y # x /\ Peer(y) = x
  BY <1>1, PeerOf
<1>0. PICK s, t : s = reader[x].buf /\ t = v.buf
  OBVIOUS
<1>20. reader'[x] = v
  BY DEF StreamInv, StreamType
<1>3. /\ reader[x] \in Readers /\ Reading(x) /\ s \in Seq(Items)
      /\ IsReport(s[m]) /\ (m = 2 => ~IsReport(s[1]))
  BY <1>0, EndOf DEF Readers
<1>30. /\ m \in DOMAIN s /\ t \in Seq(Items) /\ Len(t) = Len(s) - 1
       /\ \A i \in DOMAIN t : t[i] = IF i < m THEN s[i] ELSE s[i + 1]
  BY <1>0, <1>20 DEF Without
<1>4. Counted(y) /\ Chained(y) /\ Reported(y) /\ Told(y)
  BY <1>2, EndOf
<1>5. PICK at \in Places : ReportAt(y, at)
  BY <1>4 DEF Reported
<1>6. PICK r : r = LastReport(mark[y], flow[x].ackRxP)
  OBVIOUS
<1>7. /\ Located(r, at, reader[x].lpc, reader[x].hand, s, port[x].wq, port[x].wire, port[y].evq)
      /\ at = "none" <=> flow[x].ackRxP = flow[y].ackTxP
  BY <1>0, <1>2, <1>5, <1>6 DEF ReportAt
<1>8. Holds(s, Report(r), at = "buf")
  BY <1>7 DEF Located
<1>9. at = "buf"
  BY <1>3, <1>8, <1>30 DEF Holds
<1>10. PICK i \in DOMAIN s : s[i] = Report(r) /\ \A j \in DOMAIN s : IsReport(s[j]) => j = i
  BY <1>8, <1>9 DEF Holds
<1>11. i = m /\ IsReport(s[Len(s)])
  BY <1>3, <1>7, <1>9, <1>10, <1>30 DEF Located
<1>12. PICK n \in Nat : n = Len(s)
  BY <1>3
<1>13. n = m
  <2>1. n \in DOMAIN s
    BY <1>3, <1>12
  <2> QED
    BY <2>1, <1>10, <1>11, <1>12
<1>14. s[m] = Report(r) /\ r \in [b : Nat, p : Nat]
  BY <1>2, <1>6, <1>10, <1>11, ReportOf
<1>15. [b |-> s[m].b, p |-> s[m].p] = r
  BY <1>14, ReportType
<1>19. v.hand = r /\ v.buf = t
  BY <1>0, <1>15
<1>21. Run(mark[y], t, reader[x].got, flow[x].rxP)
  <2>1. Run(mark[y], s, reader[x].got, flow[x].rxP)
    BY <1>0, <1>2, <1>4 DEF Chained
  <2> QED
    BY <2>1, <1>3, <1>30, RunDrop
<1>22. Chained(y)'
  <2>1. \E b, c \in Nat :
           /\ Run(mark[y], port[x].evq, flow[x].rxP, b)
           /\ Run(mark[y], port[y].wire, b, c)
           /\ Run(mark[y], port[y].wq, c, Len(mark[y]))
    BY <1>2, <1>4 DEF Chained
  <2> QED
    BY <2>1, <1>2, <1>19, <1>20, <1>21 DEF Chained
<1>23. Holds(t, Report(r), FALSE)
  <2>1. PICK h \in BOOLEAN : h = TRUE
    OBVIOUS
  <2>2. Holds(s, Report(r), h)
    BY <2>1, <1>8, <1>9
  <2>3. ASSUME NEW j \in DOMAIN t PROVE ~IsReport(t[j])
    <3>1. j \in 1..(n - 1)
      BY <2>3, <1>12, <1>30
    <3>2. j < m /\ j # m /\ j \in DOMAIN s
      BY <3>1, <1>3, <1>12, <1>13
    <3> QED
      BY <3>2, <1>10, <1>11, <1>30
  <2> QED
    BY <2>3 DEF Holds
<1>24. reader[x].lpc # "report" /\ flow[x].ackRxP # flow[y].ackTxP /\ r # NoReport
  <2>1. reader[x].lpc # "report" /\ flow[x].ackRxP # flow[y].ackTxP
    BY <1>7, <1>9 DEF Located
  <2>2. flow[x].ackRxP # 0
    <3>1. Window(mark[y], flow[x].rxP, flow[x].ackRxP, flow[y].ackTxP, flow[y].count)
      BY <1>2, <1>4 DEF Counted
    <3>2. flow[y].ackTxP \in 0..flow[x].ackRxP
      BY <3>1 DEF Window
    <3> QED
      BY <3>2, <2>1
  <2> QED
    BY <2>1, <2>2, <1>6 DEF LastReport, NoReport
<1>25. Reported(y)'
  <2>1. Located(r, "hand", v.lpc, v.hand, v.buf, port[x].wq, port[x].wire, port[y].evq)
    BY <1>7, <1>9, <1>19, <1>23, <1>24 DEF Located, Places
  <2>2. ReportAt(y, "hand")'
    BY <2>1, <1>2, <1>6, <1>20, <1>24 DEF ReportAt
  <2> QED
    BY <2>2 DEF Reported, Places
<1>26. /\ m = 1 => t = << >>
       /\ m = 2 => t # << >> /\ Tail(t) = << >> /\ ~IsReport(t[1])
  <2>1. CASE m = 1
    <3>1. PICK l \in Nat : l = Len(t)
      BY <1>30
    <3>2. l = n - 1
      BY <3>1, <1>12, <1>30
    <3>3. l = 0
      BY <3>2, <2>1, <1>13
    <3>4. Len(t) = 0
      BY <3>1, <3>3
    <3> QED
      BY <2>1, <3>4, <1>30, EmptySeq
  <2>2. CASE m = 2
    <3>1. PICK l \in Nat : l = Len(t)
      BY <1>30
    <3>2. l = 1
      <4>1. l = n - 1
        BY <3>1, <1>12, <1>30
      <4> QED
        BY <4>1, <2>2, <1>13
    <3>3. t # << >> /\ 1 \in DOMAIN t
      <4>0. l # 0 /\ 1 \in 1..l
        BY <3>2
      <4>1. Len(t) # 0 /\ 1 \in 1..Len(t)
        BY <4>0, <3>1
      <4>2. t # << >>
        BY <4>1, <1>30, EmptySeq
      <4> QED
        BY <4>1, <4>2, <1>30
    <3>4. t[1] = s[1]
      BY <3>3, <2>2, <1>30
    <3>5. Tail(t) \in Seq(Items) /\ Len(Tail(t)) = l - 1
      BY <3>1, <3>3, <1>30
    <3>6. Len(Tail(t)) = 0
      BY <3>2, <3>5
    <3>7. Tail(t) = << >>
      BY <3>5, <3>6, EmptySeq
    <3> QED
      BY <2>2, <3>3, <3>4, <3>7, <1>3
  <2> QED
    BY <2>1, <2>2
<1>27. flow[x].ackRxP <= v.got + Taking(x)' /\ reader[x].got <= flow[x].rxP
       /\ flow[y].ackTxP <= flow[x].ackRxP
  <2>1. PICK g \in Nat : g = reader[x].got
    BY <1>3 DEF Readers
  <2>2. /\ flow[x].rxP \in Nat /\ flow[x].ackRxP \in Nat /\ flow[x].ackRxP <= flow[x].rxP
        /\ flow[y].ackTxP <= flow[x].ackRxP
    <3>1. Window(mark[y], flow[x].rxP, flow[x].ackRxP, flow[y].ackTxP, flow[y].count)
      BY <1>2, <1>4 DEF Counted
    <3> QED
      BY <3>1 DEF Window
  <2>3. CASE m = 1
    <3>1. Taking(x)' = 0
      BY <2>3, <1>20 DEF Taking
    <3>2. g = flow[x].rxP
      BY <2>1, <2>3, <1>21, <1>26, RunNone
    <3> QED
      BY <3>1, <3>2, <2>1, <2>2, <1>19
  <2>4. CASE m = 2
    <3>1. Taking(x)' = 1
      BY <2>4, <1>20 DEF Taking
    <3>2. Run(mark[y], Tail(t), g + 1, flow[x].rxP)
      BY <2>1, <2>4, <1>21, <1>26, <1>30, RunTail
    <3>3. g + 1 = flow[x].rxP
      BY <3>2, <2>4, <1>26, RunNone
    <3> QED
      BY <3>1, <3>3, <2>1, <2>2, <1>19
  <2> QED
    BY <2>3, <2>4
<1>28. Told(y)'
  <2>1. v.got \in Nat /\ Taking(x)' \in Nat /\ flow[x].ackRxP \in Nat /\ flow[y].ackTxP \in Nat
    BY <1>2, <1>19, ReportOf DEF Taking, Readers
  <2>2. flow[y].ackTxP <= v.got + Taking(x)'
    BY <2>1, <1>27
  <2> QED
    BY <2>2, <1>2, <1>20, <1>27 DEF Told
<1>29. Reading(x)'
  BY <1>0, <1>19, <1>20, <1>24, <1>26 DEF Reading
<1> QED
  BY <1>1, <1>22, <1>25, <1>28, <1>29, ReaderStep

\* A read, whatever the head of the buffer is, keeps the invariant.
LEMMA ReadKeeps ==
  ASSUME StreamInv, NEW x \in End, Read(x) PROVE StreamInv'
<1>1. PICK s : s = reader[x].buf
  OBVIOUS
<1>2. /\ reader[x] \in Readers /\ Reading(x) /\ s \in Seq(Items)
      /\ reader[x].apc = "idle" /\ ~reader[x].waiting
      /\ UNCHANGED <<setup, flow, writer, port, mark>>
  BY <1>1, EndOf DEF Read, Readers
<1>3. reader[x].hand = NoReport
  BY <1>2 DEF Reading
<1>4. CASE s = << >> /\ reader' = [reader EXCEPT ![x].waiting = TRUE]
  <2>1. PICK y : y = Peer(x)
    OBVIOUS
  <2>2. y \in End /\ Peer(y) = x /\ Chained(y) /\ Reported(y) /\ Told(y)
    BY <2>1, PeerOf, EndOf
  <2>3. PICK v : v = [reader[x] EXCEPT !.waiting = TRUE]
    OBVIOUS
  <2>4. reader' = [reader EXCEPT ![x] = v]
    BY <2>3, <1>4
  <2>5. /\ v \in Readers /\ v.buf = s /\ v.apc = reader[x].apc /\ v.hand = reader[x].hand
        /\ v.lpc = reader[x].lpc /\ v.got = reader[x].got
    BY <2>3, <1>1, <1>2 DEF Readers
  <2>6. reader'[x] = v
    BY <2>4 DEF StreamInv, StreamType
  <2>7. Reading(x)'
    BY <2>5, <2>6, <1>2, <1>3, <1>4 DEF Reading
  <2>8. Chained(y)' /\ Reported(y)' /\ Told(y)'
    BY <2>2, <2>5, <2>6, <1>1, <1>2, ChainedFrame, ReportedFrame, ToldFrame
  <2> QED
    BY <2>1, <2>4, <2>5, <2>7, <2>8, <1>2, ReaderStep
<1>5. CASE /\ s # << >> /\ IsReport(s[1])
           /\ reader' = [reader EXCEPT ![x] =
                [reader[x] EXCEPT !.apc = "retry", !.hand = [b |-> s[1].b, p |-> s[1].p],
                                  !.buf = Tail(s)]]
  <2>1. PICK m \in {1, 2} : m = 1
    OBVIOUS
  <2>2. PICK t : t = Tail(s)
    OBVIOUS
  <2>3. Without(s, m, t)
    BY <2>1, <2>2, <1>2, <1>5, TailElements DEF Without
  <2>4. t \in Seq(Items)
    BY <2>3 DEF Without
  <2>5. PICK z : z = [b |-> s[m].b, p |-> s[m].p]
    OBVIOUS
  <2>6. z \in [b : Nat, p : Nat]
    <3>1. s[m] \in Items /\ IsReport(s[m])
      BY <2>1, <2>3, <1>2, <1>5 DEF Without
    <3> QED
      BY <3>1, <2>5, ItemType
  <2>7. PICK v : v = [reader[x] EXCEPT !.apc = "retry", !.hand = z, !.buf = t]
    OBVIOUS
  <2>8. reader' = [reader EXCEPT ![x] = v]
    BY <2>1, <2>2, <2>5, <2>7, <1>5
  <2>9. /\ v \in Readers /\ v.apc = "retry" /\ v.hand = z /\ v.buf = t /\ v.lpc = reader[x].lpc
        /\ v.got = reader[x].got /\ v.waiting = FALSE
    <3>1. reader[x].waiting = FALSE
      BY <1>2 DEF Readers
    <3> QED
      BY <3>1, <2>4, <2>6, <2>7, <1>2 DEF Readers
  <2>10. Without(reader[x].buf, m, reader'[x].buf)
    BY <2>3, <2>8, <2>9, <1>1 DEF StreamInv, StreamType
  <2>11. /\ IsReport(reader[x].buf[m]) /\ (m = 2 => ~IsReport(reader[x].buf[1]))
         /\ (m = 1 => v.apc = "retry") /\ (m = 2 => v.apc = "take")
    BY <2>1, <2>9, <1>1, <1>5
  <2>12. v.hand = [b |-> reader[x].buf[m].b, p |-> reader[x].buf[m].p]
    BY <2>5, <2>9, <1>1
  <2> QED
    BY <2>8, <2>9, <2>10, <2>11, <2>12, <1>2, HandKeeps
<1>6. CASE /\ Len(s) >= 2 /\ ~IsReport(s[1]) /\ IsReport(s[2])
           /\ reader' = [reader EXCEPT ![x] =
                [reader[x] EXCEPT !.apc = "take", !.hand = [b |-> s[2].b, p |-> s[2].p],
                                  !.buf = RemoveAt(s, 2)]]
  <2>1. PICK m \in {1, 2} : m = 2
    OBVIOUS
  <2>2. PICK t : t = RemoveAt(s, 2)
    OBVIOUS
  <2>3. Without(s, m, t)
    BY <2>1, <2>2, <1>2, <1>6, RemoveElements DEF Without
  <2>4. t \in Seq(Items)
    BY <2>3 DEF Without
  <2>5. PICK z : z = [b |-> s[m].b, p |-> s[m].p]
    OBVIOUS
  <2>6. z \in [b : Nat, p : Nat]
    <3>1. s[m] \in Items /\ IsReport(s[m])
      BY <2>1, <2>3, <1>2, <1>6 DEF Without
    <3> QED
      BY <3>1, <2>5, ItemType
  <2>7. PICK v : v = [reader[x] EXCEPT !.apc = "take", !.hand = z, !.buf = t]
    OBVIOUS
  <2>8. reader' = [reader EXCEPT ![x] = v]
    BY <2>1, <2>2, <2>5, <2>7, <1>6
  <2>9. /\ v \in Readers /\ v.apc = "take" /\ v.hand = z /\ v.buf = t /\ v.lpc = reader[x].lpc
        /\ v.got = reader[x].got /\ v.waiting = FALSE
    <3>1. reader[x].waiting = FALSE
      BY <1>2 DEF Readers
    <3> QED
      BY <3>1, <2>4, <2>6, <2>7, <1>2 DEF Readers
  <2>10. Without(reader[x].buf, m, reader'[x].buf)
    BY <2>3, <2>8, <2>9, <1>1 DEF StreamInv, StreamType
  <2>11. /\ IsReport(reader[x].buf[m]) /\ (m = 2 => ~IsReport(reader[x].buf[1]))
         /\ (m = 1 => v.apc = "retry") /\ (m = 2 => v.apc = "take")
    BY <2>1, <2>9, <1>1, <1>6
  <2>12. v.hand = [b |-> reader[x].buf[m].b, p |-> reader[x].buf[m].p]
    BY <2>5, <2>9, <1>1
  <2> QED
    BY <2>8, <2>9, <2>10, <2>11, <2>12, <1>2, HandKeeps
<1>7. CASE /\ s # << >> /\ ~IsReport(s[1])
           /\ reader' = [reader EXCEPT ![x] = TakePacket(reader[x])]
  BY <1>1, <1>2, <1>3, <1>7, TakePacketKeeps
<1> QED
  BY <1>1, <1>4, <1>5, <1>6, <1>7 DEF Read

-----------------------------------------------------------------------------
(* The invariant holds.                                                    *)

\* There is no report in an empty queue.
LEMMA HoldsEmpty == ASSUME NEW r PROVE Holds(<< >>, r, FALSE)
  BY DEF Holds

\* A new stream satisfies the invariant.
LEMMA StreamInvInit == Init => StreamInv
<1> SUFFICES ASSUME Init PROVE StreamInv
  OBVIOUS
<1>1. /\ setup \in Setups /\ setup.writes \in [End -> Nat]
      /\ \A e \in End : flow[e] = NewFlow /\ mark[e] = << >>
      /\ \A e \in End : /\ port[e].wq = << >> /\ port[e].wire = << >> /\ port[e].evq = << >>
                        /\ reader[e].buf = << >> /\ reader[e].hand = NoReport
                        /\ reader[e].got = 0 /\ reader[e].lpc = "idle"
                        /\ reader[e].apc = "idle" /\ reader[e].waiting = FALSE
      /\ \A e \in End : /\ writer[e].left = setup.writes[e] /\ writer[e].reqs = << >>
                        /\ writer[e].pc = "idle" /\ writer[e].sub = FALSE
                        /\ writer[e].done = FALSE
  BY StreamAssumption DEF Init
<1>2. StreamType
  <2>1. setup \in Setups /\ setup.writes \in [End -> Nat]
    BY <1>1
  <2>2. flow \in [End -> Counters]
    BY DEF Init, NewFlow, Counters
  <2>3. writer \in [End -> Writers]
    BY <2>1 DEF Init, Writers
  <2>4. port \in [End -> Ports]
    BY DEF Init, Ports
  <2>5. reader \in [End -> Readers]
    BY DEF Init, Readers, NoReport
  <2>6. mark \in [End -> Seq(Nat)]
    BY DEF Init
  <2> QED
    BY <2>1, <2>2, <2>3, <2>4, <2>5, <2>6 DEF StreamType
<1>3. ASSUME NEW e \in End
      PROVE  Counted(e) /\ Chained(e) /\ Reported(e) /\ Told(e) /\ Reading(e) /\ Writing(e)
  <2>1. PICK d : d = Peer(e)
    OBVIOUS
  <2>2. d \in End
    BY <2>1, PeerOf
  <2>0. << >> \in Seq(Nat) /\ Len(<< >>) = 0
    OBVIOUS
  <2>3. PICK k : k = << >> /\ k \in Seq(Nat) /\ Len(k) = 0
    BY <2>0, Zenon
  <2>4. Marked(k) /\ At(k, 0) = 0
    BY <2>3 DEF Marked, At
  <2>5. 0 \in 0..Len(k) /\ Len(k) - 0 <= Pkts /\ ~(0 < Len(k))
    BY <2>3, WindowAssumption
  <2>6. ~Fills(k, 0, 0)
    BY <2>4, <2>5, NoneFills
  <2>7. Window(k, 0, 0, 0, 0)
    BY <2>3, <2>5, <2>6 DEF Window
  <2>8. Counted(e)
    BY <2>1, <2>2, <2>3, <2>4, <2>7, <1>1 DEF Counted, NewFlow
  <2>9. Run(k, << >>, 0, 0)
    BY RunEmpty
  <2>10. Chained(e)
    BY <2>1, <2>2, <2>3, <2>9, <1>1 DEF Chained, NewFlow
  <2>11. Reported(e)
    <3>1. PICK r : r = LastReport(k, 0)
      OBVIOUS
    <3>2. Located(r, "none", "idle", NoReport, << >>, << >>, << >>, << >>)
      BY HoldsEmpty DEF Located, Places
    <3>3. ReportAt(e, "none")
      BY <3>1, <3>2, <2>1, <2>2, <2>3, <1>1 DEF ReportAt, NewFlow
    <3> QED
      BY <3>3 DEF Reported, Places
  <2>12. Told(e)
    BY <2>1, <2>2, <1>1 DEF Told, Taking, NewFlow
  <2>13. Reading(e)
    BY <1>1 DEF Reading
  <2>14. Pending(port[e].wq) = {}
    BY <1>1 DEF Pending
  <2>15. Writing(e)
    BY <2>14, <1>1 DEF Writing, Locked
  <2> QED
    BY <2>8, <2>10, <2>11, <2>12, <2>13, <2>15
<1> QED
  BY <1>2, <1>3 DEF StreamInv

\* Every step of the stream keeps the invariant.
LEMMA StreamInvStep ==
  ASSUME SafeSetups, StreamInv, [Next]_streamVars PROVE StreamInv'
<1>1. CASE Next
  <2>1. PICK x \in End : Step(x)
    BY <1>1 DEF Next
  <2>2. CASE Write(x) \/ RunTask(x) \/ QueueFull(x) \/ SubmitBlock(x) \/ WriteDone(x)
    BY <2>2, WriteKeeps, RunTaskKeeps, QueueFullKeeps, SubmitBlockKeeps, WriteDoneKeeps
  <2>3. CASE SendReady(x) \/ PortRecv(x)
    BY <2>3, SendReadyKeeps, PortRecvKeeps
  <2>4. CASE ReceiveData(x) \/ ReceiveReport(x) \/ Progress(x) \/ FCLifted(x)
    BY <2>4, ReceiveDataKeeps, ReceiveReportKeeps, ProgressKeeps, FCLiftedKeeps
  <2>5. CASE Read(x) \/ SendProgress(x) \/ Take(x)
    BY <2>5, ReadKeeps, SendProgressKeeps, TakeKeeps
  <2> QED
    BY <2>1, <2>2, <2>3, <2>4, <2>5 DEF Step
<1>2. CASE UNCHANGED streamVars
  <2>1. UNCHANGED <<setup, flow, writer, port, reader, mark>>
    BY <1>2 DEF streamVars
  <2>2. StreamType'
    BY <2>1 DEF StreamInv, StreamType
  <2>3. ASSUME NEW e \in End
        PROVE  (Counted(e) /\ Chained(e) /\ Reported(e) /\ Told(e) /\ Reading(e) /\ Writing(e))'
    BY <2>1, EndOf, CountedFrame, ChainedFrame, ReportedFrame, ToldFrame, ReadingFrame,
       WritingFrame
  <2> QED
    BY <2>2, <2>3 DEF StreamInv
<1> QED
  BY <1>1, <1>2

\* Two queues of which one continues the other.
LEMMA RunConcat ==
  ASSUME NEW k, NEW s \in Seq(Items), NEW t \in Seq(Items), NEW lo, NEW mid, NEW hi,
         Run(k, s, lo, mid), Run(k, t, mid, hi)
  PROVE  Run(k, s \o t, lo, hi)
<1>1. PICK q : q = s \o t
  OBVIOUS
<1>2. PICK n, m \in Nat : n = Len(s) /\ m = Len(t)
  OBVIOUS
<1>3. /\ q \in Seq(Items) /\ Len(q) = n + m /\ DOMAIN q = 1..(n + m)
      /\ \A i \in 1..(n + m) : q[i] = IF i <= n THEN s[i] ELSE t[i - n]
  BY <1>1, <1>2, ConcatProperties
<1>4. DOMAIN s = 1..n /\ DOMAIN t = 1..m
  BY <1>2
<1>5. /\ lo \in Nat /\ mid \in Nat /\ hi \in Nat /\ lo <= mid /\ mid <= hi
  BY DEF Run
<1>6. /\ \A i \in 1..n : ~IsReport(s[i]) =>
           s[i].n \in (lo + 1)..mid /\ At(k, s[i].n) = At(k, s[i].n - 1) + s[i].size
      /\ \A j \in (lo + 1)..mid : \E i \in 1..n : ~IsReport(s[i]) /\ s[i].n = j
      /\ \A i, j \in 1..n : i < j /\ ~IsReport(s[i]) /\ ~IsReport(s[j]) => s[i].n < s[j].n
  BY <1>4 DEF Run
<1>7. /\ \A i \in 1..m : ~IsReport(t[i]) =>
           t[i].n \in (mid + 1)..hi /\ At(k, t[i].n) = At(k, t[i].n - 1) + t[i].size
      /\ \A j \in (mid + 1)..hi : \E i \in 1..m : ~IsReport(t[i]) /\ t[i].n = j
      /\ \A i, j \in 1..m : i < j /\ ~IsReport(t[i]) /\ ~IsReport(t[j]) => t[i].n < t[j].n
  BY <1>4 DEF Run
<1>8. ASSUME NEW i \in 1..(n + m)
      PROVE  \/ i \in 1..n /\ q[i] = s[i]
             \/ i - n \in 1..m /\ q[i] = t[i - n] /\ i > n
  BY <1>3, <1>8
<1>9. \A i \in 1..n : i \in 1..(n + m) /\ q[i] = s[i]
  BY <1>3
<1>10. \A i \in 1..m : i + n \in 1..(n + m) /\ q[i + n] = t[i]
  <2>1. ASSUME NEW i \in 1..m PROVE i + n \in 1..(n + m) /\ ~(i + n <= n) /\ (i + n) - n = i
    OBVIOUS
  <2> QED
    BY <2>1, <1>3
<1>11. ASSUME NEW i \in 1..(n + m), ~IsReport(q[i])
       PROVE  q[i].n \in (lo + 1)..hi /\ At(k, q[i].n) = At(k, q[i].n - 1) + q[i].size
  <2>1. CASE i \in 1..n /\ q[i] = s[i]
    <3>1. s[i].n \in (lo + 1)..mid /\ At(k, s[i].n) = At(k, s[i].n - 1) + s[i].size
      BY <2>1, <1>6, <1>11
    <3>2. s[i].n \in (lo + 1)..hi
      BY <3>1, <1>5
    <3> QED
      BY <3>1, <3>2, <2>1
  <2>2. CASE i - n \in 1..m /\ q[i] = t[i - n]
    <3>1. /\ t[i - n].n \in (mid + 1)..hi
          /\ At(k, t[i - n].n) = At(k, t[i - n].n - 1) + t[i - n].size
      BY <2>2, <1>7, <1>11
    <3>2. t[i - n].n \in (lo + 1)..hi
      BY <3>1, <1>5
    <3> QED
      BY <3>1, <3>2, <2>2
  <2> QED
    BY <2>1, <2>2, <1>8
<1>12. ASSUME NEW j \in (lo + 1)..hi
       PROVE  \E i \in 1..(n + m) : ~IsReport(q[i]) /\ q[i].n = j
  <2>1. CASE j <= mid
    <3>1. j \in (lo + 1)..mid
      BY <2>1, <1>5
    <3>2. PICK i \in 1..n : ~IsReport(s[i]) /\ s[i].n = j
      BY <3>1, <1>6
    <3> QED
      BY <3>2, <1>9
  <2>2. CASE ~(j <= mid)
    <3>1. j \in (mid + 1)..hi
      BY <2>2, <1>5
    <3>2. PICK i \in 1..m : ~IsReport(t[i]) /\ t[i].n = j
      BY <3>1, <1>7
    <3> QED
      BY <3>2, <1>10
  <2> QED
    BY <2>1, <2>2
<1>13. ASSUME NEW i \in 1..(n + m), NEW j \in 1..(n + m), i < j,
              ~IsReport(q[i]), ~IsReport(q[j])
       PROVE  q[i].n < q[j].n
  <2>1. CASE j \in 1..n /\ q[j] = s[j]
    <3>1. i \in 1..n
      BY <2>1, <1>13
    <3> QED
      BY <3>1, <2>1, <1>6, <1>9, <1>13
  <2>2. CASE j - n \in 1..m /\ q[j] = t[j - n]
    <3>1. t[j - n].n \in (mid + 1)..hi
      BY <2>2, <1>7, <1>13
    <3>2. CASE i \in 1..n /\ q[i] = s[i]
      <4>1. s[i].n \in (lo + 1)..mid
        BY <3>2, <1>6, <1>13
      <4>0. PICK v, w : v = s[i].n /\ w = t[j - n].n
        OBVIOUS
      <4>3. v \in (lo + 1)..mid /\ w \in (mid + 1)..hi
        BY <4>0, <4>1, <3>1
      <4>4. v < w
        BY <4>3, <1>5
      <4>2. s[i].n < t[j - n].n
        BY <4>0, <4>4
      <4> QED
        BY <4>2, <3>2, <2>2
    <3>3. CASE i - n \in 1..m /\ q[i] = t[i - n]
      <4>1. i - n < j - n
        BY <1>13
      <4> QED
        BY <4>1, <3>3, <2>2, <1>7, <1>13
    <3> QED
      BY <3>2, <3>3, <1>8
  <2> QED
    BY <2>1, <2>2, <1>8
<1>14. lo <= hi
  BY <1>5
<1>15. Run(k, q, lo, hi)
  BY <1>3, <1>5, <1>11, <1>12, <1>13, <1>14 DEF Run
<1> QED
  BY <1>1, <1>15

\* The invariant implies the types.
LEMMA InvTypeOK == StreamInv => TypeOK
<1> SUFFICES ASSUME StreamInv PROVE TypeOK
  OBVIOUS
<1>1. ASSUME NEW e \in End
      PROVE  /\ \A c \in DOMAIN NewFlow : flow[e][c] \in Nat
             /\ writer[e].reqs \in Seq(Nat \ {0})
             /\ writer[e].pc \in {"idle", "sched", "loop", "go", "full"}
             /\ writer[e].reasons \subseteq {"que", "flow"}
             /\ writer[e].sub \in BOOLEAN /\ writer[e].done \in BOOLEAN
             /\ writer[e].done => writer[e].sub
             /\ port[e].wq \in Seq(Items) /\ port[e].wire \in Seq(Items)
             /\ port[e].looping \in BOOLEAN
             /\ port[e].evq \in Seq(Items) /\ reader[e].buf \in Seq(Items)
             /\ reader[e].lpc \in {"idle", "report", "lift"}
             /\ reader[e].apc \in {"idle", "retry", "take"}
  <2>1. flow[e] \in Counters /\ writer[e] \in Writers /\ port[e] \in Ports /\ reader[e] \in Readers
        /\ Writing(e)
    BY EndOf
  <2>2. \A c \in DOMAIN NewFlow : flow[e][c] \in Nat
    BY <2>1 DEF Counters, NewFlow
  <2>3. writer[e].done => writer[e].sub
    BY <2>1 DEF Writing
  <2>4. /\ writer[e].reqs \in Seq(Nat \ {0})
        /\ writer[e].pc \in {"idle", "sched", "loop", "go", "full"}
        /\ writer[e].reasons \subseteq {"que", "flow"}
        /\ writer[e].sub \in BOOLEAN /\ writer[e].done \in BOOLEAN
    BY <2>1 DEF Writers
  <2>5. /\ port[e].wq \in Seq(Items) /\ port[e].wire \in Seq(Items)
        /\ port[e].looping \in BOOLEAN
        /\ port[e].evq \in Seq(Items)
    BY <2>1 DEF Ports
  <2>6. /\ reader[e].buf \in Seq(Items)
        /\ reader[e].lpc \in {"idle", "report", "lift"}
        /\ reader[e].apc \in {"idle", "retry", "take"}
    BY <2>1 DEF Readers
  <2> QED
    BY <2>2, <2>3, <2>4, <2>5, <2>6
<1>2. setup \in Setups
  BY DEF StreamInv, StreamType
<1> QED
  BY <1>1, <1>2 DEF TypeOK

\* The invariant puts the packets in the queues one after the other.
LEMMA InvDataIntact == StreamInv => DataIntact
<1> SUFFICES ASSUME StreamInv, NEW e \in End
             PROVE  LET u == Underway(e)
                        packets == {i \in DOMAIN u : ~IsReport(u[i])}
                        taken == reader[Peer(e)].got
                    IN  /\ taken <= flow[e].txP
                        /\ {u[i].n : i \in packets} = (taken + 1)..flow[e].txP
                        /\ \A i, j \in packets : i < j => u[i].n < u[j].n
  BY DEF DataIntact
<1>1. PICK d : d = Peer(e)
  OBVIOUS
<1>2. d \in End
  BY <1>1, PeerOf
<1>3. PICK k : k = mark[e]
  OBVIOUS
<1>4. /\ reader[d].buf \in Seq(Items) /\ port[d].evq \in Seq(Items)
      /\ port[e].wire \in Seq(Items) /\ port[e].wq \in Seq(Items)
  BY <1>2, EndOf DEF Ports, Readers
<1>5. Chained(e) /\ Counted(e)
  BY EndOf
<1>6. PICK b, c \in Nat :
        /\ Run(k, port[d].evq, flow[d].rxP, b)
        /\ Run(k, port[e].wire, b, c)
        /\ Run(k, port[e].wq, c, Len(k))
  BY <1>1, <1>3, <1>5 DEF Chained
<1>7. Run(k, reader[d].buf, reader[d].got, flow[d].rxP)
  BY <1>1, <1>3, <1>5 DEF Chained
<1>8. PICK u1 : u1 = reader[d].buf \o port[d].evq
  OBVIOUS
<1>9. u1 \in Seq(Items) /\ Run(k, u1, reader[d].got, b)
  BY <1>4, <1>6, <1>7, <1>8, RunConcat, ConcatProperties
<1>10. PICK u2 : u2 = u1 \o port[e].wire
  OBVIOUS
<1>11. u2 \in Seq(Items) /\ Run(k, u2, reader[d].got, c)
  BY <1>4, <1>6, <1>9, <1>10, RunConcat, ConcatProperties
<1>12. PICK u : u = u2 \o port[e].wq
  OBVIOUS
<1>13. u \in Seq(Items)
  BY <1>4, <1>11, <1>12, ConcatProperties
<1>14. PICK n : n = Len(k)
  OBVIOUS
<1>15. Run(k, u, reader[d].got, n)
  BY <1>4, <1>6, <1>11, <1>12, <1>14, RunConcat
<1>16. Underway(e) = u
  BY <1>1, <1>8, <1>10, <1>12 DEF Underway
<1>17. flow[e].txP = n
  BY <1>3, <1>5, <1>14 DEF Counted
<1>18. PICK g : g = reader[d].got
  OBVIOUS
<1>19. g <= n
  BY <1>15, <1>18 DEF Run
<1>20. {u[i].n : i \in {i \in DOMAIN u : ~IsReport(u[i])}} = (g + 1)..n
  <2>1. \A i \in DOMAIN u : ~IsReport(u[i]) => u[i].n \in (g + 1)..n
    BY <1>15, <1>18 DEF Run
  <2>2. \A j \in (g + 1)..n : \E i \in DOMAIN u : ~IsReport(u[i]) /\ u[i].n = j
    BY <1>15, <1>18 DEF Run
  <2> QED
    BY <2>1, <2>2
<1>21. \A i, j \in {i \in DOMAIN u : ~IsReport(u[i])} : i < j => u[i].n < u[j].n
  BY <1>15 DEF Run
<1> QED
  BY <1>1, <1>16, <1>17, <1>18, <1>19, <1>20, <1>21

\* The invariant bounds what is between the two applications.
LEMMA InvOneWindowHeld == StreamInv => OneWindowHeld
<1> SUFFICES ASSUME StreamInv, NEW e \in End
             PROVE  flow[e].txP - reader[Peer(e)].got <= Pkts + 1
  BY DEF OneWindowHeld
<1>1. PICK d : d = Peer(e)
  OBVIOUS
<1>2. d \in End
  BY <1>1, PeerOf
<1>3. Counted(e) /\ Told(e) /\ reader[d].got \in Nat
  BY <1>2, EndOf DEF Readers
<1>4. PICK n : n = Len(mark[e])
  OBVIOUS
<1>5. n \in Nat /\ flow[e].ackTxP \in Nat /\ flow[e].txP = n
  BY <1>3, <1>4, ReportOf DEF Counted
<1>6. n - flow[e].ackTxP <= Pkts
  BY <1>1, <1>3, <1>4 DEF Counted, Window
<1>7. PICK T \in {0, 1} : T = Taking(d)
  BY DEF Taking
<1>8. flow[e].ackTxP <= reader[d].got + T
  BY <1>1, <1>3, <1>7 DEF Told
<1>9. n - reader[d].got <= Pkts + 1
  BY <1>3, <1>5, <1>6, <1>7, <1>8, WindowAssumption
<1> QED
  BY <1>1, <1>5, <1>9

-----------------------------------------------------------------------------
(* The refinement.                                                         *)

\* The reports on their way: the last one, or none.
LEMMA ReportsKnown ==
  ASSUME StreamInv, NEW e \in End
  PROVE  ReportsFrom(Peer(e)) = IF flow[Peer(e)].ackRxP = flow[e].ackTxP THEN {}
                                ELSE {flow[Peer(e)].ackRxP}
<1>1. PICK d : d = Peer(e)
  OBVIOUS
<1>2. d \in End /\ Peer(d) = e
  BY <1>1, PeerOf
<1>3. PICK rep : rep = flow[d].ackRxP
  OBVIOUS
<1>4. PICK r : r = LastReport(mark[e], rep)
  OBVIOUS
<1>5. PICK at \in Places : ReportAt(e, at)
  BY EndOf DEF Reported
<1>6. /\ Located(r, at, reader[d].lpc, reader[d].hand, reader[d].buf,
                 port[d].wq, port[d].wire, port[e].evq)
      /\ at = "none" <=> rep = flow[e].ackTxP
  BY <1>1, <1>3, <1>4, <1>5 DEF ReportAt
<1>7. IsReport(Report(r)) /\ Report(r).p = rep /\ r.p = rep
  BY <1>1, <1>3, <1>4, ReportOf, ReportType DEF LastReport
<1>8. /\ reader[d].buf \in Seq(Items) /\ port[d].wq \in Seq(Items)
      /\ port[d].wire \in Seq(Items) /\ port[e].evq \in Seq(Items)
  BY <1>2, EndOf DEF Ports, Readers
<1>9. PICK h1, h2, h3, h4 \in BOOLEAN :
        h1 = (at = "buf") /\ h2 = (at = "wq") /\ h3 = (at = "wire") /\ h4 = (at = "evq")
  OBVIOUS
<1>10. /\ Holds(reader[d].buf, Report(r), h1) /\ Holds(port[d].wq, Report(r), h2)
       /\ Holds(port[d].wire, Report(r), h3) /\ Holds(port[e].evq, Report(r), h4)
       /\ (reader[d].lpc = "report" <=> at = "due")
       /\ reader[d].hand = IF at = "hand" THEN r ELSE NoReport
  BY <1>6, <1>9 DEF Located
<1>11. /\ ReportsIn(reader[d].buf) = IF h1 THEN {rep} ELSE {}
       /\ ReportsIn(port[d].wq) = IF h2 THEN {rep} ELSE {}
       /\ ReportsIn(port[d].wire) = IF h3 THEN {rep} ELSE {}
       /\ ReportsIn(port[e].evq) = IF h4 THEN {rep} ELSE {}
  BY <1>7, <1>8, <1>10, HoldsReports
<1>12. rep # flow[e].ackTxP => flow[d].rxP = rep /\ r # NoReport
  <2> SUFFICES ASSUME rep # flow[e].ackTxP PROVE flow[d].rxP = rep /\ r # NoReport
    OBVIOUS
  <2>1. Marked(mark[e]) /\ Window(mark[e], flow[d].rxP, rep, flow[e].ackTxP, flow[e].count)
    BY <1>1, <1>3, EndOf DEF Counted
  <2>2. flow[d].rxP = rep /\ flow[e].ackTxP < rep
    BY <2>1, WindowAck
  <2>3. rep # 0
    <3>1. flow[e].ackTxP \in Nat
      BY ReportOf
    <3> QED
      BY <3>1, <2>2
  <2> QED
    BY <2>2, <2>3, <1>7 DEF NoReport
<1>13. ReportsFrom(d) =
         (IF at = "due" THEN {flow[d].rxP} ELSE {})
           \cup (IF reader[d].hand # NoReport THEN {reader[d].hand.p} ELSE {})
           \cup (IF at = "buf" THEN {rep} ELSE {}) \cup (IF at = "wq" THEN {rep} ELSE {})
           \cup (IF at = "wire" THEN {rep} ELSE {}) \cup (IF at = "evq" THEN {rep} ELSE {})
  BY <1>2, <1>9, <1>10, <1>11 DEF ReportsFrom
<1>14. CASE at = "none"
  <2>1. ReportsFrom(d) = {}
    BY <1>10, <1>13, <1>14
  <2> QED
    BY <2>1, <1>1, <1>3, <1>6, <1>14
<1>15. CASE at # "none"
  <2>1. rep # flow[e].ackTxP
    BY <1>6, <1>15
  <2>2. at \in {"due", "hand", "buf", "wq", "wire", "evq"}
    BY <1>15 DEF Places
  <2>3. CASE at = "due"
    BY <2>1, <2>3, <1>1, <1>3, <1>10, <1>12, <1>13
  <2>4. CASE at = "hand"
    BY <2>1, <2>4, <1>1, <1>3, <1>7, <1>10, <1>12, <1>13
  <2>5. CASE at \in {"buf", "wq", "wire", "evq"}
    BY <2>1, <2>5, <1>1, <1>3, <1>10, <1>12, <1>13
  <2> QED
    BY <2>2, <2>3, <2>4, <2>5
<1> QED
  BY <1>14, <1>15

ReportsMatch ==
  \A e \in End :
    ReportsFrom(Peer(e)) = IF flow[Peer(e)].ackRxP = flow[e].ackTxP THEN {}
                           ELSE {flow[Peer(e)].ackRxP}

\* The reports under way are the one the window expects.
LEMMA InvReportsMatch == StreamInv => ReportsMatch
  BY ReportsKnown DEF ReportsMatch

\* What does not touch the counters of the direction of e is a stuttering step.
LEMMA WinStutter ==
  ASSUME StreamInv, StreamInv', NEW e \in End, mark'[e] = mark[e],
         flow'[Peer(e)].rxP = flow[Peer(e)].rxP, flow'[Peer(e)].ackRxP = flow[Peer(e)].ackRxP,
         flow'[e].ackTxP = flow[e].ackTxP, flow'[e].count = flow[e].count
  PROVE  UNCHANGED Win(e)!winVars
<1>1. ReportsFrom(Peer(e))' = ReportsFrom(Peer(e))
  <2>1. ReportsFrom(Peer(e)) = IF flow[Peer(e)].ackRxP = flow[e].ackTxP THEN {}
                               ELSE {flow[Peer(e)].ackRxP}
    BY ReportsKnown
  <2>2. ReportsFrom(Peer(e))' = IF flow'[Peer(e)].ackRxP = flow'[e].ackTxP THEN {}
                                ELSE {flow'[Peer(e)].ackRxP}
    <3>1. ReportsMatch'
      BY InvReportsMatch, PTL
    <3> QED
      BY <3>1 DEF ReportsMatch
  <2> QED
    BY <2>1, <2>2
<1> QED
  BY <1>1 DEF Win!winVars

\* The reports on their way before and after a step.
LEMMA ReportsStep ==
  ASSUME StreamInv, StreamInv', NEW e \in End
  PROVE  /\ ReportsFrom(Peer(e)) = IF flow[Peer(e)].ackRxP = flow[e].ackTxP THEN {}
                                   ELSE {flow[Peer(e)].ackRxP}
         /\ ReportsFrom(Peer(e))' = IF flow'[Peer(e)].ackRxP = flow'[e].ackTxP THEN {}
                                    ELSE {flow'[Peer(e)].ackRxP}
<1>1. ReportsMatch
  BY InvReportsMatch
<1>2. ReportsMatch'
  BY InvReportsMatch, PTL
<1> QED
  BY <1>1, <1>2 DEF ReportsMatch

\* SubmitBlock is Send of the direction of x and nothing in the other one.
LEMMA SubmitBlockWin ==
  ASSUME StreamInv, StreamInv', NEW x \in End, SubmitBlock(x)
  PROVE  Win(x)!WinNext /\ UNCHANGED Win(Peer(x))!winVars
<1>1. PICK s \in Sizes :
        /\ flow' = [flow EXCEPT ![x] = IncTxBytes(flow[x], s)]
        /\ mark' = [mark EXCEPT ![x] = Append(@, IncTxBytes(flow[x], s).txB)]
  BY Zenon DEF SubmitBlock
<1>2. PICK y : y = Peer(x)
  OBVIOUS
<1>3. y \in End /\ y # x /\ Peer(y) = x
  BY <1>2, PeerOf
<1>4. PICK f : f = IncTxBytes(flow[x], s)
  OBVIOUS
<1>5. flow[x] \in Counters /\ mark[x] \in Seq(Nat) /\ Counted(x) /\ Writing(x)
  BY EndOf
<1>6. /\ f.txB = flow[x].txB + s /\ f.ackTxP = flow[x].ackTxP
      /\ f.rxP = flow[x].rxP /\ f.ackRxP = flow[x].ackRxP
  BY <1>4, <1>5 DEF IncTxBytes, Counters
<1>7. /\ flow'[x] = f /\ flow'[y] = flow[y] /\ mark'[y] = mark[y]
      /\ mark'[x] = Append(mark[x], f.txB)
  BY <1>1, <1>3, <1>4 DEF StreamInv, StreamType
<1>8. UNCHANGED Win(y)!winVars
  BY <1>3, <1>6, <1>7, WinStutter
<1>9. ReportsFrom(y)' = ReportsFrom(y)
  BY <1>2, <1>6, <1>7, ReportsStep
<1>10. flow[x].count = 0 /\ flow[x].txB = At(mark[x], Len(mark[x]))
  BY <1>5 DEF SubmitBlock, Writing, Counted
<1>11. Counted(x)'
  BY DEF StreamInv
<1>12. f.count = IF Fills(mark'[x], flow[x].ackTxP, Len(mark'[x])) THEN 1 ELSE 0
  BY <1>2, <1>6, <1>7, <1>11 DEF Counted, Window
<1>13. Len(mark'[x]) = Len(mark[x]) + 1
  <2>1. f.txB \in Nat
    <3>1. flow'[x] \in Counters
      BY DEF StreamInv, StreamType
    <3> QED
      BY <3>1, <1>7 DEF Counters
  <2> QED
    BY <2>1, <1>5, <1>7
<1>14. Win(x)!Send(s)
  <2>1. mark'[x] = Append(mark[x], At(mark[x], Len(mark[x])) + s)
    BY <1>6, <1>7, <1>10
  <2>2. flow'[x].count = IF Fills(mark'[x], flow[x].ackTxP, Len(mark[x]) + 1) THEN 1 ELSE 0
    BY <1>7, <1>12, <1>13
  <2> QED
    BY <2>1, <2>2, <1>2, <1>6, <1>7, <1>9, <1>10
       DEF Win!Send, Win!Full, Win!BytesAt, Win!tx, Fills, At
<1> QED
  BY <1>2, <1>8, <1>14 DEF Win!WinNext

\* ReceiveData is Receive of the direction of the peer.
LEMMA ReceiveDataWin ==
  ASSUME StreamInv, StreamInv', NEW x \in End, ReceiveData(x)
  PROVE  Win(Peer(x))!WinNext /\ UNCHANGED Win(x)!winVars
<1>1. PICK y : y = Peer(x)
  OBVIOUS
<1>2. y \in End /\ y # x /\ Peer(y) = x
  BY <1>1, PeerOf
<1>3. PICK z : z = Head(port[x].evq).size
  OBVIOUS
<1>4. PICK f : f = IncRxBytes(flow[x], z)
  OBVIOUS
<1>5. flow' = [flow EXCEPT ![x] = f] /\ mark' = mark
  BY <1>3, <1>4 DEF ReceiveData
<1>6. flow[x] \in Counters /\ Counted(y)
  BY <1>2, EndOf
<1>7. /\ f.rxP = flow[x].rxP + 1 /\ f.ackRxP \in {flow[x].ackRxP, flow[x].rxP + 1}
      /\ f.ackTxP = flow[x].ackTxP /\ f.count = flow[x].count
  <2>1. PICK b : b = flow[x].rxB + z
    OBVIOUS
  <2>2. PICK p : p = flow[x].rxP + 1
    OBVIOUS
  <2>3. \/ f = [flow[x] EXCEPT !.rxB = b, !.rxP = p, !.ackRxB = b, !.ackRxP = p]
        \/ f = [flow[x] EXCEPT !.rxB = b, !.rxP = p]
    BY <2>1, <2>2, <1>4 DEF IncRxBytes
  <2> QED
    BY <2>2, <2>3, <1>6 DEF Counters
<1>8. flow'[x] = f /\ flow'[y] = flow[y]
  BY <1>2, <1>5 DEF StreamInv, StreamType
<1>9. UNCHANGED Win(x)!winVars
  BY <1>1, <1>5, <1>7, <1>8, WinStutter
<1>10. PICK k : k = mark[y]
  OBVIOUS
<1>11. PICK rx : rx = flow[x].rxP
  OBVIOUS
<1>12. PICK rep : rep = flow[x].ackRxP
  OBVIOUS
<1>13. PICK ack : ack = flow[y].ackTxP
  OBVIOUS
<1>14. Marked(k) /\ Window(k, rx, rep, ack, flow[y].count)
  BY <1>2, <1>6, <1>10, <1>11, <1>12, <1>13 DEF Counted
<1>15. Window(k, rx + 1, f.ackRxP, ack, flow[y].count)
  <2>1. Counted(y)'
    BY <1>2 DEF StreamInv
  <2> QED
    BY <2>1, <1>2, <1>5, <1>7, <1>8, <1>10, <1>11, <1>13 DEF Counted
<1>16. Len(k) \in Nat /\ rx \in 0..Len(k) /\ rx + 1 \in 0..Len(k) /\ rep \in 0..rx
  BY <1>14, <1>15 DEF Window, Marked
<1>17. rx < Len(k)
  BY <1>16
<1>18. rep = ack
  BY <1>14, <1>17, WindowReceive
<1>19. CASE Fills(k, rep, rx + 1)
  <2>1. f.ackRxP = rx + 1
    BY <1>7, <1>11, <1>12, <1>15, <1>19 DEF Window
  <2>2. ReportsFrom(x) = {} /\ ReportsFrom(x)' = {rx + 1}
    <3>1. rx + 1 # ack
      BY <1>16, <1>18
    <3> QED
      BY <3>1, <2>1, <1>2, <1>8, <1>12, <1>13, <1>18, ReportsStep
  <2>3. Win(y)!Receive
    BY <2>1, <2>2, <1>2, <1>5, <1>7, <1>8, <1>10, <1>11, <1>12, <1>17, <1>19
       DEF Win!Receive, Win!Full, Win!BytesAt, Win!tx, Fills, At
  <2> QED
    BY <2>3, <1>1, <1>9 DEF Win!WinNext
<1>20. CASE ~Fills(k, rep, rx + 1)
  <2>1. f.ackRxP = rep
    <3>1. CASE f.ackRxP = rx + 1
      <4>1. rx + 1 # ack
        BY <1>16, <1>18
      <4>2. rx + 1 = Len(k) /\ Fills(k, ack, Len(k))
        BY <3>1, <4>1, <1>15 DEF Window
      <4> QED
        BY <4>2, <1>18, <1>20
    <3> QED
      BY <3>1, <1>7, <1>11, <1>12
  <2>2. ReportsFrom(x)' = ReportsFrom(x)
    BY <2>1, <1>2, <1>8, <1>12, ReportsStep
  <2>3. Win(y)!Receive
    BY <2>1, <2>2, <1>2, <1>5, <1>7, <1>8, <1>10, <1>11, <1>12, <1>17, <1>20
       DEF Win!Receive, Win!Full, Win!BytesAt, Win!tx, Fills, At
  <2> QED
    BY <2>3, <1>1, <1>9 DEF Win!WinNext
<1> QED
  BY <1>19, <1>20

\* Progress is Acknowledge of the direction of x.
LEMMA ProgressWin ==
  ASSUME StreamInv, StreamInv', NEW x \in End, Progress(x)
  PROVE  Win(x)!WinNext /\ UNCHANGED Win(Peer(x))!winVars
<1>1. PICK y : y = Peer(x)
  OBVIOUS
<1>2. y \in End /\ y # x /\ Peer(y) = x
  BY <1>1, PeerOf
<1>3. PICK rep : rep = flow[y].ackRxP
  OBVIOUS
<1>4. PICK f : f = [flow[x] EXCEPT !.ackTxB = At(mark[x], rep), !.ackTxP = rep, !.count = 0]
  OBVIOUS
<1>5. rep # flow[x].ackTxP /\ mark' = mark /\ flow' = [flow EXCEPT ![x] = f]
  <2>1. /\ flow[Peer(x)].ackRxP # flow[x].ackTxP /\ mark' = mark
        /\ flow' = [flow EXCEPT ![x] =
             [flow[x] EXCEPT !.ackTxB = At(mark[x], flow[Peer(x)].ackRxP),
                             !.ackTxP = flow[Peer(x)].ackRxP, !.count = 0]]
    BY ProgressEffect, Zenon
  <2> QED
    BY <2>1, <1>1, <1>3, <1>4
<1>6. flow[x] \in Counters /\ Counted(x)
  BY EndOf
<1>7. /\ f.ackTxP = rep /\ f.count = 0 /\ f.rxP = flow[x].rxP /\ f.ackRxP = flow[x].ackRxP
  BY <1>4, <1>6 DEF Counters
<1>8. flow'[x] = f /\ flow'[y] = flow[y]
  BY <1>2, <1>5 DEF StreamInv, StreamType
<1>9. UNCHANGED Win(y)!winVars
  BY <1>2, <1>5, <1>7, <1>8, WinStutter
<1>10. ReportsFrom(y) = {rep} /\ ReportsFrom(y)' = {}
  BY <1>1, <1>3, <1>5, <1>7, <1>8, ReportsStep
<1>11. Marked(mark[x]) /\ Window(mark[x], flow[y].rxP, rep, flow[x].ackTxP, flow[x].count)
  BY <1>1, <1>3, <1>6 DEF Counted
<1>12. ~Fills(mark[x], rep, Len(mark[x]))
  BY <1>5, <1>11, WindowAck
<1>13. Win(x)!Acknowledge(rep)
  BY <1>1, <1>3, <1>5, <1>7, <1>8, <1>10, <1>12
     DEF Win!Acknowledge, Win!Full, Win!BytesAt, Win!tx, Fills, At
<1>14. Win(x)!WinNext
  BY <1>1, <1>10, <1>13 DEF Win!WinNext
<1> QED
  BY <1>1, <1>9, <1>14

\* Every step of the stream is, in each direction, a step of the window or a stutter.
LEMMA WinStep ==
  ASSUME StreamInv, StreamInv', [Next]_streamVars, NEW e \in End
  PROVE  [Win(e)!WinNext]_(Win(e)!winVars)
<1>1. CASE flow' = flow /\ mark' = mark
  BY <1>1, WinStutter
<1>2. CASE Next
  <2>1. PICK x \in End : Step(x)
    BY <1>2 DEF Next
  <2>2. e = x \/ e = Peer(x)
    BY PeerOf
  <2>3. CASE SubmitBlock(x)
    BY <2>2, <2>3, SubmitBlockWin
  <2>4. CASE ReceiveData(x)
    BY <2>2, <2>4, ReceiveDataWin
  <2>5. CASE Progress(x)
    BY <2>2, <2>5, ProgressWin
  <2>6. CASE \/ Write(x) \/ RunTask(x) \/ QueueFull(x) \/ WriteDone(x)
             \/ SendReady(x) \/ PortRecv(x) \/ ReceiveReport(x) \/ FCLifted(x)
             \/ Read(x) \/ SendProgress(x) \/ Take(x)
    <3>1. flow' = flow /\ mark' = mark
      <4>1. CASE Write(x) \/ RunTask(x) \/ QueueFull(x) \/ WriteDone(x)
        BY <4>1, Zenon DEF Write, RunTask, QueueFull, WriteDone
      <4>2. CASE SendReady(x) \/ PortRecv(x)
        BY <4>2, Zenon DEF SendReady, PortRecv
      <4>3. CASE ReceiveReport(x) \/ FCLifted(x)
        BY <4>3, Zenon DEF ReceiveReport, FCLifted
      <4>4. CASE Read(x) \/ SendProgress(x) \/ Take(x)
        BY <4>4, Zenon DEF Read, SendProgress, Take
      <4> QED
        BY <2>6, <4>1, <4>2, <4>3, <4>4
    <3> QED
      BY <3>1, <1>1
  <2> QED
    BY <2>1, <2>3, <2>4, <2>5, <2>6 DEF Step
<1>3. CASE UNCHANGED streamVars
  BY <1>1, <1>3 DEF streamVars
<1> QED
  BY <1>2, <1>3

\* A new stream is a new window in each direction.
LEMMA WinStart == Init => \A e \in End : Win(e)!WinInit
<1> SUFFICES ASSUME Init, NEW e \in End PROVE Win(e)!WinInit
  OBVIOUS
<1>1. Peer(e) \in End /\ Peer(Peer(e)) = e
  BY PeerOf
<1>2. StreamInv
  BY StreamInvInit
<1>3. /\ mark[e] = << >> /\ flow[Peer(e)].rxP = 0 /\ flow[Peer(e)].ackRxP = 0
      /\ flow[e].ackTxP = 0 /\ flow[e].count = 0
  BY <1>1 DEF Init, NewFlow
<1>4. ReportsFrom(Peer(e)) = {}
  BY <1>2, <1>3, ReportsKnown
<1> QED
  BY <1>3, <1>4 DEF Win!WinInit

\* InvariantHolds: under SafeSetups the counters of the two CFlowControl objects, the
\* packets in the queues and the report on its way always fit together as StreamInv
\* says, for every window, every packet size and every number of blocks, however the
\* write, listening and read tasks and the ports of the two ends interleave.
THEOREM InvariantHolds == SafeSetups /\ Spec => []StreamInv
<1> SUFFICES ASSUME SafeSetups PROVE Spec => []StreamInv
  OBVIOUS
<1>1. Init => StreamInv
  BY StreamInvInit
<1>2. StreamInv /\ [Next]_streamVars => StreamInv'
  BY StreamInvStep
<1> QED
  BY <1>1, <1>2, PTL DEF Spec

\* StreamTyped: no counter of CFlowControl ever becomes negative, so no unsigned
\* difference wraps around, and a request in the queue of CIfStmReadWriteTask has a
\* block left, for every window, packet size and number of blocks.
THEOREM StreamTyped == SafeSetups /\ Spec => []TypeOK
  BY InvariantHolds, InvTypeOK, PTL

\* StreamIntact: nothing the tasks and ports of a stream do loses, duplicates or
\* reorders a packet: what is under way is, at any time and however long the stream
\* lives, what was submitted and not taken, in order.
THEOREM StreamIntact == SafeSetups /\ Spec => []DataIntact
  BY InvariantHolds, InvDataIntact, PTL

\* StreamBounded: between the two applications there is never more than a window and
\* the packet being taken, for every window: a report goes out through the read task,
\* after the packets it is about, so a reader that stops also stops the writer.
THEOREM StreamBounded == SafeSetups /\ Spec => []OneWindowHeld
  BY InvariantHolds, InvOneWindowHeld, PTL

\* StreamIsWindow: each direction of a stream implements the abstract FlowWindow, of
\* which WindowSafe is proved: a block submitted is a packet sent, a packet received
\* or a report applied by the listening task is that of the window, and all other
\* steps of ports, tasks and applications stutter.
THEOREM StreamIsWindow == SafeSetups /\ Spec => WindowSpec
<1>1. Init => \A e \in End : Win(e)!WinInit
  BY WinStart
<1>2. StreamInv /\ StreamInv' /\ [Next]_streamVars
        => [\A e \in End : [Win(e)!WinNext]_(Win(e)!winVars)]_streamVars
  BY WinStep
<1> QED
  BY <1>1, <1>2, InvariantHolds, PTL DEF Spec, WindowSpec
=============================================================================
