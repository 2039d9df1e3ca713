---------------------------- MODULE StreamParams ----------------------------
(***************************************************************************)
(* The parameters of the flow control of a stream (ipc/uxport.h).          *)
(***************************************************************************)
EXTENDS Integers

CONSTANTS Pkts,    \* STM_MAX_PACKETS_REPORT
          Bytes,   \* STM_MAX_PENDING_WRITE
          Sizes    \* sizes of a packet

ASSUME WindowAssumption ==
  /\ Pkts \in Nat /\ Pkts > 0
  /\ Bytes \in Nat /\ Bytes > 0
  /\ \A s \in Sizes : s \in Nat /\ s > 0
=============================================================================
