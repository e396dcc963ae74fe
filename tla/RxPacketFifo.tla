---------------------------- MODULE RxPacketFifo ----------------------------
(***************************************************************************)
(* What a NIC driver's receive queue promises the TCP/IP stack: packets    *)
(* arrive numbered 1, 2, ...; each is rejected as invalid, or queued, or,  *)
(* when the queue holds Capacity packets, dropped; queued packets are      *)
(* handed to the stack in arrival order, each once, and every queued       *)
(* packet is eventually handed over. Where ResetDiscards holds, a reset   *)
(* of the receiver may discard every queued packet at once.                *)
(***************************************************************************)
EXTENDS Naturals, Sequences

CONSTANTS
  Capacity,    \* packets the queue can hold
  MaxPackets,  \* bound: packets that arrive
  ResetDiscards \* TRUE: a receiver reset may discard the queued packets

VARIABLES
  fifo,        \* the queued packets, oldest first
  delivered,   \* the packets handed to the stack, in order
  arrived,     \* packets arrived so far
  rejected     \* the packets rejected as invalid

vars == << fifo, delivered, arrived, rejected >>

Init ==
  /\ fifo = << >>
  /\ delivered = << >>
  /\ arrived = 0
  /\ rejected = {}

(* A packet arrives; it is rejected, or queued if there is room, or        *)
(* dropped when there is none.                                             *)
Arrive ==
  /\ arrived < MaxPackets
  /\ arrived' = arrived + 1
  /\ \/ /\ rejected' = rejected \cup {arrived + 1}
        /\ UNCHANGED fifo
     \/ /\ Len(fifo) < Capacity
        /\ fifo' = Append(fifo, arrived + 1)
        /\ UNCHANGED rejected
     \/ /\ Len(fifo) = Capacity
        /\ UNCHANGED << fifo, rejected >>
  /\ UNCHANGED delivered

(* The oldest queued packet is handed to the stack. *)
Deliver ==
  /\ fifo # << >>
  /\ delivered' = Append(delivered, Head(fifo))
  /\ fifo' = Tail(fifo)
  /\ UNCHANGED << arrived, rejected >>

(* The receiver is reset and the queued packets are lost. *)
Discard ==
  /\ ResetDiscards
  /\ fifo # << >>
  /\ fifo' = << >>
  /\ UNCHANGED << delivered, arrived, rejected >>

Next == Arrive \/ Deliver \/ Discard

Spec == Init /\ [][Next]_vars /\ WF_vars(Deliver)

=============================================================================
