---------------------------- MODULE RawSockQueue ----------------------------
(***************************************************************************)
(* The raw-socket NIC driver of the FTP client demo                        *)
(* (src/cyc/demo/x86/ftp_client_demo_mod/src/driver_rawsocket.c, with      *)
(* RAW_open/RAW_close/RAW_send of raw_eth.c).                              *)
(*                                                                         *)
(* rawsockDriverInit allocates the driver context, opens the packet socket *)
(* and starts rawsockDriverTask. That task (the producer) copies each      *)
(* received frame into the context's packet queue; the net task (the       *)
(* consumer) drains it in rawsockDriverEventHandler. The two threads share *)
(* queue[], writeIndex and readIndex with no lock: a slot's length field   *)
(* is the only handshake. Each thread's steps are split at every access to *)
(* shared state, so TLC explores every interleaving.                      *)
(* A frame is its arrival number; a length is 0 or 1 (any length in       *)
(* 1 .. PCAP_DRIVER_MAX_PACKET_SIZE - 1).                                  *)
(***************************************************************************)
EXTENDS Naturals, Sequences

CONSTANTS
  QueueSize,    \* PCAP_DRIVER_QUEUE_SIZE
  MaxPackets,   \* bound: frames returned by recvfrom
  MaxSends      \* bound: frames the stack sends

ASSUME QueueSize \in Nat /\ QueueSize >= 2
ASSUME MaxPackets \in Nat /\ MaxSends \in Nat

Slots == 0 .. QueueSize - 1

(* The steps of RAW_open: the failure of socket(), ioctl(SIOCGIFINDEX),    *)
(* bind(), ioctl(SIOCGIFFLAGS) or ioctl(SIOCSIFFLAGS), or success.         *)
OpenSteps == {"socket", "ifindex", "bind", "getflags", "setflags", "ok"}

VARIABLES
  initResult,   \* "None" before rawsockDriverInit returns, then "Ok"/"Error"
  context,      \* the RawsockDriverContext block: "None", "Live", "Freed"
  nicContext,   \* interface->nicContext points to the context
  sockOpen,     \* the packet socket (context->sd) is open
  queue,        \* context->queue[]: [data, length] per slot
  writeIndex,   \* context->writeIndex
  readIndex,    \* context->readIndex
  ppc,          \* rawsockDriverTask: "NoTask" or the next step
  pkt,          \* rawsockDriverTask: the frame in its local buffer
  next,         \* rawsockDriverTask: local n
  cpc,          \* the net task in rawsockDriverEventHandler
  nicEvent,     \* interface->nicEvent
  nicTxEvent,   \* interface->nicTxEvent
  rcvd,         \* frames returned by recvfrom so far
  delivered,    \* frames passed to nicProcessPacket, in order
  sent,         \* frames sent so far
  ignored       \* history: frames ignored for their length or a link down

vars == << initResult, context, nicContext, sockOpen, queue, writeIndex,
           readIndex, ppc, pkt, next, cpc, nicEvent, nicTxEvent, rcvd,
           delivered, sent, ignored >>

-----------------------------------------------------------------------------
(* Fault variant: the index wrap taken modulo one slot too many. *)
NextSlotPastEnd(i) == (i + 1) % (QueueSize + 1)

(* (index + 1) % PCAP_DRIVER_QUEUE_SIZE *)
NextSlot(i) == (i + 1) % QueueSize

(* Whether RAW_open returns with the socket open: socket() failing opens   *)
(* nothing, and each later failing step closes it before returning -1.     *)
RawOpenLeavesOpen(step) == step = "ok"

(* Fault variant: the length stored before the frame is copied (a store    *)
(* order the compiler may choose, the fields not being volatile).          *)
ProducerOrderLengthFirst == << "SetLen", "Copy" >>

(* rawsockDriverTask stores the frame, then its length. *)
ProducerOrder == << "Copy", "SetLen" >>

(* The producer step that follows step s of ProducerOrder. *)
AfterStore(s) == IF s = ProducerOrder[1] THEN ProducerOrder[2] ELSE "Advance"

EmptyQueue == [i \in Slots |-> [data |-> 0, length |-> 0]]

-----------------------------------------------------------------------------
Init ==
  /\ initResult = "None"
  /\ context = "None"
  /\ nicContext = FALSE
  /\ sockOpen = FALSE
  /\ queue = EmptyQueue
  /\ writeIndex = 0
  /\ readIndex = 0
  /\ ppc = "NoTask"
  /\ pkt = 0
  /\ next = 0
  /\ cpc = "Idle"
  /\ nicEvent = FALSE
  /\ nicTxEvent = FALSE
  /\ rcvd = 0
  /\ delivered = << >>
  /\ sent = 0
  /\ ignored = {}

(* rawsockDriverInit, every exit: the allocation fails; or the context is  *)
(* attached and cleared and RAW_open fails (returning without cleanup); or *)
(* the task cannot be created (socket closed, context freed); or the task  *)
(* starts and nicTxEvent is set.                                           *)
RawsockDriverInit ==
  /\ initResult = "None"
  /\ \/ /\ initResult' = "Error"
        /\ UNCHANGED << context, nicContext, sockOpen, ppc, nicTxEvent >>
     \/ /\ nicContext' = TRUE
        /\ \E step \in OpenSteps :
           \/ /\ step # "ok"
              /\ sockOpen' = RawOpenLeavesOpen(step)
              /\ context' = "Live"
              /\ initResult' = "Error"
              /\ UNCHANGED << ppc, nicTxEvent >>
           \/ /\ step = "ok"
              /\ \/ /\ sockOpen' = FALSE
                    /\ context' = "Freed"
                    /\ initResult' = "Error"
                    /\ UNCHANGED << ppc, nicTxEvent >>
                 \/ /\ sockOpen' = RawOpenLeavesOpen(step)
                    /\ context' = "Live"
                    /\ ppc' = "Recv"
                    /\ nicTxEvent' = TRUE
                    /\ initResult' = "Ok"
  /\ UNCHANGED << queue, writeIndex, readIndex, pkt, next, cpc, nicEvent,
                  rcvd, delivered, sent, ignored >>

-----------------------------------------------------------------------------
(* rawsockDriverTask, one recvfrom and its checks: a frame of a bad length *)
(* or received while the link is down is ignored; when the slot after      *)
(* writeIndex is readIndex the queue is full and the frame is dropped      *)
(* ("Overflow"); otherwise the task goes on to store it.                   *)
TaskReceive ==
  /\ ppc = "Recv" /\ rcvd < MaxPackets
  /\ rcvd' = rcvd + 1
  /\ pkt' = rcvd + 1
  /\ \E lengthOk, linkUp \in BOOLEAN :
     \/ /\ ~(lengthOk /\ linkUp)
        /\ ignored' = ignored \cup {rcvd + 1}
        /\ UNCHANGED << ppc, next >>
     \/ /\ lengthOk /\ linkUp
        /\ NextSlot(writeIndex) = readIndex
        /\ UNCHANGED << ppc, next, ignored >>
     \/ /\ lengthOk /\ linkUp
        /\ NextSlot(writeIndex) # readIndex
        /\ next' = NextSlot(writeIndex)
        /\ ppc' = ProducerOrder[1]
        /\ UNCHANGED ignored
  /\ UNCHANGED << initResult, context, nicContext, sockOpen, queue,
                  writeIndex, readIndex, cpc, nicEvent, nicTxEvent,
                  delivered, sent >>

(* osMemcpy(context->queue[context->writeIndex].data, data, length) *)
TaskCopy ==
  /\ ppc = "Copy"
  /\ queue' = [queue EXCEPT ![writeIndex].data = pkt]
  /\ ppc' = AfterStore("Copy")
  /\ UNCHANGED << initResult, context, nicContext, sockOpen, writeIndex,
                  readIndex, pkt, next, cpc, nicEvent, nicTxEvent, rcvd,
                  delivered, sent, ignored >>

(* context->queue[context->writeIndex].length = length *)
TaskSetLength ==
  /\ ppc = "SetLen"
  /\ queue' = [queue EXCEPT ![writeIndex].length = 1]
  /\ ppc' = AfterStore("SetLen")
  /\ UNCHANGED << initResult, context, nicContext, sockOpen, writeIndex,
                  readIndex, pkt, next, cpc, nicEvent, nicTxEvent, rcvd,
                  delivered, sent, ignored >>

(* context->writeIndex = n *)
TaskAdvance ==
  /\ ppc = "Advance"
  /\ writeIndex' = next
  /\ ppc' = "Notify"
  /\ UNCHANGED << initResult, context, nicContext, sockOpen, queue,
                  readIndex, pkt, next, cpc, nicEvent, nicTxEvent, rcvd,
                  delivered, sent, ignored >>

(* interface->nicEvent = TRUE; osSetEvent(&netEvent) *)
TaskNotify ==
  /\ ppc = "Notify"
  /\ nicEvent' = TRUE
  /\ ppc' = "Recv"
  /\ UNCHANGED << initResult, context, nicContext, sockOpen, queue,
                  writeIndex, readIndex, pkt, next, cpc, nicTxEvent, rcvd,
                  delivered, sent, ignored >>

-----------------------------------------------------------------------------
(* The net task sees nicEvent, clears it and calls                         *)
(* rawsockDriverEventHandler.                                              *)
EventHandlerStart ==
  /\ initResult = "Ok" /\ cpc = "Idle" /\ nicEvent
  /\ nicEvent' = FALSE
  /\ cpc' = "Check"
  /\ UNCHANGED << initResult, context, nicContext, sockOpen, queue,
                  writeIndex, readIndex, ppc, pkt, next, nicTxEvent, rcvd,
                  delivered, sent, ignored >>

(* while(context->queue[context->readIndex].length > 0) *)
EventHandlerCheck ==
  /\ cpc = "Check"
  /\ cpc' = IF queue[readIndex].length > 0 THEN "Process" ELSE "Idle"
  /\ UNCHANGED << initResult, context, nicContext, sockOpen, queue,
                  writeIndex, readIndex, ppc, pkt, next, nicEvent,
                  nicTxEvent, rcvd, delivered, sent, ignored >>

(* nicProcessPacket(interface, queue[readIndex].data, ...) *)
EventHandlerProcess ==
  /\ cpc = "Process"
  /\ delivered' = Append(delivered, queue[readIndex].data)
  /\ cpc' = "Release"
  /\ UNCHANGED << initResult, context, nicContext, sockOpen, queue,
                  writeIndex, readIndex, ppc, pkt, next, nicEvent,
                  nicTxEvent, rcvd, sent, ignored >>

(* context->queue[context->readIndex].length = 0 *)
EventHandlerRelease ==
  /\ cpc = "Release"
  /\ queue' = [queue EXCEPT ![readIndex].length = 0]
  /\ cpc' = "Advance"
  /\ UNCHANGED << initResult, context, nicContext, sockOpen, writeIndex,
                  readIndex, ppc, pkt, next, nicEvent, nicTxEvent, rcvd,
                  delivered, sent, ignored >>

(* context->readIndex = n, and back to the loop test *)
EventHandlerAdvance ==
  /\ cpc = "Advance"
  /\ readIndex' = NextSlot(readIndex)
  /\ cpc' = "Check"
  /\ UNCHANGED << initResult, context, nicContext, sockOpen, queue,
                  writeIndex, ppc, pkt, next, nicEvent, nicTxEvent, rcvd,
                  delivered, sent, ignored >>

(* The stack waits for nicTxEvent (consuming it) and calls                 *)
(* rawsockDriverSendPacket from the net task. An oversized frame, a failed *)
(* RAW_send and a sent frame all end with nicTxEvent set again.            *)
SendPacket ==
  /\ initResult = "Ok" /\ cpc = "Idle" /\ nicTxEvent /\ sent < MaxSends
  /\ sent' = sent + 1
  /\ nicTxEvent' = TRUE
  /\ UNCHANGED << initResult, context, nicContext, sockOpen, queue,
                  writeIndex, readIndex, ppc, pkt, next, cpc, nicEvent,
                  rcvd, delivered, ignored >>

-----------------------------------------------------------------------------
Next ==
  \/ RawsockDriverInit
  \/ TaskReceive \/ TaskCopy \/ TaskSetLength \/ TaskAdvance \/ TaskNotify
  \/ EventHandlerStart \/ EventHandlerCheck \/ EventHandlerProcess
  \/ EventHandlerRelease \/ EventHandlerAdvance
  \/ SendPacket

(***************************************************************************)
(* Fairness. Both threads, once they have started a step sequence, carry   *)
(* it on (weak); the net task wakes on netEvent and runs the handler       *)
(* (weak). Frame arrival (recvfrom returning) and sends have no fairness.  *)
(***************************************************************************)
Fairness ==
  /\ WF_vars(TaskCopy) /\ WF_vars(TaskSetLength)
  /\ WF_vars(TaskAdvance) /\ WF_vars(TaskNotify)
  /\ WF_vars(EventHandlerStart) /\ WF_vars(EventHandlerCheck)
  /\ WF_vars(EventHandlerProcess) /\ WF_vars(EventHandlerRelease)
  /\ WF_vars(EventHandlerAdvance)

Spec == Init /\ [][Next]_vars /\ Fairness


-----------------------------------------------------------------------------
(***************************************************************************)
(* Properties.                                                              *)
(***************************************************************************)

TypeOK ==
  /\ initResult \in {"None", "Ok", "Error"}
  /\ context \in {"None", "Live", "Freed"}
  /\ {nicContext, sockOpen, nicEvent, nicTxEvent} \subseteq BOOLEAN
  /\ queue \in [Slots -> [data : 0 .. MaxPackets, length : 0 .. 1]]
  /\ writeIndex \in Slots /\ readIndex \in Slots /\ next \in Slots
  /\ ppc \in {"NoTask", "Recv", "Copy", "SetLen", "Advance", "Notify"}
  /\ cpc \in {"Idle", "Check", "Process", "Release", "Advance"}
  /\ pkt \in 0 .. MaxPackets /\ rcvd \in 0 .. MaxPackets
  /\ delivered \in Seq(1 .. MaxPackets) /\ sent \in 0 .. MaxSends
  /\ ignored \subseteq 1 .. MaxPackets

(* When rawsockDriverInit fails, it leaves no driver context allocated and *)
(* interface->nicContext does not point to freed memory.                   *)
InitErrorReleasesContext ==
  initResult = "Error" => context # "Live" /\ ~(nicContext /\ context = "Freed")

(***************************************************************************)
(* Refinement mapping onto RxPacketFifo. A frame joins the abstract queue *)
(* when its length is stored (the consumer can see it from then on) and   *)
(* leaves it when readIndex moves past its slot; it counts as delivered   *)
(* from that moment too. The abstract queue is the run of slots from      *)
(* readIndex whose length is set, the slot being released included.       *)
(***************************************************************************)

(* The producer has accepted a frame whose length is not stored yet. *)
Pending == ppc \in {"Copy", "SetLen"} /\ queue[writeIndex].length = 0

Occupied(i) == queue[i].length > 0 \/ (i = readIndex /\ cpc = "Advance")

RECURSIVE RunFrom(_, _)
RunFrom(i, k) ==
  IF k = 0 \/ ~Occupied(i) THEN << >>
  ELSE << queue[i].data >> \o RunFrom(NextSlot(i), k - 1)

QueuedFrames == RunFrom(readIndex, QueueSize)

DeliveredFrames ==
  IF cpc \in {"Release", "Advance"}
  THEN SubSeq(delivered, 1, Len(delivered) - 1)
  ELSE delivered

ArrivedFrames == IF Pending THEN rcvd - 1 ELSE rcvd

Fifo == INSTANCE RxPacketFifo WITH
          Capacity <- QueueSize - 1,
          ResetDiscards <- FALSE,
          fifo <- QueuedFrames,
          delivered <- DeliveredFrames,
          arrived <- ArrivedFrames,
          rejected <- ignored

(* The queue between rawsockDriverTask and rawsockDriverEventHandler is a *)
(* FIFO of PCAP_DRIVER_QUEUE_SIZE - 1 frames, whatever the interleaving of *)
(* the two threads: frames reach nicProcessPacket in arrival order, none   *)
(* twice, none altered, a frame is dropped only when the queue is full,    *)
(* and every queued frame is eventually processed.                         *)
RefinesRxPacketFifo == Fifo!Spec

=============================================================================
