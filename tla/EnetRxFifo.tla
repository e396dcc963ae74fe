----------------------------- MODULE EnetRxFifo -----------------------------
(***************************************************************************)
(* The receive side of EnetDriver shown to implement RxPacketFifo.         *)
(*                                                                         *)
(* Two history variables record what the abstract queue needs and the      *)
(* driver does not keep: the sequence of frames passed to nicProcessPacket *)
(* (the driver keeps only the last) and the frames the uDMA stored with    *)
(* an error or over several buffers, which the driver will discard. They   *)
(* are updated from each step of EnetDriver and never constrain it.        *)
(***************************************************************************)
EXTENDS EnetDriver, Sequences

VARIABLES
  handed,      \* the frames passed to nicProcessPacket, in order
  discarded    \* the frames stored that the driver will not pass on

histVars == << vars, handed, discarded >>

(* The hardware's verdict on a stored descriptor, from its bits alone:     *)
(* one buffer (L) and none of the error bits.                              *)
Deliverable(d) == d.l /\ ~d.err

HistInit ==
  /\ Init
  /\ handed = << >>
  /\ discarded = {}

(* The history updated by a step of EnetDriver. *)
HistUpdate ==
  /\ handed' = IF delivered' # delivered THEN Append(handed, delivered')
               ELSE handed
  /\ discarded' = IF rxCount' > rxCount /\ ~Deliverable(rxBufferDesc'[dmaRxIndex])
                  THEN discarded \cup {rxCount'}
                  ELSE discarded

(* Next of EnetDriver, each action with the history update. *)
HistNext ==
  \/ MacReset /\ HistUpdate
  \/ PhyAccessStart /\ HistUpdate
  \/ PhyAccessDone /\ HistUpdate
  \/ MacStart /\ HistUpdate
  \/ MdioStep /\ HistUpdate
  \/ PhyResetStep /\ HistUpdate
  \/ DmaTransmit /\ HistUpdate
  \/ DmaTxIdle /\ HistUpdate
  \/ DmaReceive /\ HistUpdate
  \/ DmaRxIdle /\ HistUpdate
  \/ BusError /\ HistUpdate
  \/ TxIrqHandler /\ HistUpdate
  \/ RxIrqHandler /\ HistUpdate
  \/ ErrIrqHandler /\ HistUpdate
  \/ EventHandlerStart /\ HistUpdate
  \/ ReceivePacket /\ HistUpdate
  \/ EventHandlerFinish /\ HistUpdate
  \/ SendPacket /\ HistUpdate
  \/ SendCheck /\ HistUpdate
  \/ LinkChange /\ HistUpdate
  \/ PhyTick /\ HistUpdate
  \/ PhyEventHandler /\ HistUpdate

HistSpec == HistInit /\ [][HistNext]_histVars /\ Fairness

-----------------------------------------------------------------------------
(***************************************************************************)
(* Refinement mapping. A frame joins the abstract queue when the uDMA      *)
(* stores it deliverable, and is rejected at once when stored otherwise.   *)
(* The queue is the deliverable frames of the descriptors the driver owns, *)
(* in ring order from rxBufferIndex. A ring re-initialisation (bus-error   *)
(* recovery, link up) is the abstract Discard. A frame the MAC drops       *)
(* because the ring is full never reaches a descriptor, so is not counted. *)
(***************************************************************************)

(* The descriptors the driver owns (E clear), in ring order from          *)
(* rxBufferIndex: by RxRingConsistent they are the first ones from there. *)
OwnedDescs ==
  LET n == Cardinality({i \in RxSlots : ~rxBufferDesc[i].e}) IN
  [k \in 1 .. n |-> rxBufferDesc[(rxBufferIndex + k - 1) % NumRx]]

QueuedFrames ==
  LET ds == SelectSeq(OwnedDescs, Deliverable) IN
  [k \in 1 .. Len(ds) |-> ds[k].frame]

Fifo == INSTANCE RxPacketFifo WITH
          Capacity <- NumRx,
          MaxPackets <- MaxRxFrames,
          ResetDiscards <- TRUE,
          fifo <- QueuedFrames,
          delivered <- handed,
          arrived <- rxCount,
          rejected <- discarded

(* The ENET receive path is a FIFO of at most NumRx frames: the frames     *)
(* mpc5748Eth1ReceivePacket passes to nicProcessPacket are the frames the *)
(* uDMA stored deliverable, in arrival order, each once, none that it      *)
(* stored with an error; only a ring re-initialisation loses queued        *)
(* frames; and every queued frame is eventually processed.                 *)
RefinesRxPacketFifo == Fifo!Spec

=============================================================================
