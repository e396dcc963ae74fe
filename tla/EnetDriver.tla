----------------------------- MODULE EnetDriver -----------------------------
(***************************************************************************)
(* The MPC5748 ENET0 MAC driver of CycloneTCP                               *)
(* (src/cyc/cyclone_tcp/drivers/mac/mpc5748_eth1_driver.c) together with   *)
(* the parts of its environment it synchronises with:                      *)
(*   - the ENET uDMA engine, which walks the TX and RX descriptor rings    *)
(*     by itself, following the wrap flag, and raises TXF, RXF and EBERR;  *)
(*   - the three ENET interrupt service routines;                          *)
(*   - the TCP/IP stack's net task, which serialises the driver's task-    *)
(*     context entry points (event handler, send, PHY event) and masks the *)
(*     ENET interrupts around each of them;                                *)
(*   - the TJA1102 PHY event handler, whose link-up branch reconfigures    *)
(*     the MAC and so re-initialises both rings;                           *)
(*   - mpc5748Eth1Init with tja1102Init, which bring the MAC and the PHY   *)
(*     up over the SMI (module Smi) before the stack may use the driver.   *)
(* Frame payloads are abstracted away; a received frame is its arrival     *)
(* number and its kind (good, errored, not the last buffer of a frame).    *)
(***************************************************************************)
EXTENDS Naturals, FiniteSets, Smi

CONSTANTS
  NumTx,             \* MPC5748_ETH1_TX_BUFFER_COUNT
  NumRx,             \* MPC5748_ETH1_RX_BUFFER_COUNT
  MaxTxFrames,       \* bound: frames the stack hands to the driver
  MaxRxFrames,       \* bound: frames the uDMA stores into the RX ring
  MaxBusErrors,      \* bound: system bus errors raised by the uDMA
  MaxLinkChanges,    \* bound: changes of the PHY's link status
  LinkAtStart,       \* the link status the PHY may have when the stack starts
  StackModes,        \* TRUE: the stack only sends once nicTxEvent is set;
                     \* FALSE: it sends without waiting
  DumpRegs           \* registers read by tja1102DumpPhyReg: 32 when
                     \* NIC_TRACE_LEVEL enables TRACE_DEBUG, else 0 (the
                     \* macro then drops its arguments, reads included)

ASSUME NumTx \in Nat \ {0, 1} /\ NumRx \in Nat \ {0, 1}
ASSUME {MaxTxFrames, MaxRxFrames, MaxBusErrors, MaxLinkChanges} \subseteq Nat
ASSUME LinkAtStart \subseteq BOOLEAN
ASSUME StackModes \subseteq BOOLEAN /\ DumpRegs \in Nat

TxSlots == 0 .. NumTx - 1
RxSlots == 0 .. NumRx - 1

(* ENET_EIR / ENET_EIMR bits the driver uses. *)
TXF == "TXF"
RXF == "RXF"
EBERR == "EBERR"
Events == {TXF, RXF, EBERR}

(* What the uDMA can store into an RX descriptor. *)
FrameKinds == {"Good", "Errored", "NotLast"}

VARIABLES
  txBufferDesc,   \* TX descriptors: r = ENET_TBD0_R, w = ENET_TBD0_W
  rxBufferDesc,   \* RX descriptors: e = ENET_RBD0_E, w, l = ENET_RBD0_L,
                  \*   err = any of LG|NO|CR|OV|TR, frame = arrival number
  txBufferIndex,  \* the driver's TX cursor
  rxBufferIndex,  \* the driver's RX cursor
  ecrEn,          \* ENET_ECR.ETHEREN
  tdar,           \* ENET_TDAR: the uDMA is polling the TX ring
  rdar,           \* ENET_RDAR: the uDMA is polling the RX ring
  dmaTxIndex,     \* the uDMA's own TX descriptor pointer
  dmaRxIndex,     \* the uDMA's own RX descriptor pointer
  eir,            \* ENET_EIR: pending events
  eimr,           \* ENET_EIMR: unmasked events
  irqEnabled,     \* the three ENET IRQs enabled in the interrupt controller
  nicEvent,       \* interface->nicEvent
  nicTxEvent,     \* interface->nicTxEvent (the stack's "transmitter ready")
  linkState,      \* interface->linkState
  pc,             \* where the net task is inside a driver entry point
  status,         \* the EIR value read by mpc5748Eth1EventHandler
  txCount,        \* frames the stack has handed to the driver so far
  rxCount,        \* frames the uDMA has stored so far (numbers 1..rxCount)
  delivered,      \* number of the last frame passed to nicProcessPacket
  busErrors,      \* bus errors raised so far
  phyLink,        \* the link status bit of the TJA1102 (TJA1102_BASIC_STAT)
  phyEvent,       \* interface->phyEvent
  linkChanges,    \* changes of the link status so far
  stackWaits,     \* the stack's pacing, one of StackModes
  smiWait,        \* mpc5748Eth1Init: an SMI frame of the current step is out
  rdata,          \* tja1102Init's value: the last register value read
  dumpIndex       \* tja1102DumpPhyReg's loop index

vars == << txBufferDesc, rxBufferDesc, txBufferIndex, rxBufferIndex, ecrEn,
           tdar, rdar, dmaTxIndex, dmaRxIndex, eir, eimr, irqEnabled,
           nicEvent, nicTxEvent, linkState, pc, status, txCount, rxCount,
           delivered, busErrors, phyLink, phyEvent, linkChanges, stackWaits,
           smiWait, rdata, dumpIndex, smiVars >>

ringVars == << txBufferDesc, rxBufferDesc, txBufferIndex, rxBufferIndex >>
dmaVars == << ecrEn, tdar, rdar, dmaTxIndex, dmaRxIndex >>
phyVars == << phyLink, phyEvent, linkChanges >>
initVars == << smiWait, rdata, dumpIndex >>

-----------------------------------------------------------------------------
(***************************************************************************)
(* Descriptor rings.                                                        *)
(***************************************************************************)

(* Descriptors as mpc5748Eth1InitBufferDesc leaves them. *)
TxDescInit == [i \in TxSlots |-> [r |-> FALSE, w |-> i = NumTx - 1]]
RxDescInit == [i \in RxSlots |->
                 [e |-> TRUE, w |-> i = NumRx - 1, l |-> FALSE,
                  err |-> FALSE, frame |-> 0]]

(* Fault variant: the RX cursor is not reset with the ring. *)
InitBufferDescKeepRxIndex ==
  /\ txBufferDesc' = TxDescInit
  /\ rxBufferDesc' = RxDescInit
  /\ txBufferIndex' = 0
  /\ rxBufferIndex' = rxBufferIndex

(* mpc5748Eth1InitBufferDesc: clear both rings, set the wrap flag on the   *)
(* last descriptor, give every RX descriptor to the uDMA, reset cursors.  *)
InitBufferDesc ==
  /\ txBufferDesc' = TxDescInit
  /\ rxBufferDesc' = RxDescInit
  /\ txBufferIndex' = 0
  /\ rxBufferIndex' = 0

(* ECR.ETHEREN cleared then set, followed by the RDAR write: the uDMA is   *)
(* reset to the start of both rings and polls the RX ring.                *)
RestartMac ==
  /\ ecrEn' = TRUE
  /\ dmaTxIndex' = 0
  /\ dmaRxIndex' = 0
  /\ tdar' = FALSE
  /\ rdar' = TRUE

(* Fault variants: the wrap test off by one either way. *)
NextIndexPastEnd(i, n) == IF i < n THEN i + 1 ELSE 0
NextIndexEarlyWrap(i, n) == IF i < n - 2 THEN i + 1 ELSE 0

(* The cursor after slot i of a ring of n slots ("Point to the next       *)
(* buffer" / "Wrap around").                                              *)
NextIndex(i, n) == IF i < n - 1 THEN i + 1 ELSE 0

(* The uDMA moves to the next descriptor, or back to the ring start when   *)
(* the descriptor it just used carries the wrap flag.                     *)
DmaNext(i, wrap) == IF wrap THEN 0 ELSE i + 1

(* Fault variants: the wrap flag forgotten when a descriptor is handed to *)
(* the uDMA.                                                               *)
TxReadyDescNoWrap(i) == [r |-> TRUE, w |-> FALSE]
RxEmptyDescNoWrap(i) ==
  [e |-> TRUE, w |-> FALSE, l |-> FALSE, err |-> FALSE, frame |-> 0]

(* The TX descriptor mpc5748Eth1SendPacket hands to the uDMA: R, L and TC, *)
(* the length, and W on the last slot.                                     *)
TxReadyDesc(i) == [r |-> TRUE, w |-> i = NumTx - 1]

(* The RX descriptor mpc5748Eth1ReceivePacket gives back to the uDMA: E,   *)
(* and W on the last slot; L, the error bits and the length are cleared.   *)
RxEmptyDesc(i) ==
  [e |-> TRUE, w |-> i = NumRx - 1, l |-> FALSE, err |-> FALSE, frame |-> 0]

(* Fault variant: the buffer passed to nicProcessPacket taken after        *)
(* rxBufferIndex has moved on.                                             *)
ProcessedFrameAfterAdvance(i) == rxBufferDesc[NextIndex(i, NumRx)].frame

(* nicProcessPacket(interface, rxBuffer[rxBufferIndex], n, &ancillary):   *)
(* the frame in the buffer of the current descriptor.                     *)
ProcessedFrame(i) == rxBufferDesc[i].frame

(* mpc5748Eth1ReceivePacket passes a frame on only when it fits in one     *)
(* buffer (L set) and no error bit (LG, NO, CR, OV, TR) is set.            *)
IsValidFrame(d) == d.l /\ ~d.err

(* Fault variants of the transmit-interrupt check. *)
TxIrqNotifyAlways == TRUE
TxIrqNotifyNever == FALSE

(* ENET0_Tx_IRQHandler wakes the stack only if the descriptor at the       *)
(* driver's cursor is available for writing.                               *)
TxIrqNotify == ~txBufferDesc[txBufferIndex].r

(* Fault variant: RXF left masked at the end of the event handler. *)
UnmaskWithoutRxf == {TXF, EBERR}

(* The EIMR value the event handler writes back on exit. *)
EventHandlerUnmask == Events

(* mpc5748Eth1EnableIrq / mpc5748Eth1DisableIrq: the three ENET IRQs in   *)
(* the interrupt controller (the TJA1102 has no interrupt line here).     *)
EnableIrq == irqEnabled' = TRUE
DisableIrq == irqEnabled' = FALSE

-----------------------------------------------------------------------------
(***************************************************************************)
(* Initialisation: mpc5748Eth1Init and the tja1102Init it calls. Every    *)
(* PHY register access is an SMI frame the code waits for, so each is a    *)
(* start step and a completion step, with the MAC and the PHY in between.  *)
(***************************************************************************)

(* Where the net task is inside mpc5748Eth1Init. *)
SmiSteps == {"PhyReset", "PollReset", "Dump", "ReadExt", "WriteExt",
             "ReadComm", "WriteComm"}
InitSteps == SmiSteps \cup {"MacReset", "MacStart"}

(* Fault variant: MDC left unconfigured (MSCR written after the PHY init). *)
MdcSpeedUnset == 0

(* ENET_MSCR_MII_SPEED(19). *)
MdcSpeed == 19

(* Fault variant: tja1102Init does not wait for the PHY reset. *)
ResetPendingNever(v) == FALSE

(* The loop condition tja1102ReadPhyReg(BASIC_CTRL) & BASIC_CTRL_RESET. *)
ResetPending(v) == "RESET" \in v

(* The SMI frame of each step of tja1102Init: reset the PHY, poll the reset *)
(* bit, dump the registers, then read-modify-write EXTENDED_CTRL with      *)
(* CONFIG_EN and COMM_CTRL with AUTO_OP.                                   *)
StartAccess ==
  CASE pc = "PhyReset" -> SmiWrite("BASIC_CTRL", {"RESET"})
    [] pc = "PollReset" -> SmiRead("BASIC_CTRL")
    [] pc = "Dump" -> SmiRead("OTHER")
    [] pc = "ReadExt" -> SmiRead("EXT_CTRL")
    [] pc = "WriteExt" -> SmiWrite("EXT_CTRL", rdata \cup {"CONFIG_EN"})
    [] pc = "ReadComm" -> SmiRead("COMM_CTRL")
    [] pc = "WriteComm" -> SmiWrite("COMM_CTRL", rdata \cup {"AUTO_OP"})

(* The step of tja1102Init after the access completes with value v. *)
AfterAccess(v) ==
  CASE pc = "PhyReset" -> "PollReset"
    [] pc = "PollReset" /\ ResetPending(v) -> "PollReset"
    [] pc = "PollReset" /\ DumpRegs > 0 -> "Dump"
    [] pc = "PollReset" -> "ReadExt"
    [] pc = "Dump" /\ dumpIndex + 1 < DumpRegs -> "Dump"
    [] pc = "Dump" -> "ReadExt"
    [] pc = "ReadExt" -> "WriteExt"
    [] pc = "WriteExt" -> "ReadComm"
    [] pc = "ReadComm" -> "WriteComm"
    [] pc = "WriteComm" -> "MacStart"

(* Zero-initialised static descriptor arrays, before InitBufferDesc. *)
TxDescZero == [i \in TxSlots |-> [r |-> FALSE, w |-> FALSE]]
RxDescZero == [i \in RxSlots |->
                 [e |-> FALSE, w |-> FALSE, l |-> FALSE, err |-> FALSE,
                  frame |-> 0]]

(***************************************************************************)
(* Initial state: the stack calls mpc5748Eth1Init at power-on, with the   *)
(* ENET registers and the PHY at their reset values.                      *)
(***************************************************************************)
Init ==
  /\ txBufferDesc = TxDescZero
  /\ rxBufferDesc = RxDescZero
  /\ txBufferIndex = 0
  /\ rxBufferIndex = 0
  /\ ecrEn = FALSE
  /\ dmaTxIndex = 0
  /\ dmaRxIndex = 0
  /\ tdar = FALSE
  /\ rdar = FALSE
  /\ eir = {}
  /\ eimr = {}
  /\ irqEnabled = FALSE
  /\ nicEvent = FALSE
  /\ nicTxEvent = FALSE
  /\ linkState = FALSE
  /\ pc = "MacReset"
  /\ status = {}
  /\ txCount = 0
  /\ rxCount = 0
  /\ delivered = 0
  /\ busErrors = 0
  /\ phyLink \in LinkAtStart
  /\ phyEvent = FALSE
  /\ linkChanges = 0
  /\ stackWaits \in StackModes
  /\ smiWait = FALSE
  /\ rdata = {}
  /\ dumpIndex = 0
  /\ SmiInit

(* mpc5748Eth1Init up to the PHY init: reset the ENET (ECR.RESET, waited  *)
(* for), program RCR and TCR, and give MDC its frequency in MSCR.         *)
MacReset ==
  /\ pc = "MacReset"
  /\ mscr' = MdcSpeed
  /\ pc' = "PhyReset"
  /\ UNCHANGED << ringVars, dmaVars, eir, eimr, irqEnabled, nicEvent,
                  nicTxEvent, linkState, status, txCount, rxCount, delivered,
                  busErrors, phyVars, stackWaits, initVars,
                  mii, mmfr, mdioBusy, phyRegs >>

(* tja1102WritePhyReg / tja1102ReadPhyReg of the current step, through     *)
(* mpc5748Eth1WritePhyReg / ReadPhyReg up to their busy-wait.              *)
PhyAccessStart ==
  /\ pc \in SmiSteps /\ ~smiWait
  /\ smiWait' = TRUE
  /\ StartAccess
  /\ UNCHANGED << ringVars, dmaVars, eir, eimr, irqEnabled, nicEvent,
                  nicTxEvent, linkState, pc, status, txCount, rxCount,
                  delivered, busErrors, phyVars, stackWaits, rdata, dumpIndex >>

(* The busy-wait sees EIR.MII; a read returns the MMFR data field, and     *)
(* tja1102Init goes on. After the last write it sets phyEvent to force a   *)
(* link poll.                                                              *)
PhyAccessDone ==
  /\ pc \in SmiSteps /\ smiWait /\ SmiComplete
  /\ smiWait' = FALSE
  /\ rdata' = SmiData
  /\ pc' = AfterAccess(SmiData)
  /\ dumpIndex' = IF pc = "Dump" THEN dumpIndex + 1 ELSE dumpIndex
  /\ phyEvent' = (phyEvent \/ pc = "WriteComm")
  /\ UNCHANGED << ringVars, dmaVars, eir, eimr, irqEnabled, nicEvent,
                  nicTxEvent, linkState, status, txCount, rxCount, delivered,
                  busErrors, phyLink, linkChanges, stackWaits, smiVars >>

(* The rest of mpc5748Eth1Init: station address and hash tables (module   *)
(* AddrFilter), InitBufferDesc, clear every EIR bit (MII included), unmask *)
(* TXF, RXF and EBERR, enable the MAC, write RDAR and set nicTxEvent. The  *)
(* stack then enables the ENET IRQs.                                       *)
MacStart ==
  /\ pc = "MacStart"
  /\ InitBufferDesc
  /\ RestartMac
  /\ eir' = {}
  /\ mii' = FALSE
  /\ eimr' = Events
  /\ nicTxEvent' = TRUE
  /\ EnableIrq
  /\ pc' = "Idle"
  /\ UNCHANGED << nicEvent, linkState, status, txCount, rxCount, delivered,
                  busErrors, phyVars, stackWaits, initVars,
                  mscr, mmfr, mdioBusy, phyRegs >>

-----------------------------------------------------------------------------
(***************************************************************************)
(* The ENET uDMA engine (hardware).                                         *)
(***************************************************************************)

(* Transmit the frame of the descriptor the uDMA points at: clear R, raise *)
(* TXF, follow the wrap flag.                                              *)
DmaTransmit ==
  /\ ecrEn /\ tdar
  /\ dmaTxIndex \in TxSlots
  /\ txBufferDesc[dmaTxIndex].r
  /\ txBufferDesc' = [txBufferDesc EXCEPT ![dmaTxIndex].r = FALSE]
  /\ dmaTxIndex' = DmaNext(dmaTxIndex, txBufferDesc[dmaTxIndex].w)
  /\ eir' = eir \cup {TXF}
  /\ UNCHANGED << rxBufferDesc, txBufferIndex, rxBufferIndex, ecrEn, tdar,
                  rdar, dmaRxIndex, eimr, irqEnabled, nicEvent, nicTxEvent,
                  linkState, pc, status, txCount, rxCount, delivered,
                  busErrors, phyVars,
                  smiVars, initVars, stackWaits >>

(* The uDMA finds no ready TX descriptor and stops polling (TDAR cleared). *)
DmaTxIdle ==
  /\ ecrEn /\ tdar
  /\ dmaTxIndex \in TxSlots
  /\ ~txBufferDesc[dmaTxIndex].r
  /\ tdar' = FALSE
  /\ UNCHANGED << ringVars, ecrEn, rdar, dmaTxIndex, dmaRxIndex, eir, eimr,
                  irqEnabled, nicEvent, nicTxEvent, linkState, pc, status,
                  txCount, rxCount, delivered, busErrors, phyVars,
                  smiVars, initVars, stackWaits >>

(* A frame arrives and is stored into the empty descriptor the uDMA points *)
(* at: E cleared, L and the error bits set by the frame's kind, RXF raised.*)
DmaReceive ==
  /\ ecrEn /\ rdar
  /\ rxCount < MaxRxFrames
  /\ dmaRxIndex \in RxSlots
  /\ rxBufferDesc[dmaRxIndex].e
  /\ \E kind \in FrameKinds :
       rxBufferDesc' = [rxBufferDesc EXCEPT ![dmaRxIndex] =
                          [@ EXCEPT !.e = FALSE, !.l = (kind # "NotLast"),
                                    !.err = (kind = "Errored"),
                                    !.frame = rxCount + 1]]
  /\ rxCount' = rxCount + 1
  /\ dmaRxIndex' = DmaNext(dmaRxIndex, rxBufferDesc[dmaRxIndex].w)
  /\ eir' = eir \cup {RXF}
  /\ UNCHANGED << txBufferDesc, txBufferIndex, rxBufferIndex, ecrEn, tdar,
                  rdar, dmaTxIndex, eimr, irqEnabled, nicEvent, nicTxEvent,
                  linkState, pc, status, txCount, delivered, busErrors,
                  phyVars,
                  smiVars, initVars, stackWaits >>

(* The RX ring is full: the uDMA stops polling it (RDAR cleared).          *)
DmaRxIdle ==
  /\ ecrEn /\ rdar
  /\ dmaRxIndex \in RxSlots
  /\ ~rxBufferDesc[dmaRxIndex].e
  /\ rdar' = FALSE
  /\ UNCHANGED << ringVars, ecrEn, tdar, dmaTxIndex, dmaRxIndex, eir, eimr,
                  irqEnabled, nicEvent, nicTxEvent, linkState, pc, status,
                  txCount, rxCount, delivered, busErrors, phyVars,
                  smiVars, initVars, stackWaits >>

(* A system bus error during a uDMA access: EBERR is raised and the ENET   *)
(* clears ETHEREN, stopping both rings.                                   *)
BusError ==
  /\ ecrEn
  /\ busErrors < MaxBusErrors
  /\ busErrors' = busErrors + 1
  /\ eir' = eir \cup {EBERR}
  /\ ecrEn' = FALSE
  /\ tdar' = FALSE
  /\ rdar' = FALSE
  /\ UNCHANGED << ringVars, dmaTxIndex, dmaRxIndex, eimr, irqEnabled,
                  nicEvent, nicTxEvent, linkState, pc, status, txCount,
                  rxCount, delivered, phyVars,
                  smiVars, initVars, stackWaits >>

-----------------------------------------------------------------------------
(***************************************************************************)
(* Interrupt service routines. They run when their event is pending and    *)
(* unmasked in EIMR and the IRQs are enabled; they do not nest.            *)
(***************************************************************************)

(* ENET0_Tx_IRQHandler *)
TxIrqHandler ==
  /\ irqEnabled /\ TXF \in eir /\ TXF \in eimr
  /\ eir' = eir \ {TXF}
  /\ nicTxEvent' = (nicTxEvent \/ TxIrqNotify)
  /\ tdar' = ecrEn
  /\ UNCHANGED << ringVars, ecrEn, rdar, dmaTxIndex, dmaRxIndex, eimr,
                  irqEnabled, nicEvent, linkState, pc, status, txCount,
                  rxCount, delivered, busErrors, phyVars,
                  smiVars, initVars, stackWaits >>

(* ENET0_Rx_IRQHandler: mask RXF and hand over to the net task. *)
RxIrqHandler ==
  /\ irqEnabled /\ RXF \in eir /\ RXF \in eimr
  /\ eimr' = eimr \ {RXF}
  /\ nicEvent' = TRUE
  /\ UNCHANGED << ringVars, dmaVars, eir, irqEnabled, nicTxEvent, linkState,
                  pc, status, txCount, rxCount, delivered, busErrors,
                  phyVars,
                  smiVars, initVars, stackWaits >>

(* ENET0_Err_IRQHandler: mask EBERR and hand over to the net task. *)
ErrIrqHandler ==
  /\ irqEnabled /\ EBERR \in eir /\ EBERR \in eimr
  /\ eimr' = eimr \ {EBERR}
  /\ nicEvent' = TRUE
  /\ UNCHANGED << ringVars, dmaVars, eir, irqEnabled, nicTxEvent, linkState,
                  pc, status, txCount, rxCount, delivered, busErrors,
                  phyVars,
                  smiVars, initVars, stackWaits >>

-----------------------------------------------------------------------------
(***************************************************************************)
(* Task context. The net task holds the stack's mutex and disables the     *)
(* ENET IRQs around every driver entry point, so these steps never         *)
(* interleave with each other or with an ISR; the uDMA runs throughout.    *)
(***************************************************************************)

(* The net task sees nicEvent, clears it and calls mpc5748Eth1EventHandler,*)
(* which reads EIR once and, if RXF is set, clears it and starts draining. *)
EventHandlerStart ==
  /\ pc = "Idle" /\ nicEvent
  /\ nicEvent' = FALSE
  /\ DisableIrq
  /\ status' = eir
  /\ \/ /\ RXF \in eir
        /\ eir' = eir \ {RXF}
        /\ pc' = "Drain"
     \/ /\ RXF \notin eir
        /\ pc' = "Finish"
        /\ UNCHANGED eir
  /\ UNCHANGED << ringVars, dmaVars, eimr, nicTxEvent, linkState, txCount,
                  rxCount, delivered, busErrors, phyVars,
                  smiVars, initVars, stackWaits >>

(* One call of mpc5748Eth1ReceivePacket from the drain loop. An empty      *)
(* descriptor (ERROR_BUFFER_EMPTY) ends the loop; otherwise a single-      *)
(* buffer error-free frame goes to nicProcessPacket, and the descriptor is *)
(* given back to the uDMA in every case, the cursor advances and RDAR is   *)
(* written.                                                                *)
ReceivePacket ==
  /\ pc = "Drain"
  /\ LET d == rxBufferDesc[rxBufferIndex] IN
     \/ /\ d.e
        /\ pc' = "Finish"
        /\ UNCHANGED << rxBufferDesc, rxBufferIndex, rdar, delivered >>
     \/ /\ ~d.e
        /\ delivered' = IF IsValidFrame(d) THEN ProcessedFrame(rxBufferIndex)
                         ELSE delivered
        /\ rxBufferDesc' = [rxBufferDesc EXCEPT ![rxBufferIndex] =
                              RxEmptyDesc(rxBufferIndex)]
        /\ rxBufferIndex' = NextIndex(rxBufferIndex, NumRx)
        /\ rdar' = ecrEn
        /\ UNCHANGED pc
  /\ UNCHANGED << txBufferDesc, txBufferIndex, ecrEn, tdar, dmaTxIndex,
                  dmaRxIndex, eir, eimr, irqEnabled, nicEvent, nicTxEvent,
                  linkState, status, txCount, rxCount, busErrors, phyVars,
                  smiVars, initVars, stackWaits >>

(* The rest of mpc5748Eth1EventHandler: on EBERR, clear it, disable the    *)
(* MAC, re-initialise both rings and restart the MAC; then unmask all      *)
(* three events. The net task re-enables the IRQs.                         *)
EventHandlerFinish ==
  /\ pc = "Finish"
  /\ \/ /\ EBERR \in status
        /\ eir' = eir \ {EBERR}
        /\ InitBufferDesc
        /\ RestartMac
     \/ /\ EBERR \notin status
        /\ UNCHANGED << eir, ringVars, dmaVars >>
  /\ eimr' = EventHandlerUnmask
  /\ EnableIrq
  /\ pc' = "Idle"
  /\ UNCHANGED << nicEvent, nicTxEvent, linkState, status, txCount, rxCount,
                  delivered, busErrors, phyVars,
                  smiVars, initVars, stackWaits >>

(* The stack's nicSendPacket: with stackWaits it first waits for           *)
(* nicTxEvent (an auto-reset event), which the wait consumes.              *)
Admitted == nicTxEvent \/ ~stackWaits
TxEventAfterWait == nicTxEvent /\ ~stackWaits

(* mpc5748Eth1SendPacket up to the TDAR write. An oversized frame sets     *)
(* nicTxEvent and fails; a descriptor still owned by the uDMA fails the    *)
(* call; otherwise the descriptor is handed to the uDMA (with the wrap     *)
(* flag on the last slot), the cursor advances and TDAR is written.        *)
SendPacket ==
  /\ pc = "Idle" /\ txCount < MaxTxFrames /\ Admitted
  /\ txCount' = txCount + 1
  /\ \/ /\ nicTxEvent' = TRUE
        /\ UNCHANGED << txBufferDesc, txBufferIndex, tdar, irqEnabled, pc >>
     \/ /\ txBufferDesc[txBufferIndex].r
        /\ nicTxEvent' = TxEventAfterWait
        /\ UNCHANGED << txBufferDesc, txBufferIndex, tdar, irqEnabled, pc >>
     \/ /\ ~txBufferDesc[txBufferIndex].r
        /\ txBufferDesc' = [txBufferDesc EXCEPT ![txBufferIndex] =
                              TxReadyDesc(txBufferIndex)]
        /\ txBufferIndex' = NextIndex(txBufferIndex, NumTx)
        /\ tdar' = ecrEn
        /\ nicTxEvent' = TxEventAfterWait
        /\ DisableIrq
        /\ pc' = "SendCheck"
  /\ UNCHANGED << rxBufferDesc, rxBufferIndex, ecrEn, rdar, dmaTxIndex,
                  dmaRxIndex, eir, eimr, nicEvent, linkState, status, rxCount,
                  delivered, busErrors, phyVars,
                  smiVars, initVars, stackWaits >>

(* The end of mpc5748Eth1SendPacket: if the next descriptor is free, tell  *)
(* the stack the transmitter can accept another frame. The stack then      *)
(* re-enables the IRQs.                                                    *)
SendCheck ==
  /\ pc = "SendCheck"
  /\ nicTxEvent' = (nicTxEvent \/ ~txBufferDesc[txBufferIndex].r)
  /\ EnableIrq
  /\ pc' = "Idle"
  /\ UNCHANGED << ringVars, dmaVars, eir, eimr, nicEvent, linkState, status,
                  txCount, rxCount, delivered, busErrors, phyVars,
                  smiVars, initVars, stackWaits >>

(* mpc5748Eth1UpdateMacConfig: disable the MAC, (re)program speed and      *)
(* duplex, re-initialise both rings, re-enable the MAC and write RDAR.     *)
UpdateMacConfig ==
  /\ InitBufferDesc
  /\ RestartMac

(* tja1102ReadPhyReg(interface, TJA1102_BASIC_STAT) & LINK_STATUS: the    *)
(* SMI read of mpc5748Eth1ReadPhyReg, which clears EIR.MII, writes MMFR,   *)
(* waits for EIR.MII and returns the data field. Nothing else uses the SMI *)
(* or EIR.MII, so the read returns the PHY's current link status.          *)
ReadLinkStatus == phyLink

(* Fault variant: only a link-up is noticed. *)
LinkEventUpOnly(up) == up /\ ~linkState

(* tja1102Tick: a link-up or a link-down relative to interface->linkState. *)
LinkEvent(up) == (up /\ ~linkState) \/ (~up /\ linkState)

(* The cable is plugged or unplugged, or the partner goes up or down: the *)
(* PHY's link status changes.                                              *)
LinkChange ==
  /\ linkChanges < MaxLinkChanges
  /\ linkChanges' = linkChanges + 1
  /\ phyLink' = ~phyLink
  /\ UNCHANGED << ringVars, dmaVars, eir, eimr, irqEnabled, nicEvent,
                  nicTxEvent, linkState, pc, status, txCount, rxCount,
                  delivered, busErrors, phyEvent,
                  smiVars, initVars, stackWaits >>

(* tja1102Tick, called by the net task's timer (no external interrupt     *)
(* line): read the link status and, on a link event, set phyEvent.        *)
PhyTick ==
  /\ pc = "Idle"
  /\ phyEvent' = (phyEvent \/ LinkEvent(ReadLinkStatus))
  /\ UNCHANGED << ringVars, dmaVars, eir, eimr, irqEnabled, nicEvent,
                  nicTxEvent, linkState, pc, status, txCount, rxCount,
                  delivered, busErrors, phyLink, linkChanges,
                  smiVars, initVars, stackWaits >>

(* The net task sees phyEvent, clears it and calls tja1102EventHandler,    *)
(* which reads the link status again: on link up it reconfigures the MAC   *)
(* (100 Mbit/s full duplex); it records the link state either way.         *)
PhyEventHandler ==
  /\ pc = "Idle" /\ phyEvent
  /\ phyEvent' = FALSE
  /\ linkState' = ReadLinkStatus
  /\ \/ /\ ReadLinkStatus
        /\ UpdateMacConfig
     \/ /\ ~ReadLinkStatus
        /\ UNCHANGED << ringVars, dmaVars >>
  /\ UNCHANGED << eir, eimr, irqEnabled, nicEvent, nicTxEvent, pc, status,
                  txCount, rxCount, delivered, busErrors, phyLink, linkChanges,
                  smiVars, initVars, stackWaits >>

-----------------------------------------------------------------------------
(* The variables of the driver and the rest of its environment. *)
driverVars == << ringVars, dmaVars, eir, eimr, irqEnabled, nicEvent,
                 nicTxEvent, linkState, pc, status, txCount, rxCount,
                 delivered, busErrors, phyVars, stackWaits, initVars >>

(* The MAC completes a management frame; the PHY completes its reset. *)
MdioStep == MdioComplete /\ UNCHANGED driverVars
PhyResetStep == PhyResetComplete /\ UNCHANGED driverVars

Next ==
  \/ MacReset \/ PhyAccessStart \/ PhyAccessDone \/ MacStart
  \/ MdioStep \/ PhyResetStep
  \/ DmaTransmit \/ DmaTxIdle \/ DmaReceive \/ DmaRxIdle \/ BusError
  \/ TxIrqHandler \/ RxIrqHandler \/ ErrIrqHandler
  \/ EventHandlerStart \/ ReceivePacket \/ EventHandlerFinish
  \/ SendPacket \/ SendCheck
  \/ LinkChange \/ PhyTick \/ PhyEventHandler

(***************************************************************************)
(* Fairness. The uDMA transmits whatever it has been handed (weak). A      *)
(* pending, unmasked ENET interrupt is taken as soon as the IRQs are       *)
(* enabled, although the net task disables them again and again (strong). *)
(* The net task, once woken, runs the driver code to its end (weak); so    *)
(* does mpc5748Eth1Init, and the MAC and the PHY finish what it waits for  *)
(* (weak, module Smi). The net task's timer calls tja1102Tick periodically,*)
(* and the net task handles the PHY event it sets (weak). No fairness for  *)
(* frame arrival, bus errors, link changes or the stack's sends: they may  *)
(* stop at any time.                                                       *)
(***************************************************************************)
Fairness ==
  /\ WF_vars(MacReset) /\ WF_vars(PhyAccessStart) /\ WF_vars(PhyAccessDone)
  /\ WF_vars(MacStart) /\ WF_vars(MdioStep) /\ WF_vars(PhyResetStep)
  /\ WF_vars(DmaTransmit)
  /\ SF_vars(TxIrqHandler) /\ SF_vars(RxIrqHandler) /\ SF_vars(ErrIrqHandler)
  /\ WF_vars(EventHandlerStart) /\ WF_vars(ReceivePacket)
  /\ WF_vars(EventHandlerFinish) /\ WF_vars(SendCheck)
  /\ WF_vars(PhyTick) /\ WF_vars(PhyEventHandler)

Spec == Init /\ [][Next]_vars /\ Fairness

-----------------------------------------------------------------------------
(***************************************************************************)
(* Properties.                                                              *)
(***************************************************************************)

TypeOK ==
  /\ txBufferDesc \in [TxSlots -> [r : BOOLEAN, w : BOOLEAN]]
  /\ rxBufferDesc \in [RxSlots -> [e : BOOLEAN, w : BOOLEAN, l : BOOLEAN,
                                   err : BOOLEAN, frame : 0 .. MaxRxFrames]]
  /\ txBufferIndex \in TxSlots /\ rxBufferIndex \in RxSlots
  /\ dmaTxIndex \in 0 .. NumTx /\ dmaRxIndex \in 0 .. NumRx
  /\ {ecrEn, tdar, rdar, irqEnabled, nicEvent, nicTxEvent, linkState,
      phyLink, phyEvent}
       \subseteq BOOLEAN
  /\ eir \subseteq Events /\ eimr \subseteq Events /\ status \subseteq Events
  /\ pc \in {"Idle", "Drain", "Finish", "SendCheck"} \cup InitSteps
  /\ stackWaits \in StackModes /\ smiWait \in BOOLEAN
  /\ rdata \subseteq Bits /\ dumpIndex \in 0 .. DumpRegs
  /\ mscr \in {0, MdcSpeed} /\ {mii, mdioBusy} \subseteq BOOLEAN
  /\ mmfr \in [op : {"Read", "Write"}, reg : PhyRegs, data : SUBSET Bits]
  /\ phyRegs \in [PhyRegs -> SUBSET Bits]
  /\ txCount \in 0 .. MaxTxFrames /\ rxCount \in 0 .. MaxRxFrames
  /\ delivered \in 0 .. MaxRxFrames
  /\ busErrors \in 0 .. MaxBusErrors /\ linkChanges \in 0 .. MaxLinkChanges

(* The slots from index from up to, but not including, index to, going    *)
(* round a ring of n slots.                                                *)
CyclicArc(from, to, n) == {(from + k) % n : k \in 0 .. ((to - from + n) % n) - 1}

(* TX ring protocol: the uDMA stays inside the ring (only the last         *)
(* descriptor carries the wrap flag), and the descriptors it owns (R set)  *)
(* are exactly those from its own pointer up to the driver's cursor, the   *)
(* whole ring when the two meet with every slot owned. This is what lets   *)
(* mpc5748Eth1SendPacket and ENET0_Tx_IRQHandler judge the whole ring by   *)
(* the one descriptor at txBufferIndex. It holds from mpc5748Eth1Init's   *)
(* InitBufferDesc on.                                                      *)
TxRingConsistent ==
  pc \notin InitSteps =>
  /\ dmaTxIndex \in TxSlots
  /\ \A i \in TxSlots : txBufferDesc[i].w <=> i = NumTx - 1
  /\ LET owned == {i \in TxSlots : txBufferDesc[i].r} IN
     \/ owned = CyclicArc(dmaTxIndex, txBufferIndex, NumTx)
     \/ owned = TxSlots /\ dmaTxIndex = txBufferIndex

(* RX ring protocol: the uDMA stays inside the ring, and the descriptors   *)
(* the driver owns (E clear, holding a frame) are exactly those from       *)
(* rxBufferIndex up to the uDMA's pointer, so the drain loop of            *)
(* mpc5748Eth1EventHandler, which stops at the first empty descriptor,     *)
(* sees every stored frame. It holds from mpc5748Eth1Init's               *)
(* InitBufferDesc on.                                                      *)
RxRingConsistent ==
  pc \notin InitSteps =>
  /\ dmaRxIndex \in RxSlots
  /\ \A i \in RxSlots : rxBufferDesc[i].w <=> i = NumRx - 1
  /\ LET filled == {i \in RxSlots : ~rxBufferDesc[i].e} IN
     \/ filled = CyclicArc(rxBufferIndex, dmaRxIndex, NumRx)
     \/ filled = RxSlots /\ rxBufferIndex = dmaRxIndex

(* Whenever the stack's "transmitter ready" event is set, the descriptor   *)
(* at txBufferIndex is free: a send the stack admits never fails with the  *)
(* descriptor still owned by the uDMA (which would drop the frame). It     *)
(* rests on the checks in mpc5748Eth1SendPacket and ENET0_Tx_IRQHandler.   *)
(* A stack that sends without waiting is told nothing by nicTxEvent.       *)
TxEventImpliesSlotFree ==
  stackWaits /\ nicTxEvent => ~txBufferDesc[txBufferIndex].r

(* Every frame the uDMA stores is eventually taken out of the RX ring      *)
(* (delivered, discarded as invalid, or dropped by a ring reset): the RXF  *)
(* masking in ENET0_Rx_IRQHandler and the unmasking at the end of          *)
(* mpc5748Eth1EventHandler never strand a stored frame.                    *)
RxFrameEventuallyHandled ==
  \A i \in RxSlots : ~rxBufferDesc[i].e ~> rxBufferDesc[i].e

(* Once the stack has consumed nicTxEvent, the driver sets it again: the   *)
(* transmitter never stays "busy" for good.                                *)
TxReadyEventually == ~nicTxEvent ~> nicTxEvent

(* Once the PHY's link status stops changing, interface->linkState ends up *)
(* equal to it and stays so: tja1102Tick notices a link-down as well as a  *)
(* link-up, and the event it raises is handled by tja1102EventHandler,     *)
(* whatever the net task is doing with the MAC meanwhile.                  *)
LinkStateSettles == <>[](linkState = phyLink)

(* mpc5748Eth1Init returns: the MDIO frames it waits for complete and the  *)
(* PHY leaves reset, so neither busy-wait (mpc5748Eth1ReadPhyReg's on      *)
(* EIR.MII, tja1102Init's on BASIC_CTRL.RESET) spins for ever.             *)
InitCompletes == <>(pc \notin InitSteps)

(* Once mpc5748Eth1Init has returned, the PHY has left reset with          *)
(* configuration access and autonomous operation enabled and the other    *)
(* bits of those registers at their defaults: the reset was waited for     *)
(* before the read-modify-writes, which no reset process can undo.         *)
PhyConfiguredAtInit ==
  pc \notin InitSteps =>
    /\ "RESET" \notin phyRegs["BASIC_CTRL"]
    /\ phyRegs["EXT_CTRL"] = PhyDefaults["EXT_CTRL"] \cup {"CONFIG_EN"}
    /\ phyRegs["COMM_CTRL"] = PhyDefaults["COMM_CTRL"] \cup {"AUTO_OP"}

(* A PHY register access of mpc5748Eth1Init never ends while its MDIO      *)
(* frame is still being clocked: the EIR.MII the busy-wait sees is that of *)
(* its own frame, never one left over from the previous access, so a read  *)
(* never returns a stale MMFR data field.                                  *)
SmiDataAfterCompletion ==
  [][PhyAccessDone => ~mdioBusy]_vars

=============================================================================
