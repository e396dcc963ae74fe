\* Receive path: a ring of three descriptors, four arriving frames of any
\* kind (enough to wrap the ring and to fill it), one bus error and two PHY
\* events (link up, then link down). No transmit traffic. Also checks that
\* the receive path implements the abstract receive queue RxPacketFifo.
CONSTANTS
  NumTx = 2
  NumRx = 3
  MaxTxFrames = 0
  MaxRxFrames = 4
  MaxBusErrors = 1
  MaxLinkChanges = 1
  LinkAtStart = {TRUE}
  StackModes = {TRUE}
  DumpRegs = 0
  PhyResponds = TRUE

SPECIFICATION HistSpec

INVARIANT TypeOK
INVARIANT RxRingConsistent
PROPERTY RxFrameEventuallyHandled
PROPERTY RefinesRxPacketFifo

\* The driver is interrupt driven: once the bounded traffic is over it waits.
CHECK_DEADLOCK FALSE
