\* Transmit path: three TX descriptors, five frames from the stack (enough to
\* fill the ring and wrap it), one bus error, link up then down. No receive
\* traffic.
CONSTANTS
  NumTx = 3
  NumRx = 2
  MaxTxFrames = 5
  MaxRxFrames = 0
  MaxBusErrors = 1
  MaxLinkChanges = 2
  LinkAtStart = {FALSE, TRUE}
  StackModes = {FALSE, TRUE}
  DumpRegs = 0
  PhyResponds = TRUE

SPECIFICATION HistSpec

INVARIANT TxRingConsistent
INVARIANT TxEventImpliesSlotFree
PROPERTY LinkStateSettles

\* The driver is interrupt driven: once the bounded traffic is over it waits.
CHECK_DEADLOCK FALSE
