\* Transmit readiness across a ring re-initialisation: one bus-error recovery
\* and one link-up reconfiguration may happen (expected to fail; either one
\* alone is enough).
CONSTANTS
  NumTx = 3
  NumRx = 2
  MaxTxFrames = 5
  MaxRxFrames = 0
  MaxBusErrors = 1
  MaxLinkChanges = 0
  LinkAtStart = {FALSE, TRUE}
  StackModes = {TRUE}
  DumpRegs = 0
  PhyResponds = TRUE

SPECIFICATION HistSpec

PROPERTY TxReadyEventually

\* The driver is interrupt driven: once the bounded traffic is over it waits.
CHECK_DEADLOCK FALSE
