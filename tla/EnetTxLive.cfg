\* Transmit readiness without ring re-initialisation: three TX descriptors,
\* five frames, no bus error and no PHY event. Also the initialisation with a
\* PHY answering and the 32-register dump of a debug build: it completes,
\* leaves the PHY configured, and never takes SMI data early.
CONSTANTS
  NumTx = 3
  NumRx = 2
  MaxTxFrames = 5
  MaxRxFrames = 0
  MaxBusErrors = 0
  MaxLinkChanges = 0
  LinkAtStart = {FALSE}
  StackModes = {TRUE}
  DumpRegs = 32
  PhyResponds = TRUE

SPECIFICATION HistSpec

INVARIANT PhyConfiguredAtInit
PROPERTY InitCompletes
PROPERTY SmiDataAfterCompletion
PROPERTY TxReadyEventually

\* The driver is interrupt driven: once the bounded traffic is over it waits.
CHECK_DEADLOCK FALSE
